# WeatherEdge: verification development

WeatherEdge forecasts daily high temperatures, trades Kalshi temperature markets
with paper money on those forecasts, and publishes what it did. One machine runs
it: about a dozen systemd timers start short-lived processes that share two SQLite
databases and a few lock files. Nothing in it is large; what is hard is that every
process may be slow, killed or started twice, and that a row read by one may have
been changed by another when it is used.

This directory holds TLA+ models of the parts where that matters most, the TLC
configurations that check them on small instances, and TLAPS proofs of what holds
for instances of every size. All paths below are relative to `src/`.

- [1. The system](#1-the-system)
- [2. Modules](#2-modules)
- [3. Runs](#3-runs)
- [4. Fairness](#4-fairness)
- [5. Proofs](#5-proofs)
- [6. Where code and documentation disagree](#6-where-code-and-documentation-disagree)
- [7. What is not modelled](#7-what-is-not-modelled)
- [8. Plan](#8-plan)
- [9. Using the project](#9-using-the-project)

## 1. The system

### Processes and what they share

    forecaster timers ---> weather.db  (forecast rows, CLI finals, Google ledger)
                              |
                              v  read
    paper scan (timer) ---> paper_trading.db <--- paper monitor (timer)
                              ^        ^
       settle (timer) --------+        +--------- operator commands
                              |
                              v  read
    builders (timers) ---> artifact files ---> Pages publisher ---> gh-pages
    deploy host --ssh--> box: dead-man, marker, timers stopped and restored

| component | state it keeps | operations | talks to |
|---|---|---|---|
| Order book and account ledger (`db.py` `PaperStore`, `store/schema.py`) | `paper_orders`, `paper_account_ledger` with one row per idempotency key | entry (resting or filled), tape credit, cancel, cutover, close in whole or part, settlement | every process of the trading side |
| Maker tape (`maker_fills.py`, `monitor.py`, `db.py`) | queue and fill per quote, `paper_maker_allocations`, the pass's watermark | query the public tape, credit it, expire quotes | exchange, order book |
| Arbitrage boxes (`paper.py`) | group id of each leg | book leg by leg, promote, contain | monitor, settlement |
| Live and research admission (`paper.py`, `account.py`, `research_*`, `run_paper_scan_profiles.sh`) | the scan lock, high-water equity, pending evidence; limits are read from the journal | capacity, sizing, evidence, entry | order book, monitor, settlement |
| Settlement truth (`_cli/paper.py`, `db.py`, `store/market_day_settlements.py`, `store/exchange_settlement_checks.py`, `exchange_settlement.py`) | booked high of each lot, market-day table with ranks, verification rows, exchange-check rows and cache | settle, record, verify, re-check, exchange check, restate, backfill | weather.db, exchange, operator |
| M1 trial (`research_m1*.py`, `store/m1_trial.py`) | evaluations, halts, reconciliations | evaluate, admit, reconcile | scan, settle timer |
| Google billing ledger (`google_weather_store.py`, `google_api.py`, `google_multicity_refresh.py`) | one row per billable event | reserve, dispatch, complete, cancel, seed | two refresh units, Google |
| Google runtime content (`google_weather_store.py`) | newest generation per scope, watermark, expiry | store, read, purge | the same units, serving |
| Forecast serving (`emos_*`, `blend_*`, `postproc_*`) | versioned forecast rows | train, serve | scan, builders |
| Archive and retention (`archive.py`, `run_archive_then_prune.sh`) | Parquet files and their manifest | export, gate, delete | order book |
| Publication (`publish_forecaster_pages.sh`, `run_publication_cycle.sh`, `web_app_release.py`) | artifact files, web root, deferral and publication counters | build, snapshot, gate, push, re-root, exchange, roll back | GitHub |
| Deployment (`sync_to_box.sh`, `deploy_deadman.sh`) | dead-man state, heartbeat, marker, triggers | arm, beat, tick, disarm, restore | deploy host, systemd |
| Health (`check_scheduler_health.sh`, `publication_freshness_*.py`) | repair stamp, miss counter, one GitHub issue | repair, alert, escalate, close | publication |

`PROJECT.json` lists every component with its files, the reader-only ones
(reports, backtests, web application) included.

### What is hard

- **Interleaving.** Scan, monitor, settle timer and operator write the same rows.
  SQLite makes each transaction atomic, but most decisions read in one connection
  and write in another: `close_paper_order` computes an exit from a row read
  earlier; the monitor lists groups long before it closes a leg; the exchange check
  reads lots and writes their verdicts minutes later.
- **Failure in the middle.** Boxes are booked leg by leg; settlement commits before
  its verification; a billable request may be sent and its outcome never recorded.
- **Ordering.** The tape is late; a final is corrected after it was booked; two
  cycles of the billing ledger overlap and record outcomes out of order.
- **Silent idempotency.** A ledger event whose key exists is dropped without an
  error, so a life cycle that reuses a key loses money quietly.
- **Things that must happen.** Every quote must end, every traded day must be
  recorded, every corrected final must be flagged, although passes fail and die.

### What makes each component correct

- *Order book*: the ledger of each position reconciles with its rows; cash is
  reserved for exactly what may still fill; contracts are conserved over fills,
  slices and resolution; a resolved row never changes; one active row per slot.
- *Maker tape*: no trade is handed out twice or beyond its volume; only trades in a
  quote's life are credited; a quote that expires was credited all of them; quotes
  end, unless a payload nobody understands blocks the tape.
- *Boxes*: a leg is trusted as guaranteed only in a whole box, which is then held
  leg for leg to settlement; placement that gives up leaves nothing open.
- *Billing*: what was sent never exceeds the budgets; a dead key is cheap; only
  real answers reset the breaker.
- *Settlement truth*: paid money, journal, market-day table, verification rows and
  exchange verdicts all speak of the same booking; active books are never rebooked;
  drift is flagged; every traded day is recorded.
- *Admission*: the limits of both accounts hold after every insert, not only when they
  were read; the live account holds both sides of a market as the legs of one
  arbitrage box only, and no entry joins another; evidence is approved exactly when an
  order was entered on it.
- *M1 trial*: a halt stops entries at once, also of legs sampled before it; the
  final read is not overrun; the replay calls nothing a failure that the trial did
  not do wrong; every day is reconciled.
- *Deployment*: no producer runs over a half-synced tree; a box left dark is
  restored or carries an incident; a reported success is one - until a host that lost
  the box changes it all the same.
- *Publication*: the branch is one app and one build, never an older one; a release
  says what is public; history stays bounded; data gets out although GitHub hangs.

## 2. Modules

### `PaperBook` - order rows and account ledger

One action per committing transaction of `PaperStore`. `order[o]` is the row
(status, contracts, filled, remaining, reserved, cost; the executed slices of
partial closes are immutable child rows and appear as number, quantity and P&L),
`ledger[o]` the cash and the set of idempotency keys booked for it,
`claimed[o]` the tape trades it was credited, `reading[c]` what closer `c` has read.

| action | code |
|---|---|
| `PlaceResting`, `PlaceFilled` | `record_paper_order`, `record_research_order_atomic`; both refuse a taken slot through the partial unique index |
| `ApplyMakerTrade` | one credit of `apply_maker_trade_batch` |
| `Cancel`, `Cutover` | `cancel_resting_limit_order`, `_expire_pre_current_execution_orders` |
| `ReadForClose`, `CloseAll`, `ClosePart`, `CloseRefused` | `close_paper_order`: the read, and the guarded `UPDATE` with its two outcomes |
| `Settle` | `settle_paper_orders` for any set of slots |

`RecordEvent` is `_record_ledger_event`, the silent drop included; that is why
`LedgerReconciles` is not a bookkeeping identity of the model. What an entry must pass
before it gets here is `Admission`'s.

### `MakerTape` - crediting the public tape

A clock, trades that execute and are published later, quotes, and one monitor pass
(`BeginPass`, `Fetch`/`FetchFails`, `Apply`, `Expire`, `EndPass`, `Crash` anywhere).
A quote ends in six ways: filled, expired at its own end or pulled (`Pull` sets the
end, `Expire` waits for the tape), or without a look at the tape by an exit of what it
filled (`Exit`: `close_paper_order` of a partial row, whole or in part, cancels the
remainder), by a new execution model (`Cutover`) or by settlement (`Settle`). A payload
that cannot be normalized (`garbled`, decided when it is published) stays on the tape:
every pass credits the others and is not complete, and the next pass asks again from
the oldest quote that rests, so nothing of the market expires until that quote has
ended in another way (`TapeBlocked`).

The price-time loop of `apply_maker_trade_batch` is one fold (`Allocated`) of `Offer`
over all pairs of a trade of the tape and a resting quote, in the order `Before`:
trades by time, quotes by price, age and id. An offer serves the queue ahead of the
quote first, then the quote. `Available` is what `apply_volume_claims` leaves of a
trade for a scope (an account, or one research shadow) and `TakenBy` what its quotes
took already; `Novel` is what the journal's uniqueness lets through, and `Credited`
the row after it. `Covers` is the watermark rule with its ingestion grace. The
exchange is assumed to publish a trade within the grace, which is what the grace is
for.

### `ArbitrageBox`, refining `HeldStructure`

Legs booked one transaction at a time as a degraded group (`Book`), promoted in one
statement (`Promote`) or contained (`ContainRead`, `Close`, `ContainmentDone`,
`ContainmentFails` after five tries in the code), against a monitor that lists,
reads and closes (`List`, `MonitorRead`, `Close`, `CloseRefused`), settlement, and
the death of the scan. `HeldStructure` is the promise: a structure is trusted only
whole, and a trusted one changes only by settling at once. `HeldToSettlement` is
the refinement, with `held` mapped to the contracts of open legs and `trusted` to
"some open leg carries the box's group".

### `GoogleUsage` - the billing ledger

The rows of the permanent ledger and the cycles of two units that spend from it.
One action per transaction (`EnterCity` checks the bundle at the door, `Reserve`,
`MarkDispatched`, `Succeed`/`Fail`, `CompleteFails`, `DispatchFails` with the
cancellation) or per HTTP request (`Send`); `Crash` between any two; `Seed` is
the cutover carryover of the old counter. The instant a cycle starts is the
`reserved_at` and the billing date of all its rows, as in the code. A denied
reservation, a breaker read at the start, and a day that turns under a running
cycle are there.

### `SettlementTruth` - one city-day settled and audited

Three numbers exist for a day's high: the final in weather.db (may be corrected),
the number the exchange used, and the number each lot was booked at. The settle
timer takes one step per transaction: `TickReads` -> `TickSettles` or `TickRecords`
-> `TickVerifies` -> `TickLoads` -> `TickRechecks` -> `TickChecks` -> `TickWrites`;
`TickDies` kills it anywhere. The operator's commands run beside it: `OpSettles`
(paper-settle at a typed high), `OpVerifies`, `OpRestates` (archived ledgers only),
`OpBackfills`, `OpChecks`/`OpWrites`. `Upsert` is the market-day table's
rank rule, `Replaces` the condition under which an exchange-check row is replaced,
`Correction` the ledger delta of a restatement. A recording failure under the
savepoint (`Failures`) leaves settlement committed, as in the code.

Merged steps: the tick's reads of open, unrecorded and true dates are one step (they
read independent state and only the last is used later); an exchange check's read,
fetch and cache write are one (nothing else touches the cache), its write another.
The day lies inside the windows the timer looks at (7 days to record, 14 to
re-check); new entries come only before the day completes.

### `DeployDeadman` - a deploy and the dead-man it leaves on the box

The host runs `sync_to_box.sh`; `host[d].pc` is its next command to the box, one
action per command: `Arm`, `Await`, `Marker`, `Quiesce`, `Advance` (to `mixed` and to
`post-install`), `Transfer` (source, stamp, install), `Restores`, `Pause` (the two
publishing timers are stopped again for the analysis), `Release`, `Disarm`. Beside it
run its heartbeat (`Beat`, which closes the fence when the box answers that it is not
this host's any more) and, after a failure, its recovery (`Fail`, then `Gate`,
`Restore`, `Unmark`, `Disarm` or `Requiesce`, `Hold`). The box runs `Tick`
(`deploy_deadman.sh tick`: look for a released marker, a reboot, a stale lease, then
`Fire` by phase) and `TickReleases`; `Clear` is the operator's verb, `Lapse` the
lease, `Reboot` the box. `dm` is the state directory, `tree` the release each part of
the installation is of.

Commands are sent whether or not the box is still the host's: the script asks its
fence at 1001, 1033, 1194-1216 and 1303 only, and between two of these it may have
slept through its lease. When a command changes a box that is another's or nobody's,
or one a tick is at work on (but for the removal of the marker, which both are about),
or when a transfer begins over timers the dead-man has begun to start, the two have
*crossed*; `crossed` records it for good and is not in the code. `timers` are told
apart in two groups, the producers and the publishing timers that are held back
longer, each on, stopped until the next boot, or off. Every quiesce and every restore,
the host's and the dead-man's, may fail with any of them done.

Assumed: an outage of the box ends the script like a failed command; deploys are
numbered in the order they arm; a box with some timers on, others off and no marker is
put right by hand before it is deployed to, as the runbook (phase 0) asks (`Arm`). Lease
and tick age are abstract: either may run out at any moment. The removal of a trigger
may fail.

### `M1Trial` - the market-recalibration trial

A scan quotes at an hour (`BeginScan`), writes a row for every leg in one transaction
(`Sample`), and admits each candidate in one of its own (`Enter`, `AdmissionHalted`,
`AdmissionBlocked`, `AdmissionRaises`). The settle timer's pass (`PassBegins`,
`ReadRows`, `ReadOrders`, `Record`, `ApplyFidelity`, `ApplyFidelityLast`) replays
complete UTC days. `Match` is `replay_expected_entries` with `match_entries`. Kills and
errors may hit either. Merged: the pass's first stop rules with its list of days, the
premise check with the report, the last fidelity rule with the closing stop rules;
each only writes halts. Whether a leg passes is a choice; caps, cash and the daily
pause may refuse any entry. One scan runs at a time (the script's lock). The shadow
arms and the truth table, which nothing here reads back, and the operator's
`paper-m1-reconcile` are left out. `raced` marks a report made while a scan of that
day was still admitting; it is not in the code.

### `PagesPublisher` - the website's branch and the release of a new app

Two publishers (the timer's `cycle`, which builds first, and the one a release starts)
go through the steps of `publish_forecaster_pages.sh`: `LockPages` or `Defer`, `Fetch`,
the delivery gate (`GateOpens`, `GateMisses`), `Validate` and `Copy` under the
artifact lock, `CopyIndex` and `CopyAssets`, `Push` with its refusals and lost answers,
`Record`. `count` and `deferrals` are the two counter files. The release
(`web_app_release.py`) exchanges the web root under the pages lock, publishes without
it and verifies branch and site under it again; `ReleaseFails` and `Rollback` are its
recovery. `Promote` is the promotion of a Strategy Lab artifact; `Deploy` is GitHub
Pages, `ForeignPush` somebody else's commit. Left out: a first publication (the branch
exists), disabled ceilings, the release's checks of the host before it changes
anything. Releases come one at a time (`web-app-deploy.lock`), and a foreign commit
leaves the site's files alone.

### `Admission` - what may be entered

Live: `LiveBegins` (the script's lock and the pause), `Picks` (no active entry on
either side of the market), `ReadsState` (equity, cash, the high-water mark and the
drawdown pause), `ReadsRows` (active rows on another connection, and the size that
fits), `Inserts` (the order, refused by the guard index only). An arbitrage box goes the
same way: `PicksBox` (no active entry in any of its markets), one capacity for the whole
spend, then `InsertsLeg` per leg, which asks the index alone and so puts both sides of a
market on the book for a YES+NO box; `BoxFails` leaves with the legs entered so far.
Research: `ResearchBegins`, `Batches` (`record_research_decision_batch`, which abandons whatever
was pending), then per candidate `Admits` (`record_research_order_atomic`: day,
evidence, duplicate, budget and limits in the inserting transaction), `Refused` and
`Marks` (two transactions), or `Loses` (the evidence is not pending any more: the
exception ends the scan). `Dies` kills a scan anywhere. `Fills`, `Expires` and `Closes`
are what `PaperBook` and `MakerTape` do to an order, reduced to what is at risk and
reserved.

A scan is one call of `place_approved` or `execute_research_plans`. That the script
lets the lock go between them in the model adds behaviours and removes none. Live and
research settings are run apart, since the two accounts share only the lock. Which
candidates are offered and how they are sized below the limits is free: entry counts,
exposure and depth caps, fractional Kelly and the re-entry fingerprint only refuse or
shrink more. The region scope is one more set of peers and is left out of the
instance. The legs of a box are of one event, so one answer of the capacity is every
leg's; what becomes of a broken one is `ArbitrageBox`'s. The archived motion sleeve
takes the research path with an account of its own.

Two limits of what is shown. What keeps live entries apart is the lock of
`run_paper_scan_profiles.sh` and nothing in the database: a live scan started by hand
(`portfolio-scan --place-paper`) does not take it and is not in the model. And live
limits are shares of the equity read, so they are stated against the high-water
equity the scans have seen.

### Instances

`MCPaperBook`, `MCMakerTape`, `MCArbitrageBox`, `MCGoogleUsage`, `MCSettlementTruth`,
`MCM1Trial`, `MCAdmission` extend the modules with the constants a `.cfg` cannot
write, `MCDeployDeadman` with the constraint of its run; `PagesPublisher` needs none.
The forms marked `Mutant` in the modules are plausible bugs, one per property, which
the property must detect; `PROJECT.json` pairs them.

## 3. Runs

Money is in small integers, because no property compares more than sums and
products of it.

| run | instance | shows |
|---|---|---|
| `book` | 2 orders in one slot, 2 closers, 2 trades, at most 2 contracts, exit above and below cost (285 thousand states) | all money, reservation and quantity properties under every interleaving of credits, stale closes, cancel, cutover and settlement; a resolved row stays |
| `maker_tape` | 2 live quotes on 2 levels, 2 trades, grace 1, time 3 (84 thousand) | volume, journal, replay and expiry properties with late and garbled tape, killed passes, pulls, exits, cutover; under fairness every quote ends or the tape stays blocked |
| `box` | 3 legs of 3 contracts, one without a bid, 2 tries (37 thousand) | boxes are trusted only whole, held to settlement, and nothing is left behind |
| `usage_days` | 2 units, budgets 3 a day and 5 a month, breaker 1, 2 starts over 2 days of a month, a seed (1.2 million) | budgets hold, a dead key is cheap, only answers reset the breaker |
| `settle_day` | 2 lots on 2 bins, a final corrected once, 1 kill, 1 caught failure, verify, restate, backfill (546 thousand) | one high per day; table, journal and verification agree; drift is flagged, traded days are recorded |
| `settle_desk` | 2 lots, a typed paper-settle, restatement, the exchange checks of timer and operator (2.2 million) | the ledger pays what the journal shows, decided verdicts are not taken back |
| `settle_stale` | 2 lots, the timer's check, a restatement | *violated*: a stale verdict overwrites a new one, see section 6 |
| `deploy_watch` | 2 deploys, 2 restore attempts, 1 reboot, until they cross (518 thousand) | timers never run over a half-synced tree, a dark box is attended and ends lit or on record, success is success |
| `deploy_stalled` | 1 deploy, 1 restore attempt (2 thousand) | *violated*: a stalled host quiesces a box that was given back, see section 6 |
| `m1` | 2 legs of one target, 2 UTC days of 2 hours and part of a third, limits of one, 1 fault (330 thousand) | what a halt stops and the replay may report; every day is reconciled, an alarm halts |
| `pages` | ceiling 2, 2 deferrals, 2 attempts, 2 builds, 1 release, 1 foreign commit, 1 fault (807 thousand) | whole site, honest release, bounded history, nothing older, data gets out |
| `admission` | 2 runs of the script, 1 research scan by hand, 2 markets, 3 orders, 2 rows of evidence, 2 batches, a YES+NO box, 1 turn of the day (896 thousand) | limits of both accounts, one live position or one box per market, evidence and orders agree |

`SlotExclusive`, `RequiredEvents`, `TrustedIsWhole` and `SettledBooksStand`, and the
type invariants, are theorems (section 5) and no run repeats them. So is
`PriceTimePriority` of `MakerTape`: TLC finds it true on the instance of `maker_tape`,
and false there when the order of the quotes is reversed.

**Why the bounds are enough.**

- *Two closers and two orders* (`book`): a close is read and write; a third closer
  can only repeat what the second did. Two trades and two contracts give a partial
  fill before and after every other operation, and a partial exit of a partial fill.
- *Two quotes and two trades* (`maker_tape`): the loop couples quotes through the volume
  left in a scope only; two quotes at different levels, one with a queue ahead, meet
  every branch of `Offer`. Time 3 fits a placement, a life of one tick, and a pass that
  covers the end plus the grace. Both quotes are then placed at one time; the four
  safety properties of the run are theorems for every life, grace and time, so quotes
  placed one after the other are covered by the proofs.
- *Three legs of three contracts* (`box`): one leg is booked, sold in part and closed
  while another waits; one cannot be closed, so containment really fails. The
  refinement makes a half-sold trusted leg visible.
- *Budgets 3 and 5, breaker 1* (`usage_days`): the day budget, the soft ceiling and
  the month budget are each hit before the starts run out. With 38 + 1 cycles a day
  the real schedule overlaps two at most, one of each unit, which two starts give;
  the second start may also follow the first of the same unit.
- *Two highs and two bins* (`settle_*`): two numbers suffice for "equal or not", two
  bins for "this high wins here and loses there"; two lots let one be settled or leave
  early while the other is open.
- *Two deploys, one reboot* (`deploy_watch`): a takeover needs two; a third host meets
  the box as the second did. Two attempts make a failed restore be retried once and
  then given up. The constraint `Uncrossed` ends a behaviour where host and dead-man
  cross: every property of the run excepts what follows, and a crossing is never taken
  back, so nothing that could break one of them is cut off.
- *Two legs over two days* (`m1`): one leg enters while the other waits, and the
  day-ahead hours 1 and 2 straddle the end of day 0, so a leg first crossed on one day
  is sampled again on the next. Every limit is one, so each rule is met by the first
  entry or loss; the window of two days holds a failure that a dying pass left over.
- *Ceiling, deferrals and attempts of two* (`pages`): each counter is met below, at
  and over its limit. Later builds than the second are not told apart; a foreign commit
  and a fault may each fall between any two steps.
- *Three scans and three orders* (`admission`): two runs of the script contend for the
  lock, one of them with the scan by hand for evidence and limits. Both sides of one
  market and a second market are offered, in scopes where one entry of two and one of
  one just fit; a third order comes when two are there.

Symmetry is used for the two closers of `book` and for the orders, rows of evidence
and script runs of `admission`; every value that a constant tells apart (markets,
lots, highs) is not symmetric, and no liveness run uses symmetry. `CHECK_DEADLOCK
FALSE` is set where the instance runs out of orders, time, starts, deploys or
evidence; a settlement day and the publisher never stop, so `settle_day`,
`settle_desk` and `pages` check for deadlock.

Three bounds restrict a property and not only its instance:
`OneHighPerDay` and `DayFollowsJournal` are checked (and proved) without a manual
paper-settle, which books whatever is typed. `DayFollowsJournal` speaks only until the
first caught recording failure: after one, the record-only pass that repairs the
market-day row uses the final of that later time at the highest rank, although the
lots were booked on the earlier one. Both are consequences of documented choices
(the savepoint in `_record_market_day_settlements_isolated`, the operator's
authority), and a reader of the market-day table should know them.
The properties of `deploy_watch` speak until a host and a dead-man have crossed;
`WorstCaseDark` is what the repository promises without that exception, and fails.

## 4. Fairness

- `maker_tape`: weak fairness of the clock, of publication and of `BeginPass` (the
  timer fires every two minutes and a run is one process); strong fairness of `Fetch`,
  `Expire` and `EndPass`, and of `Apply` said of the states it leads from and to
  (`NotAllDie`): passes may fail or be killed any number of times, but not for ever each
  time. No pass is assumed to be complete: a payload that is not understood stays, and
  `QuotesEnd` excepts the quotes of a tape that is blocked for ever. Nothing is assumed of
  pulls, exits, cutovers, settlement or the market's close.
- `settle_day`: weak fairness of the tick's steps as a whole, of the day's
  completion and of the first publication of its final. The timer fires every half
  hour (`*:10,40`). A failed recording and a failed re-check are caught and the pass
  goes on; any other error ends it like a kill. Kills and caught failures are
  bounded by `Kills` and `Failures`, after which one pass runs through. No fairness of the
  operator, of corrections or of the exchange: their progress is not ours.
- `deploy_watch`, `deploy_stalled`: weak fairness of `Tick` and `TickReleases` (cron
  and a systemd timer poll every minute) and of `Lapse` once no host is at work, since
  nobody refreshes the lease then. Nothing is assumed of hosts: each may stall or die
  for good.
- `m1`: weak fairness of the clock, of `PassBegins` and of the steps of a pass; faults
  are bounded. No scan need ever run.
- `pages`: weak fairness of the timer's cycle as a whole, of the release as a whole and
  of a promotion under way, because the timers go on, each command ends and each wait
  has a limit. Nothing is assumed of GitHub, whose deployment may hang for ever; that
  is what the bounded deferrals are for.

A kill between settlement and verification leaves lots without a verification row;
the re-check never writes a first one, by design (`db.py:6586`), so only the
operator's sweep closes it. `DriftIsFlagged` is stated of lots that have a row.

## 5. Proofs

Eight modules hold proofs. In each, an inductive invariant is proved for any values
of the constants that satisfy the named assumptions, and the properties follow.

- **`PaperBook_proofs`** (any orders, closers, slots, trades, prices).
  `LedgerReconciles` is not inductive: a credit only adds the right cash if the
  trade's key is new, and a guarded close only replaces what it read if the guarded
  columns determine the rest. `IInv` says that each position is *sound*: its row,
  its account's keys and the trades credited to it agree status by status; and that
  what a closer has read agrees with the row on the terms that never change. Every
  operation is one operator on rows and one on accounts, so there is one lemma per
  operator ("a sound position stays sound") and the step lemma only picks which.
  Theorems: `TypeCorrect`, `LedgerAlwaysReconciles`, `EventsAlwaysThere`,
  `ReservationsBacked`, `QuantitiesConserved`, `SlotsExclusive`, `ResolvedStay`.
- **`ArbitrageBox_proofs`** (any number of legs, contracts, tries). The invariant
  adds that a leg nothing was sold of is whole, that the trusted group appears only
  by promotion, that closers hold only rows of untrusted groups, and how far
  containment has come. Theorems: `TypeCorrect`, `TrustedBoxesWhole`,
  `LegsAccountedFor`, and `Refines`: every step of the rows is a step of
  `HeldStructure` or a stutter.
- **`GoogleUsage_proofs`** (any units, cities, budgets, breaker, month length, seed).
  A cycle at work owns one row whose status is where its step says; no two own the
  same; everything sent is billable; the rows a cycle made stay within budget. The
  seed adds rows of its own, so the budget bounds what was *sent*. The breaker:
  `DeadKeyInv` bounds, on a day whose outcomes are all client errors, the outcomes and
  the requests in hand together, because a reservation is granted below the threshold
  only and a cycle has one request at a time; `Outcomes` says what any step can do to
  the recorded answers of a day. Theorems: `TypeCorrect`, `WithinBudget`,
  `DeadKeyCorrect`, `RunCorrect`.
- **`SettlementTruth_proofs`** (any lots, bins, highs, kills, failures, commands).
  Three inductive invariants: `Inv` (types, what the tick knows, that verification and
  payment speak of the booking); `OneSettlement` (highs exist only after completion
  with nothing left open, and a tick about to settle sees none) for one high per day;
  `RecordedWithSettlement` (once a lot is settled the traded markets were recorded
  with it; a record-only pass has nothing settled) for the table. Theorems:
  `TypeCorrect`, `LedgerCorrect`, `VerificationCorrect`, `SettledBooksCorrect`,
  `DecidedCorrect`; `OneHighCorrect` and `DayCorrect` assume `ManualHighs = {}`, for
  the reasons of section 3.
- **`DeployDeadman_proofs`** (any deploys, attempts, reboots). Until host and dead-man
  have crossed (`CrossedStays`: nobody takes that back), `RunInv` says what the box holds
  (`BoxInv`: timers run over a whole tree, a lease that may be restored stands over one,
  one in the mixed phase over timers that are off or a release already whole), where the
  host that nobody has taken the box from stands (`HostInv`: the phase on the box and the
  parts it has transferred are those of its step), what a script knows of itself
  (`ScriptInv`) and that a lease is never older than a host at work (`OrderInv`). Who
  attends to a dark box is an invariant of its own (`WatchInv`): what the dead-man takes as
  the sign of a finished deploy, a marker seen and gone in one boot, means that the timers
  run, because the holder of the lease removes the marker over running timers only. A
  command sent without asking either changes nothing, or finds the box its own
  (`Uncrossed`), or crosses. Theorems: `TypeCorrect`, `TimersRunWhole`, `SuccessShows`,
  `WatchKept`, `AlwaysAttended`.
- **`M1Trial_proofs`** (any legs, targets, hours, limits, faults). `IInv` says how rows,
  orders and shadow crossings fit (`BookInv`), what the running pass has read that
  cannot change any more (`PassInv`) and what a report may say (`ReportInv`). The
  argument for the replay: once a day is over and none of its scans is at work, its rows
  and orders are fixed (`QuietStays`, over `DayGrows`: a later hour is of no earlier
  day), and on fixed rows the replay implies exactly the orders entered
  (`ReplayAgrees`). Theorems: `TypeCorrect`, `ShadowStays`, `ReportsFaithful`,
  `HaltsStop`, `FinalReadRespected`.
- **`PagesPublisher_proofs`** (any ceiling, deferrals, attempts, builds, releases,
  foreign commits, faults). `IInv` is who holds which lock at which step (`LockInv`), that
  what was copied under a lock is of one build and one app (`SiteInv`), that a
  snapshot taken under the pages lock is at least as new as the branch (`AgeInv`), what a
  release's status promises (`RelInv`), and the depth of the branch against the
  counter plus the commits nobody counted (`DepthInv`, with `Slack` = foreign commits,
  faults and publishers a release stopped). Theorems: `TypeCorrect`, `SiteCorrect`,
  `ReleaseCorrect`, `HistoryCorrect`, `AgeCorrect`.
- **`AdmissionTape_proofs`**: the two components whose correctness bounds sums over rows.
  It begins with lemmas on `SumFunctionOnSet` over a finite set (what one element adds,
  what a change of one changes, monotone, additive). Their induction is stated of a *set*
  of subsets (`SubsetInduction`, from the well-foundedness of the strict subset
  relation), and a fold is a function that solves its recursion (`FoldExists`).
  - *Admission* (any scans, decisions, markets, limits, days; finite orders).
    `OneLivePosition` rests on the time between a scan's check and its insert:
    `LockInv` (a run of the script at work holds the lock, so there is one), `LiveInv`
    (only the script scans for the live account) and `PickInv` (the markets a scan has
    picked have no active live order until the insert but the legs of its own box).
    The evidence side is inductive with the types. The limits are not inductive: an
    insert stays within them because of what its scan read some steps before.
    `MoneyInv` adds that what every scan about to insert has read still holds of the
    account at least, and every other step is shown to *ease* the limits: no row gains
    risk, no cash is lost that is not at risk. Assumed of the peers of a market: they
    are one another's peers (a correlated group). Theorems: `TypeCorrect`,
    `OneLiveCorrect`, `EvidenceCorrect`, `TargetLimitsHold`, `LiveLimitsHold`.
  - *MakerTape* (any finite quotes and trades, any grace and time). The allocation is a
    fold, so what a batch does is an invariant of the fold (`Sound`), proved by induction
    over the offers made: what is left and what was given are what there was
    (`Conserves`), a quote whose offer was made can take nothing more (`Exhausts`), and
    who got shares was not overtaken (`Ordered`). `TapeInv` then says that rows, journal
    and clock agree, that the query of a pass reaches back to every quote that rests,
    and that a quote that took of a trade, or was offered it by an applied pass, can
    take no more of it. Assumed: quotes and trades are numbered in the order of their
    ids, prices and quantities are natural numbers (`TermsAssumption`), and a quote with
    a queue ahead joined the bid at its own limit or above (`QueueAssumption`).
    Theorems: `TapeTypeCorrect`, `VolumeCorrect`, `JournalCorrect`, `ReplayCorrect`,
    `ExpiryCorrect`, `PriorityCorrect`.

**Only model-checked.** The liveness properties `QuotesEnd`, `DriftIsFlagged`,
`TradedDayIsRecorded`, `DarkEnds`, `EveryDayReconciled`, `AlarmHalts` and `DataGetsOut`:
fairness is defined by `ENABLED`, which the prover does not handle. Every safety and
action property of a passing run is a theorem. The violation of `settle_stale` is a
behaviour TLC finds, and so is that of `deploy_stalled`; there is nothing to prove of them.

## 6. Where code and documentation disagree

`settle_stale`: the exchange check writes verdicts built from lots it read before
its network calls (`exchange_settlement.py:352`). A restatement in between is
overwritten by a decided verdict of the old booking, and the timer never looks at
a decided lot again.

`deploy_stalled`: `sync_to_box.sh:988-990` sends the maintenance marker and the quiesce
without a look at the fence. A host that stalls after `arm` until its lease has lapsed
finds the box restored and the dead-man removed, quiesces it all the same, and stops at
its next check (1001) or dies: every timer is off, no trigger polls the box and no
incident is on file. `deploy/aws/README.md:326` says "Worst case dark: roughly 11.5
minutes." (`WorstCaseDark`), and the comment at `sync_to_box.sh:397` says "no step that
changes the box is entered without this check".

The following were met while modelling, are in the models or at their edge, and have
no run of their own. They are listed for the maintainers, most consequential first.

- **A half-failed restore** (`deploy_deadman.sh:531`, `disable_systemd_timers.sh:153`).
  The restore helper enables and starts all timers and only then asks each; when one
  does not become active it reports failure with the others running, and the dead-man
  records "keeping the box quiesced and retrying". The lease stays in `pre-transfer`
  under the same deploy id, so a host that was only stalled is accepted into `mixed`
  (`deploy_deadman.sh:945` compares ids only) and starts its first rsync over running
  producers. `deploy/aws/README.md:334` says of that phase "Never enables a timer. The
  tree may be half-synced". In the model this is a crossing (`Advance`), which
  `WholeUnderTimers` excepts.
- **A host that slept through its lease** goes on likewise at every command between two
  checks of the fence: a transfer, a restore of the timers or the release of the marker
  may then meet a box the dead-man has restored or another deploy has armed.
- **A takeover that fails** (`--clear-incident`, then no first tick): `arm_rollback`
  removes the state of the deploy it took over from too, so only the operator, who is
  told, knows of the box (`Told` in `Attended`).
- **Live entries under one lock** (`run_paper_scan_profiles.sh:27`): nothing in the
  database keeps two live entries within the limits, and a live scan by hand does not
  take the lock (section 2, `Admission`).
- **A research scan overtaken by another's batch** ends with a `ValueError` at its next
  candidate (`Loses`) and leaves its other candidates abandoned; no money is touched.
- **Fills lost at settlement** (`trading/sfo_kalshi_quant/db.py:5947` says that quotes
  resting at settlement "never crossed ... can never fill now"). A quote that crossed
  and was not credited yet, because the tape was late or a pass failed, is expired all
  the same. So is one that a new execution model cuts over, and the rest of a partly
  filled quote whose contracts are sold; only the end at its expiry, a pull included,
  waits for the tape (`ExpiryLosesNothing`).
- **A payload nobody understands** (`monitor.py:1092`) keeps every pass of its market
  incomplete while a quote older than it rests, so no quote of the market expires and
  their reservations stay until a fill, an exit, a cutover or settlement ends that quote
  (`TapeBlocked`).
- **The breaker and overlapping cycles** (`forecaster/google_weather_store.py:1381`: "a
  single success ... resets the run"). The run is ordered by the start of the cycle:
  when two units overlap, a late success of the cycle that started first is not the
  newest, and an open breaker stays open until the billing date changes. This errs on
  the cheap side.
- **M1: a report without its alarm.** A pass that dies between a report and the fidelity
  rule is made up for by the next day's window, unless the window reached its limit
  only with its oldest day (`AlarmHalts` says what is left; `m1_preregistration.md:174`
  promises more). **A replay beside a scan from before midnight** can report a false
  failure, or never see the late order (comment at `research_m1.py:749`); `raced`
  marks these reports.
- **Releases**: killed between the exchange and its record, a release leaves an
  installed app whose status says it was not; killed later, an unverified app that
  every later cycle publishes. The publisher exits 0 when it defers, so a release
  depends on its own verification (`OnBranch`, and the mutant without it).
- **A kill between settlement and verification** leaves lots without a verification
  row until an operator sweeps (section 4).

Smaller: `market_day_settlements.py:309` speaks of rank 3 for the settlement path,
whose rank is 4.

## 7. What is not modelled

Pricing, probability, forecast training and portfolio search are real-valued
computations without an order of events; the models let a decision be any of the
ones they could make (a monitor may close at any time, a scan may enter or not).
Parsing of exchange, Google and CLI payloads appears as its outcome: known,
ambiguous, failed. Reports, backtests and the web application only read.
`fill_resting_limit_order` and `cancel_stale_undispatched` have no caller outside
the tests. Operator `paper-close` is a deliberate override of the box rules and is
left out of `ArbitrageBox`. Tail baskets are
entered leg by leg under one group with nothing that contains a missing leg, so there
is no promise to check beyond what `Admission` says of a single entry. The real-money
adapters refuse every order that is not a dry run. `PROJECT.json` gives the reason for
each component and, with each hazard no property covers, why or where it will be.

## 8. Plan

Done, in this order: `PaperBook` (the money everything else moves), `MakerTape`
(what fills it), `ArbitrageBox` over `HeldStructure` (its one structural promise),
`GoogleUsage` (the one place that spends real money), `SettlementTruth` (what the
results are judged on), `DeployDeadman` (what may stop everything), `M1Trial` (the one
experiment with rules of its own), `PagesPublisher` (what the world sees) and
`Admission` (what may enter at all); each with its proofs.

Next, in this order:

1. `GoogleRuntime`: generations, watermark and purge (no older generation comes
   back), composed with the cycles of `GoogleUsage`.
2. `ArchivePrune`: the coverage gate and bounded deletion next to live writers.
3. `SchedulerHealth`, `FreshnessIssue`: repair cooldown and misses; the life of the
   alert issue.
4. Proofs: a small specification of "one booking, judged by many readers" that
   `SettlementTruth` implements, and one of a public tape given out by price and time
   that `MakerTape` implements.
5. Tail baskets, once they have a containment to check.

## 9. Using the project

`tlc -config X.cfg M` checks a run (`PROJECT.json` names the module and the configuration
of each); `tlapm M_proofs.tla` checks proofs. The longest runs, `usage_days`, `pages`,
`settle_day`, `settle_desk` and `admission`, take one to four minutes with two workers;
each proof module takes one to five minutes from nothing.

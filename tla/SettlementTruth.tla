--------------------------- MODULE SettlementTruth ---------------------------
(* How one city-day is settled and audited in the paper journal (db.py,       *)
(* _cli/paper.py, exchange_settlement.py and store/).  Three numbers exist    *)
(* for the day's high: the final NWS value in weather.db, which a later       *)
(* product may replace; the number the exchange resolved its markets on; and  *)
(* the number each lot was booked at.  The settle timer books, verifies,      *)
(* re-checks and asks the exchange, one transaction at a time; an operator's  *)
(* commands run beside it.                                                    *)
(*                                                                            *)
(* One lot is one paper order of one contract; the partial fills of a lot and *)
(* the cash ledger of an account are PaperBook's.  The day is inside the      *)
(* windows the timer looks at (7 days to record, 14 to re-check).             *)
EXTENDS Integers, FiniteSets

CONSTANTS
  Lots, Markets,
  MarketOf,      \* the market of each lot
  Highs,         \* the integer highs the day may be given
  Yes,           \* the highs at which each market resolves YES
  BuysYes,       \* the lots on the YES side
  Archived,      \* the lots whose ledger is archived
  Labelled,      \* the markets the exchange resolves with a label, not a number
  None,
  ManualHighs,   \* the highs an operator may type into paper-settle
  Commands,      \* the operator's commands that load the final first
  Runs,          \* who runs exchange checks: "timer", "operator"
  Finals, Kills, Failures   \* bounds: values of the final, kills, caught errors

ASSUME ConstantsAssumption ==
  /\ MarketOf \in [Lots -> Markets]
  /\ Highs \subseteq Int /\ None \notin Highs
  /\ Yes \in [Markets -> SUBSET Highs]
  /\ BuysYes \subseteq Lots /\ Archived \subseteq Lots /\ Labelled \subseteq Markets
  /\ ManualHighs \subseteq Highs
  /\ Commands \subseteq {"verify", "restate", "backfill"}
  /\ Runs \subseteq {"timer", "operator"}
  /\ Finals \in Nat /\ Kills \in Nat /\ Failures \in Nat

VARIABLES
  completed,   \* 06:00 of the next day has passed at the station
  final,       \* weather.db's final high, and how many values it has had
  finals,
  exchange,    \* the high the exchange resolved the day on
  cached,      \* the markets whose finalized result is cached
  lot,         \* status and booked high of each order
  paid,        \* settlement proceeds on the ledger, corrections included
  day,         \* the market-day table: high, outcome and rank of the source
  audit,       \* the verification row of each lot
  check,       \* the exchange-check row of each lot
  tick,        \* the settle timer's process
  op,          \* the operator's command
  guard,       \* the exchange-check runs between their fetches and their writes
  kills, failures

env == <<completed, final, finals, exchange>>
journal == <<lot, paid, day, audit>>
faults == <<kills, failures>>
vars == <<env, cached, journal, check, tick, op, guard, faults>>

Known == Highs \cup {None}
Statuses == {"none", "resting", "filled", "closed", "settled", "expired"}
NoAudit == [status |-> "NONE", booked |-> None, final |-> None]
NoCheck == [verdict |-> "NONE", booked |-> None]
NoDay == [high |-> None, yes |-> FALSE, rank |-> 0]
Quiet == [step |-> "idle", seen |-> [l \in Lots |-> None], result |-> [m \in Markets |-> "unread"]]
SettlementPath == 4
SettledSibling == 3
CliSettlement == 2
Dataset == 1

Init ==
  /\ completed = FALSE /\ final = None /\ finals = 0 /\ exchange = None
  /\ cached = {}
  /\ lot = [l \in Lots |-> [status |-> "none", high |-> None]]
  /\ paid = [l \in Lots |-> 0]
  /\ day = [m \in Markets |-> NoDay]
  /\ audit = [l \in Lots |-> NoAudit]
  /\ check = [l \in Lots |-> NoCheck]
  /\ tick = [step |-> "idle", truth |-> None]
  /\ op = [step |-> "idle", truth |-> None]
  /\ guard = [r \in Runs |-> Quiet]
  /\ kills = 0 /\ failures = 0

Settled(l) == lot[l].status = "settled"
Wins(l, h) == (h \in Yes[MarketOf[l]]) = (l \in BuysYes)
Pays(l, h) == IF Wins(l, h) THEN 1 ELSE 0
OpenLots == {l \in Lots : lot[l].status \in {"filled", "resting"}}
Traded(m) == \E l \in Lots : MarketOf[l] = m /\ lot[l].status \in {"filled", "closed", "settled"}
Unrecorded == \E m \in Markets : Traded(m) /\ day[m].rank = 0

-----------------------------------------------------------------------------
(* What is outside the settlement code: trading before the day completes, the *)
(* fills and exits the monitor still applies, the weather service and the     *)
(* exchange.                                                                  *)
Enter(l) ==
  /\ ~completed /\ lot[l].status = "none"
  /\ \E s \in {"filled", "resting"} : lot' = [lot EXCEPT ![l].status = s]
  /\ UNCHANGED <<env, cached, paid, day, audit, check, tick, op, guard, faults>>

Monitor(l) ==
  /\ \/ lot[l].status = "resting" /\ \E s \in {"filled", "expired"} : lot' = [lot EXCEPT ![l].status = s]
     \/ lot[l].status = "filled" /\ lot' = [lot EXCEPT ![l].status = "closed"]
  /\ UNCHANGED <<env, cached, paid, day, audit, check, tick, op, guard, faults>>

Complete ==
  /\ ~completed /\ completed' = TRUE
  /\ UNCHANGED <<final, finals, exchange, cached, journal, check, tick, op, guard, faults>>

Publish(h) ==
  /\ completed /\ final # h /\ finals < Finals
  /\ final' = h /\ finals' = finals + 1
  /\ UNCHANGED <<completed, exchange, cached, journal, check, tick, op, guard, faults>>

Finalize(h) ==
  /\ completed /\ exchange = None /\ exchange' = h
  /\ UNCHANGED <<completed, final, finals, cached, journal, check, tick, op, guard, faults>>

-----------------------------------------------------------------------------
(* Mutants: a row of the same rank is left alone; a restatement of any        *)
(* settled lot; siblings that look at settled lots only; a correction  *)
(* paid in full; a restatement that leaves the verification row; verdicts     *)
(* that are always replaced; a tick that stops when nothing is open or drops  *)
(* the record-only pass.                                                      *)
UpsertIfStronger(row, new) == IF new.rank <= row.rank THEN row ELSE new
AloneAmongSettled(l, h) == \A k \in Lots \ {l} : Settled(k) => lot[k].high = h
CorrectionInFull(l, h) == Pays(l, h)
AuditLeft(l, h) == audit[l]
ReplacesAlways(new, old) == TRUE
WorkOrStop ==
  IF completed /\ final # None /\ OpenLots # {} THEN "settle"
  ELSE IF completed /\ final # None /\ Unrecorded THEN "record" ELSE "idle"
WorkOnOpenLots == IF completed /\ final # None /\ OpenLots # {} THEN "settle" ELSE "load"

(* The market-day table.  A weaker source never moves a recorded outcome; a   *)
(* source of the same rank without a temperature keeps the old one.           *)
Upsert(row, new) ==
  IF new.rank < row.rank THEN row
  ELSE [new EXCEPT !.high = IF new.rank = row.rank /\ new.high = None THEN row.high ELSE @]

Outcome(m, h, rank) == [high |-> h, yes |-> h \in Yes[m], rank |-> rank]

Recorded(ms, h) ==
  [m \in Markets |-> IF m \in ms /\ Traded(m) THEN Upsert(day[m], Outcome(m, h, SettlementPath)) ELSE day[m]]

(* An error of the recording is caught and logged: nothing is written. *)
RecordsDay(ms, h) ==
  \/ day' = Recorded(ms, h) /\ failures' = failures
  \/ failures < Failures /\ failures' = failures + 1 /\ day' = day

(* settle_paper_orders: every open lot of the day in one transaction, resting *)
(* quotes expired with the high stamped on them, then the recording under a   *)
(* savepoint.                                                                 *)
Filled(l) == lot[l].status = "filled"

Settles(h) ==
  /\ lot' = [l \in Lots |->
       CASE Filled(l) -> [status |-> "settled", high |-> h]
         [] lot[l].status = "resting" -> [status |-> "expired", high |-> h]
         [] OTHER -> lot[l]]
  /\ paid' = [l \in Lots |-> IF Filled(l) THEN paid[l] + Pays(l, h) ELSE paid[l]]
  /\ RecordsDay(Markets, h)

Audited(l, h) ==
  [status |-> IF h = None THEN "MISSING_FINAL" ELSE IF lot[l].high = h THEN "MATCH" ELSE "MISMATCH",
   booked |-> lot[l].high, final |-> h]

Verifies(h) == audit' = [l \in Lots |-> IF Settled(l) THEN Audited(l, h) ELSE audit[l]]

(* The re-check only escalates a row that exists. *)
Drifted(l, h) ==
  /\ Settled(l) /\ h # None /\ lot[l].high # h
  /\ audit[l].status # "NONE"
  /\ audit[l].status # "MISMATCH" \/ audit[l].final # h

Rechecks(h) == audit' = [l \in Lots |-> IF Drifted(l, h) THEN Audited(l, h) ELSE audit[l]]

-----------------------------------------------------------------------------
(* The settle timer: one process, every half hour.  The open and unrecorded   *)
(* dates are read, then the final; what follows works with those answers.     *)
Work ==
  IF completed /\ final # None /\ OpenLots # {} THEN "settle"
  ELSE IF completed /\ final # None /\ Unrecorded THEN "record"
  ELSE "load"

Goes(s) == tick' = [tick EXCEPT !.step = s]

TickReads ==
  /\ tick.step = "idle"
  /\ tick' = [step |-> Work, truth |-> final]
  /\ UNCHANGED <<env, cached, journal, check, op, guard, faults>>

TickRecords ==
  /\ tick.step = "record" /\ Goes("load")
  /\ RecordsDay(Markets, tick.truth)
  /\ UNCHANGED <<env, cached, lot, paid, audit, check, op, guard, kills>>

TickSettles ==
  /\ tick.step = "settle"
  /\ Goes(IF \E l \in Lots : Filled(l) THEN "verify" ELSE "load")
  /\ Settles(tick.truth)
  /\ UNCHANGED <<env, cached, audit, check, op, guard, kills>>

TickVerifies ==
  /\ tick.step = "verify" /\ Goes("load")
  /\ Verifies(tick.truth)
  /\ UNCHANGED <<env, cached, lot, paid, day, check, op, guard, faults>>

TickLoads ==
  /\ tick.step = "load" /\ tick' = [step |-> "recheck", truth |-> final]
  /\ UNCHANGED <<env, cached, journal, check, op, guard, faults>>

TickRechecks ==
  /\ tick.step = "recheck" /\ Goes(IF "timer" \in Runs THEN "check" ELSE "idle")
  /\ \/ Rechecks(tick.truth) /\ failures' = failures
     \/ failures < Failures /\ failures' = failures + 1 /\ audit' = audit
  /\ UNCHANGED <<env, cached, lot, paid, day, check, op, guard, kills>>

(* A kill, or an error of a settlement that ends the command. *)
TickDies ==
  /\ tick.step # "idle" /\ kills < Kills /\ kills' = kills + 1
  /\ Goes("idle")
  /\ guard' = [r \in Runs |-> IF r = "timer" THEN Quiet ELSE guard[r]]
  /\ UNCHANGED <<env, cached, journal, check, op, failures>>

-----------------------------------------------------------------------------
(* The exchange check.  The lots are read and the connection is closed; the   *)
(* fetches follow, and what is finalized is cached; the verdicts, built from  *)
(* the rows read at the start, are written at the end.  Only the last step    *)
(* and a restatement touch the verdicts, so the read, the fetches and the     *)
(* caching are one step: what comes between them and matters comes before     *)
(* the write.                                                                 *)
Decided(c) == c.verdict \in {"MATCH", "MISMATCH"}

Verdict(m, h) ==
  IF (exchange \in Yes[m]) = (h \in Yes[m]) /\ (m \in Labelled \/ exchange = h)
  THEN "MATCH" ELSE "MISMATCH"

Selected(r) == {l \in Lots : Settled(l) /\ (r = "timer" => ~Decided(check[l]))}

Fetch(r, reached) ==
  /\ guard[r].step = "idle"
  /\ reached \subseteq {MarketOf[l] : l \in Selected(r)} \ cached
  /\ guard' = [guard EXCEPT ![r] =
       [step |-> "write",
        seen |-> [l \in Lots |-> IF l \in Selected(r) THEN lot[l].high ELSE None],
        result |-> [m \in Markets |->
          IF m \in cached \/ (m \in reached /\ exchange # None) THEN "final"
          ELSE IF m \in reached THEN "pending" ELSE "unread"]]]
  /\ cached' = cached \cup {m \in reached : exchange # None}
  /\ UNCHANGED <<env, journal, check, op, faults>>

Built(r, l) ==
  LET m == MarketOf[l] IN
  [booked |-> guard[r].seen[l],
   verdict |-> CASE guard[r].result[m] = "final" -> Verdict(m, guard[r].seen[l])
                 [] guard[r].result[m] = "pending" -> "KALSHI_PENDING"
                 [] OTHER -> "UNCHECKED"]

(* A decided verdict is only replaced by a decided one. *)
Replaces(new, old) == Decided(old) => Decided(new)

Write(r) ==
  /\ guard[r].step = "write"
  /\ check' = [l \in Lots |->
       IF guard[r].seen[l] # None /\ Replaces(Built(r, l), check[l]) THEN Built(r, l) ELSE check[l]]
  /\ guard' = [guard EXCEPT ![r] = Quiet]
  /\ UNCHANGED <<env, cached, journal, op, faults>>

TickChecks(reached) == tick.step = "check" /\ Goes("write") /\ Fetch("timer", reached)
TickWrites == tick.step = "write" /\ Goes("idle") /\ Write("timer")
OpChecks(reached) == Fetch("operator", reached) /\ UNCHANGED tick
OpWrites == Write("operator") /\ UNCHANGED tick

-----------------------------------------------------------------------------
(* The operator's commands.  Each that needs the final loads it, then does    *)
(* its work in one transaction.                                               *)
OpLoads(c) ==
  /\ op.step = "idle" /\ op' = [step |-> c, truth |-> final]
  /\ UNCHANGED <<env, cached, journal, check, tick, guard, faults>>

Ready(c) == op.step = c /\ op' = [step |-> "idle", truth |-> None]

(* A refusal, an error or a kill: nothing is written. *)
OpGivesUp ==
  /\ \/ op.step # "idle" /\ op' = [step |-> "idle", truth |-> None] /\ guard' = guard
     \/ /\ "operator" \in Runs /\ guard["operator"].step = "write" /\ op' = op
        /\ guard' = [guard EXCEPT !["operator"] = Quiet]
  /\ UNCHANGED <<env, cached, journal, check, tick, faults>>

(* paper-settle: the same settlement at a high the operator types. *)
OpSettles(h) ==
  /\ Settles(h)
  /\ UNCHANGED <<env, cached, audit, check, tick, op, guard, kills>>

OpVerifies ==
  /\ Ready("verify") /\ Verifies(op.truth)
  /\ UNCHANGED <<env, cached, lot, paid, day, check, tick, guard, faults>>

(* paper-resettle --restate --apply: one settled lot of an archived ledger is *)
(* rebooked on the final, unless another lot of the day keeps another high or *)
(* a cached exchange result contradicts the final.  The owner's expected      *)
(* delta is an input: a wrong one is a refusal.                               *)
Alone(l, h) == \A k \in Lots \ {l} : lot[k].high \in {None, h}

Correction(l, h) == Pays(l, h) - Pays(l, lot[l].high)
Confirmed(l, h) == [status |-> "MATCH", booked |-> h, final |-> h]

Restatable(l) == Settled(l) /\ l \in Archived

MayRestate(l, h) ==
  /\ Restatable(l) /\ h # None /\ lot[l].high # h
  /\ Alone(l, h)
  /\ MarketOf[l] \in cached => Verdict(MarketOf[l], h) = "MATCH"

OpRestates(l) ==
  LET h == op.truth
      m == MarketOf[l]
  IN /\ Ready("restate") /\ MayRestate(l, h)
     /\ lot' = [lot EXCEPT ![l].high = h]
     /\ paid' = [paid EXCEPT ![l] = @ + Correction(l, h)]
     /\ audit' = [audit EXCEPT ![l] = Confirmed(l, h)]
     /\ check' = [check EXCEPT ![l] = [verdict |-> IF m \in cached THEN "MATCH" ELSE "UNCHECKED", booked |-> h]]
     /\ day' = Recorded({m}, h)
     /\ UNCHANGED <<env, cached, tick, guard, faults>>

(* paper-backfill-market-day-settlements: the best source that has an answer, *)
(* where no equal or better one has written.  shown: the finalized markets of *)
(* the exchange dataset.                                                      *)
Source(m, sibling, h, shown) ==
  IF sibling # None THEN Outcome(m, sibling, SettledSibling)
  ELSE IF h # None THEN Outcome(m, h, CliSettlement)
  ELSE IF m \in shown THEN [high |-> None, yes |-> exchange \in Yes[m], rank |-> Dataset]
  ELSE NoDay

Siblings ==
  IF \E l \in Lots : Settled(l) THEN {lot[l].high : l \in {k \in Lots : Settled(k)}} ELSE {None}

OpBackfills(shown) ==
  /\ Ready("backfill")
  /\ shown # {} => exchange # None
  /\ \E sibling \in Siblings : day' = [m \in Markets |->
       LET new == Source(m, sibling, op.truth, shown) IN
       IF Traded(m) /\ new.rank > day[m].rank THEN Upsert(day[m], new) ELSE day[m]]
  /\ UNCHANGED <<env, cached, lot, paid, audit, check, tick, guard, faults>>

-----------------------------------------------------------------------------
Outside ==
  \/ \E l \in Lots : Enter(l) \/ Monitor(l)
  \/ Complete
  \/ \E h \in Highs : Publish(h) \/ Finalize(h)

Tick ==
  \/ TickReads \/ TickRecords \/ TickSettles \/ TickVerifies \/ TickLoads \/ TickRechecks
  \/ "timer" \in Runs /\ ((\E reached \in SUBSET Markets : TickChecks(reached)) \/ TickWrites)

Operator ==
  \/ \E c \in Commands : OpLoads(c)
  \/ OpGivesUp \/ OpVerifies
  \/ \E h \in ManualHighs : OpSettles(h)
  \/ \E l \in Lots : OpRestates(l)
  \/ \E shown \in SUBSET Markets : OpBackfills(shown)
  \/ "operator" \in Runs /\ ((\E reached \in SUBSET Markets : OpChecks(reached)) \/ OpWrites)

Next == Outside \/ Tick \/ TickDies \/ Operator

Spec == Init /\ [][Next]_vars

(* The timer fires every half hour and its unit runs to its end unless it is  *)
(* killed; the day ends and its final is published.                           *)
Fairness == WF_vars(Tick) /\ WF_vars(Complete) /\ WF_vars(final = None /\ \E h \in Highs : Publish(h))
FairSpec == Spec /\ Fairness
-----------------------------------------------------------------------------
(* Every variable has its type. *)
TypeOK ==
  /\ completed \in BOOLEAN /\ final \in Known /\ finals \in 0..Finals /\ exchange \in Known
  /\ cached \subseteq Markets
  /\ lot \in [Lots -> [status : Statuses, high : Known]]
  /\ paid \in [Lots -> {0, 1}]
  /\ day \in [Markets -> [high : Known, yes : BOOLEAN, rank : 0..4]]
  /\ audit \in [Lots -> [status : {"NONE", "MATCH", "MISMATCH", "MISSING_FINAL"}, booked : Known, final : Known]]
  /\ check \in [Lots -> [verdict : {"NONE", "MATCH", "MISMATCH", "KALSHI_PENDING", "UNCHECKED"}, booked : Known]]
  /\ tick \in [step : {"idle", "settle", "record", "verify", "load", "recheck", "check", "write"}, truth : Known]
  /\ op \in [step : {"idle", "verify", "restate", "backfill"}, truth : Known]
  /\ guard \in [Runs -> [step : {"idle", "write"}, seen : [Lots -> Known],
                         result : [Markets -> {"final", "pending", "unread"}]]]
  /\ kills \in 0..Kills /\ failures \in 0..Failures

(* What the ledger has paid on a lot is what the outcome its journal row      *)
(* shows is worth, through any number of corrections back and forth           *)
(* (settle_paper_orders, apply_settlement_restatement).                       *)
LedgerFollowsJournal ==
  \A l \in Lots : paid[l] = IF Settled(l) THEN Pays(l, lot[l].high) ELSE 0

(* Two lots of the city-day that carry a settlement high carry the same one:  *)
(* posterior-Kelly never reads two truths for one day.  It needs the manual   *)
(* paper-settle to stay unused: a pass before the day completes settles what  *)
(* is open then, and later lots get the final.                                *)
OneHighPerDay ==
  \A k, l \in Lots : lot[k].high = lot[l].high \/ None \in {lot[k].high, lot[l].high}

(* A verification row speaks of the high its lot is booked at now, so         *)
(* restatement.py never classifies a lot by the audit of an older booking;    *)
(* and a MATCH is of equal highs.                                             *)
VerificationIsOfBooking ==
  \A l \in Lots : audit[l].status # "NONE" =>
    /\ Settled(l) /\ audit[l].booked = lot[l].high
    /\ audit[l].status = "MATCH" <=> audit[l].final = lot[l].high

(* store/market_day_settlements.py: a market-day recorded by the settlement   *)
(* path holds the number the ledger booked against, and a later CLI           *)
(* correction does not rewrite it to disagree with the journal.  A recording  *)
(* error the code catches leaves the row behind its ledger: only until then.  *)
DayFollowsJournal ==
  failures = 0 => \A l \in Lots :
    Settled(l) /\ day[MarketOf[l]].rank = SettlementPath => day[MarketOf[l]].high = lot[l].high

(* store/exchange_settlement_checks.py: booked_high_f of an exchange-check    *)
(* row is the high the journal settled its lot on.  Stated of the decided     *)
(* verdicts, which the timer never looks at again.                            *)
VerdictIsOfBooking ==
  \A l \in Lots : Decided(check[l]) => check[l].booked = lot[l].high

(* A settled lot of an active ledger is never rebooked or paid again, whoever *)
(* settles, verifies, re-checks or restates around it.                        *)
SettledBooksStand ==
  [][\A l \in Lots \ Archived : Settled(l) => lot'[l] = lot[l] /\ paid'[l] = paid[l]]_vars

(* No run of the exchange check, however late it writes, takes a decided      *)
(* verdict back to pending or unchecked; only a rebooking of the lot does.    *)
DecidedStays ==
  [][\A l \in Lots : Decided(check[l]) => Decided(check'[l]) \/ lot'[l].high # lot[l].high]_vars

(* A verified lot whose booked high is not the final is flagged by the timer, *)
(* or the two agree again.                                                    *)
DriftIsFlagged ==
  \A l \in Lots :
    Settled(l) /\ audit[l].status # "NONE" /\ final # None /\ lot[l].high # final
      ~> audit[l].status = "MISMATCH" \/ lot[l].high = final

(* Once the day completes, every market traded on it gets its outcome         *)
(* recorded, also when every lot left before the settlement.                  *)
TradedDayIsRecorded ==
  \A m \in Markets : Traded(m) ~> day[m].rank # 0
=============================================================================

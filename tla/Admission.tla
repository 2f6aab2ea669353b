------------------------------- MODULE Admission -------------------------------
(* Admission of new paper risk.  A live scan decides one entry at a time on a  *)
(* string of separate reads (pause, active entry, account state, active rows)  *)
(* and inserts its order in a transaction that looks at none of them again     *)
(* (PaperTrader.place_approved); an arbitrage box fits its whole spend the     *)
(* same way and then inserts its legs one by one (place_arbitrage), both sides *)
(* of a market if need be.  What keeps two live scans apart is the lock of     *)
(* run_paper_scan_profiles.sh.  A research scan journals its candidates as  *)
(* pending evidence and admits each in one transaction that reads every limit  *)
(* itself (record_research_order_atomic), so it is safe without the lock: such *)
(* scans may also be started by hand.                                          *)
(*                                                                             *)
(* Money is an integer.  An order is what its row has at risk: the cost of     *)
(* filled contracts and the reservation of resting ones.  How quotes fill and  *)
(* positions close is module PaperBook's; here they only move these numbers.   *)
(* A scan may pass over any candidate and size it freely below its limits (the *)
(* entry counts, exposure and depth caps only refuse or shrink more).          *)
(* What becomes of a box whose leg is refused is module ArbitrageBox's.  A scan *)
(* here is one call of _place_portfolio_orders or execute_research_plans; a    *)
(* run of the script makes many, and that it lets the lock go between them     *)
(* adds behaviours and removes none.                                           *)
EXTENDS Integers, FiniteSets, Functions

CONSTANTS
  Scripts,       \* runs of run_paper_scan_profiles.sh: under its lock
  ByHand,        \* research scans started without it
  Settings,      \* PAPER_RISK_PROFILES: the profiles the script may be set to scan
  Orders,        \* bound: the rows of paper_orders
  Decisions,     \* bound: the rows of pending research evidence
  Markets,       \* a target date and a ticker
  Sides,
  Scopes,        \* city and date, region and date, whole account
  Peers,         \* the markets that share a scope's limit with a market
  Capital,       \* INITIAL_CAPITAL, also the reference equity
  LivePct,       \* CITY_TARGET_PCT, REGION_DAY_PCT, AGGREGATE_RISK_PCT
  LivePosition,  \* NORMAL_POSITION_PCT
  LivePause,     \* the day's loss that pauses live entries
  Minimum,       \* the least executable notional
  TargetCap,     \* the target policy's limits of its scopes
  TargetPosition,\* and of one position
  TargetLoss,    \* its daily loss budget
  TargetGoal,    \* its frozen goal of the day
  Charge,        \* part of open risk charged to the budget, in percent
  Spends,        \* amounts a candidate may ask for
  Offers,        \* <<market, side>> candidates
  Boxes,         \* arbitrage opportunities: each the set of its legs
  Profits,       \* what a close may realize
  MaxDay,        \* bound: objective days
  MaxContexts    \* bound: research batches

ASSUME ConstantsAssumption ==
  /\ Scripts \cap ByHand = {} /\ "free" \notin Scripts
  /\ Markets # {} /\ Sides # {} /\ Offers \subseteq Markets \X Sides
  /\ "none" \notin Decisions /\ "none" \notin Orders
  /\ Boxes \subseteq SUBSET (Markets \X Sides)
  /\ IsFiniteSet(Orders)
  /\ Peers \in [Scopes -> [Markets -> SUBSET Markets]]
  /\ \A c \in Scopes, m \in Markets : \A p \in Peers[c][m] : Peers[c][p] = Peers[c][m]
  \* the legs of a box are of one event, so of one city and date
  /\ \A box \in Boxes, c \in Scopes : \A k, l \in box : Peers[c][k[1]] = Peers[c][l[1]]
  /\ Capital \in Nat /\ Spends \subseteq Nat \ {0} /\ Profits \subseteq Int
  /\ LivePct \in [Scopes -> Nat] /\ TargetCap \in [Scopes -> Nat]
  /\ LivePosition \in Nat /\ LivePause \in Nat /\ Minimum \in Nat
  /\ TargetPosition \in Nat /\ TargetLoss \in Nat /\ TargetGoal \in Nat /\ Charge \in Nat
  /\ MaxDay \in Nat /\ MaxContexts \in Nat

VARIABLES
  order,     \* paper_orders
  cash,      \* the ledger's sum of each account
  today,     \* realized P&L of each account's day
  highWater, \* paper_accounts.high_water_equity of the live account
  civil,     \* the objective day
  evidence,  \* research rows of decision_snapshots
  contexts,  \* rows of scan_context_snapshots written so far
  profiles,  \* the setting in force, live and research or one of them
  lock,      \* the script's flock
  scan,      \* the scans
  read       \* what a live scan has read of its account

book == <<order, cash, today>>
journal == <<evidence, contexts>>
clock == <<civil, profiles>>
vars == <<book, highWater, clock, journal, lock, scan, read>>

Accounts == {"live", "target"}
Scanners == Scripts \cup ByHand

NoMarket == CHOOSE m \in Markets : TRUE
NoSide == CHOOSE s \in Sides : TRUE
NoOrder == [account |-> "none", market |-> NoMarket, side |-> NoSide, open |-> 0,
            reserved |-> 0, decision |-> "none", group |-> "none"]
NoEvidence == [state |-> "none", market |-> NoMarket, side |-> NoSide, spend |-> 0,
               context |-> 0]
NoScan == [step |-> "idle", market |-> NoMarket, side |-> NoSide, spend |-> 0, day |-> 0,
           todo |-> {}, decision |-> "none", box |-> {}, group |-> "none"]
NoRead == [equity |-> 0, cash |-> 0, halved |-> FALSE]

Init ==
  /\ order = [o \in Orders |-> NoOrder]
  /\ cash = [a \in Accounts |-> Capital]
  /\ today = [a \in Accounts |-> 0]
  /\ highWater = Capital
  /\ civil = 0
  /\ evidence = [d \in Decisions |-> NoEvidence]
  /\ contexts = 0
  /\ profiles \in Settings
  /\ lock = "free"
  /\ scan = [s \in Scanners |-> NoScan]
  /\ read = [s \in Scanners |-> NoRead]

-----------------------------------------------------------------------------
(* What the journal says of an account. *)

AtRisk(o) == order[o].open + order[o].reserved
Active(o) == AtRisk(o) > 0
Risk(a, M) ==
  SumFunctionOnSet([o \in Orders |-> AtRisk(o)],
                   {o \in Orders : order[o].account = a /\ order[o].market \in M})

Equity(a) == cash[a] + Risk(a, Markets)

(* has_active_paper_entry, whatever the side; the partial unique index, which  *)
(* has the side.                                                               *)
HasActive(a, m) == \E o \in Orders : order[o].account = a /\ order[o].market = m /\ Active(o)
Taken(a, m, side) ==
  \E o \in Orders : /\ order[o].account = a /\ Active(o)
                    /\ order[o].market = m /\ order[o].side = side

(* policy_capacity, on an account state read earlier and the rows of now.      *)
LiveFits(s, spend) ==
  LET e == read[s].equity IN
  /\ spend >= Minimum /\ spend <= read[s].cash
  /\ 100 * spend <= (LivePosition * e) \div (IF read[s].halved THEN 2 ELSE 1)
  /\ \A c \in Scopes : 100 * (Risk("live", Peers[c][scan[s].market]) + spend) <= LivePct[c] * e

(* target_remaining_daily_risk and _research_capacity_on_connection, all read  *)
(* in the inserting transaction.                                               *)
Budgeted(spend) ==
  /\ today["target"] < TargetGoal /\ today["target"] > -TargetLoss
  /\ 100 * spend <= 100 * (TargetLoss + (IF today["target"] < 0 THEN today["target"] ELSE 0))
                    - Charge * Risk("target", Markets)

\* Mutant: a limit is compared with the risk before the entry.
TargetFitsBefore(m, spend) ==
  /\ Budgeted(spend)
  /\ spend <= TargetPosition /\ spend <= cash["target"]
  /\ \A c \in Scopes : Risk("target", Peers[c][m]) < TargetCap[c]

TargetFits(m, spend) ==
  /\ Budgeted(spend)
  /\ spend <= TargetPosition /\ spend <= cash["target"]
  /\ \A c \in Scopes : Risk("target", Peers[c][m]) + spend <= TargetCap[c]

-----------------------------------------------------------------------------
(* The insert and its ledger event: RESERVE of a resting quote, ENTRY_FILL of  *)
(* one that crosses.  A box is known by the row of its first leg.              *)
Enter(o, a, m, side, spend, d, group) ==
  /\ order[o].account = "none"
  /\ \E resting \in BOOLEAN :
       order' = [order EXCEPT ![o] =
         [account |-> a, market |-> m, side |-> side, decision |-> d, group |-> group,
          open |-> IF resting THEN 0 ELSE spend, reserved |-> IF resting THEN spend ELSE 0]]
  /\ cash' = [cash EXCEPT ![a] = @ - spend]
  /\ UNCHANGED today

Step(s, step) == scan' = [scan EXCEPT ![s].step = step]
\* Mutant: a host without flock.
HeldWithoutFlock(s) == UNCHANGED lock

Held(s) == IF s \in Scripts THEN lock = "free" /\ lock' = s ELSE UNCHANGED lock
Returns(s) ==
  /\ scan' = [scan EXCEPT ![s] = [NoScan EXCEPT !.step = "pick"]]
  /\ read' = [read EXCEPT ![s] = NoRead]
Stops(s) ==
  /\ scan' = [scan EXCEPT ![s] = NoScan]
  /\ read' = [read EXCEPT ![s] = NoRead]
  /\ lock' = IF lock = s THEN "free" ELSE lock

-----------------------------------------------------------------------------
(* A live scan. *)

(* The lock, then the pause of the day's loss.                                 *)
LiveBegins(s) ==
  /\ s \in Scripts /\ scan[s].step = "idle" /\ "live" \in profiles
  /\ Held(s)
  /\ today["live"] > -LivePause
  /\ Step(s, "pick")
  /\ UNCHANGED <<book, highWater, clock, journal, read>>

\* Mutant: the check of an active entry looks at the candidate's side only.
PicksBySide(s, m, side) ==
  /\ scan[s].step = "pick" /\ <<m, side>> \in Offers
  /\ ~Taken("live", m, side)
  /\ scan' = [scan EXCEPT ![s].step = "picked", ![s].market = m, ![s].side = side]
  /\ UNCHANGED <<book, highWater, clock, journal, lock, read>>

(* The side-agnostic check of an active entry.                                 *)
Picks(s, m, side) ==
  /\ scan[s].step = "pick" /\ <<m, side>> \in Offers
  /\ ~HasActive("live", m)
  /\ scan' = [scan EXCEPT ![s].step = "picked", ![s].market = m, ![s].side = side]
  /\ UNCHANGED <<book, highWater, clock, journal, lock, read>>

(* The pause again, and no active entry in any market of the box.  The capacity *)
(* is asked once a market: for legs of one event it is the same account room,  *)
(* and all but the last answer can only shrink the box further.                *)
PicksBox(s, box) ==
  /\ scan[s].step = "pick" /\ box \in Boxes
  /\ today["live"] > -LivePause
  /\ \A leg \in box : ~HasActive("live", leg[1])
  /\ \E leg \in box :
       scan' = [scan EXCEPT ![s].step = "picked", ![s].market = leg[1], ![s].box = box]
  /\ UNCHANGED <<book, highWater, clock, journal, lock, read>>

(* live_account_state, which keeps the high water mark, and the drawdown pause. *)
ReadsState(s) ==
  LET e == Equity("live")
      high == IF e > highWater THEN e ELSE highWater
  IN
  /\ scan[s].step = "picked"
  /\ highWater' = high
  /\ IF 100 * (high - e) >= 15 * high
     THEN Returns(s)
     ELSE /\ Step(s, "state")
          /\ read' = [read EXCEPT ![s] = [equity |-> e, cash |-> cash["live"],
                                          halved |-> 100 * (high - e) >= 10 * high]]
  /\ UNCHANGED <<book, clock, journal, lock>>

(* The active rows, on another connection, and the size that fits.             *)
ReadsRows(s) ==
  /\ scan[s].step = "state"
  /\ \/ \E spend \in Spends :
          /\ LiveFits(s, spend)
          /\ scan' = [scan EXCEPT ![s].step = "fit", ![s].spend = spend]
          /\ UNCHANGED read
     \/ Returns(s)
  /\ UNCHANGED <<book, highWater, clock, journal, lock>>

(* record_paper_order.                                                         *)
Inserts(s) ==
  /\ scan[s].step = "fit" /\ scan[s].box = {}
  /\ IF Taken("live", scan[s].market, scan[s].side)
     THEN UNCHANGED book
     ELSE \E o \in Orders :
            Enter(o, "live", scan[s].market, scan[s].side, scan[s].spend, "none", "none")
  /\ Returns(s)
  /\ UNCHANGED <<highWater, clock, journal, lock>>

(* One leg of a box, at a cost that leaves the other legs theirs: no check of  *)
(* an active entry here, only the index, by side.                              *)
InsertsLeg(s, leg, cost) ==
  /\ scan[s].step = "fit" /\ leg \in scan[s].box
  /\ cost \in 1 .. scan[s].spend /\ (cost = scan[s].spend => scan[s].box = {leg})
  /\ ~Taken("live", leg[1], leg[2])
  /\ \E o \in Orders :
       LET group == IF scan[s].group = "none" THEN o ELSE scan[s].group IN
       /\ Enter(o, "live", leg[1], leg[2], cost, "none", group)
       /\ IF scan[s].box = {leg}
          THEN Returns(s)
          ELSE /\ scan' = [scan EXCEPT ![s].box = @ \ {leg}, ![s].spend = @ - cost,
                                        ![s].group = group]
               /\ UNCHANGED read
  /\ UNCHANGED <<highWater, clock, journal, lock>>

(* A leg is refused or an error ends the box: what was entered is closed again *)
(* if it can be, and the scan goes on.                                         *)
BoxFails(s) ==
  /\ scan[s].step = "fit" /\ scan[s].box # {}
  /\ Returns(s)
  /\ UNCHANGED <<book, highWater, clock, journal, lock>>

LiveEnds(s) ==
  /\ scan[s].step = "pick"
  /\ Stops(s)
  /\ UNCHANGED <<book, highWater, clock, journal>>

-----------------------------------------------------------------------------
(* A research scan. *)

ResearchBegins(s) ==
  /\ scan[s].step = "idle" /\ "research" \in profiles
  /\ Held(s)
  /\ scan' = [scan EXCEPT ![s].step = "plan", ![s].day = civil]
  /\ UNCHANGED <<book, highWater, clock, journal, read>>

\* Mutant: a batch leaves what an earlier scan left pending.
KeptPending == evidence

(* record_research_decision_batch: whatever an earlier scan left pending is    *)
(* abandoned, and the candidates of this one are pending.                      *)
Abandoned ==
  [d \in Decisions |-> IF evidence[d].state = "pending"
                       THEN [evidence[d] EXCEPT !.state = "abandoned"] ELSE evidence[d]]

Batch(s, new, offer, spend) ==
  /\ \A d, e \in new : offer[d] = offer[e] => d = e
  /\ evidence' = [d \in Decisions |->
       IF d \in new
       THEN [state |-> "pending", market |-> offer[d][1], side |-> offer[d][2],
             spend |-> spend[d], context |-> contexts + 1]
       ELSE Abandoned[d]]
  /\ scan' = [scan EXCEPT ![s].step = "admit", ![s].todo = new]

Batches(s) ==
  /\ scan[s].step = "plan" /\ contexts < MaxContexts
  /\ \E new \in SUBSET {d \in Decisions : evidence[d].state = "none"} :
       \E offer \in [new -> Offers], spend \in [new -> Spends] : Batch(s, new, offer, spend)
  /\ contexts' = contexts + 1
  /\ UNCHANGED <<book, highWater, clock, lock, read>>

Decided(d, state) == evidence' = [evidence EXCEPT ![d].state = state] /\ UNCHANGED contexts
Handles(s, d) == scan[s].step = "admit" /\ d \in scan[s].todo
Handled(s, d) == scan' = [scan EXCEPT ![s].step = "admit", ![s].todo = @ \ {d}, ![s].decision = "none"]

(* ResearchEntryLimitError: the objective day has turned since the scan began, *)
(* or the station's day has, or the candidate is over its own entry limit.     *)
Refused(s, d) ==
  /\ Handles(s, d)
  /\ scan' = [scan EXCEPT ![s].step = "refused", ![s].decision = d]
  /\ UNCHANGED <<book, highWater, clock, journal, lock, read>>

(* mark_research_decision_admission_blocked, in a transaction of its own.      *)
Marks(s) ==
  LET d == scan[s].decision IN
  /\ scan[s].step = "refused"
  /\ IF evidence[d].state = "pending" THEN Decided(d, "blocked") ELSE UNCHANGED journal
  /\ Handled(s, d)
  /\ UNCHANGED <<book, highWater, clock, lock, read>>

(* The evidence is not pending any more: the exception ends the scan.          *)
Loses(s, d) ==
  /\ Handles(s, d) /\ scan[s].day = civil
  /\ evidence[d].state # "pending"
  /\ Stops(s)
  /\ UNCHANGED <<book, highWater, clock, journal>>

Admits(s, d) ==
  LET e == evidence[d]
      admitted == TargetFits(e.market, e.spend) /\ ~Taken("target", e.market, e.side)
  IN
  /\ Handles(s, d) /\ scan[s].day = civil
  /\ e.state = "pending"
  /\ IF admitted
     THEN /\ \E o \in Orders : Enter(o, "target", e.market, e.side, e.spend, d, "none")
          /\ Decided(d, "approved")
     ELSE UNCHANGED book /\ Decided(d, "blocked")
  /\ Handled(s, d)
  /\ UNCHANGED <<highWater, clock, lock, read>>

ResearchEnds(s) ==
  /\ scan[s].step = "admit" /\ scan[s].todo = {}
  /\ Stops(s)
  /\ UNCHANGED <<book, highWater, clock, journal>>

(* A kill, or a lock of the database that outlasts its retries.                *)
Dies(s) ==
  /\ scan[s].step # "idle"
  /\ Stops(s)
  /\ UNCHANGED <<book, highWater, clock, journal>>

-----------------------------------------------------------------------------
(* What the monitor and the settlement do to an order meanwhile. *)

Fills(o, q) ==
  /\ q \in 1 .. order[o].reserved
  /\ order' = [order EXCEPT ![o].open = @ + q, ![o].reserved = @ - q]
  /\ UNCHANGED <<cash, today, highWater, clock, journal, lock, scan, read>>

Expires(o) ==
  /\ order[o].reserved > 0
  /\ order' = [order EXCEPT ![o].reserved = 0]
  /\ cash' = [cash EXCEPT ![order[o].account] = @ + order[o].reserved]
  /\ UNCHANGED <<today, highWater, clock, journal, lock, scan, read>>

(* A close, in whole or part, or the settlement; either releases what is still *)
(* reserved.                                                                   *)
Closes(o, q, pnl) ==
  LET a == order[o].account IN
  /\ q \in 1 .. order[o].open /\ pnl >= -q
  /\ order' = [order EXCEPT ![o].open = @ - q, ![o].reserved = 0]
  /\ cash' = [cash EXCEPT ![a] = @ + order[o].reserved + q + pnl]
  /\ today' = [today EXCEPT ![a] = @ + pnl]
  /\ UNCHANGED <<highWater, clock, journal, lock, scan, read>>

(* Live days turn at midnight PST, objective days at Pacific midnight.         *)
LiveDayTurns ==
  /\ today' = [today EXCEPT !["live"] = 0]
  /\ UNCHANGED <<order, cash, highWater, clock, journal, lock, scan, read>>

ObjectiveDayTurns ==
  /\ civil < MaxDay
  /\ civil' = civil + 1 /\ today' = [today EXCEPT !["target"] = 0]
  /\ UNCHANGED <<order, cash, highWater, profiles, journal, lock, scan, read>>

-----------------------------------------------------------------------------
LiveStep(s) ==
  \/ LiveBegins(s) \/ ReadsState(s) \/ ReadsRows(s) \/ Inserts(s) \/ LiveEnds(s)
  \/ \E m \in Markets, side \in Sides : Picks(s, m, side)
  \/ \E box \in Boxes : PicksBox(s, box)
  \/ \E leg \in Markets \X Sides, cost \in 1 .. Capital : InsertsLeg(s, leg, cost)
  \/ BoxFails(s)

ResearchStep(s) ==
  \/ ResearchBegins(s) \/ Batches(s) \/ Marks(s) \/ ResearchEnds(s)
  \/ \E d \in Decisions : Refused(s, d) \/ Loses(s, d) \/ Admits(s, d)

World ==
  \/ \E o \in Orders :
       \/ Expires(o)
       \/ \E q \in 1 .. Capital : Fills(o, q) \/ \E pnl \in Profits : Closes(o, q, pnl)
  \/ LiveDayTurns \/ ObjectiveDayTurns

Next == World \/ \E s \in Scanners : LiveStep(s) \/ ResearchStep(s) \/ Dies(s)

Spec == Init /\ [][Next]_vars

-----------------------------------------------------------------------------
OrderRow == [account : Accounts \cup {"none"}, market : Markets, side : Sides,
             open : Nat, reserved : Nat, decision : Decisions \cup {"none"},
             group : Orders \cup {"none"}]
EvidenceRow == [state : {"none", "pending", "approved", "blocked", "abandoned"},
                market : Markets, side : Sides, spend : Nat, context : Nat]
ScanRow == [step : {"idle", "pick", "picked", "state", "fit", "plan", "admit", "refused"},
            market : Markets, side : Sides, spend : Nat, day : Nat, todo : SUBSET Decisions,
            decision : Decisions \cup {"none"}, box : SUBSET (Markets \X Sides),
            group : Orders \cup {"none"}]

(* The variables stay in their types (highWater and read, which hold sums over *)
(* the rows, have theirs in MoneyInv of AdmissionTape_proofs).                 *)
TypeOK ==
  /\ order \in [Orders -> OrderRow]
  /\ cash \in [Accounts -> Int] /\ today \in [Accounts -> Int]
  /\ civil \in Nat
  /\ evidence \in [Decisions -> EvidenceRow] /\ contexts \in Nat
  /\ profiles \in Settings
  /\ lock \in Scripts \cup {"free"}
  /\ scan \in [Scanners -> ScanRow]

(* The target account stays within its limits in every scope and never pays    *)
(* with money it does not have, whoever scans beside whom: the capacity and    *)
(* the insert of record_research_order_atomic are one transaction.             *)
TargetWithinLimits ==
  /\ cash["target"] >= 0
  /\ \A c \in Scopes, m \in Markets : Risk("target", Peers[c][m]) <= TargetCap[c]

(* The live account's risk stays within its shares of the highest equity its   *)
(* scans have seen, and its cash is never negative, although state, rows and   *)
(* insert of an entry are three transactions: closes and expiries in between   *)
(* only make room, and the scan lock keeps other entries out.                  *)
LiveWithinLimits ==
  /\ cash["live"] >= 0
  /\ \A c \in Scopes, m \in Markets :
       100 * Risk("live", Peers[c][m]) <= LivePct[c] * highWater

(* Two active entries of the live account in one market are the two sides of   *)
(* one arbitrage box: no entry of its own ever joins another, and no box joins *)
(* what is there (paper.py:931 and 1196); the index alone, which has the side, *)
(* would let them.                                                             *)
OneLivePosition ==
  \A o, p \in Orders :
    /\ order[o].account = "live" /\ order[p].account = "live" /\ o # p
    /\ order[o].market = order[p].market /\ Active(o) /\ Active(p)
    => /\ order[o].group = order[p].group /\ order[o].group # "none"
       /\ order[o].side # order[p].side

(* Evidence is approved exactly if one order was entered on it, for the market *)
(* and side it was recorded for, and what is pending belongs to the newest     *)
(* batch: no order is ever entered on the evidence of a scan that another has  *)
(* overtaken or that was killed.                                               *)
EvidenceMatchesOrders ==
  /\ \A d \in Decisions :
       /\ evidence[d].state = "approved" <=> \E o \in Orders : order[o].decision = d
       /\ evidence[d].state = "pending" => evidence[d].context = contexts
  /\ \A o \in Orders : order[o].decision # "none" =>
       /\ order[o].account = "target"
       /\ order[o].market = evidence[order[o].decision].market
       /\ order[o].side = evidence[order[o].decision].side
       /\ \A p \in Orders : order[p].decision = order[o].decision => p = o
================================================================================

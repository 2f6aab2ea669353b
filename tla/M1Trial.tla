-------------------------------- MODULE M1Trial --------------------------------
(***************************************************************************)
(* The M1 market-recalibration trial: hourly samples of day-ahead legs,     *)
(* admission of the first crossing of each leg to the trial's own account,  *)
(* stop rules that halt it for good, and the daily reconciliation that      *)
(* replays a complete UTC day and compares it with the orders of that day.  *)
(*                                                                         *)
(* A scan stamps its work with the hour its quotes were read and then goes  *)
(* on at its own pace: it samples every leg in one transaction and admits   *)
(* each candidate in one of its own.  The settle timer's pass reads the     *)
(* same tables meanwhile, each query on its own snapshot.  Either may fail  *)
(* or be killed between two steps.                                          *)
(*                                                                         *)
(* One scan runs at a time (the lock of run_paper_scan_profiles.sh).  The   *)
(* rule of a leg is a choice, made once per sample; every entry has stake   *)
(* one and is later won or lost.  Caps, cash, the daily pause and the       *)
(* account's status may refuse any entry.  An order carries its sample's    *)
(* quote, so its price, spread and lead are those the rule passed; the two  *)
(* shadow arms and the truth table are written and never read back here.    *)
(* Merged steps: the pass's first stop rules with the list of days, the     *)
(* premise check with the report it goes into, and the fidelity rule of the *)
(* last day with the closing stop rules; each writes halts only.            *)
(***************************************************************************)
EXTENDS Integers, FiniteSets, FiniteSetsExt

CONSTANTS
    Legs,           \* (target date, market, side)
    Targets,        \* target dates, numbers
    TargetOf,       \* the target date of a leg
    DayAhead,       \* the hours in which a target is the next civil day
    HoursPerDay,    \* of the UTC day
    MaxHour,        \* bound: the clock stops here
    LossStop,       \* cumulative_loss_stop, in lost stakes
    FutilityMin,    \* futility_min_entries
    FutilityLoss,   \* futility_max_roi, in percent lost
    FinalEntries,   \* final_read_entries
    FinalDays,      \* final_read_trading_days
    FailureLimit,   \* fidelity_weekly_failures
    WindowDays,     \* fidelity_window_days
    Batch,          \* RECONCILIATION_LOOKBACK_DAYS
    MaxFaults       \* bound: kills and errors

Hours == 0 .. MaxHour
Day(h) == h \div HoursPerDay
Days == 0 .. Day(MaxHour)

ASSUME ClockAssumption == HoursPerDay \in Nat \ {0} /\ MaxHour \in Nat
ASSUME LegAssumption ==
    IsFiniteSet(Legs) /\ TargetOf \in [Legs -> Targets] /\ Targets \subseteq Nat
ASSUME WindowAssumption == \A t \in Targets : DayAhead[t] \subseteq Hours
ASSUME RuleAssumption ==
    /\ LossStop \in Nat \ {0} /\ FutilityMin \in Nat /\ FutilityLoss \in Nat
    /\ FinalEntries \in Nat \ {0} /\ FinalDays \in Nat \ {0}
    /\ FailureLimit \in Nat \ {0} /\ WindowDays \in Nat \ {0}
    /\ Batch \in Nat \ {0} /\ MaxFaults \in Nat

VARIABLES
    hour,       \* the clock, in UTC hours
    sample,     \* m1_evaluations: one row per leg and UTC hour
    order,      \* the root order of each leg
    halts,      \* stop rules with an M1_HALT event
    scan,       \* the research scan under way
    pass,       \* the settle timer's reconciling pass
    report,     \* m1_reconciliations: one row per UTC day
    faults

vars == <<hour, sample, order, halts, scan, pass, report, faults>>

-----------------------------------------------------------------------------
(* Rows. *)

(* A row of m1_evaluations: what was decided, and whether the leg passed     *)
(* with placement off.                                                       *)
NoSample == [decision |-> "none", shadow |-> FALSE]
Passes(row) == row.decision \notin {"none", "rejected"}
NoOrder == [hour |-> 0, state |-> "none"]
NoScan == [pc |-> "idle", target |-> 0, quoted |-> 0, place |-> FALSE, todo |-> {}]
NoPass == [pc |-> "idle", now |-> 0, todo |-> {}, day |-> 0,
           rows |-> [l \in Legs |-> [h \in Hours |-> NoSample]],
           raced |-> FALSE, found |-> [matched |-> {}, failed |-> {}, missed |-> {}]]
NoReport == [done |-> FALSE, raced |-> FALSE, matched |-> {}, failed |-> {}, missed |-> {}]

Init ==
    /\ hour = 0
    /\ sample = [l \in Legs |-> [h \in Hours |-> NoSample]]
    /\ order = [l \in Legs |-> NoOrder]
    /\ halts = {}
    /\ scan = NoScan
    /\ pass = NoPass
    /\ report = [d \in Days |-> NoReport]
    /\ faults = 0

Entered == {l \in Legs : order[l].state # "none"}
TradingDays == {TargetOf[l] : l \in Entered}

(* Legs whose first passing sample was taken with placement off.            *)
ShadowCrossed ==
    {l \in Legs : \E h \in Hours : sample[l][h].shadow}

-----------------------------------------------------------------------------
(* Stop rules. *)

Won == {l \in Legs : order[l].state = "won"}
Lost == {l \in Legs : order[l].state = "lost"}
Realized == Cardinality(Won) - Cardinality(Lost)
LossReached == Realized <= -LossStop

(* At admission: a target already traded may finish its entries.            *)
FinalRead(l) ==
    \/ Cardinality(Entered) >= FinalEntries
    \/ Cardinality(TradingDays) >= FinalDays /\ TargetOf[l] \notin TradingDays

(* At maintenance: the last trading day's day-ahead hours are over.         *)
HorizonOver(now) ==
    /\ Cardinality(TradingDays) >= FinalDays
    /\ \A h \in DayAhead[Max(TradingDays)] : h < now

StopRules(now) ==
    (IF LossReached THEN {"loss_stop"} ELSE {})
    \cup (IF /\ Cardinality(Won \cup Lost) >= FutilityMin
             /\ Won \cup Lost # {}
             /\ 100 * Realized <= -FutilityLoss * Cardinality(Won \cup Lost)
          THEN {"futility"} ELSE {})
    \cup (IF Cardinality(Entered) >= FinalEntries \/ HorizonOver(now)
          THEN {"final_read"} ELSE {})

-----------------------------------------------------------------------------
(* The clock and settlement. *)

Tick ==
    /\ hour < MaxHour
    /\ hour' = hour + 1
    /\ UNCHANGED <<sample, order, halts, scan, pass, report, faults>>

(* The target's own day has passed too.                                     *)
Over(t) == \A h \in DayAhead[t] : h + HoursPerDay < hour

(* paper-auto-settle resolves what is held of a target.                     *)
Settle(t) ==
    LET held == {l \in Legs : TargetOf[l] = t /\ order[l].state = "open"}
    IN  /\ held # {}
        /\ Over(t)
        /\ \E won \in SUBSET held :
              order' = [l \in Legs |->
                          IF l \notin held THEN order[l]
                          ELSE [order[l] EXCEPT
                                  !.state = IF l \in won THEN "won" ELSE "lost"]]
        /\ UNCHANGED <<hour, sample, halts, scan, pass, report, faults>>

-----------------------------------------------------------------------------
(* The scan. *)

(* A scan that would find every leg sampled in its hour changes nothing.    *)
BeginScan(t, place) ==
    /\ scan.pc = "idle"
    /\ hour \in DayAhead[t]
    /\ \E l \in Legs : TargetOf[l] = t /\ sample[l][hour].decision = "none"
    /\ scan' = [pc |-> "quoted", target |-> t, quoted |-> hour, place |-> place, todo |-> {}]
    /\ UNCHANGED <<hour, sample, order, halts, pass, report, faults>>

\* Mutant: a crossing recorded in shadow mode is forgotten.
DecisionForgettingShadow(l, passes) ==
    CASE ~passes -> "rejected"
      [] passes /\ l \in Entered -> "already_entered"
      [] passes /\ l \notin Entered /\ halts # {} -> "halted"
      [] OTHER -> IF scan.place THEN "pending" ELSE "shadow"

Decision(l, passes) ==
    CASE ~passes -> "rejected"
      [] passes /\ l \in Entered -> "already_entered"
      [] passes /\ l \in ShadowCrossed \ Entered -> "already_crossed"
      [] passes /\ l \notin Entered \cup ShadowCrossed /\ halts # {} -> "halted"
      [] OTHER -> IF scan.place THEN "pending" ELSE "shadow"

(* The legs of the target that have no row in this UTC hour yet.            *)
Fresh == {l \in Legs : /\ TargetOf[l] = scan.target
                       /\ sample[l][scan.quoted].decision = "none"}

Sample ==
    /\ scan.pc = "quoted"
    /\ \E passing \in SUBSET Fresh :
          LET row == [l \in Fresh |-> [decision |-> Decision(l, l \in passing),
                                       shadow |-> l \in passing /\ ~scan.place]]
              todo == {l \in Fresh : row[l].decision = "pending"}
          IN  /\ sample' = [l \in Legs |->
                              IF l \in Fresh
                              THEN [sample[l] EXCEPT ![scan.quoted] = row[l]]
                              ELSE sample[l]]
              /\ scan' = IF todo = {} THEN NoScan
                         ELSE [scan EXCEPT !.pc = "admitting", !.todo = todo]
    /\ UNCHANGED <<hour, order, halts, pass, report, faults>>

\* Mutant: the limits are left to the maintenance pass.
DueAtMaintenance(l) == {}

(* The stop rule that admission itself finds due.                           *)
Due(l) == IF LossReached THEN {"loss_stop"}
          ELSE IF FinalRead(l) THEN {"final_read"} ELSE {}

\* Mutant: the halts read when the leg was sampled are enough.
HaltedBySample(l) == Due(l) # {}

Halted(l) == halts # {} \/ Due(l) # {}

Advance(l) == IF scan.todo = {l} THEN NoScan ELSE [scan EXCEPT !.todo = @ \ {l}]

Outcome(l, decision) ==
    sample' = [sample EXCEPT ![l][scan.quoted].decision = decision]

AdmissionHalted(l) ==
    /\ scan.pc = "admitting" /\ l \in scan.todo
    /\ Halted(l)
    /\ halts' = IF halts = {} THEN Due(l) ELSE halts
    /\ Outcome(l, "halted")
    /\ scan' = Advance(l)
    /\ UNCHANGED <<hour, order, pass, report, faults>>

(* The account is not active, which is asked before the halts, or a cap, the *)
(* daily pause or the cash refuses the entry.                               *)
AdmissionBlocked(l) ==
    /\ scan.pc = "admitting" /\ l \in scan.todo
    /\ \E decision \in {"account_blocked"}
                          \cup (IF l \in Entered /\ ~Halted(l) THEN {"already_entered"} ELSE {}) :
          Outcome(l, decision)
    /\ scan' = Advance(l)
    /\ UNCHANGED <<hour, order, halts, pass, report, faults>>

Enter(l) ==
    /\ scan.pc = "admitting" /\ l \in scan.todo
    /\ ~Halted(l)
    /\ l \notin Entered
    /\ order' = [order EXCEPT ![l] = [hour |-> scan.quoted, state |-> "open"]]
    /\ Outcome(l, "entered")
    /\ scan' = Advance(l)
    /\ UNCHANGED <<hour, halts, pass, report, faults>>

(* An admission raises: this candidate and every later one are marked, or   *)
(* stay pending when the marking fails too.                                 *)
AdmissionRaises ==
    /\ scan.pc = "admitting"
    /\ faults < MaxFaults
    /\ faults' = faults + 1
    /\ \/ sample' = [l \in Legs |->
                       IF l \in scan.todo
                       THEN [sample[l] EXCEPT ![scan.quoted].decision = "admission_error"]
                       ELSE sample[l]]
       \/ UNCHANGED sample
    /\ scan' = NoScan
    /\ UNCHANGED <<hour, order, halts, pass, report>>

ScanKilled ==
    /\ scan.pc # "idle"
    /\ faults < MaxFaults
    /\ faults' = faults + 1
    /\ scan' = NoScan
    /\ UNCHANGED <<hour, sample, order, halts, pass, report>>

-----------------------------------------------------------------------------
(* The replay of one UTC day. *)

HoursOf(d) == {h \in Hours : Day(h) = d}

\* Mutant: a row left pending by a killed scan counts as the leg's entry.
AccountLevelButPending == {"account_blocked", "halted", "admission_error"}

(* Outcomes the replay takes as given: no order exists and the leg stays    *)
(* eligible.                                                                *)
AccountLevel == {"account_blocked", "halted", "admission_error", "pending"}

Crossing(row) == Passes(row) /\ (row.shadow \/ row.decision \notin AccountLevel)

EnteredBefore(d) == {l \in Entered : Day(order[l].hour) < d}
CrossedBefore(d) ==
    EnteredBefore(d)
    \cup {l \in Legs : \E h \in Hours :
             Day(h) < d /\ sample[l][h].shadow}

(* The hour the leg's first crossing of the day implies an entry for.       *)
Expected(rows, d, l) ==
    {h \in HoursOf(d) :
        /\ Crossing(rows[l][h]) /\ ~rows[l][h].shadow
        /\ \A g \in HoursOf(d) : g < h => ~Crossing(rows[l][g])}

EntriesOf(d) == {l \in Entered : Day(order[l].hour) = d}

(* match_entries: an order is matched by the replayed hour of its leg.      *)
Match(rows, d) ==
    LET implied == [l \in Legs |-> IF l \in CrossedBefore(d) THEN {}
                                   ELSE Expected(rows, d, l)]
        matched == {l \in EntriesOf(d) : order[l].hour \in implied[l]}
    IN  [matched |-> matched,
         failed |-> EntriesOf(d) \ matched,
         missed |-> {l \in Legs \ EntriesOf(d) : implied[l] # {}}]

-----------------------------------------------------------------------------
(* The reconciling passes. *)

Sampled == {d \in Days : \E l \in Legs, h \in HoursOf(d) : sample[l][h].decision # "none"}

(* Complete days since the first sample that have no report, oldest first.  *)
Backlog(now) ==
    {d \in Days : /\ d < Day(now) /\ ~report[d].done
                  /\ \E first \in Sampled : first <= d}

\* Mutant: each pass looks at yesterday only.
Yesterday(now) == {d \in Backlog(now) : d = Day(now) - 1}

Pending(now) ==
    {d \in Backlog(now) : Cardinality({e \in Backlog(now) : e < d}) < Batch}

(* run_m1_settle_maintenance: the stop rules, then the days to do.  With    *)
(* none the rules are all it does.                                          *)
PassBegins ==
    /\ pass.pc = "idle"
    /\ halts' = halts \cup StopRules(hour)
    /\ pass' = IF Pending(hour) = {} THEN pass
               ELSE [NoPass EXCEPT !.pc = "rows", !.now = hour, !.todo = Pending(hour)]
    /\ UNCHANGED <<hour, sample, order, scan, report, faults>>

(* raced is not in the code: a scan that read its quotes on that day is     *)
(* still at work.                                                           *)
ReadRows ==
    /\ pass.pc = "rows"
    /\ \E d \in pass.todo :
          /\ \A e \in pass.todo : d <= e
          /\ pass' = [pass EXCEPT !.day = d, !.rows = sample, !.pc = "orders",
                        !.raced = scan.pc # "idle" /\ Day(scan.quoted) = d]
    /\ UNCHANGED <<hour, sample, order, halts, scan, report, faults>>

ReadOrders ==
    /\ pass.pc = "orders"
    /\ pass' = [pass EXCEPT !.found = Match(pass.rows, pass.day),
                            !.rows = NoPass.rows, !.pc = "record"]
    /\ UNCHANGED <<hour, sample, order, halts, scan, report, faults>>

(* With the last day: the slope over the settled targets it sampled may     *)
(* have fallen too low.                                                     *)
Premise ==
    IF /\ pass.todo = {pass.day}
       /\ \E l \in Legs, h \in Hours :
             sample[l][h].decision # "none" /\ Over(TargetOf[l])
    THEN {{}, {"premise"}} ELSE {{}}

(* INSERT OR IGNORE: the first report of a day stands.                      *)
Record ==
    /\ pass.pc = "record"
    /\ \E rule \in Premise : halts' = halts \cup rule
    /\ report' = [report EXCEPT ![pass.day] =
                    IF @.done THEN @
                    ELSE [done |-> TRUE, raced |-> pass.raced,
                          matched |-> pass.found.matched,
                          failed |-> pass.found.failed,
                          missed |-> pass.found.missed]]
    /\ pass' = [pass EXCEPT !.pc = "fidelity", !.found = NoPass.found]
    /\ UNCHANGED <<hour, sample, order, scan, faults>>

\* Mutant: only the day itself is looked at.
WindowOfOne(d) == {d}

Window(d) == {e \in Days : e <= d /\ e > d - WindowDays}

FailuresTo(d) == MapThenSumSet(LAMBDA e : Cardinality(report[e].failed), Window(d))

Fidelity == IF FailuresTo(pass.day) >= FailureLimit THEN {"fidelity"} ELSE {}

ApplyFidelity ==
    /\ pass.pc = "fidelity"
    /\ pass.todo # {pass.day}
    /\ halts' = halts \cup Fidelity
    /\ pass' = [pass EXCEPT !.pc = "rows", !.todo = @ \ {pass.day}]
    /\ UNCHANGED <<hour, sample, order, scan, report, faults>>

(* After the last day the pass applies the stop rules once more, as of the  *)
(* time it began.                                                           *)
ApplyFidelityLast ==
    /\ pass.pc = "fidelity"
    /\ pass.todo = {pass.day}
    /\ halts' = halts \cup Fidelity \cup StopRules(pass.now)
    /\ pass' = NoPass
    /\ UNCHANGED <<hour, sample, order, scan, report, faults>>

PassDies ==
    /\ pass.pc # "idle"
    /\ faults < MaxFaults
    /\ faults' = faults + 1
    /\ pass' = NoPass
    /\ UNCHANGED <<hour, sample, order, halts, scan, report>>

-----------------------------------------------------------------------------
Scan ==
    \/ \E t \in Targets, place \in BOOLEAN : BeginScan(t, place)
    \/ Sample
    \/ \E l \in Legs : AdmissionHalted(l) \/ AdmissionBlocked(l) \/ Enter(l)
    \/ AdmissionRaises
    \/ ScanKilled

Reconcile == ReadRows \/ ReadOrders \/ Record \/ ApplyFidelity \/ ApplyFidelityLast

Next ==
    \/ Tick
    \/ \E t \in Targets : Settle(t)
    \/ Scan
    \/ PassBegins
    \/ Reconcile
    \/ PassDies

Spec == Init /\ [][Next]_vars

(* The timers: the clock goes on and the settle timer's pass goes through,  *)
(* faults excepted.                                                         *)
FairSpec ==
    /\ Spec
    /\ WF_vars(Tick)
    /\ WF_vars(PassBegins)
    /\ WF_vars(Reconcile)

-----------------------------------------------------------------------------
(* Properties. *)

Decisions == {"none", "rejected", "already_entered", "already_crossed", "halted", "pending",
              "shadow", "account_blocked", "entered", "admission_error"}
Rows == [Legs -> [Hours -> [decision : Decisions, shadow : BOOLEAN]]]
Matches == [matched : SUBSET Legs, failed : SUBSET Legs, missed : SUBSET Legs]
Rules == {"loss_stop", "futility", "premise", "final_read", "fidelity"}

\* Every variable has its type, and a scan at work admits only rows it left
\* pending.
TypeOK ==
    /\ hour \in Hours
    /\ sample \in Rows
    /\ order \in [Legs -> [hour : Hours, state : {"none", "open", "won", "lost"}]]
    /\ halts \subseteq Rules
    /\ scan \in [pc : {"idle", "quoted", "admitting"}, target : Targets \cup {0},
                 quoted : Hours, place : BOOLEAN, todo : SUBSET Legs]
    /\ pass \in [pc : {"idle", "rows", "orders", "record", "fidelity"},
                 now : Hours, todo : SUBSET Days, day : Days, rows : Rows,
                 raced : BOOLEAN, found : Matches]
    /\ report \in [Days -> [done : BOOLEAN, raced : BOOLEAN, matched : SUBSET Legs,
                            failed : SUBSET Legs, missed : SUBSET Legs]]
    /\ faults \in 0 .. MaxFaults
    /\ \A l \in scan.todo : sample[l][scan.quoted].decision = "pending"

\* A recorded halt stops entries at once, those of legs sampled before it
\* included: admission reads the halts again in its own transaction.
HaltStopsEntries == [][halts # {} => Entered' = Entered]_vars

\* The final read is never overrun, although the candidates of a scan were all
\* sampled before the first of them was entered.
FinalReadBounds ==
    /\ Cardinality(Entered) <= FinalEntries
    /\ Cardinality(TradingDays) <= FinalDays

\* A leg whose first crossing was recorded in shadow mode is never entered later,
\* however placement is switched and whatever scans die in between.
ShadowCrossingsStay ==
    \A l \in Entered, h \in Hours :
        sample[l][h].shadow => order[l].hour < h

\* The replay agrees with what the trial did: unless a scan of that day was still
\* at work when it was reconciled, a day's report matches every order of the day
\* and neither fails nor misses one, whatever scans and passes died before.
FaithfulReports ==
    \A d \in Days :
        report[d].done /\ ~report[d].raced =>
            /\ report[d].failed = {}
            /\ report[d].missed = {}
            /\ report[d].matched = EntriesOf(d)

\* A backlog drains: every complete day since the first sample gets its report.
EveryDayReconciled ==
    \A d \in Days :
        d < Day(MaxHour) =>
            ((\E first \in Sampled : first <= d) ~> report[d].done)

\* A pass that dies between a report and the fidelity rule loses no alarm: the
\* next day's window still holds it.
AlarmHalts ==
    \A d \in Days :
        d + 1 < Day(MaxHour) =>
            ((Cardinality(report[d].failed) >= FailureLimit /\ ~report[d + 1].done)
                ~> "fidelity" \in halts)

=============================================================================

---------------------------- MODULE M1Trial_proofs ----------------------------
(***************************************************************************)
(* What M1Trial promises, for any legs, targets, limits and UTC day.        *)
(*                                                                         *)
(* A stop rule ends the entries, the final read is not overrun, a crossing  *)
(* seen in shadow mode is never entered later, and the replay of a day      *)
(* agrees with its orders unless a scan of that day was still at work.  The *)
(* invariant says which rows can imply an entry: a row that crosses is in   *)
(* shadow, is the entry itself, or lies after one of the two.               *)
(***************************************************************************)
EXTENDS M1Trial, FiniteSetTheorems, TLAPS

-----------------------------------------------------------------------------
(* The inductive invariant. *)

(* No scan that read its quotes on day d is at work, or ever will be.       *)
Quiet(d) == d < Day(hour) /\ (scan.pc # "idle" => Day(scan.quoted) # d)

Agrees(d, found) ==
    found.failed = {} /\ found.missed = {} /\ found.matched = EntriesOf(d)

RowsInv ==
    /\ scan.pc # "idle" => scan.quoted <= hour
    /\ \A l \in Legs, h \in Hours :
          /\ sample[l][h].decision # "none" =>
                h <= hour /\ (scan.pc # "idle" => h <= scan.quoted)
          /\ sample[l][h].shadow =>
                sample[l][h].decision \notin {"none", "rejected", "pending", "entered"}

OrdersInv ==
    \A l \in Legs, h \in Hours :
       /\ sample[l][h].decision = "entered" => l \in Entered /\ order[l].hour = h
       /\ l \in Entered /\ order[l].hour = h => sample[l][h].decision = "entered"
       /\ l \in Entered /\ h < order[l].hour => ~Crossing(sample[l][h])

CrossInv ==
    \A l \in Legs, h \in Hours :
       Crossing(sample[l][h]) =>
          \/ sample[l][h].shadow
          \/ sample[l][h].decision = "entered"
          \/ l \in Entered /\ order[l].hour < h
          \/ \E g \in Hours : g < h /\ sample[l][g].shadow

TodoInv ==
    \A l \in scan.todo :
       /\ scan.pc = "admitting"
       /\ l \notin Entered
       /\ \A h \in Hours : ~sample[l][h].shadow

BookInv == RowsInv /\ OrdersInv /\ CrossInv /\ TodoInv

PassInv ==
    /\ \A d \in pass.todo : d < Day(hour)
    /\ pass.pc \in {"orders", "record"} /\ ~pass.raced => Quiet(pass.day)
    /\ pass.pc = "orders" /\ ~pass.raced =>
          \A l \in Legs, h \in Hours :
              Day(h) = pass.day => pass.rows[l][h] = sample[l][h]
    /\ pass.pc = "record" /\ ~pass.raced => Agrees(pass.day, pass.found)

ReportInv ==
    \A d \in Days :
       report[d].done /\ ~report[d].raced => Quiet(d) /\ Agrees(d, report[d])

IInv == TypeOK /\ BookInv /\ PassInv /\ ReportInv

-----------------------------------------------------------------------------
(* Days. *)

LEMMA DayType == \A h \in Nat : Day(h) \in Nat
BY ClockAssumption DEF Day

LEMMA DayGrows == ASSUME NEW g \in Nat, NEW h \in Nat, g <= h PROVE Day(g) <= Day(h)
<1>1. Day(g) \in Int /\ Day(h) \in Int
  BY ClockAssumption, SMT DEF Day
<1>2. g = HoursPerDay * Day(g) + (g % HoursPerDay) /\ 0 <= g % HoursPerDay
  BY ClockAssumption, SMT DEF Day
<1>3. h = HoursPerDay * Day(h) + (h % HoursPerDay) /\ h % HoursPerDay < HoursPerDay
  BY ClockAssumption, SMT DEF Day
<1>4. SUFFICES ASSUME Day(h) + 1 <= Day(g) PROVE FALSE
  BY <1>1, SMT
<1>5. \A x, y, n \in Int : n > 0 /\ x + 1 <= y => n * x + n <= n * y
  BY SMTT(30)
<1>6. HoursPerDay * Day(h) + HoursPerDay <= HoursPerDay * Day(g)
  BY <1>1, <1>4, <1>5, ClockAssumption, SMT
<1> QED
  BY <1>1, <1>2, <1>3, <1>6, ClockAssumption, SMT

LEMMA HourOrder ==
    /\ \A h \in Hours : h \in Nat /\ Day(h) \in Days
    /\ \A g, h \in Hours : Day(g) < Day(h) => g < h
    /\ \A g, h \in Hours : g <= h => Day(g) <= Day(h)
    /\ Days \subseteq Nat /\ 0 \in Days /\ 0 \in Hours
<1>1. Hours \subseteq Nat /\ 0 \in Hours /\ MaxHour \in Hours
  BY ClockAssumption DEF Hours
<1>2. \A g, h \in Hours : g <= h => Day(g) <= Day(h)
  BY <1>1, DayGrows
<1>3. \A h \in Hours : Day(h) \in Nat /\ h <= MaxHour
  BY <1>1, DayType, ClockAssumption DEF Hours
<1>4. Days \subseteq Nat /\ 0 \in Days
  BY <1>1, <1>3 DEF Days
<1>5. \A h \in Hours : Day(h) \in Days
  BY <1>1, <1>2, <1>3 DEF Days
<1>6. \A g, h \in Hours : Day(g) < Day(h) => g < h
  BY <1>1, <1>2, <1>3
<1> QED
  BY <1>1, <1>2, <1>4, <1>5, <1>6

-----------------------------------------------------------------------------
(* What the steps of a scan write. *)

(* Legs L get decision dec on their row of the scan's hour.                 *)
Marked(L, dec) ==
    \A l \in Legs, h \in Hours :
       sample'[l][h] = IF l \in L /\ h = scan.quoted
                       THEN [decision |-> dec, shadow |-> sample[l][h].shadow]
                       ELSE sample[l][h]

LEMMA OutcomeMarks ==
    ASSUME TypeOK, NEW l \in Legs, NEW dec \in Decisions, Outcome(l, dec)
    PROVE  sample' \in Rows /\ Marked({l}, dec)
<1> DEFINE row == [decision |-> dec, shadow |-> sample[l][scan.quoted].shadow]
<1>1. /\ sample \in [Legs -> [Hours -> [decision : Decisions, shadow : BOOLEAN]]]
      /\ scan.quoted \in Hours
  BY DEF TypeOK, Rows
<1>2. /\ row \in [decision : Decisions, shadow : BOOLEAN]
      /\ [sample[l][scan.quoted] EXCEPT !.decision = dec] = row
  BY <1>1
<1> HIDE DEF row
<1>3. sample' = [sample EXCEPT ![l] = [sample[l] EXCEPT ![scan.quoted] = row]]
  BY <1>1, <1>2 DEF Outcome
<1>4. [sample[l] EXCEPT ![scan.quoted] = row] \in [Hours -> [decision : Decisions, shadow : BOOLEAN]]
  BY <1>1, <1>2
<1>5. sample' \in Rows
  BY <1>1, <1>3, <1>4 DEF Rows
<1>6. ASSUME NEW k \in Legs, NEW h \in Hours
      PROVE  sample'[k][h] = IF k \in {l} /\ h = scan.quoted THEN row ELSE sample[k][h]
  BY <1>1, <1>3
<1> QED
  BY <1>5, <1>6 DEF Marked, row

LEMMA RaisesMarks ==
    ASSUME TypeOK,
           sample' = [l \in Legs |->
                       IF l \in scan.todo
                       THEN [sample[l] EXCEPT ![scan.quoted].decision = "admission_error"]
                       ELSE sample[l]]
    PROVE  sample' \in Rows /\ Marked(scan.todo, "admission_error")
<1>1. /\ sample \in [Legs -> [Hours -> [decision : Decisions, shadow : BOOLEAN]]]
      /\ scan.quoted \in Hours /\ "admission_error" \in Decisions
  BY DEF TypeOK, Rows, Decisions
<1>2. ASSUME NEW l \in Legs
      PROVE  /\ sample'[l] \in [Hours -> [decision : Decisions, shadow : BOOLEAN]]
             /\ \A h \in Hours :
                  sample'[l][h] = IF l \in scan.todo /\ h = scan.quoted
                       THEN [decision |-> "admission_error", shadow |-> sample[l][h].shadow]
                       ELSE sample[l][h]
  <2> DEFINE row == [decision |-> "admission_error", shadow |-> sample[l][scan.quoted].shadow]
  <2>1. /\ row \in [decision : Decisions, shadow : BOOLEAN]
        /\ [sample[l][scan.quoted] EXCEPT !.decision = "admission_error"] = row
    BY <1>1
  <2> HIDE DEF row
  <2>2. sample'[l] = IF l \in scan.todo THEN [sample[l] EXCEPT ![scan.quoted] = row] ELSE sample[l]
    BY <2>1
  <2> QED
    BY <1>1, <2>1, <2>2 DEF row
<1> QED
  BY <1>2 DEF Rows, Marked

(* One row per fresh leg, in the hour the quotes were read.                 *)
LEMMA SampleWrites ==
    ASSUME TypeOK, Sample
    PROVE  \E passing \in SUBSET Fresh :
             LET new(l) == [decision |-> Decision(l, l \in passing),
                            shadow |-> l \in passing /\ ~scan.place]
                 todo == {l \in Fresh : Decision(l, l \in passing) = "pending"}
             IN  /\ sample' \in Rows
                 /\ \A l \in Legs, h \in Hours :
                       sample'[l][h] = IF l \in Fresh /\ h = scan.quoted
                                       THEN new(l) ELSE sample[l][h]
                 /\ scan' = IF todo = {} THEN NoScan
                            ELSE [scan EXCEPT !.pc = "admitting", !.todo = todo]
<1>1. PICK passing \in SUBSET Fresh :
          LET row == [l \in Fresh |-> [decision |-> Decision(l, l \in passing),
                                       shadow |-> l \in passing /\ ~scan.place]]
              todo == {l \in Fresh : row[l].decision = "pending"}
          IN  /\ sample' = [l \in Legs |->
                              IF l \in Fresh
                              THEN [sample[l] EXCEPT ![scan.quoted] = row[l]]
                              ELSE sample[l]]
              /\ scan' = IF todo = {} THEN NoScan
                         ELSE [scan EXCEPT !.pc = "admitting", !.todo = todo]
  BY DEF Sample
<1> DEFINE new(l) == [decision |-> Decision(l, l \in passing),
                      shadow |-> l \in passing /\ ~scan.place]
           row == [l \in Fresh |-> new(l)]
           todo == {l \in Fresh : Decision(l, l \in passing) = "pending"}
<1>2. /\ sample \in [Legs -> [Hours -> [decision : Decisions, shadow : BOOLEAN]]]
      /\ scan.quoted \in Hours /\ scan.place \in BOOLEAN
  BY DEF TypeOK, Rows
<1>3. \A l \in Fresh : Decision(l, l \in passing) \in Decisions
  BY <1>2 DEF Decision, Decisions
<1>4. \A l \in Fresh : row[l] = new(l) /\ new(l) \in [decision : Decisions, shadow : BOOLEAN]
  BY <1>2, <1>3
<1>5. {l \in Fresh : row[l].decision = "pending"} = todo
  OBVIOUS
<1>6. \A l \in Legs : sample'[l] = IF l \in Fresh
                              THEN [sample[l] EXCEPT ![scan.quoted] = row[l]]
                              ELSE sample[l]
  BY <1>1
<1> HIDE DEF row, new
<1>7. ASSUME NEW l \in Legs
      PROVE  /\ sample'[l] \in [Hours -> [decision : Decisions, shadow : BOOLEAN]]
             /\ \A h \in Hours : sample'[l][h] = IF l \in Fresh /\ h = scan.quoted
                                                 THEN new(l) ELSE sample[l][h]
  <2>1. CASE l \in Fresh
    <3>1. sample'[l] = [sample[l] EXCEPT ![scan.quoted] = new(l)]
      BY <1>4, <1>6, <2>1
    <3>2. new(l) \in [decision : Decisions, shadow : BOOLEAN]
      BY <1>4, <2>1
    <3> QED
      BY <1>2, <2>1, <3>1, <3>2
  <2>2. CASE l \notin Fresh
    BY <1>2, <1>6, <2>2
  <2> QED
    BY <2>1, <2>2
<1>8. sample' \in Rows
  BY <1>1, <1>7 DEF Rows
<1>9. \A l \in Legs, h \in Hours :
          sample'[l][h] = IF l \in Fresh /\ h = scan.quoted THEN new(l) ELSE sample[l][h]
  BY <1>7
<1>10. scan' = IF todo = {} THEN NoScan ELSE [scan EXCEPT !.pc = "admitting", !.todo = todo]
  BY <1>1, <1>5 DEF row, new
<1> QED
  BY <1>8, <1>9, <1>10 DEF new

-----------------------------------------------------------------------------
(* Types. *)

LEMMA NoScanType ==
    /\ NoScan \in [pc : {"idle", "quoted", "admitting"}, target : Targets \cup {0},
                   quoted : Hours, place : BOOLEAN, todo : SUBSET Legs]
    /\ NoScan.todo = {} /\ NoScan.pc = "idle"
BY HourOrder DEF NoScan

LEMMA NoPassType ==
    /\ NoPass \in [pc : {"idle", "rows", "orders", "record", "fidelity"},
                   now : Hours, todo : SUBSET Days, day : Days, rows : Rows,
                   raced : BOOLEAN, found : Matches]
    /\ NoPass.pc = "idle" /\ NoPass.todo = {}
<1>1. [l \in Legs |-> [h \in Hours |-> NoSample]] \in Rows
  BY DEF Rows, NoSample, Decisions
<1>2. [matched |-> {}, failed |-> {}, missed |-> {}] \in Matches
  BY DEF Matches
<1> QED
  BY <1>1, <1>2, HourOrder DEF NoPass

LEMMA StopRulesType == \A now : StopRules(now) \subseteq Rules
BY DEF StopRules, Rules

LEMMA DueType == \A l : Due(l) \subseteq Rules
BY DEF Due, Rules

LEMMA MatchType == ASSUME NEW rows, NEW d PROVE Match(rows, d) \in Matches
BY DEF Match, Matches, EntriesOf, Entered

LEMMA InitType == Init => TypeOK
<1> SUFFICES ASSUME Init PROVE TypeOK
  OBVIOUS
<1>1. sample \in Rows
  BY DEF Init, Rows, NoSample, Decisions
<1>2. order \in [Legs -> [hour : Hours, state : {"none", "open", "won", "lost"}]]
  BY HourOrder DEF Init, NoOrder
<1>3. report \in [Days -> [done : BOOLEAN, raced : BOOLEAN, matched : SUBSET Legs,
                           failed : SUBSET Legs, missed : SUBSET Legs]]
  BY DEF Init, NoReport
<1>4. /\ scan = NoScan /\ pass = NoPass /\ hour \in Hours /\ halts \subseteq Rules
      /\ faults \in 0 .. MaxFaults
  BY HourOrder, RuleAssumption DEF Init
<1> QED
  BY <1>1, <1>2, <1>3, <1>4, NoScanType, NoPassType DEF TypeOK

LEMMA SettleType == ASSUME TypeOK, NEW t \in Targets, Settle(t) PROVE TypeOK'
<1>1. order' \in [Legs -> [hour : Hours, state : {"none", "open", "won", "lost"}]]
  <2> DEFINE held == {l \in Legs : TargetOf[l] = t /\ order[l].state = "open"}
  <2>1. PICK won \in SUBSET held :
              order' = [l \in Legs |->
                          IF l \notin held THEN order[l]
                          ELSE [order[l] EXCEPT
                                  !.state = IF l \in won THEN "won" ELSE "lost"]]
    BY DEF Settle
  <2>2. ASSUME NEW l \in Legs
        PROVE  order'[l] \in [hour : Hours, state : {"none", "open", "won", "lost"}]
    <3>1. order[l] \in [hour : Hours, state : {"none", "open", "won", "lost"}]
      BY DEF TypeOK
    <3>2. order'[l] = IF l \notin held THEN order[l]
                      ELSE [order[l] EXCEPT !.state = IF l \in won THEN "won" ELSE "lost"]
      BY <2>1
    <3> HIDE DEF held
    <3> QED
      BY <3>1, <3>2
  <2> HIDE DEF held
  <2> QED
    BY <2>1, <2>2
<1> QED
  BY <1>1 DEF TypeOK, Settle

LEMMA BeginScanType ==
    ASSUME TypeOK, NEW t \in Targets, NEW place \in BOOLEAN, BeginScan(t, place)
    PROVE  TypeOK'
BY DEF TypeOK, BeginScan

LEMMA SampleType == ASSUME TypeOK, Sample PROVE TypeOK'
<1>1. PICK passing \in SUBSET Fresh :
        LET new(l) == [decision |-> Decision(l, l \in passing),
                       shadow |-> l \in passing /\ ~scan.place]
            todo == {l \in Fresh : Decision(l, l \in passing) = "pending"}
        IN  /\ sample' \in Rows
            /\ \A l \in Legs, h \in Hours :
                  sample'[l][h] = IF l \in Fresh /\ h = scan.quoted THEN new(l) ELSE sample[l][h]
            /\ scan' = IF todo = {} THEN NoScan
                       ELSE [scan EXCEPT !.pc = "admitting", !.todo = todo]
  BY SampleWrites
<1> DEFINE todo == {l \in Fresh : Decision(l, l \in passing) = "pending"}
<1>2. scan.quoted \in Hours /\ Fresh \subseteq Legs
  BY DEF TypeOK, Fresh
<1>3. ASSUME NEW l \in todo PROVE sample'[l][scan.quoted].decision = "pending"
  <2>1. l \in Fresh /\ l \in Legs /\ Decision(l, l \in passing) = "pending"
    BY <1>2
  <2>2. sample'[l][scan.quoted] = [decision |-> Decision(l, l \in passing),
                                   shadow |-> l \in passing /\ ~scan.place]
    BY <1>1, <1>2, <2>1
  <2> QED
    BY <2>1, <2>2
<1>4. /\ scan' = IF todo = {} THEN NoScan ELSE [scan EXCEPT !.pc = "admitting", !.todo = todo]
      /\ todo \in SUBSET Legs
  BY <1>1, <1>2
<1> HIDE DEF todo
<1>5. /\ scan' \in [pc : {"idle", "quoted", "admitting"}, target : Targets \cup {0},
                    quoted : Hours, place : BOOLEAN, todo : SUBSET Legs]
      /\ \A l \in scan'.todo : sample'[l][scan'.quoted].decision = "pending"
  BY <1>3, <1>4, NoScanType DEF TypeOK
<1> QED
  BY <1>1, <1>5 DEF TypeOK, Sample

(* One candidate has its outcome: the rest of the list is pending still.    *)
LEMMA OutcomeType ==
    ASSUME TypeOK, NEW l \in scan.todo, NEW dec \in Decisions, Outcome(l, dec),
           scan' = Advance(l)
    PROVE  /\ sample' \in Rows
           /\ scan' \in [pc : {"idle", "quoted", "admitting"}, target : Targets \cup {0},
                         quoted : Hours, place : BOOLEAN, todo : SUBSET Legs]
           /\ \A k \in scan'.todo : sample'[k][scan'.quoted].decision = "pending"
<1>1. l \in Legs /\ scan.quoted \in Hours /\ scan.todo \subseteq Legs
  BY DEF TypeOK
<1>2. sample' \in Rows /\ Marked({l}, dec)
  BY <1>1, OutcomeMarks
<1>3. CASE scan.todo = {l}
  BY <1>2, <1>3, NoScanType DEF Advance
<1>4. CASE scan.todo # {l}
  <2>1. /\ scan' \in [pc : {"idle", "quoted", "admitting"}, target : Targets \cup {0},
                      quoted : Hours, place : BOOLEAN, todo : SUBSET Legs]
        /\ scan'.todo = scan.todo \ {l} /\ scan'.quoted = scan.quoted
    BY <1>4 DEF Advance, TypeOK
  <2>2. ASSUME NEW k \in scan.todo, k # l
        PROVE  sample'[k][scan.quoted].decision = "pending"
    <3>1. sample'[k][scan.quoted] = sample[k][scan.quoted]
      BY <1>1, <1>2, <2>2 DEF Marked
    <3> QED
      BY <3>1 DEF TypeOK
  <2> QED
    BY <1>2, <2>1, <2>2
<1> QED
  BY <1>3, <1>4

LEMMA AdmissionType ==
    ASSUME TypeOK, NEW l \in Legs, AdmissionHalted(l) \/ AdmissionBlocked(l) \/ Enter(l)
    PROVE  TypeOK'
<1>1. CASE AdmissionHalted(l)
  <2>1. Outcome(l, "halted") /\ scan' = Advance(l) /\ l \in scan.todo /\ "halted" \in Decisions
    BY <1>1 DEF AdmissionHalted, Decisions
  <2>2. halts' \subseteq Rules
    BY <1>1, DueType DEF AdmissionHalted, TypeOK
  <2> QED
    BY <1>1, <2>1, <2>2, OutcomeType DEF AdmissionHalted, TypeOK
<1>2. CASE AdmissionBlocked(l)
  <2>1. PICK dec \in {"account_blocked", "already_entered"} : Outcome(l, dec)
    BY <1>2 DEF AdmissionBlocked
  <2>2. dec \in Decisions /\ scan' = Advance(l) /\ l \in scan.todo
    BY <1>2 DEF AdmissionBlocked, Decisions
  <2> QED
    BY <1>2, <2>1, <2>2, OutcomeType DEF AdmissionBlocked, TypeOK
<1>3. CASE Enter(l)
  <2>1. Outcome(l, "entered") /\ scan' = Advance(l) /\ l \in scan.todo /\ "entered" \in Decisions
    BY <1>3 DEF Enter, Decisions
  <2>2. order' \in [Legs -> [hour : Hours, state : {"none", "open", "won", "lost"}]]
    BY <1>3 DEF Enter, TypeOK
  <2> QED
    BY <1>3, <2>1, <2>2, OutcomeType DEF Enter, TypeOK
<1> QED
  BY <1>1, <1>2, <1>3

LEMMA ScanFaultType == ASSUME TypeOK, AdmissionRaises \/ ScanKilled PROVE TypeOK'
<1>1. faults' \in 0 .. MaxFaults /\ scan' = NoScan
  BY RuleAssumption DEF AdmissionRaises, ScanKilled, TypeOK
<1>2. sample' \in Rows
  BY RaisesMarks DEF AdmissionRaises, ScanKilled, TypeOK
<1> QED
  BY <1>1, <1>2, NoScanType DEF AdmissionRaises, ScanKilled, TypeOK

LEMMA PassType ==
    ASSUME TypeOK, PassBegins \/ ReadRows \/ ReadOrders \/ ApplyFidelity \/ ApplyFidelityLast
    PROVE  TypeOK'
<1> DEFINE Passing == [pc : {"idle", "rows", "orders", "record", "fidelity"},
                       now : Hours, todo : SUBSET Days, day : Days, rows : Rows,
                       raced : BOOLEAN, found : Matches]
<1>1. CASE PassBegins
  <2>1. halts' \subseteq Rules
    BY <1>1, StopRulesType DEF PassBegins, TypeOK
  <2>2. Pending(hour) \subseteq Days
    BY DEF Pending, Backlog
  <2>3. [NoPass EXCEPT !.pc = "rows", !.now = hour, !.todo = Pending(hour)] \in Passing
    BY <2>2, NoPassType DEF TypeOK
  <2> QED
    BY <1>1, <2>1, <2>3 DEF PassBegins, TypeOK
<1>2. CASE ReadRows
  BY <1>2 DEF ReadRows, TypeOK
<1>3. CASE ReadOrders
  BY <1>3, MatchType, NoPassType DEF ReadOrders, TypeOK
<1>4. CASE ApplyFidelity
  BY <1>4 DEF ApplyFidelity, Fidelity, Rules, TypeOK
<1>5. CASE ApplyFidelityLast
  BY <1>5, StopRulesType, NoPassType DEF ApplyFidelityLast, Fidelity, Rules, TypeOK
<1> QED
  BY <1>1, <1>2, <1>3, <1>4, <1>5

LEMMA RecordType == ASSUME TypeOK, Record PROVE TypeOK'
<1>1. halts' \subseteq Rules
  BY DEF Record, Premise, TypeOK, Rules
<1>2. pass' = [pass EXCEPT !.pc = "fidelity", !.found = NoPass.found]
  BY DEF Record
<1>3. pass' \in [pc : {"idle", "rows", "orders", "record", "fidelity"},
                 now : Hours, todo : SUBSET Days, day : Days, rows : Rows,
                 raced : BOOLEAN, found : Matches]
  BY <1>2, NoPassType DEF TypeOK
<1>4. pass.found \in Matches /\ pass.raced \in BOOLEAN
  BY DEF TypeOK
<1>5. [done |-> TRUE, raced |-> pass.raced, matched |-> pass.found.matched,
       failed |-> pass.found.failed, missed |-> pass.found.missed]
        \in [done : BOOLEAN, raced : BOOLEAN, matched : SUBSET Legs,
             failed : SUBSET Legs, missed : SUBSET Legs]
  BY <1>4 DEF Matches
<1>6. report' \in [Days -> [done : BOOLEAN, raced : BOOLEAN, matched : SUBSET Legs,
                            failed : SUBSET Legs, missed : SUBSET Legs]]
  BY <1>5 DEF Record, TypeOK
<1> QED
  BY <1>1, <1>3, <1>6 DEF Record, TypeOK

LEMMA NextType == ASSUME TypeOK, [Next]_vars PROVE TypeOK'
<1>1. CASE Tick
  BY <1>1, ClockAssumption DEF Tick, TypeOK, Hours
<1>2. CASE \E t \in Targets : Settle(t)
  BY <1>2, SettleType
<1>3. CASE Scan
  BY <1>3, BeginScanType, SampleType, AdmissionType, ScanFaultType DEF Scan
<1>4. CASE PassBegins \/ Reconcile
  BY <1>4, PassType, RecordType DEF Reconcile
<1>5. CASE PassDies
  BY <1>5, NoPassType, RuleAssumption DEF PassDies, TypeOK
<1>6. CASE UNCHANGED vars
  BY <1>6 DEF vars, TypeOK
<1> QED
  BY <1>1, <1>2, <1>3, <1>4, <1>5, <1>6 DEF Next

-----------------------------------------------------------------------------
(* The trial's rows and orders, through every step.                         *)

LEMMA InitBook == Init => BookInv
<1> SUFFICES ASSUME Init PROVE BookInv
  OBVIOUS
<1>1. \A l \in Legs, h \in Hours : sample[l][h] = [decision |-> "none", shadow |-> FALSE]
  BY DEF Init, NoSample
<1>2. Entered = {} /\ scan.pc = "idle" /\ scan.todo = {}
  BY NoScanType DEF Init, Entered, NoOrder
<1> QED
  BY <1>1, <1>2 DEF BookInv, RowsInv, OrdersInv, CrossInv, TodoInv, Crossing, Passes

LEMMA SettleKeeps ==
    ASSUME TypeOK, NEW t \in Targets, Settle(t)
    PROVE  Entered' = Entered /\ \A l \in Legs : order'[l].hour = order[l].hour
<1>1. PICK won :
        order' = [l \in Legs |->
                    IF l \notin {k \in Legs : TargetOf[k] = t /\ order[k].state = "open"}
                    THEN order[l]
                    ELSE [order[l] EXCEPT !.state = IF l \in won THEN "won" ELSE "lost"]]
  BY DEF Settle
<1>2. ASSUME NEW l \in Legs
      PROVE  /\ order'[l].hour = order[l].hour
             /\ order'[l].state = "none" <=> order[l].state = "none"
  <2>1. order[l] \in [hour : Hours, state : {"none", "open", "won", "lost"}]
    BY DEF TypeOK
  <2>2. CASE TargetOf[l] = t /\ order[l].state = "open"
    BY <1>1, <2>1, <2>2
  <2>3. CASE ~(TargetOf[l] = t /\ order[l].state = "open")
    BY <1>1, <2>3
  <2> QED
    BY <2>2, <2>3
<1> QED
  BY <1>2 DEF Entered

(* Steps that leave rows, scan and the hours of the orders alone.           *)
LEMMA BookAges ==
    ASSUME TypeOK, BookInv, hour' \in Hours, hour <= hour', UNCHANGED <<sample, scan>>,
           Entered' = Entered, \A l \in Legs : order'[l].hour = order[l].hour
    PROVE  BookInv'
<1>1. scan.quoted \in Nat /\ hour \in Nat /\ hour' \in Nat /\ Hours \subseteq Nat
  BY HourOrder DEF TypeOK
<1>2. RowsInv'
  <2>1. scan'.pc # "idle" => scan'.quoted <= hour'
    BY <1>1 DEF BookInv, RowsInv
  <2>2. ASSUME NEW l \in Legs, NEW h \in Hours, sample'[l][h].decision # "none"
        PROVE  h <= hour' /\ (scan'.pc # "idle" => h <= scan'.quoted)
    <3>1. h <= hour /\ (scan.pc # "idle" => h <= scan.quoted) /\ h \in Nat
      BY <1>1, <2>2 DEF BookInv, RowsInv
    <3>2. h <= hour'
      BY <1>1, <3>1
    <3> QED
      BY <3>1, <3>2
  <2> QED
    BY <2>1, <2>2 DEF BookInv, RowsInv
<1>3. OrdersInv'
  BY DEF BookInv, OrdersInv, Crossing, Passes, AccountLevel
<1>4. CrossInv'
  BY DEF BookInv, CrossInv, Crossing, Passes, AccountLevel
<1>5. TodoInv'
  BY DEF BookInv, TodoInv
<1> QED
  BY <1>2, <1>3, <1>4, <1>5 DEF BookInv

LEMMA BeginScanBook ==
    ASSUME TypeOK, BookInv, NEW t \in Targets, NEW place \in BOOLEAN, BeginScan(t, place)
    PROVE  BookInv'
<1>1. /\ scan' = [pc |-> "quoted", target |-> t, quoted |-> hour, place |-> place, todo |-> {}]
      /\ UNCHANGED <<hour, sample, order>> /\ hour \in Nat
  BY HourOrder DEF BeginScan, TypeOK
<1>2. Entered' = Entered
  BY <1>1 DEF Entered
<1>3. RowsInv'
  BY <1>1 DEF BookInv, RowsInv
<1>4. OrdersInv' /\ CrossInv'
  BY <1>1, <1>2 DEF BookInv, OrdersInv, CrossInv, Crossing, Passes, AccountLevel
<1>5. TodoInv'
  BY <1>1 DEF TodoInv
<1> QED
  BY <1>3, <1>4, <1>5 DEF BookInv

(* A scan's later moments: it goes on with what is left of its list, or     *)
(* ends.                                                                    *)
GoesOn ==
    \/ scan' = NoScan
    \/ /\ scan'.pc = scan.pc /\ scan'.quoted = scan.quoted
       /\ scan'.todo \subseteq scan.todo

LEMMA AdvanceGoesOn ==
    ASSUME TypeOK, NEW l, scan' = Advance(l)
    PROVE  GoesOn /\ l \notin scan'.todo
BY NoScanType DEF GoesOn, Advance, TypeOK

(* Candidates that get no order: none of their rows can cross.              *)
LEMMA MarkedBook ==
    ASSUME TypeOK, BookInv, NEW L \in SUBSET scan.todo,
           NEW dec \in {"halted", "account_blocked", "admission_error"},
           Marked(L, dec), GoesOn, UNCHANGED <<hour, order>>
    PROVE  BookInv'
<1>1. /\ scan.quoted \in Hours /\ Hours \subseteq Nat /\ Entered' = Entered
      /\ scan.todo \subseteq Legs
      /\ \A l \in L : sample[l][scan.quoted].decision = "pending"
  BY HourOrder DEF TypeOK, Entered
<1>2. ASSUME NEW l \in Legs, NEW h \in Hours
      PROVE  /\ sample'[l][h].shadow = sample[l][h].shadow
             /\ \/ sample'[l][h].decision = sample[l][h].decision
                \/ /\ sample[l][h].decision = "pending"
                   /\ sample'[l][h].decision = dec
             /\ Crossing(sample[l][h]) <=> Crossing(sample'[l][h])
  <2>1. CASE l \in L /\ h = scan.quoted
    <3>1. sample'[l][h] = [decision |-> dec, shadow |-> sample[l][h].shadow]
      BY <2>1 DEF Marked
    <3>2. sample[l][h].decision = "pending" /\ ~sample[l][h].shadow
      BY <1>1, <2>1 DEF BookInv, TodoInv
    <3> QED
      BY <3>1, <3>2 DEF Crossing, Passes, AccountLevel
  <2>2. CASE ~(l \in L /\ h = scan.quoted)
    <3>1. sample'[l][h] = sample[l][h]
      BY <2>2 DEF Marked
    <3> QED
      BY <3>1
  <2> QED
    BY <2>1, <2>2
<1>3. /\ scan'.pc # "idle" => scan.pc # "idle" /\ scan'.quoted = scan.quoted
      /\ scan'.todo \subseteq scan.todo
      /\ scan'.todo # {} => scan'.pc = scan.pc
  BY NoScanType DEF GoesOn
<1>4. RowsInv'
  <2>1. scan'.pc # "idle" => scan'.quoted <= hour'
    BY <1>3 DEF BookInv, RowsInv
  <2>2. ASSUME NEW l \in Legs, NEW h \in Hours, sample'[l][h].decision # "none"
        PROVE  h <= hour' /\ (scan'.pc # "idle" => h <= scan'.quoted)
    <3>1. sample[l][h].decision # "none"
      BY <1>2, <2>2
    <3> QED
      BY <1>3, <3>1 DEF BookInv, RowsInv
  <2>3. ASSUME NEW l \in Legs, NEW h \in Hours, sample'[l][h].shadow
        PROVE  sample'[l][h].decision \notin {"none", "rejected", "pending", "entered"}
    <3>1. sample[l][h].shadow
      BY <1>2, <2>3
    <3> QED
      BY <1>2, <3>1 DEF BookInv, RowsInv
  <2> QED
    BY <2>1, <2>2, <2>3 DEF RowsInv
<1>5. OrdersInv'
  <2> SUFFICES ASSUME NEW l \in Legs, NEW h \in Hours
               PROVE  /\ sample'[l][h].decision = "entered" => l \in Entered /\ order[l].hour = h
                      /\ l \in Entered /\ order[l].hour = h => sample'[l][h].decision = "entered"
                      /\ l \in Entered /\ h < order[l].hour => ~Crossing(sample'[l][h])
    BY <1>1 DEF OrdersInv, Crossing, Passes, AccountLevel
  <2> QED
    BY <1>2 DEF BookInv, OrdersInv
<1>6. CrossInv'
  <2> SUFFICES ASSUME NEW l \in Legs, NEW h \in Hours, Crossing(sample'[l][h])
               PROVE  \/ sample'[l][h].shadow
                      \/ sample'[l][h].decision = "entered"
                      \/ l \in Entered /\ order[l].hour < h
                      \/ \E g \in Hours : g < h /\ sample'[l][g].shadow
    BY <1>1 DEF CrossInv, Crossing, Passes, AccountLevel
  <2>1. \/ sample[l][h].shadow
        \/ sample[l][h].decision = "entered"
        \/ l \in Entered /\ order[l].hour < h
        \/ \E g \in Hours : g < h /\ sample[l][g].shadow
    BY <1>2 DEF BookInv, CrossInv
  <2> QED
    BY <1>2, <2>1
<1>7. TodoInv'
  BY <1>1, <1>2, <1>3 DEF BookInv, TodoInv
<1> QED
  BY <1>4, <1>5, <1>6, <1>7 DEF BookInv

(* A candidate enters: nothing of its leg crossed before.                   *)
LEMMA EnterBook == ASSUME TypeOK, BookInv, NEW l \in Legs, Enter(l) PROVE BookInv'
<1> DEFINE q == scan.quoted
<1>1. /\ l \in scan.todo /\ l \notin Entered /\ q \in Hours /\ Hours \subseteq Nat
      /\ order' = [order EXCEPT ![l] = [hour |-> q, state |-> "open"]]
      /\ hour' = hour /\ scan' = Advance(l) /\ Outcome(l, "entered") /\ "entered" \in Decisions
  BY HourOrder DEF Enter, TypeOK, Decisions
<1>2. Marked({l}, "entered") /\ GoesOn /\ l \notin scan'.todo
  BY <1>1, OutcomeMarks, AdvanceGoesOn
<1>3. /\ \A k \in Legs : k # l => order'[k] = order[k]
      /\ order'[l] = [hour |-> q, state |-> "open"]
  BY <1>1 DEF TypeOK
<1>4. Entered' = Entered \cup {l}
  BY <1>3 DEF Entered
<1>5. /\ scan.pc = "admitting" /\ sample[l][q].decision = "pending"
      /\ \A h \in Hours : ~sample[l][h].shadow
  BY <1>1 DEF BookInv, TodoInv, TypeOK
<1>6. /\ sample'[l][q] = [decision |-> "entered", shadow |-> FALSE]
      /\ \A k \in Legs, h \in Hours : k # l \/ h # q => sample'[k][h] = sample[k][h]
  <2>1. sample[l][q].shadow \in BOOLEAN
    <3>1. sample \in [Legs -> [Hours -> [decision : Decisions, shadow : BOOLEAN]]]
      BY DEF TypeOK, Rows
    <3>2. sample[l][q] \in [decision : Decisions, shadow : BOOLEAN]
      BY <1>1, <3>1
    <3> QED
      BY <3>2
  <2>2. sample'[l][q] = [decision |-> "entered", shadow |-> sample[l][q].shadow]
    BY <1>1, <1>2 DEF Marked
  <2>3. sample[l][q].shadow = FALSE
    BY <1>1, <1>5, <2>1
  <2> QED
    BY <1>1, <1>2, <2>2, <2>3 DEF Marked
<1>7. \A h \in Hours : ~Crossing(sample[l][h])
  <2> SUFFICES ASSUME NEW h \in Hours, Crossing(sample[l][h]) PROVE FALSE
    OBVIOUS
  <2>1. sample[l][h].decision = "entered"
    BY <1>1, <1>5 DEF BookInv, CrossInv
  <2> QED
    BY <1>1, <2>1 DEF BookInv, OrdersInv
<1>8. /\ scan'.pc # "idle" => scan'.quoted = q
      /\ scan'.todo \subseteq scan.todo
      /\ scan'.todo # {} => scan'.pc = "admitting"
  BY <1>2, <1>5, NoScanType DEF GoesOn
<1>9. RowsInv'
  <2>1. scan'.pc # "idle" => scan'.quoted <= hour'
    BY <1>1, <1>5, <1>8 DEF BookInv, RowsInv
  <2>2. ASSUME NEW k \in Legs, NEW h \in Hours, sample'[k][h].decision # "none"
        PROVE  h <= hour' /\ (scan'.pc # "idle" => h <= scan'.quoted)
    <3>1. sample[k][h].decision # "none"
      BY <1>5, <1>6, <2>2
    <3> QED
      BY <1>1, <1>5, <1>8, <3>1 DEF BookInv, RowsInv
  <2>3. ASSUME NEW k \in Legs, NEW h \in Hours, sample'[k][h].shadow
        PROVE  sample'[k][h].decision \notin {"none", "rejected", "pending", "entered"}
    <3>1. k # l \/ h # q
      BY <1>6, <2>3
    <3> QED
      BY <1>6, <2>3, <3>1 DEF BookInv, RowsInv
  <2> QED
    BY <2>1, <2>2, <2>3 DEF RowsInv
<1>10. OrdersInv'
  <2> SUFFICES ASSUME NEW k \in Legs, NEW h \in Hours
      PROVE  /\ sample'[k][h].decision = "entered" => k \in Entered' /\ order'[k].hour = h
             /\ k \in Entered' /\ order'[k].hour = h => sample'[k][h].decision = "entered"
             /\ k \in Entered' /\ h < order'[k].hour => ~Crossing(sample'[k][h])
    BY DEF OrdersInv, Crossing, Passes, AccountLevel
  <2>1. CASE k # l
    BY <1>3, <1>4, <1>6, <2>1 DEF BookInv, OrdersInv
  <2>2. CASE k = l /\ h = q
    BY <1>1, <1>3, <1>4, <1>6, <2>2
  <2>3. CASE k = l /\ h # q
    <3>1. sample'[l][h] = sample[l][h] /\ order'[l].hour = q /\ ~Crossing(sample[l][h])
      BY <1>3, <1>6, <1>7, <2>3
    <3>2. sample[l][h].decision # "entered"
      BY <1>1 DEF BookInv, OrdersInv
    <3> QED
      BY <2>3, <3>1, <3>2
  <2> QED
    BY <2>1, <2>2, <2>3
<1>11. CrossInv'
  <2> SUFFICES ASSUME NEW k \in Legs, NEW h \in Hours, Crossing(sample'[k][h])
               PROVE  \/ sample'[k][h].shadow
                      \/ sample'[k][h].decision = "entered"
                      \/ k \in Entered' /\ order'[k].hour < h
                      \/ \E g \in Hours : g < h /\ sample'[k][g].shadow
    BY DEF CrossInv, Crossing, Passes, AccountLevel
  <2>1. CASE k # l
    <3>1. /\ \A g \in Hours : sample'[k][g] = sample[k][g]
          /\ order'[k] = order[k] /\ (k \in Entered' <=> k \in Entered)
      BY <1>3, <1>4, <1>6, <2>1
    <3>2. Crossing(sample[k][h])
      BY <3>1
    <3> QED
      BY <3>1, <3>2 DEF BookInv, CrossInv
  <2>2. CASE k = l /\ h # q
    BY <1>6, <1>7, <2>2
  <2>3. CASE k = l /\ h = q
    BY <1>6, <2>3
  <2> QED
    BY <2>1, <2>2, <2>3
<1>12. TodoInv'
  <2> SUFFICES ASSUME NEW k \in scan'.todo
               PROVE  scan'.pc = "admitting" /\ k \notin Entered' /\ \A h \in Hours : ~sample'[k][h].shadow
    BY DEF TodoInv
  <2>1. k # l /\ k \in scan.todo /\ k \in Legs
    BY <1>2, <1>8 DEF TypeOK
  <2> QED
    BY <1>4, <1>6, <1>8, <2>1 DEF BookInv, TodoInv
<1> QED
  BY <1>9, <1>10, <1>11, <1>12 DEF BookInv

(* The sample transaction: a new row that crosses is in shadow, or follows  *)
(* the leg's entry or a crossing in shadow.                                 *)
LEMMA SampleBook == ASSUME TypeOK, BookInv, Sample PROVE BookInv'
<1> DEFINE q == scan.quoted
<1>1. PICK passing \in SUBSET Fresh :
        LET new(l) == [decision |-> Decision(l, l \in passing),
                       shadow |-> l \in passing /\ ~scan.place]
            todo == {l \in Fresh : Decision(l, l \in passing) = "pending"}
        IN  /\ sample' \in Rows
            /\ \A l \in Legs, h \in Hours :
                  sample'[l][h] = IF l \in Fresh /\ h = scan.quoted THEN new(l) ELSE sample[l][h]
            /\ scan' = IF todo = {} THEN NoScan
                       ELSE [scan EXCEPT !.pc = "admitting", !.todo = todo]
  BY SampleWrites
<1> DEFINE todo == {l \in Fresh : Decision(l, l \in passing) = "pending"}
<1>2. /\ q \in Hours /\ Hours \subseteq Nat /\ scan.place \in BOOLEAN /\ scan.pc = "quoted"
      /\ UNCHANGED <<hour, order>> /\ Entered' = Entered /\ q <= hour
      /\ Fresh \subseteq Legs /\ \A l \in Fresh : sample[l][q].decision = "none"
      /\ \A l \in Entered : order[l].hour \in Hours
  BY HourOrder DEF TypeOK, Sample, Fresh, Entered, BookInv, RowsInv
<1>3. \A l \in Legs, h \in Hours : ~(l \in Fresh /\ h = q) => sample'[l][h] = sample[l][h]
  BY <1>1
<1>4. /\ scan'.todo = todo
      /\ scan'.pc # "idle" => scan'.quoted = q
      /\ todo # {} => scan'.pc = "admitting"
  BY <1>1, <1>2, NoScanType DEF TypeOK
<1>5. ASSUME NEW l \in Fresh
      PROVE  /\ sample'[l][q].decision = Decision(l, l \in passing)
             /\ sample'[l][q].shadow <=> l \in passing /\ ~scan.place
             /\ l \in Entered => order[l].hour < q
             /\ l \in ShadowCrossed => \E g \in Hours : g < q /\ sample[l][g].shadow
  <2>1. sample'[l][q] = [decision |-> Decision(l, l \in passing),
                         shadow |-> l \in passing /\ ~scan.place]
    BY <1>1, <1>2
  <2>2. \A g \in Hours : sample[l][g].decision # "none" => g < q
    <3> SUFFICES ASSUME NEW g \in Hours, sample[l][g].decision # "none" PROVE g < q
      OBVIOUS
    <3>1. g <= q /\ g # q /\ g \in Nat /\ q \in Nat
      BY <1>2 DEF BookInv, RowsInv
    <3> QED
      BY <3>1
  <2>3. l \in Entered => order[l].hour < q
    BY <1>2, <2>2 DEF BookInv, OrdersInv
  <2>4. l \in ShadowCrossed => \E g \in Hours : g < q /\ sample[l][g].shadow
    BY <1>2, <2>2 DEF ShadowCrossed, BookInv, RowsInv
  <2>5. sample'[l][q].decision = Decision(l, l \in passing)
    BY <2>1
  <2>6. sample'[l][q].shadow <=> l \in passing /\ ~scan.place
    <3> DEFINE new == l \in passing /\ ~scan.place
    <3>1. new \in BOOLEAN /\ sample'[l][q] = [decision |-> Decision(l, l \in passing), shadow |-> new]
      BY <2>1
    <3>2. new <=> l \in passing /\ ~scan.place
      OBVIOUS
    <3> HIDE DEF new
    <3>3. sample'[l][q].shadow = new
      BY <3>1
    <3> QED
      BY <3>2, <3>3
  <2> QED
    BY <2>3, <2>4, <2>5, <2>6
<1>6. ASSUME NEW l \in Fresh
      PROVE  LET row == sample'[l][q]
             IN  /\ row.decision # "entered"
                 /\ row.shadow => row.decision \notin {"none", "rejected", "pending", "entered"}
                 /\ Crossing(row) => \/ row.shadow
                                     \/ l \in Entered /\ order[l].hour < q
                                     \/ \E g \in Hours : g < q /\ sample'[l][g].shadow
  <2>1. \A g \in Hours : g < q => sample'[l][g] = sample[l][g]
    <3> SUFFICES ASSUME NEW g \in Hours, g < q PROVE sample'[l][g] = sample[l][g]
      OBVIOUS
    <3>1. g \in Nat /\ q \in Nat
      BY <1>2
    <3>2. g # q
      BY <3>1
    <3> QED
      BY <1>2, <1>3, <3>2
  <2>2. CASE l \notin passing
    <3>1. sample'[l][q].decision = "rejected" /\ ~sample'[l][q].shadow
      BY <1>5, <2>2 DEF Decision
    <3> QED
      BY <3>1 DEF Crossing, Passes
  <2>3. CASE l \in passing /\ l \in Entered
    <3>1. sample'[l][q].decision = "already_entered"
      BY <1>5, <2>3 DEF Decision
    <3> QED
      BY <1>5, <2>3, <3>1
  <2>4. CASE l \in passing /\ l \in ShadowCrossed \ Entered
    <3>1. sample'[l][q].decision = "already_crossed"
      BY <1>5, <2>4 DEF Decision
    <3>2. \E g \in Hours : g < q /\ sample'[l][g].shadow
      BY <1>5, <2>1, <2>4
    <3> QED
      BY <3>1, <3>2
  <2>5. CASE l \in passing /\ l \notin Entered \cup ShadowCrossed
    <3>1. /\ sample'[l][q].shadow <=> ~scan.place
          /\ sample'[l][q].decision = IF halts # {} THEN "halted"
                                      ELSE IF scan.place THEN "pending" ELSE "shadow"
      BY <1>5, <2>5 DEF Decision
    <3> QED
      BY <1>2, <3>1 DEF Crossing, Passes, AccountLevel
  <2> QED
    BY <2>2, <2>3, <2>4, <2>5
<1>7. RowsInv'
  <2>1. scan'.pc # "idle" => scan'.quoted <= hour'
    BY <1>2, <1>4
  <2>2. ASSUME NEW k \in Legs, NEW h \in Hours, sample'[k][h].decision # "none"
        PROVE  h <= hour' /\ (scan'.pc # "idle" => h <= scan'.quoted)
    <3>1. h <= hour /\ h <= q
      BY <1>2, <1>3, <2>2 DEF BookInv, RowsInv
    <3> QED
      BY <1>2, <1>4, <3>1
  <2>3. ASSUME NEW k \in Legs, NEW h \in Hours, sample'[k][h].shadow
        PROVE  sample'[k][h].decision \notin {"none", "rejected", "pending", "entered"}
    <3>1. CASE k \in Fresh /\ h = q
      BY <1>6, <2>3, <3>1
    <3>2. CASE ~(k \in Fresh /\ h = q)
      BY <1>3, <2>3, <3>2 DEF BookInv, RowsInv
    <3> QED
      BY <3>1, <3>2
  <2> QED
    BY <2>1, <2>2, <2>3 DEF RowsInv
<1>8. OrdersInv'
  <2> SUFFICES ASSUME NEW k \in Legs, NEW h \in Hours
      PROVE  /\ sample'[k][h].decision = "entered" => k \in Entered /\ order[k].hour = h
             /\ k \in Entered /\ order[k].hour = h => sample'[k][h].decision = "entered"
             /\ k \in Entered /\ h < order[k].hour => ~Crossing(sample'[k][h])
    BY <1>2 DEF OrdersInv, Crossing, Passes, AccountLevel
  <2>1. CASE k \in Fresh /\ h = q
    <3>1. k \in Entered => order[k].hour < h /\ order[k].hour \in Nat /\ h \in Nat
      BY <1>2, <1>5, <2>1
    <3>2. sample'[k][h].decision # "entered"
      BY <1>6, <2>1
    <3> QED
      BY <3>1, <3>2
  <2>2. CASE ~(k \in Fresh /\ h = q)
    <3>1. sample'[k][h] = sample[k][h]
      BY <1>3, <2>2
    <3> QED
      BY <3>1 DEF BookInv, OrdersInv
  <2> QED
    BY <2>1, <2>2
<1>9. CrossInv'
  <2> SUFFICES ASSUME NEW k \in Legs, NEW h \in Hours, Crossing(sample'[k][h])
               PROVE  \/ sample'[k][h].shadow
                      \/ sample'[k][h].decision = "entered"
                      \/ k \in Entered /\ order[k].hour < h
                      \/ \E g \in Hours : g < h /\ sample'[k][g].shadow
    BY <1>2 DEF CrossInv, Crossing, Passes, AccountLevel
  <2>1. CASE k \in Fresh /\ h = q
    BY <1>6, <2>1
  <2>2. CASE ~(k \in Fresh /\ h = q)
    <3>1. sample'[k][h] = sample[k][h]
      BY <1>3, <2>2
    <3>2. \A g \in Hours : sample[k][g].shadow => sample'[k][g] = sample[k][g]
      BY <1>2, <1>3 DEF BookInv, RowsInv
    <3>3. \/ sample[k][h].shadow
          \/ sample[k][h].decision = "entered"
          \/ k \in Entered /\ order[k].hour < h
          \/ \E g \in Hours : g < h /\ sample[k][g].shadow
      BY <3>1 DEF BookInv, CrossInv
    <3> QED
      BY <3>1, <3>2, <3>3
  <2> QED
    BY <2>1, <2>2
<1>10. TodoInv'
  <2> SUFFICES ASSUME NEW k \in todo
               PROVE  /\ scan'.pc = "admitting" /\ k \notin Entered
                      /\ \A h \in Hours : ~sample'[k][h].shadow
    BY <1>2, <1>4 DEF TodoInv
  <2>1. k \in Fresh /\ k \in Legs /\ Decision(k, k \in passing) = "pending"
    BY <1>2
  <2>2. k \in passing /\ k \notin Entered \cup ShadowCrossed /\ scan.place
    BY <2>1 DEF Decision
  <2>3. \A h \in Hours : ~sample[k][h].shadow
    BY <2>1, <2>2 DEF ShadowCrossed
  <2>4. ~sample'[k][q].shadow
    BY <1>5, <2>1, <2>2
  <2>5. \A h \in Hours : ~sample'[k][h].shadow
    BY <1>3, <2>1, <2>3, <2>4
  <2> QED
    BY <1>4, <2>2, <2>5
<1> QED
  BY <1>7, <1>8, <1>9, <1>10 DEF BookInv

LEMMA AdmissionBook ==
    ASSUME TypeOK, BookInv, NEW l \in Legs, AdmissionHalted(l) \/ AdmissionBlocked(l)
    PROVE  BookInv'
<1>1. /\ l \in scan.todo /\ scan' = Advance(l) /\ UNCHANGED <<hour, order>>
      /\ {l} \in SUBSET scan.todo
  BY DEF AdmissionHalted, AdmissionBlocked
<1>2. l \notin Entered
  BY <1>1 DEF BookInv, TodoInv
<1>3. PICK dec \in {"halted", "account_blocked"} : Outcome(l, dec)
  BY <1>2 DEF AdmissionHalted, AdmissionBlocked
<1>4. Marked({l}, dec)
  BY <1>3, OutcomeMarks DEF Decisions
<1>5. GoesOn
  BY <1>1, AdvanceGoesOn
<1> QED
  BY <1>1, <1>3, <1>4, <1>5, MarkedBook

LEMMA ScanFaultBook == ASSUME TypeOK, BookInv, AdmissionRaises \/ ScanKilled PROVE BookInv'
<1>1. GoesOn /\ UNCHANGED <<hour, order>>
  BY DEF GoesOn, AdmissionRaises, ScanKilled
<1>2. CASE UNCHANGED sample
  <2>1. Marked({}, "halted")
    BY <1>2 DEF Marked
  <2> QED
    BY <1>1, <2>1, MarkedBook
<1>3. CASE sample' = [l \in Legs |->
                       IF l \in scan.todo
                       THEN [sample[l] EXCEPT ![scan.quoted].decision = "admission_error"]
                       ELSE sample[l]]
  <2>1. Marked(scan.todo, "admission_error")
    BY <1>3, RaisesMarks
  <2> QED
    BY <1>1, <2>1, MarkedBook
<1> QED
  BY <1>2, <1>3 DEF AdmissionRaises, ScanKilled

LEMMA NextBook == ASSUME TypeOK, BookInv, [Next]_vars PROVE BookInv'
<1>0. hour \in Nat /\ hour \in Hours
  BY HourOrder DEF TypeOK
<1>1. CASE Tick
  <2>1. hour' \in Hours /\ hour <= hour'
    BY <1>0, <1>1, ClockAssumption DEF Tick, Hours
  <2> QED
    BY <1>1, <2>1, BookAges DEF Tick, Entered
<1>2. CASE \E t \in Targets : Settle(t)
  <2>1. PICK t \in Targets : Settle(t)
    BY <1>2
  <2>2. hour' = hour /\ UNCHANGED <<sample, scan>>
    BY <2>1 DEF Settle
  <2> QED
    BY <1>0, <2>1, <2>2, SettleKeeps, BookAges
<1>3. CASE Scan
  BY <1>3, BeginScanBook, SampleBook, AdmissionBook, EnterBook, ScanFaultBook DEF Scan
<1>4. CASE PassBegins \/ Reconcile \/ PassDies \/ UNCHANGED vars
  <2>1. UNCHANGED <<hour, sample, order, scan>>
    BY <1>4 DEF Reconcile, PassBegins, ReadRows, ReadOrders, Record, ApplyFidelity,
                ApplyFidelityLast, PassDies, vars
  <2> QED
    BY <1>0, <2>1, BookAges DEF Entered
<1> QED
  BY <1>1, <1>2, <1>3, <1>4 DEF Next

-----------------------------------------------------------------------------
(* The replay.                                                              *)

(* On a day whose rows it read as they are now, the replay implies exactly  *)
(* the entries of the day.                                                  *)
LEMMA ReplayAgrees ==
    ASSUME TypeOK, BookInv, NEW d \in Days, NEW rows,
           \A l \in Legs, h \in Hours : Day(h) = d => rows[l][h] = sample[l][h]
    PROVE  Agrees(d, Match(rows, d))
<1> DEFINE implied == [l \in Legs |-> IF l \in CrossedBefore(d) THEN {} ELSE Expected(rows, d, l)]
<1>1. \A l \in Entered : l \in Legs /\ order[l].hour \in Hours
  BY DEF Entered, TypeOK
<1>2. ASSUME NEW l \in EntriesOf(d) PROVE order[l].hour \in implied[l]
  <2> DEFINE h == order[l].hour
  <2>1. /\ l \in Legs /\ l \in Entered /\ h \in Hours /\ Day(h) = d /\ d \in Nat
        /\ sample[l][h].decision = "entered"
    BY <1>1, HourOrder DEF EntriesOf, BookInv, OrdersInv
  <2>2. /\ ~sample[l][h].shadow /\ rows[l][h] = sample[l][h] /\ Crossing(sample[l][h])
    BY <2>1 DEF BookInv, RowsInv, Crossing, Passes, AccountLevel
  <2>3. \A g \in Hours : g < h => ~Crossing(sample[l][g]) /\ ~sample[l][g].shadow
    BY <2>1 DEF BookInv, OrdersInv, RowsInv, Crossing, Passes
  <2>4. \A g \in HoursOf(d) : g < h => ~Crossing(rows[l][g])
    BY <2>1, <2>3 DEF HoursOf
  <2>5. l \notin CrossedBefore(d)
    <3>1. l \notin EnteredBefore(d)
      BY <2>1 DEF EnteredBefore
    <3>2. ~\E g \in Hours : Day(g) < d /\ sample[l][g].shadow
      BY <2>1, <2>3, HourOrder
    <3> QED
      BY <3>1, <3>2 DEF CrossedBefore
  <2>6. h \in Expected(rows, d, l)
    BY <2>1, <2>2, <2>4 DEF Expected, HoursOf
  <2> QED
    BY <2>1, <2>5, <2>6
<1>3. ASSUME NEW l \in Legs, l \notin EntriesOf(d), NEW h \in implied[l] PROVE FALSE
  <2>1. l \notin CrossedBefore(d) /\ h \in Expected(rows, d, l)
    BY <1>3
  <2>2. /\ h \in Hours /\ Day(h) = d /\ rows[l][h] = sample[l][h]
        /\ Crossing(sample[l][h]) /\ ~sample[l][h].shadow
    BY <2>1 DEF Expected, HoursOf
  <2>3. \A g \in Hours : Day(g) = d /\ g < h => ~Crossing(sample[l][g])
    BY <2>1 DEF Expected, HoursOf
  <2>4. CASE sample[l][h].decision = "entered"
    BY <1>3, <2>2, <2>4 DEF BookInv, OrdersInv, EntriesOf
  <2>5. CASE l \in Entered /\ order[l].hour < h
    <3>1. order[l].hour \in Hours /\ order[l].hour <= h
      BY <1>1, <2>2, <2>5, HourOrder
    <3>2. Day(order[l].hour) <= d /\ Day(order[l].hour) \in Nat /\ d \in Nat
      BY <2>2, <3>1, HourOrder
    <3>3. Day(order[l].hour) # d
      BY <1>3, <2>5 DEF EntriesOf
    <3>4. Day(order[l].hour) < d
      BY <3>2, <3>3
    <3> QED
      BY <2>1, <2>5, <3>4 DEF CrossedBefore, EnteredBefore
  <2>6. ASSUME NEW g \in Hours, g < h, sample[l][g].shadow PROVE FALSE
    <3>1. Crossing(sample[l][g])
      BY <2>6 DEF Crossing, Passes, BookInv, RowsInv
    <3>2. Day(g) # d
      BY <2>3, <2>6, <3>1
    <3>3. g \in Nat /\ h \in Nat /\ Day(g) \in Nat /\ d \in Nat
      BY <2>2, <2>6, HourOrder
    <3>4. Day(g) <= d
      BY <2>2, <2>6, <3>3, HourOrder
    <3>5. Day(g) < d
      BY <3>2, <3>3, <3>4
    <3> QED
      BY <1>3, <2>1, <2>6, <3>5 DEF CrossedBefore
  <2> QED
    BY <1>3, <2>2, <2>4, <2>5, <2>6 DEF BookInv, CrossInv
<1>4. /\ Match(rows, d).matched = {l \in EntriesOf(d) : order[l].hour \in implied[l]}
      /\ Match(rows, d).failed = EntriesOf(d) \ Match(rows, d).matched
      /\ Match(rows, d).missed = {l \in Legs \ EntriesOf(d) : implied[l] # {}}
  BY DEF Match
<1> HIDE DEF implied
<1>5. Match(rows, d).matched = EntriesOf(d)
  BY <1>2, <1>4
<1>6. Match(rows, d).missed = {}
  BY <1>3, <1>4
<1> QED
  BY <1>4, <1>5, <1>6 DEF Agrees

(* Once no scan of a day is left, its rows and its entries stay.            *)
LEMMA QuietStays ==
    ASSUME TypeOK, BookInv, [Next]_vars, NEW d \in Days, Quiet(d)
    PROVE  /\ Quiet(d)'
           /\ EntriesOf(d)' = EntriesOf(d)
           /\ \A l \in Legs, h \in Hours : Day(h) = d => sample'[l][h] = sample[l][h]
<1>0. /\ hour \in Hours /\ scan.quoted \in Hours /\ Hours \subseteq Nat
      /\ d \in Nat /\ Day(hour) \in Nat
  BY HourOrder DEF TypeOK
<1>1. CASE Tick
  <2>1. hour' \in Hours /\ hour <= hour'
    BY <1>0, <1>1, ClockAssumption DEF Tick, Hours
  <2>2. Day(hour) <= Day(hour') /\ Day(hour') \in Nat
    BY <1>0, <2>1, HourOrder
  <2>3. d < Day(hour')
    BY <1>0, <2>2 DEF Quiet
  <2> QED
    BY <1>1, <2>3 DEF Quiet, Tick, EntriesOf, Entered, Day
<1>2. CASE \E t \in Targets : Settle(t)
  <2>1. PICK t \in Targets : Settle(t)
    BY <1>2
  <2>2. Entered' = Entered /\ \A l \in Legs : order'[l].hour = order[l].hour
    BY <2>1, SettleKeeps
  <2>3. EntriesOf(d)' = EntriesOf(d)
    BY <2>2 DEF EntriesOf, Entered
  <2> QED
    BY <2>1, <2>3 DEF Settle, Quiet
<1>3. CASE \E t \in Targets, place \in BOOLEAN : BeginScan(t, place)
  <2>1. scan'.quoted = hour /\ UNCHANGED <<hour, sample, order>>
    BY <1>3 DEF BeginScan
  <2>2. Day(hour) # d
    BY <1>0 DEF Quiet
  <2> QED
    BY <2>1, <2>2 DEF Quiet, EntriesOf, Entered
<1>4. CASE Sample
  <2>1. /\ Day(scan.quoted) # d /\ UNCHANGED <<hour, order>>
        /\ scan'.pc # "idle" => scan'.quoted = scan.quoted
    BY <1>4, NoScanType DEF Sample, Quiet
  <2>2. \A l \in Legs, h \in Hours : h # scan.quoted => sample'[l][h] = sample[l][h]
    BY <1>4, SampleWrites
  <2> QED
    BY <2>1, <2>2 DEF Quiet, EntriesOf, Entered
<1>5. CASE \E l \in Legs : AdmissionHalted(l) \/ AdmissionBlocked(l) \/ Enter(l)
  <2>1. PICK l \in Legs : AdmissionHalted(l) \/ AdmissionBlocked(l) \/ Enter(l)
    BY <1>5
  <2>2. /\ Day(scan.quoted) # d /\ hour' = hour /\ scan' = Advance(l)
        /\ \E dec \in Decisions : Outcome(l, dec)
    BY <2>1 DEF AdmissionHalted, AdmissionBlocked, Enter, Quiet, Decisions
  <2>3. \A k \in Legs, h \in Hours : h # scan.quoted => sample'[k][h] = sample[k][h]
    BY <2>2, OutcomeMarks DEF Marked
  <2>4. Quiet(d)'
    BY <2>2, NoScanType DEF Quiet, Advance
  <2>5. EntriesOf(d)' = EntriesOf(d)
    <3>1. CASE UNCHANGED order
      BY <3>1 DEF EntriesOf, Entered
    <3>2. CASE Enter(l)
      <4>1. order' = [order EXCEPT ![l] = [hour |-> scan.quoted, state |-> "open"]] /\ l \notin Entered
        BY <3>2 DEF Enter
      <4>2. /\ \A k \in Legs : k # l => order'[k] = order[k]
            /\ order'[l].hour = scan.quoted
        BY <4>1 DEF TypeOK
      <4> QED
        BY <2>2, <4>1, <4>2 DEF EntriesOf, Entered
    <3> QED
      BY <2>1, <3>1, <3>2 DEF AdmissionHalted, AdmissionBlocked
  <2> QED
    BY <2>2, <2>3, <2>4, <2>5
<1>6. CASE AdmissionRaises \/ ScanKilled
  <2>1. /\ scan' = NoScan /\ UNCHANGED <<hour, order>>
        /\ scan.pc # "idle"
    BY <1>6 DEF AdmissionRaises, ScanKilled
  <2>2. \A l \in Legs, h \in Hours : h # scan.quoted => sample'[l][h] = sample[l][h]
    BY <1>6, RaisesMarks DEF AdmissionRaises, ScanKilled, Marked
  <2> QED
    BY <2>1, <2>2, NoScanType DEF Quiet, EntriesOf, Entered
<1>7. CASE PassBegins \/ Reconcile \/ PassDies \/ UNCHANGED vars
  <2>1. UNCHANGED <<hour, sample, order, scan>>
    BY <1>7 DEF Reconcile, PassBegins, ReadRows, ReadOrders, Record, ApplyFidelity,
                ApplyFidelityLast, PassDies, vars
  <2> QED
    BY <2>1 DEF Quiet, EntriesOf, Entered
<1> QED
  BY <1>1, <1>2, <1>3, <1>4, <1>5, <1>6, <1>7 DEF Next, Scan

-----------------------------------------------------------------------------
(* The reconciling pass and its reports.                                    *)

LEMMA DaysPassed ==
    ASSUME TypeOK, [Next]_vars, NEW d \in Days, d < Day(hour)
    PROVE  d < Day(hour')
<1>1. hour \in Hours /\ hour' \in Hours
  BY NextType DEF TypeOK
<1>2. hour' = hour \/ Tick
  BY DEF Next, Settle, Scan, BeginScan, Sample, AdmissionHalted,
         AdmissionBlocked, Enter, AdmissionRaises, ScanKilled, PassBegins, Reconcile,
         ReadRows, ReadOrders, Record, ApplyFidelity, ApplyFidelityLast, PassDies, vars
<1>3. hour \in Nat /\ hour' \in Nat
  BY <1>1, HourOrder
<1>4. hour <= hour'
  BY <1>2, <1>3 DEF Tick
<1>5. Day(hour) <= Day(hour') /\ Day(hour) \in Nat /\ Day(hour') \in Nat /\ d \in Nat
  BY <1>1, <1>4, HourOrder
<1> QED
  BY <1>5

(* A step that leaves the pass alone leaves what it knows true.             *)
LEMMA PassWaits ==
    ASSUME TypeOK, BookInv, PassInv, [Next]_vars, UNCHANGED pass
    PROVE  PassInv'
<1>1. \A d \in pass'.todo : d < Day(hour')
  BY DaysPassed DEF PassInv, TypeOK
<1>2. ASSUME pass.pc \in {"orders", "record"}, ~pass.raced
      PROVE  /\ Quiet(pass.day)'
             /\ EntriesOf(pass.day)' = EntriesOf(pass.day)
             /\ \A l \in Legs, h \in Hours : Day(h) = pass.day => sample'[l][h] = sample[l][h]
  <2>1. pass.day \in Days /\ Quiet(pass.day)
    BY <1>2 DEF PassInv, TypeOK
  <2>2. /\ Quiet(pass.day)'
        /\ \A l \in Legs, h \in Hours : Day(h) = pass.day => sample'[l][h] = sample[l][h]
    BY <2>1, QuietStays DEF Quiet
  <2>3. EntriesOf(pass.day)' = EntriesOf(pass.day)
    BY <2>1, QuietStays DEF EntriesOf
  <2> QED
    BY <2>2, <2>3
<1>3. pass'.pc \in {"orders", "record"} /\ ~pass'.raced => Quiet(pass.day)'
  BY <1>2
<1>4. pass'.pc = "orders" /\ ~pass'.raced =>
        \A l \in Legs, h \in Hours : Day(h) = pass'.day => pass'.rows[l][h] = sample'[l][h]
  BY <1>2 DEF PassInv
<1>5. pass'.pc = "record" /\ ~pass'.raced => Agrees(pass.day, pass.found)'
  BY <1>2 DEF PassInv, Agrees
<1> QED
  BY <1>1, <1>3, <1>4, <1>5 DEF PassInv, Quiet, Agrees, EntriesOf, Day

LEMMA NextPass == ASSUME TypeOK, BookInv, PassInv, [Next]_vars PROVE PassInv'
<1>1. CASE PassBegins
  <2>1. ASSUME NEW d \in Pending(hour) PROVE d < Day(hour)
    BY DEF Pending, Backlog
  <2>2. CASE Pending(hour) = {}
    BY <1>1, <2>2, PassWaits DEF PassBegins
  <2>3. CASE Pending(hour) # {}
    <3>1. pass' = [NoPass EXCEPT !.pc = "rows", !.now = hour, !.todo = Pending(hour)]
      BY <1>1, <2>3 DEF PassBegins
    <3>2. pass'.pc = "rows" /\ pass'.todo = Pending(hour) /\ hour' = hour
      BY <1>1, <3>1, NoPassType DEF PassBegins
    <3> QED
      BY <2>1, <3>2 DEF PassInv
  <2> QED
    BY <2>2, <2>3
<1>2. CASE ReadRows
  <2>1. PICK d \in pass.todo :
          pass' = [pass EXCEPT !.day = d, !.rows = sample, !.pc = "orders",
                     !.raced = scan.pc # "idle" /\ Day(scan.quoted) = d]
    BY <1>2 DEF ReadRows
  <2>2. /\ pass'.day = d /\ pass'.rows = sample /\ pass'.pc = "orders"
        /\ pass'.todo = pass.todo
        /\ UNCHANGED <<hour, sample, scan>>
    BY <1>2, <2>1 DEF ReadRows, TypeOK
  <2> DEFINE races == scan.pc # "idle" /\ Day(scan.quoted) = d
  <2>3. races \in BOOLEAN /\ pass' = [pass EXCEPT !.day = d, !.rows = sample, !.pc = "orders",
                                       !.raced = races]
    BY <2>1
  <2>4. races <=> scan.pc # "idle" /\ Day(scan.quoted) = d
    OBVIOUS
  <2> HIDE DEF races
  <2>5. pass'.raced = races
    BY <2>3 DEF TypeOK
  <2>6. ~pass'.raced => Quiet(d)
    BY <2>4, <2>5 DEF Quiet, PassInv
  <2>7. Quiet(d) => Quiet(pass.day)'
    BY <2>2 DEF Quiet
  <2> QED
    BY <2>2, <2>6, <2>7 DEF PassInv
<1>3. CASE ReadOrders
  <2>1. /\ pass' = [pass EXCEPT !.found = Match(pass.rows, pass.day),
                                !.rows = NoPass.rows, !.pc = "record"]
        /\ UNCHANGED <<hour, sample, order, scan>> /\ pass.pc = "orders"
    BY <1>3 DEF ReadOrders
  <2>2. /\ pass'.found = Match(pass.rows, pass.day) /\ pass'.day = pass.day
        /\ pass'.pc = "record" /\ pass'.todo = pass.todo /\ pass'.raced = pass.raced
    BY <2>1 DEF TypeOK
  <2>3. ASSUME ~pass.raced PROVE Quiet(pass.day) /\ Agrees(pass.day, Match(pass.rows, pass.day))
    <3>1. /\ pass.day \in Days /\ Quiet(pass.day)
          /\ \A l \in Legs, h \in Hours : Day(h) = pass.day => pass.rows[l][h] = sample[l][h]
      BY <2>1, <2>3 DEF PassInv, TypeOK
    <3> QED
      BY <3>1, ReplayAgrees
  <2>4. ~pass'.raced => Quiet(pass.day)' /\ Agrees(pass.day, pass.found)'
    BY <2>1, <2>2, <2>3 DEF Quiet, Agrees, EntriesOf, Entered
  <2>5. \A d \in pass'.todo : d < Day(hour')
    BY <2>1, <2>2 DEF PassInv
  <2> QED
    BY <2>2, <2>4, <2>5 DEF PassInv, Quiet, Agrees, EntriesOf, Day
<1>4. CASE Record
  <2>1. pass'.pc = "fidelity" /\ pass'.todo = pass.todo /\ hour' = hour
    BY <1>4 DEF Record, TypeOK
  <2> QED
    BY <2>1 DEF PassInv
<1>5. CASE ApplyFidelity
  <2>1. pass'.pc = "rows" /\ pass'.todo \subseteq pass.todo /\ hour' = hour
    BY <1>5 DEF ApplyFidelity, TypeOK
  <2> QED
    BY <2>1 DEF PassInv
<1>6. CASE ApplyFidelityLast \/ PassDies
  <2>1. pass' = NoPass
    BY <1>6 DEF ApplyFidelityLast, PassDies
  <2> QED
    BY <2>1, NoPassType DEF PassInv
<1>7. CASE UNCHANGED pass
  BY <1>7, PassWaits
<1> QED
  BY <1>1, <1>2, <1>3, <1>4, <1>5, <1>6, <1>7
     DEF Next, Reconcile, Tick, Settle, Scan, BeginScan, Sample, AdmissionHalted,
         AdmissionBlocked, Enter, AdmissionRaises, ScanKilled, vars

(* A report stands; the one that is written says what its pass found.       *)
LEMMA ReportStep ==
    ASSUME TypeOK, [Next]_vars, NEW d \in Days, report'[d] # report[d]
    PROVE  /\ pass.pc = "record" /\ d = pass.day
           /\ report'[d] = [done |-> TRUE, raced |-> pass.raced,
                            matched |-> pass.found.matched,
                            failed |-> pass.found.failed,
                            missed |-> pass.found.missed]
<1>1. Record
  BY DEF Next, Tick, Settle, Scan, BeginScan, Sample, AdmissionHalted, AdmissionBlocked,
         Enter, AdmissionRaises, ScanKilled, PassBegins, Reconcile, ReadRows, ReadOrders,
         ApplyFidelity, ApplyFidelityLast, PassDies, vars
<1>2. report' = [report EXCEPT ![pass.day] =
                    IF report[pass.day].done THEN report[pass.day]
                    ELSE [done |-> TRUE, raced |-> pass.raced,
                          matched |-> pass.found.matched,
                          failed |-> pass.found.failed,
                          missed |-> pass.found.missed]]
  BY <1>1 DEF Record
<1> QED
  BY <1>1, <1>2 DEF Record, TypeOK

LEMMA NextReport ==
    ASSUME TypeOK, BookInv, PassInv, ReportInv, [Next]_vars
    PROVE  ReportInv'
<1> SUFFICES ASSUME NEW d \in Days, report'[d].done, ~report'[d].raced
             PROVE  Quiet(d)' /\ Agrees(d, report[d])'
  BY DEF ReportInv, Quiet, Agrees, EntriesOf, Day
<1>1. Quiet(d) /\ Agrees(d, report'[d])
  <2>1. CASE report'[d] = report[d]
    BY <2>1 DEF ReportInv
  <2>2. CASE report'[d] # report[d]
    <3>1. /\ pass.pc = "record" /\ d = pass.day
          /\ report'[d] = [done |-> TRUE, raced |-> pass.raced,
                           matched |-> pass.found.matched,
                           failed |-> pass.found.failed,
                           missed |-> pass.found.missed]
      BY <2>2, ReportStep
    <3>2. ~pass.raced
      BY <3>1
    <3>3. Quiet(d) /\ Agrees(d, pass.found)
      BY <3>1, <3>2 DEF PassInv
    <3> QED
      BY <3>1, <3>3 DEF Agrees
  <2> QED
    BY <2>1, <2>2
<1>2. Quiet(d)' /\ EntriesOf(d)' = EntriesOf(d)
  BY <1>1, QuietStays
<1> QED
  BY <1>1, <1>2 DEF Agrees

-----------------------------------------------------------------------------
(* In every behaviour, whatever the legs, the limits and the faults, the     *)
(* rows, orders, passes and reports fit together as the invariant says.      *)
THEOREM Inductive == Spec => []IInv
<1>1. Init => IInv
  <2> SUFFICES ASSUME Init PROVE IInv
    OBVIOUS
  <2>1. PassInv
    BY NoPassType DEF Init, PassInv
  <2>2. ReportInv
    BY DEF Init, NoReport, ReportInv
  <2> QED
    BY <2>1, <2>2, InitType, InitBook DEF IInv
<1>2. IInv /\ [Next]_vars => IInv'
  BY NextType, NextBook, NextPass, NextReport DEF IInv
<1> QED
  BY <1>1, <1>2, PTL DEF Spec

(* Every step of scans, passes and the clock leaves well-typed rows, and a   *)
(* scan has only rows it left pending still to admit.                        *)
THEOREM TypeCorrect == Spec => []TypeOK
<1>1. IInv => TypeOK
  BY DEF IInv
<1> QED
  BY <1>1, Inductive, PTL

(* A leg whose crossing was seen with placement off is never entered later.  *)
THEOREM ShadowStays == Spec => []ShadowCrossingsStay
<1>1. IInv => ShadowCrossingsStay
  <2> SUFFICES ASSUME IInv, NEW l \in Entered, NEW h \in Hours, sample[l][h].shadow
               PROVE  order[l].hour < h
    BY DEF ShadowCrossingsStay
  <2>1. l \in Legs /\ order[l].hour \in Nat /\ h \in Nat
    BY HourOrder DEF Entered, IInv, TypeOK
  <2>2. Crossing(sample[l][h]) /\ sample[l][h].decision # "entered"
    BY <2>1 DEF IInv, BookInv, RowsInv, Crossing, Passes
  <2>3. ~(h < order[l].hour) /\ order[l].hour # h
    BY <2>1, <2>2 DEF IInv, BookInv, OrdersInv
  <2> QED
    BY <2>1, <2>3
<1> QED
  BY <1>1, Inductive, PTL

(* The report of a day no scan was still at work on matches every order of   *)
(* the day and misses none, whatever was killed or failed before.            *)
THEOREM ReportsFaithful == Spec => []FaithfulReports
<1>1. IInv => FaithfulReports
  BY DEF IInv, ReportInv, Agrees, FaithfulReports
<1> QED
  BY <1>1, Inductive, PTL

(* No entry follows a recorded halt, not even of a leg sampled before it.    *)
THEOREM HaltsStop == Spec => HaltStopsEntries
<1>1. TypeOK /\ [Next]_vars => [halts # {} => Entered' = Entered]_vars
  <2> SUFFICES ASSUME TypeOK, Next, halts # {} PROVE Entered' = Entered
    BY DEF vars
  <2>1. CASE \E t \in Targets : Settle(t)
    BY <2>1, SettleKeeps
  <2>2. CASE UNCHANGED order
    BY <2>2 DEF Entered
  <2>3. ~\E l \in Legs : Enter(l)
    BY DEF Enter, Halted
  <2> QED
    BY <2>1, <2>2, <2>3
       DEF Next, Tick, Scan, BeginScan, Sample, AdmissionHalted, AdmissionBlocked,
           AdmissionRaises, ScanKilled, PassBegins, Reconcile, ReadRows, ReadOrders,
           Record, ApplyFidelity, ApplyFidelityLast, PassDies
<1> QED
  BY <1>1, TypeCorrect, PTL DEF Spec, HaltStopsEntries

-----------------------------------------------------------------------------
(* The final read.                                                          *)

LEMMA Finite == IsFiniteSet(Entered) /\ IsFiniteSet(TradingDays)
<1>1. IsFiniteSet(Entered)
  BY LegAssumption, FS_Subset DEF Entered
<1> DEFINE target == [l \in Entered |-> TargetOf[l]]
<1>2. target \in Surjection(Entered, TradingDays)
  BY DEF Surjection, TradingDays
<1> QED
  BY <1>1, <1>2, FS_Surjection

(* However many candidates one scan sampled, admission stops at the entries  *)
(* and the trading days of the final read.                                   *)
THEOREM FinalReadRespected == Spec => []FinalReadBounds
<1>1. Init => FinalReadBounds
  <2> SUFFICES ASSUME Init PROVE FinalReadBounds
    OBVIOUS
  <2>1. Entered = {} /\ TradingDays = {}
    BY DEF Init, Entered, TradingDays, NoOrder
  <2> QED
    BY <2>1, FS_EmptySet, RuleAssumption DEF FinalReadBounds
<1>2. TypeOK /\ FinalReadBounds /\ [Next]_vars => FinalReadBounds'
  <2> SUFFICES ASSUME TypeOK, FinalReadBounds, [Next]_vars PROVE FinalReadBounds'
    OBVIOUS
  <2>1. ASSUME NEW l \in Legs, Enter(l) PROVE FinalReadBounds'
    <3>1. Entered' = Entered \cup {l} /\ l \notin Entered /\ ~FinalRead(l)
      <4>1. order' = [order EXCEPT ![l] = [hour |-> scan.quoted, state |-> "open"]] /\ l \notin Entered
        BY <2>1 DEF Enter
      <4>2. order'[l].state = "open" /\ \A k \in Legs : k # l => order'[k] = order[k]
        BY <4>1 DEF TypeOK
      <4>3. Entered' = Entered \cup {l}
        BY <4>2 DEF Entered
      <4> QED
        BY <2>1, <4>1, <4>3 DEF Enter, Halted, Due
    <3>2. TradingDays' = TradingDays \cup {TargetOf[l]}
      BY <3>1 DEF TradingDays
    <3>3. /\ Cardinality(Entered) \in Nat /\ Cardinality(TradingDays) \in Nat
          /\ FinalEntries \in Nat /\ FinalDays \in Nat
      BY Finite, FS_CardinalityType, RuleAssumption
    <3>4. Cardinality(Entered') = Cardinality(Entered) + 1
      BY <3>1, Finite, FS_AddElement
    <3>5. /\ TargetOf[l] \in TradingDays => TradingDays' = TradingDays
          /\ TargetOf[l] \notin TradingDays => Cardinality(TradingDays') = Cardinality(TradingDays) + 1
      BY <3>2, Finite, FS_AddElement
    <3>6. Cardinality(Entered') <= FinalEntries
      BY <3>1, <3>3, <3>4 DEF FinalRead
    <3>7. Cardinality(TradingDays') <= FinalDays
      BY <3>1, <3>3, <3>5 DEF FinalRead, FinalReadBounds
    <3> QED
      BY <3>6, <3>7 DEF FinalReadBounds
  <2>2. CASE Entered' = Entered
    BY <2>2 DEF FinalReadBounds, TradingDays
  <2>3. CASE \E t \in Targets : Settle(t)
    BY <2>2, <2>3, SettleKeeps
  <2>4. CASE UNCHANGED order
    BY <2>2, <2>4 DEF Entered
  <2> QED
    BY <2>1, <2>3, <2>4
       DEF Next, Tick, Scan, BeginScan, Sample, AdmissionHalted, AdmissionBlocked,
           AdmissionRaises, ScanKilled, PassBegins, Reconcile, ReadRows, ReadOrders,
           Record, ApplyFidelity, ApplyFidelityLast, PassDies, vars
<1> QED
  BY <1>1, <1>2, TypeCorrect, PTL DEF Spec

=============================================================================

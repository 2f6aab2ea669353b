------------------------- MODULE GoogleUsage_proofs -------------------------
(***************************************************************************)
(* Proofs about GoogleUsage: for any units, cities, budgets, threshold and *)
(* month length, the requests that left the box never exceed the budget    *)
(* they are billed to.                                                     *)
(*                                                                         *)
(* The argument: every request sent is backed by a row that counts (the    *)
(* inductive part about who holds which row), a row that counts is never   *)
(* made to count again, and a new one is inserted only under the budget.   *)
(***************************************************************************)
EXTENDS GoogleUsage, FiniteSetTheorems, SequenceTheorems, TLAPS

Holding == {"reserved", "dispatched", "sent"}

(* A running cycle has started. *)
CycleStarted == \A u \in Units : cycle[u].step # "off" => cycle[u].at \in 1..MaxStarts

(* A cycle at work on a request owns its row, which is where the step says. *)
CycleRows ==
    \A u \in Units : cycle[u].step \in Holding =>
        /\ cycle[u].event \in DOMAIN event
        /\ event[cycle[u].event].answer = "none"
        /\ event[cycle[u].event].status =
              IF cycle[u].step = "reserved" THEN "reserved" ELSE "consumed"

(* No two cycles work on the same row. *)
RowsApart ==
    \A u, v \in Units :
        (u # v /\ cycle[u].step \in Holding /\ cycle[v].step \in Holding) =>
            cycle[u].event # cycle[v].event

(* A request that was sent is billable, and no legacy row was ever sent. *)
SentBillable ==
    \A e \in sent : /\ event[e].status \in {"consumed", "success"}
                    /\ event[e].answer # "legacy"

(* Rows that count and that this ledger itself reserved. *)
Counts(e) == event[e].status \in Billable /\ event[e].answer # "legacy"
OwnRows(d) == {e \in DOMAIN event : event[e].day = d /\ Counts(e)}
OwnMonth(d) == {e \in DOMAIN event : Month(event[e].day) = Month(d) /\ Counts(e)}

OwnWithinBudget ==
    \A d \in Days : /\ Cardinality(OwnRows(d)) <= DailyBudget
                    /\ Cardinality(OwnMonth(d)) <= SoftCeiling
                    /\ Cardinality(OwnMonth(d)) <= MonthlyBudget

IInv ==
    /\ TypeOK
    /\ CycleStarted
    /\ CycleRows
    /\ RowsApart
    /\ SentBillable
    /\ OwnWithinBudget

-----------------------------------------------------------------------------
(* Values: what the operators of a cycle and of a row return. *)

LEMMA FirstOfIsADay == \A d \in Days : FirstOf(d) \in Days
  <1> SUFFICES ASSUME NEW d \in Days PROVE FirstOf(d) \in Days
    OBVIOUS
  <1> DEFINE q == (d - 1) \div MonthLength
  <1>1. d - 1 \in Nat /\ MonthLength \in Nat \ {0} /\ LastDay \in Nat
    BY UsageAssumption DEF Days
  <1>2. q \in Nat /\ q * MonthLength <= d - 1 /\ q * MonthLength \in Nat
    BY <1>1
  <1>3. FirstOf(d) = q * MonthLength + 1
    BY DEF FirstOf, Month
  <1> HIDE DEF q
  <1>4. QED
    BY <1>1, <1>2, <1>3 DEF Days

LEMMA OffTyped == Off \in Cycle /\ Off.step = "off"
  BY UsageAssumption DEF Off, Cycle, Steps, Days

LEMMA AtCityTyped ==
    ASSUME NEW at \in 0..MaxStarts, NEW d \in Days, NEW n \in Nat
    PROVE  /\ AtCity(at, d, n) \in Cycle
           /\ AtCity(at, d, n).step = "city"
           /\ AtCity(at, d, n).at = at
  <1>1. \A p, k \in Nat :
           [step |-> "city", at |-> at, day |-> d, city |-> n,
            endpoint |-> "hourly", page |-> p, event |-> k] \in Cycle
    BY DEF Cycle, Steps
  <1>2. 0 \in Nat /\ 1 \in Nat
    OBVIOUS
  <1>3. AtCity(at, d, n) \in Cycle
    BY <1>1, <1>2 DEF AtCity
  <1>4. QED
    BY <1>3 DEF AtCity

LEMMA NextCityTyped ==
    ASSUME TypeOK, NEW u \in Units
    PROVE  /\ NextCity(u) \in Cycle
           /\ NextCity(u).step = "city"
           /\ NextCity(u).at = cycle[u].at
  <1>1. cycle[u].at \in 0..MaxStarts /\ cycle[u].day \in Days /\ cycle[u].city + 1 \in Nat
    BY DEF TypeOK, Cycle
  <1>2. QED
    BY <1>1, AtCityTyped DEF NextCity

LEMMA NextEndpointTyped ==
    ASSUME TypeOK, NEW u \in Units
    PROVE  /\ NextEndpoint(u) \in Cycle
           /\ NextEndpoint(u).step \in {"reserve", "city"}
           /\ NextEndpoint(u).at = cycle[u].at
  <1>1. cycle[u] \in Cycle
    BY DEF TypeOK
  <1>2. \A n, k \in Nat :
           LET c == [cycle[u] EXCEPT !.step = "reserve", !.endpoint = "daily", !.page = n, !.event = k]
           IN  c \in Cycle /\ c.step = "reserve" /\ c.at = cycle[u].at
    BY <1>1 DEF Cycle, Steps
  <1>3. \A k \in Nat :
           LET c == [cycle[u] EXCEPT !.step = "reserve", !.endpoint = "current", !.event = k]
           IN  c \in Cycle /\ c.step = "reserve" /\ c.at = cycle[u].at
    BY <1>1 DEF Cycle, Steps
  <1>4. QED
    BY <1>2, <1>3, NextCityTyped DEF NextEndpoint

LEMMA Shape ==
    ASSUME TypeOK
    PROVE  /\ Len(event) \in Nat
           /\ DOMAIN event = 1..Len(event)
           /\ \A e \in DOMAIN event : event[e] \in Event
  BY LenProperties, ElementOfSeq DEF TypeOK

(* An UPDATE changes the outcome of one row and nothing else. *)
Amends(k, s, a) ==
    /\ event' \in Seq(Event)
    /\ DOMAIN event' = DOMAIN event
    /\ \A e \in DOMAIN event : event'[e].day = event[e].day
    /\ \A e \in DOMAIN event : e # k => event'[e] = event[e]
    /\ event'[k].status = s
    /\ event'[k].answer = a

LEMMA MarkedRows ==
    ASSUME TypeOK, NEW u \in Units, cycle[u].event \in DOMAIN event,
           NEW s \in Statuses, NEW a \in Answers
    PROVE  /\ Marked(u, s, a) \in Seq(Event)
           /\ DOMAIN Marked(u, s, a) = DOMAIN event
           /\ \A e \in DOMAIN event :
                 /\ Marked(u, s, a)[e].day = event[e].day
                 /\ e # cycle[u].event => Marked(u, s, a)[e] = event[e]
           /\ Marked(u, s, a)[cycle[u].event].status = s
           /\ Marked(u, s, a)[cycle[u].event].answer = a
  <1> DEFINE k == cycle[u].event
  <1> DEFINE row == [event[k] EXCEPT !.status = s, !.answer = a]
  <1>1. k \in 1..Len(event) /\ event[k] \in Event /\ event \in Seq(Event)
    BY Shape DEF TypeOK
  <1>2. row \in Event /\ row.day = event[k].day /\ row.status = s /\ row.answer = a
    BY <1>1 DEF Event
  <1>3. Marked(u, s, a) = [event EXCEPT ![k] = row]
    BY DEF Marked
  <1> HIDE DEF row
  <1>4. /\ [event EXCEPT ![k] = row] \in Seq(Event)
        /\ Len([event EXCEPT ![k] = row]) = Len(event)
        /\ \A j \in 1..Len(event) : [event EXCEPT ![k] = row][j] = IF j = k THEN row ELSE event[j]
    BY <1>1, <1>2, ExceptSeq
  <1>5. DOMAIN [event EXCEPT ![k] = row] = DOMAIN event
    OBVIOUS
  <1>6. QED
    BY <1>1, <1>2, <1>3, <1>4, <1>5, Shape

LEMMA MarkedAmends ==
    ASSUME TypeOK, NEW u \in Units, cycle[u].event \in DOMAIN event,
           NEW s \in Statuses, NEW a \in Answers, event' = Marked(u, s, a)
    PROVE  Amends(cycle[u].event, s, a)
  BY MarkedRows DEF Amends

LEMMA OwnFinite ==
    ASSUME TypeOK, NEW d
    PROVE  /\ IsFiniteSet(DOMAIN event)
           /\ IsFiniteSet(OwnRows(d)) /\ IsFiniteSet(OwnMonth(d))
           /\ IsFiniteSet(DayEvents(d)) /\ IsFiniteSet(MonthEvents(d))
  <1>1. IsFiniteSet(DOMAIN event)
    BY Shape, FS_Interval
  <1>2. /\ OwnRows(d) \in SUBSET DOMAIN event /\ OwnMonth(d) \in SUBSET DOMAIN event
        /\ DayEvents(d) \in SUBSET DOMAIN event /\ MonthEvents(d) \in SUBSET DOMAIN event
    BY DEF OwnRows, OwnMonth, DayEvents, MonthEvents
  <1>3. QED
    BY <1>1, <1>2, FS_Subset

-----------------------------------------------------------------------------
(* Rows that do not begin to count leave the budget where it is. *)
LEMMA NothingNewCounts ==
    ASSUME TypeOK, TypeOK', OwnWithinBudget,
           \A e \in DOMAIN event' : Counts(e)' =>
               e \in DOMAIN event /\ event'[e].day = event[e].day /\ Counts(e)
    PROVE  OwnWithinBudget'
  <1> SUFFICES ASSUME NEW d \in Days
               PROVE  /\ Cardinality(OwnRows(d)') <= DailyBudget
                      /\ Cardinality(OwnMonth(d)') <= SoftCeiling
                      /\ Cardinality(OwnMonth(d)') <= MonthlyBudget
    BY DEF OwnWithinBudget
  <1>1. OwnRows(d)' \in SUBSET OwnRows(d) /\ OwnMonth(d)' \in SUBSET OwnMonth(d)
    BY DEF OwnRows, OwnMonth, Month
  <1>2. /\ Cardinality(OwnRows(d)') <= Cardinality(OwnRows(d))
        /\ Cardinality(OwnMonth(d)') <= Cardinality(OwnMonth(d))
        /\ Cardinality(OwnRows(d)) \in Nat /\ Cardinality(OwnRows(d)') \in Nat
        /\ Cardinality(OwnMonth(d)) \in Nat /\ Cardinality(OwnMonth(d)') \in Nat
    BY <1>1, OwnFinite, FS_Subset, FS_CardinalityType
  <1>3. QED
    BY <1>2, UsageAssumption DEF OwnWithinBudget

(* A step of one cycle that touches no row. *)
LEMMA CycleMoves ==
    ASSUME IInv, NEW u \in Units, NEW c \in Cycle, Goes(u, c),
           UNCHANGED <<day, event, sent>>, started' \in 0..MaxStarts,
           c.step # "off" => c.at \in 1..MaxStarts,
           c.step \notin Holding
    PROVE  IInv'
  <1> USE DEF IInv, Goes
  <1>1. TypeOK'
    BY DEF TypeOK
  <1>2. \A v \in Units : cycle'[v] = IF v = u THEN c ELSE cycle[v]
    BY DEF TypeOK
  <1>3. CycleStarted'
    BY <1>2 DEF CycleStarted
  <1>4. CycleRows'
    BY <1>2 DEF CycleRows
  <1>5. RowsApart'
    BY <1>2 DEF RowsApart
  <1>6. SentBillable'
    BY DEF SentBillable
  <1>7. OwnWithinBudget'
    BY <1>1, NothingNewCounts DEF Counts
  <1>8. QED
    BY <1>1, <1>3, <1>4, <1>5, <1>6, <1>7

(* A step of one cycle that updates its own row. *)
LEMMA CycleMarks ==
    ASSUME IInv, NEW u \in Units, NEW c \in Cycle, Goes(u, c),
           cycle[u].step \in Holding,
           NEW s \in Statuses, NEW a \in Answers \ {"legacy"},
           Amends(cycle[u].event, s, a),
           UNCHANGED <<day, started, sent>>,
           c.step # "off" => c.at \in 1..MaxStarts,
           \/ c.step \notin Holding
           \/ c.step = "dispatched" /\ s = "consumed" /\ a = "none" /\ c.event = cycle[u].event,
           cycle[u].event \in sent => s \in {"consumed", "success"},
           s = "cancelled" \/ s \in Billable
    PROVE  IInv'
  <1> USE DEF IInv, Goes
  <1> DEFINE k == cycle[u].event
  <1>1. /\ k \in DOMAIN event
        /\ event[k].answer = "none" /\ event[k].status \in Billable
    BY DEF CycleRows, Holding, Billable
  <1>2. /\ event' \in Seq(Event)
        /\ DOMAIN event' = DOMAIN event
        /\ \A e \in DOMAIN event : event'[e].day = event[e].day
        /\ \A e \in DOMAIN event : e # k => event'[e] = event[e]
        /\ event'[k].status = s
        /\ event'[k].answer = a
    BY DEF Amends
  <1>3. TypeOK'
    BY <1>2 DEF TypeOK
  <1>4. \A v \in Units : cycle'[v] = IF v = u THEN c ELSE cycle[v]
    BY DEF TypeOK
  <1>5. CycleStarted'
    BY <1>4 DEF CycleStarted
  <1>6. \A v \in Units : v # u /\ cycle[v].step \in Holding => cycle[v].event # k
    BY DEF RowsApart
  <1>7. CycleRows'
    <2> SUFFICES ASSUME NEW v \in Units, cycle'[v].step \in Holding
                 PROVE  /\ cycle'[v].event \in DOMAIN event'
                        /\ event'[cycle'[v].event].answer = "none"
                        /\ event'[cycle'[v].event].status =
                              IF cycle'[v].step = "reserved" THEN "reserved" ELSE "consumed"
      BY DEF CycleRows, Holding
    <2>1. CASE v = u
      <3>1. cycle'[v] = c
        BY <1>4, <2>1
      <3>2. c.step = "dispatched" /\ s = "consumed" /\ a = "none" /\ c.event = k
        BY <3>1
      <3>3. QED
        BY <3>1, <3>2, <1>1, <1>2
    <2>2. CASE v # u
      <3>1. cycle'[v] = cycle[v] /\ cycle[v].event # k
        BY <1>4, <1>6, <2>2
      <3>2. cycle[v].event \in DOMAIN event /\ event'[cycle[v].event] = event[cycle[v].event]
        BY <3>1, <1>2 DEF CycleRows
      <3>3. QED
        BY <3>1, <3>2, <1>2 DEF CycleRows
    <2>3. QED
      BY <2>1, <2>2
  <1>8. RowsApart'
    BY <1>4, <1>6 DEF RowsApart
  <1>9. SentBillable'
    <2> SUFFICES ASSUME NEW e \in sent
                 PROVE  /\ event'[e].status \in {"consumed", "success"}
                        /\ event'[e].answer # "legacy"
      BY DEF SentBillable
    <2>1. e \in DOMAIN event
      BY DEF TypeOK
    <2>2. CASE e = k
      BY <1>2, <2>2
    <2>3. CASE e # k
      BY <1>2, <2>1, <2>3 DEF SentBillable
    <2>4. QED
      BY <2>2, <2>3
  <1>10. OwnWithinBudget'
    <2>1. \A e \in DOMAIN event' : Counts(e)' =>
             e \in DOMAIN event /\ event'[e].day = event[e].day /\ Counts(e)
      BY <1>1, <1>2 DEF Counts
    <2>2. QED
      BY <1>3, <2>1, NothingNewCounts
  <1>11. QED
    BY <1>3, <1>5, <1>7, <1>8, <1>9, <1>10

-----------------------------------------------------------------------------
(* Each action preserves the invariant. *)

LEMMA InitInv == Init => IInv
  <1> SUFFICES ASSUME Init PROVE IInv
    OBVIOUS
  <1> USE DEF Init
  <1>1. TypeOK
    <2>1. 1 \in Days /\ 0 \in 0..MaxStarts
      BY UsageAssumption DEF Days
    <2>2. event \in Seq(Event) /\ DOMAIN event = {}
      OBVIOUS
    <2>3. cycle \in [Units -> Cycle]
      BY OffTyped
    <2>4. QED
      BY <2>1, <2>2, <2>3 DEF TypeOK
  <1>2. \A u \in Units : cycle[u].step = "off"
    BY OffTyped
  <1>3. CycleStarted /\ CycleRows /\ RowsApart
    BY <1>2 DEF CycleStarted, CycleRows, RowsApart, Holding
  <1>4. SentBillable
    BY DEF SentBillable
  <1>5. OwnWithinBudget
    <2> SUFFICES ASSUME NEW d \in Days
                 PROVE  /\ Cardinality(OwnRows(d)) <= DailyBudget
                        /\ Cardinality(OwnMonth(d)) <= SoftCeiling
                        /\ Cardinality(OwnMonth(d)) <= MonthlyBudget
      BY DEF OwnWithinBudget
    <2>1. OwnRows(d) = {} /\ OwnMonth(d) = {}
      BY DEF OwnRows, OwnMonth
    <2>2. QED
      BY <2>1, FS_EmptySet, UsageAssumption
  <1>6. QED
    BY <1>1, <1>3, <1>4, <1>5 DEF IInv

LEMMA NextDayInv == IInv /\ NextDay => IInv'
  <1> SUFFICES ASSUME IInv, NextDay PROVE IInv'
    OBVIOUS
  <1> USE DEF IInv, NextDay
  <1>1. TypeOK'
    BY UsageAssumption DEF TypeOK, Days
  <1>2. (CycleStarted /\ CycleRows /\ RowsApart /\ SentBillable)'
    BY DEF CycleStarted, CycleRows, RowsApart, SentBillable
  <1>3. OwnWithinBudget'
    BY <1>1, NothingNewCounts DEF Counts
  <1>4. QED
    BY <1>1, <1>2, <1>3

LEMMA StartInv == ASSUME IInv, NEW u \in Units, Start(u) PROVE IInv'
  <1>1. started' \in 1..MaxStarts /\ day \in Days /\ 1 \in Nat
    BY UsageAssumption DEF IInv, TypeOK, Start
  <1>2. CASE BreakerOpen(day)
    <2>1. UNCHANGED <<day, event, sent, cycle>>
      BY <1>2 DEF Start
    <2>2. TypeOK'
      BY <1>1, <2>1 DEF IInv, TypeOK
    <2>3. (CycleStarted /\ CycleRows /\ RowsApart /\ SentBillable)'
      BY <2>1 DEF IInv, CycleStarted, CycleRows, RowsApart, SentBillable
    <2>4. OwnWithinBudget'
      BY <2>1, <2>2, NothingNewCounts DEF IInv, Counts
    <2>5. QED
      BY <2>2, <2>3, <2>4 DEF IInv
  <1>3. CASE ~BreakerOpen(day)
    <2>1. Goes(u, AtCity(started + 1, day, 1))
      BY <1>3 DEF Start
    <2>2. /\ AtCity(started + 1, day, 1) \in Cycle
          /\ AtCity(started + 1, day, 1).step = "city"
          /\ AtCity(started + 1, day, 1).at = started + 1
      BY <1>1, AtCityTyped DEF Start
    <2>3. UNCHANGED <<day, event, sent>> /\ started' = started + 1 /\ started' \in 0..MaxStarts
      BY <1>1 DEF Start
    <2>4. QED
      BY <1>1, <2>1, <2>2, <2>3, CycleMoves DEF Holding
  <1>4. QED
    BY <1>2, <1>3

(* The cycle of u moves, and nothing else does. *)
MovesTo(u, c) == Goes(u, c) /\ UNCHANGED <<day, started, event, sent>>

LEMMA MovesInv ==
    ASSUME IInv, NEW u \in Units, NEW c \in Cycle, MovesTo(u, c),
           cycle[u].step # "off", c.step \notin Holding,
           c.step = "off" \/ c.at = cycle[u].at
    PROVE  IInv'
  <1>1. c.step # "off" => c.at \in 1..MaxStarts
    BY DEF IInv, CycleStarted
  <1>2. started' \in 0..MaxStarts
    BY DEF IInv, TypeOK, MovesTo
  <1>3. QED
    BY <1>1, <1>2, CycleMoves DEF MovesTo

LEMMA EnterCityInv == ASSUME IInv, NEW u \in Units, EnterCity(u) PROVE IInv'
  <1> DEFINE c == [cycle[u] EXCEPT !.step = "reserve"]
  <1>1. c \in Cycle /\ c.step = "reserve" /\ c.at = cycle[u].at
    BY DEF IInv, TypeOK, Cycle, Steps
  <1>2. MovesTo(u, c) /\ cycle[u].step # "off"
    BY DEF EnterCity, MovesTo
  <1> HIDE DEF c
  <1>3. QED
    BY <1>1, <1>2, MovesInv DEF Holding

LEMMA SkipCityInv == ASSUME IInv, NEW u \in Units, SkipCity(u) PROVE IInv'
  <1>1. MovesTo(u, NextCity(u)) /\ cycle[u].step # "off" /\ TypeOK
    BY DEF SkipCity, MovesTo, IInv
  <1>2. QED
    BY <1>1, NextCityTyped, MovesInv DEF Holding

LEMMA FinishInv == ASSUME IInv, NEW u \in Units, Finish(u) \/ Crash(u) PROVE IInv'
  <1>1. MovesTo(u, Off) /\ cycle[u].step # "off"
    BY DEF Finish, Crash, MovesTo
  <1>2. QED
    BY <1>1, OffTyped, MovesInv DEF Holding

LEMMA DeniedInv == ASSUME IInv, NEW u \in Units, Denied(u) \/ CompleteFails(u) PROVE IInv'
  <1>1. MovesTo(u, NextEndpoint(u)) /\ cycle[u].step # "off" /\ TypeOK
    BY DEF Denied, CompleteFails, MovesTo, IInv
  <1>2. QED
    BY <1>1, NextEndpointTyped, MovesInv DEF Holding

LEMMA HoldsRow ==
    ASSUME IInv, NEW u \in Units, cycle[u].step \in Holding
    PROVE  /\ TypeOK
           /\ cycle[u].event \in DOMAIN event
           /\ event[cycle[u].event].status =
                 IF cycle[u].step = "reserved" THEN "reserved" ELSE "consumed"
           /\ cycle[u].step = "reserved" => cycle[u].event \notin sent
           /\ cycle[u].at \in 1..MaxStarts
  <1>1. TypeOK /\ CycleRows /\ CycleStarted /\ SentBillable
    BY DEF IInv
  <1>2. cycle[u].step # "off"
    BY DEF Holding
  <1>3. QED
    BY <1>1, <1>2 DEF CycleRows, CycleStarted, SentBillable

LEMMA MarkDispatchedInv == ASSUME IInv, NEW u \in Units, MarkDispatched(u) PROVE IInv'
  <1> DEFINE c == [cycle[u] EXCEPT !.step = "dispatched"]
  <1>1. c \in Cycle /\ c.step = "dispatched" /\ c.at = cycle[u].at /\ c.event = cycle[u].event
    BY DEF IInv, TypeOK, Cycle, Steps
  <1>2. cycle[u].step \in Holding
    BY DEF MarkDispatched, Holding
  <1>3. Goes(u, c) /\ event' = Marked(u, "consumed", "none") /\ UNCHANGED <<day, started, sent>>
    BY DEF MarkDispatched
  <1> HIDE DEF c
  <1>4. Amends(cycle[u].event, "consumed", "none")
    BY <1>2, <1>3, HoldsRow, MarkedAmends DEF Statuses, Answers
  <1>5. QED
    BY <1>1, <1>2, <1>3, <1>4, HoldsRow, CycleMarks DEF Statuses, Answers, Billable

LEMMA CancelInv ==
    ASSUME IInv, NEW u \in Units, cycle[u].step = "reserved",
           event' = Marked(u, "cancelled", "none"), Goes(u, NextEndpoint(u)),
           UNCHANGED <<day, started, sent>>
    PROVE  IInv'
  <1>1. cycle[u].step \in Holding
    BY DEF Holding
  <1>2. /\ NextEndpoint(u) \in Cycle
        /\ NextEndpoint(u).step \notin Holding
        /\ NextEndpoint(u).at = cycle[u].at
    BY <1>1, HoldsRow, NextEndpointTyped DEF Holding
  <1>3. Amends(cycle[u].event, "cancelled", "none")
    BY <1>1, HoldsRow, MarkedAmends DEF Statuses, Answers
  <1>4. QED
    BY <1>1, <1>2, <1>3, HoldsRow, CycleMarks DEF Statuses, Answers

LEMMA DispatchFailsInv == ASSUME IInv, NEW u \in Units, DispatchFails(u) PROVE IInv'
  <1>1. CASE event' = Marked(u, "cancelled", "none")
    BY <1>1, CancelInv DEF DispatchFails
  <1>2. CASE UNCHANGED event
    <2>1. MovesTo(u, NextEndpoint(u)) /\ cycle[u].step # "off" /\ TypeOK
      BY <1>2 DEF DispatchFails, MovesTo, IInv
    <2>2. QED
      BY <2>1, NextEndpointTyped, MovesInv DEF Holding
  <1>3. QED
    BY <1>1, <1>2 DEF DispatchFails

LEMMA SendInv == ASSUME IInv, NEW u \in Units, Send(u) PROVE IInv'
  <1> DEFINE c == [cycle[u] EXCEPT !.step = "sent"]
  <1>1. /\ c \in Cycle /\ c.step = "sent" /\ c.at = cycle[u].at
        /\ c.event = cycle[u].event
    BY DEF IInv, TypeOK, Cycle, Steps
  <1>2. cycle[u].step \in Holding /\ cycle[u].step # "reserved"
    BY DEF Send, Holding
  <1>3. Goes(u, c) /\ sent' = sent \cup {cycle[u].event} /\ UNCHANGED <<day, started, event>>
    BY DEF Send
  <1> HIDE DEF c
  <1>4. \A v \in Units : cycle'[v] = IF v = u THEN c ELSE cycle[v]
    BY <1>3 DEF Goes, IInv, TypeOK
  <1>5. TypeOK'
    BY <1>1, <1>2, <1>3, HoldsRow DEF Goes, IInv, TypeOK
  <1>6. CycleStarted'
    BY <1>1, <1>2, <1>4, HoldsRow DEF IInv, CycleStarted
  <1>7. CycleRows'
    BY <1>1, <1>2, <1>3, <1>4 DEF IInv, CycleRows
  <1>8. RowsApart'
    BY <1>1, <1>2, <1>4 DEF IInv, RowsApart
  <1>9. SentBillable'
    BY <1>2, <1>3 DEF IInv, CycleRows, SentBillable
  <1>10. OwnWithinBudget'
    BY <1>3, <1>5, NothingNewCounts DEF IInv, Counts
  <1>11. QED
    BY <1>5, <1>6, <1>7, <1>8, <1>9, <1>10 DEF IInv

LEMMA CompletedInv ==
    ASSUME IInv, NEW u \in Units, cycle[u].step = "sent",
           NEW s \in {"consumed", "success"}, NEW a \in {"ok", "4xx", "other"},
           event' = Marked(u, s, a), UNCHANGED <<day, started, sent>>,
           NEW c \in Cycle, Goes(u, c), c.step \notin Holding, c.at = cycle[u].at
    PROVE  IInv'
  <1>1. cycle[u].step \in Holding
    BY DEF Holding
  <1>2. s \in Statuses /\ s \in Billable /\ a \in Answers \ {"legacy"}
    BY DEF Statuses, Billable, Answers
  <1>3. Amends(cycle[u].event, s, a)
    BY <1>1, <1>2, HoldsRow, MarkedAmends
  <1>4. QED
    BY <1>1, <1>2, <1>3, HoldsRow, CycleMarks

LEMMA SucceedInv == ASSUME IInv, NEW u \in Units, Succeed(u) PROVE IInv'
  <1>1. /\ cycle[u].step = "sent" /\ event' = Marked(u, "success", "ok")
        /\ UNCHANGED <<day, started, sent>> /\ TypeOK
    BY DEF Succeed, IInv
  <1>2. CASE Goes(u, NextEndpoint(u))
    BY <1>1, <1>2, NextEndpointTyped, CompletedInv DEF Holding
  <1>3. CASE Goes(u, [cycle[u] EXCEPT !.step = "reserve", !.page = @ + 1, !.event = 0])
    <2> DEFINE c == [cycle[u] EXCEPT !.step = "reserve", !.page = @ + 1, !.event = 0]
    <2>1. \A p, k \in Nat :
             /\ [cycle[u] EXCEPT !.step = "reserve", !.page = p, !.event = k] \in Cycle
             /\ [cycle[u] EXCEPT !.step = "reserve", !.page = p, !.event = k].step = "reserve"
             /\ [cycle[u] EXCEPT !.step = "reserve", !.page = p, !.event = k].at = cycle[u].at
      BY <1>1 DEF TypeOK, Cycle, Steps
    <2>2. cycle[u].page + 1 \in Nat /\ 0 \in Nat
      BY <1>1 DEF TypeOK, Cycle
    <2>3. c \in Cycle /\ c.step = "reserve" /\ c.at = cycle[u].at
      BY <2>1, <2>2
    <2> HIDE DEF c
    <2>4. Goes(u, c)
      BY <1>3 DEF c
    <2>5. QED
      BY <1>1, <2>3, <2>4, CompletedInv DEF Holding
  <1>4. QED
    BY <1>2, <1>3 DEF Succeed

LEMMA FailInv == ASSUME IInv, NEW u \in Units, Fail(u) PROVE IInv'
  <1>1. PICK a \in {"4xx", "other"} : event' = Marked(u, "consumed", a)
    BY DEF Fail
  <1>2. /\ cycle[u].step = "sent" /\ UNCHANGED <<day, started, sent>> /\ TypeOK
        /\ Goes(u, NextEndpoint(u))
    BY DEF Fail, IInv
  <1>3. QED
    BY <1>1, <1>2, NextEndpointTyped, CompletedInv DEF Holding

(* A reservation appends its row. *)
LEMMA ReservedRow ==
    ASSUME IInv, NEW u \in Units, Reserve(u)
    PROVE  /\ event' \in Seq(Event)
           /\ DOMAIN event' = DOMAIN event \cup {Len(event) + 1}
           /\ \A e \in DOMAIN event : event'[e] = event[e]
           /\ event'[Len(event) + 1] = NewRow(u)
           /\ Len(event) + 1 \notin DOMAIN event
  <1> DEFINE n == Len(event) + 1
  <1>1. TypeOK /\ cycle[u] \in Cycle /\ cycle[u].at \in 1..MaxStarts
    BY DEF IInv, TypeOK, CycleStarted, Reserve
  <1>2. Len(event) \in Nat /\ n \in Nat /\ DOMAIN event = 1..Len(event)
    BY <1>1, Shape
  <1>3. NewRow(u) \in Event
    BY <1>1 DEF NewRow, Event, Cycle, Statuses, Answers
  <1>4. event \in Seq(Event) /\ event' = Append(event, NewRow(u))
    BY <1>1 DEF TypeOK, Reserve
  <1>5. /\ Append(event, NewRow(u)) \in Seq(Event)
        /\ Len(Append(event, NewRow(u))) = n
        /\ \A i \in 1..Len(event) : Append(event, NewRow(u))[i] = event[i]
        /\ Append(event, NewRow(u))[n] = NewRow(u)
    BY <1>2, <1>3, <1>4, AppendProperties
  <1>6. DOMAIN event' = 1..n
    BY <1>4, <1>5, LenProperties
  <1>7. QED
    BY <1>2, <1>4, <1>5, <1>6

(* The only step after which one more row counts: under the budget. *)
LEMMA ReserveInv == ASSUME IInv, NEW u \in Units, Reserve(u) PROVE IInv'
  <1> DEFINE n == Len(event) + 1
  <1> DEFINE c == [cycle[u] EXCEPT !.step = "reserved", !.event = n]
  <1>1. TypeOK /\ cycle[u] \in Cycle /\ cycle[u].at \in 1..MaxStarts
    BY DEF IInv, TypeOK, CycleStarted, Reserve
  <1>2. Len(event) \in Nat /\ n \in Nat /\ DOMAIN event = 1..Len(event)
    BY <1>1, Shape
  <1>4. /\ event' \in Seq(Event)
        /\ DOMAIN event' = DOMAIN event \cup {n}
        /\ \A e \in DOMAIN event : event'[e] = event[e]
        /\ event'[n] = NewRow(u)
        /\ n \notin DOMAIN event
    BY ReservedRow
  <1>5. \A k \in Nat : /\ [cycle[u] EXCEPT !.step = "reserved", !.event = k] \in Cycle
                       /\ [cycle[u] EXCEPT !.step = "reserved", !.event = k].step = "reserved"
                       /\ [cycle[u] EXCEPT !.step = "reserved", !.event = k].at = cycle[u].at
                       /\ [cycle[u] EXCEPT !.step = "reserved", !.event = k].event = k
    BY <1>1 DEF Cycle, Steps
  <1>6. c \in Cycle /\ c.step = "reserved" /\ c.at = cycle[u].at /\ c.event = n
    BY <1>5, <1>2
  <1>7. Goes(u, c) /\ UNCHANGED <<day, started, sent>>
    BY DEF Reserve
  <1> HIDE DEF c, n
  <1>8. \A v \in Units : cycle'[v] = IF v = u THEN c ELSE cycle[v]
    BY <1>1, <1>7 DEF Goes, TypeOK
  <1>9. TypeOK'
    BY <1>1, <1>4, <1>6, <1>7 DEF TypeOK, Goes
  <1>10. CycleStarted'
    BY <1>1, <1>6, <1>8 DEF IInv, CycleStarted
  <1>11. CycleRows'
    <2> SUFFICES ASSUME NEW v \in Units, cycle'[v].step \in Holding
                 PROVE  /\ cycle'[v].event \in DOMAIN event'
                        /\ event'[cycle'[v].event].answer = "none"
                        /\ event'[cycle'[v].event].status =
                              IF cycle'[v].step = "reserved" THEN "reserved" ELSE "consumed"
      BY DEF CycleRows, Holding
    <2>1. CASE v = u
      BY <2>1, <1>4, <1>6, <1>8 DEF NewRow
    <2>2. CASE v # u
      BY <2>2, <1>4, <1>8 DEF IInv, CycleRows
    <2>3. QED
      BY <2>1, <2>2
  <1>12. RowsApart'
    BY <1>4, <1>6, <1>8 DEF IInv, RowsApart, CycleRows
  <1>13. SentBillable'
    BY <1>1, <1>4, <1>7 DEF IInv, SentBillable, TypeOK
  <1>14. OwnWithinBudget'
    <2> SUFFICES ASSUME NEW d \in Days
                 PROVE  /\ Cardinality(OwnRows(d)') <= DailyBudget
                        /\ Cardinality(OwnMonth(d)') <= SoftCeiling
                        /\ Cardinality(OwnMonth(d)') <= MonthlyBudget
      BY DEF OwnWithinBudget
    <2> DEFINE b == cycle[u].day
    <2>1. event'[n].day = b
      BY <1>4 DEF NewRow
    <2>2. OwnRows(d)' \subseteq (IF d = b THEN OwnRows(d) \cup {n} ELSE OwnRows(d))
      BY <1>4, <2>1 DEF OwnRows, Counts
    <2>3. OwnMonth(d)' \subseteq
             (IF Month(b) = Month(d) THEN OwnMonth(d) \cup {n} ELSE OwnMonth(d))
      BY <1>4, <2>1 DEF OwnMonth, Counts, Month
    <2>4. OwnRows(d) \in SUBSET DayEvents(d) /\ OwnMonth(d) \in SUBSET MonthEvents(d)
      BY DEF OwnRows, OwnMonth, DayEvents, MonthEvents, Counts
    <2>5. /\ IsFiniteSet(OwnRows(d)) /\ IsFiniteSet(OwnMonth(d))
          /\ IsFiniteSet(DayEvents(d)) /\ IsFiniteSet(MonthEvents(d))
      BY <1>1, OwnFinite
    <2>6. /\ Cardinality(OwnRows(d)) <= Cardinality(DayEvents(d))
          /\ Cardinality(OwnMonth(d)) <= Cardinality(MonthEvents(d))
      BY <2>4, <2>5, FS_Subset
    <2>7. /\ IsFiniteSet(OwnRows(d) \cup {n}) /\ IsFiniteSet(OwnMonth(d) \cup {n})
          /\ Cardinality(OwnRows(d) \cup {n}) <= Cardinality(OwnRows(d)) + 1
          /\ Cardinality(OwnMonth(d) \cup {n}) <= Cardinality(OwnMonth(d)) + 1
      <3>1. Cardinality(OwnRows(d)) \in Nat /\ Cardinality(OwnMonth(d)) \in Nat
        BY <2>5, FS_CardinalityType
      <3>2. /\ IsFiniteSet(OwnRows(d) \cup {n})
            /\ Cardinality(OwnRows(d) \cup {n}) \in {Cardinality(OwnRows(d)), Cardinality(OwnRows(d)) + 1}
        BY <2>5, FS_AddElement, Zenon
      <3>3. /\ IsFiniteSet(OwnMonth(d) \cup {n})
            /\ Cardinality(OwnMonth(d) \cup {n}) \in {Cardinality(OwnMonth(d)), Cardinality(OwnMonth(d)) + 1}
        BY <2>5, FS_AddElement, Zenon
      <3>4. QED
        BY <3>1, <3>2, <3>3
    <2>8. /\ Cardinality(OwnRows(d)) \in Nat /\ Cardinality(OwnMonth(d)) \in Nat
          /\ Cardinality(DayEvents(d)) \in Nat /\ Cardinality(MonthEvents(d)) \in Nat
          /\ Cardinality(OwnRows(d) \cup {n}) \in Nat /\ Cardinality(OwnMonth(d) \cup {n}) \in Nat
      BY <2>5, <2>7, FS_CardinalityType
    <2>9. /\ Cardinality(OwnRows(d)) <= DailyBudget
          /\ Cardinality(OwnMonth(d)) <= SoftCeiling
          /\ Cardinality(OwnMonth(d)) <= MonthlyBudget
      BY DEF IInv, OwnWithinBudget
    <2>10. /\ Cardinality(DayEvents(b)) < DailyBudget
           /\ Cardinality(MonthEvents(b)) < MonthlyBudget
           /\ Cardinality(MonthEvents(b)) < SoftCeiling
      BY DEF Reserve, MayReserve
    <2>11. Cardinality(OwnRows(d)') \in Nat /\ Cardinality(OwnMonth(d)') \in Nat
      BY <2>2, <2>3, <2>5, <2>7, FS_Subset, FS_CardinalityType
    <2>12. Cardinality(OwnRows(d)') <= DailyBudget
      <3>1. CASE d = b
        <4>1. Cardinality(OwnRows(d)') <= Cardinality(OwnRows(d) \cup {n})
          BY <2>2, <2>7, <3>1, FS_Subset
        <4>2. Cardinality(DayEvents(d)) < DailyBudget
          BY <2>10, <3>1
        <4>3. QED
          BY <4>1, <4>2, <2>6, <2>7, <2>8, <2>11, UsageAssumption
      <3>2. CASE d # b
        <4>1. Cardinality(OwnRows(d)') <= Cardinality(OwnRows(d))
          BY <2>2, <2>5, <3>2, FS_Subset
        <4>2. QED
          BY <4>1, <2>8, <2>9, <2>11, UsageAssumption
      <3>3. QED
        BY <3>1, <3>2
    <2>13. Cardinality(OwnMonth(d)') <= SoftCeiling /\ Cardinality(OwnMonth(d)') <= MonthlyBudget
      <3>1. CASE Month(b) = Month(d)
        <4>1. Cardinality(OwnMonth(d)') <= Cardinality(OwnMonth(d) \cup {n})
          BY <2>3, <2>7, <3>1, FS_Subset
        <4>2. MonthEvents(b) = MonthEvents(d)
          BY <3>1 DEF MonthEvents
        <4>3. /\ Cardinality(MonthEvents(d)) < MonthlyBudget
              /\ Cardinality(MonthEvents(d)) < SoftCeiling
          BY <2>10, <4>2
        <4>4. QED
          BY <4>1, <4>3, <2>6, <2>7, <2>8, <2>11, UsageAssumption
      <3>2. CASE Month(b) # Month(d)
        <4>1. Cardinality(OwnMonth(d)') <= Cardinality(OwnMonth(d))
          BY <2>3, <2>5, <3>2, FS_Subset
        <4>2. QED
          BY <4>1, <2>8, <2>9, <2>11, UsageAssumption
      <3>3. QED
        BY <3>1, <3>2
    <2>14. QED
      BY <2>12, <2>13
  <1>15. QED
    BY <1>9, <1>10, <1>11, <1>12, <1>13, <1>14 DEF IInv

(* A seed appends rows of the cutover, and nothing else. *)
LEMMA SeededRows ==
    ASSUME IInv, Seed
    PROVE  /\ event' \in Seq(Event)
           /\ DOMAIN event \subseteq DOMAIN event'
           /\ \A e \in DOMAIN event : event'[e] = event[e]
           /\ \A e \in DOMAIN event' \ DOMAIN event : event'[e] = LegacyRow
  <1>1. TypeOK /\ started + 1 \in 1..MaxStarts /\ FirstOf(day) \in Days
    <2>1. TypeOK /\ started \in 0..MaxStarts /\ started < MaxStarts /\ day \in Days
      BY DEF IInv, TypeOK, Seed
    <2>2. FirstOf(day) \in Days
      BY <2>1, FirstOfIsADay
    <2>3. QED
      BY <2>1, <2>2, UsageAssumption
  <1>2. LegacyRow \in Event /\ LegacyRow.answer = "legacy"
    BY <1>1 DEF LegacyRow, Event, Statuses, Answers
  <1>3. PICK n \in 1..LegacyEvents :
           event' = event \o [i \in 1..(n - Cardinality(LegacyRows(day))) |-> LegacyRow]
    BY DEF Seed
  <1>4. Cardinality(LegacyRows(day)) \in Nat
    <2>1. LegacyRows(day) \in SUBSET DOMAIN event
      BY DEF LegacyRows
    <2>2. IsFiniteSet(LegacyRows(day))
      BY <1>1, <2>1, OwnFinite, FS_Subset
    <2>3. QED
      BY <2>2, FS_CardinalityType
  <1>5. PICK k \in Nat : event' = event \o [i \in 1..k |-> LegacyRow]
    <2> DEFINE m == n - Cardinality(LegacyRows(day))
    <2>1. m \in Int
      BY <1>3, <1>4, UsageAssumption
    <2>2. event' = event \o [i \in 1..m |-> LegacyRow]
      BY <1>3
    <2> HIDE DEF m
    <2>3. CASE m >= 0
      <3>1. m \in Nat
        BY <2>1, <2>3
      <3>2. QED
        BY <2>2, <3>1
    <2>4. CASE m < 0
      <3>1. 1..m = 1..0 /\ 0 \in Nat
        BY <2>1, <2>4
      <3>2. event' = event \o [i \in 1..0 |-> LegacyRow]
        BY <2>2, <3>1
      <3>3. QED
        BY <3>1, <3>2
    <2>5. m >= 0 \/ m < 0
      BY <2>1
    <2>6. QED
      BY <2>3, <2>4, <2>5, Zenon
  <1> DEFINE new == [i \in 1..k |-> LegacyRow]
  <1>6. new \in Seq(Event) /\ Len(new) = k /\ \A i \in 1..k : new[i] = LegacyRow
    <2>1. new \in [1..k -> Event]
      BY <1>2
    <2>2. new \in Seq(Event) /\ DOMAIN new = 1..k
      BY <2>1, SeqDef
    <2>3. QED
      BY <2>2, LenProperties
  <1>7. event' = event \o new
    BY <1>5
  <1> HIDE DEF new
  <1>8. /\ Len(event) \in Nat /\ DOMAIN event = 1..Len(event) /\ event \in Seq(Event)
    BY <1>1, Shape DEF TypeOK
  <1>9. /\ event' \in Seq(Event)
        /\ DOMAIN event' = 1..(Len(event) + k)
        /\ \A e \in DOMAIN event : event'[e] = event[e]
        /\ \A e \in DOMAIN event' : e \notin DOMAIN event => event'[e] = LegacyRow
    <2>1. /\ event \o new \in Seq(Event)
          /\ Len(event \o new) = Len(event) + k
          /\ \A i \in 1..(Len(event) + k) :
                (event \o new)[i] = IF i <= Len(event) THEN event[i] ELSE new[i - Len(event)]
      BY <1>6, <1>8, ConcatProperties
    <2>2. DOMAIN event' = 1..(Len(event) + k)
      BY <1>7, <2>1, LenProperties
    <2>3. ASSUME NEW e \in DOMAIN event', e \notin DOMAIN event
          PROVE  event'[e] = LegacyRow
      <3>1. e - Len(event) \in 1..k /\ ~(e <= Len(event)) /\ e \in 1..(Len(event) + k)
        BY <1>8, <2>2, <2>3
      <3>2. QED
        BY <1>6, <1>7, <2>1, <3>1
    <2>4. QED
      BY <1>7, <1>8, <2>1, <2>2, <2>3
  <1>10. DOMAIN event \subseteq DOMAIN event'
    BY <1>8, <1>9
  <1>11. QED
    BY <1>9, <1>10

LEMMA SeedInv == ASSUME IInv, Seed PROVE IInv'
  <1>1. TypeOK /\ started + 1 \in 1..MaxStarts
    BY UsageAssumption DEF IInv, TypeOK, Seed
  <1>9. /\ event' \in Seq(Event)
        /\ \A e \in DOMAIN event : event'[e] = event[e]
        /\ \A e \in DOMAIN event' : e \notin DOMAIN event => event'[e].answer = "legacy"
    BY SeededRows DEF LegacyRow
  <1>10. UNCHANGED <<day, sent, cycle>> /\ started' \in 0..MaxStarts
    BY <1>1 DEF Seed
  <1>11. DOMAIN event \subseteq DOMAIN event'
    BY SeededRows
  <1>12. TypeOK'
    BY <1>1, <1>9, <1>10, <1>11 DEF TypeOK
  <1>13. (CycleStarted /\ RowsApart)'
    BY <1>10 DEF IInv, CycleStarted, RowsApart
  <1>14. CycleRows'
    BY <1>9, <1>10, <1>11 DEF IInv, CycleRows
  <1>15. SentBillable'
    BY <1>1, <1>9, <1>10 DEF IInv, SentBillable, TypeOK
  <1>16. OwnWithinBudget'
    <2>1. \A e \in DOMAIN event' : Counts(e)' =>
             e \in DOMAIN event /\ event'[e].day = event[e].day /\ Counts(e)
      BY <1>9 DEF Counts
    <2>2. QED
      BY <1>1, <1>12, <2>1, NothingNewCounts DEF IInv
  <1>17. QED
    BY <1>12, <1>13, <1>14, <1>15, <1>16 DEF IInv

LEMMA StutterInv == IInv /\ UNCHANGED vars => IInv'
  <1> SUFFICES ASSUME IInv, UNCHANGED vars PROVE IInv'
    OBVIOUS
  <1> USE DEF vars, IInv
  <1>1. TypeOK'
    BY DEF TypeOK
  <1>2. (CycleStarted /\ CycleRows /\ RowsApart /\ SentBillable)'
    BY DEF CycleStarted, CycleRows, RowsApart, SentBillable
  <1>3. OwnWithinBudget'
    BY <1>1, NothingNewCounts DEF Counts
  <1>4. QED
    BY <1>1, <1>2, <1>3

-----------------------------------------------------------------------------
(* The inductive invariant of the ledger and its cycles holds for any      *)
(* number of units, cities, cycles and days, whatever the budgets.         *)
THEOREM Inductive == Spec => []IInv
  <1>1. IInv /\ [Next]_vars => IInv'
    <2> SUFFICES ASSUME IInv, [Next]_vars PROVE IInv'
      OBVIOUS
    <2>1. CASE NextDay
      BY <2>1, NextDayInv
    <2>2. CASE Seed
      BY <2>2, SeedInv
    <2>3. ASSUME NEW u \in Units,
                 \/ Start(u) \/ EnterCity(u) \/ SkipCity(u) \/ Finish(u)
                 \/ Reserve(u) \/ Denied(u)
                 \/ MarkDispatched(u) \/ DispatchFails(u) \/ Send(u)
                 \/ Succeed(u) \/ Fail(u) \/ CompleteFails(u)
                 \/ Crash(u)
          PROVE  IInv'
      BY <2>3, StartInv, EnterCityInv, SkipCityInv, FinishInv, ReserveInv, DeniedInv,
         MarkDispatchedInv, DispatchFailsInv, SendInv, SucceedInv, FailInv
    <2>4. CASE UNCHANGED vars
      BY <2>4, StutterInv
    <2>5. QED
      BY <2>1, <2>2, <2>3, <2>4 DEF Next
  <1>2. QED
    BY InitInv, <1>1, PTL DEF Spec

(* The ledger's rows, the history of what was sent and the cycles keep     *)
(* their types; in particular the seed is billed to a day that exists.     *)
THEOREM TypeCorrect == Spec => []TypeOK
  <1>1. IInv => TypeOK
    BY DEF IInv
  <1>2. QED
    BY Inductive, <1>1, PTL

(* Whatever cycles overlap, die or fail half-way, what was sent to Google  *)
(* on a billing day or month stays within its budgets.                     *)
THEOREM WithinBudget == Spec => []SentWithinBudget
  <1>1. IInv => SentWithinBudget
    <2> SUFFICES ASSUME IInv PROVE SentWithinBudget
      OBVIOUS
    <2>1. TypeOK /\ SentBillable /\ OwnWithinBudget
      BY DEF IInv
    <2>2. \A e \in sent : e \in DOMAIN event /\ Counts(e)
      BY <2>1 DEF TypeOK, SentBillable, Counts, Billable
    <2>3. ASSUME NEW d \in Days
          PROVE  /\ Cardinality(SentOn(d)) <= DailyBudget
                 /\ Cardinality(SentInMonth(d)) <= SoftCeiling
                 /\ Cardinality(SentInMonth(d)) <= MonthlyBudget
      <3>1. SentOn(d) \in SUBSET OwnRows(d) /\ SentInMonth(d) \in SUBSET OwnMonth(d)
        BY <2>2 DEF SentOn, SentInMonth, OwnRows, OwnMonth
      <3>2. /\ Cardinality(SentOn(d)) <= Cardinality(OwnRows(d))
            /\ Cardinality(SentInMonth(d)) <= Cardinality(OwnMonth(d))
            /\ Cardinality(SentOn(d)) \in Nat /\ Cardinality(OwnRows(d)) \in Nat
            /\ Cardinality(SentInMonth(d)) \in Nat /\ Cardinality(OwnMonth(d)) \in Nat
        BY <2>1, <3>1, OwnFinite, FS_Subset, FS_CardinalityType
      <3>3. QED
        BY <2>1, <3>2, UsageAssumption DEF OwnWithinBudget
    <2>4. QED
      BY <2>1, <2>3 DEF SentWithinBudget, SentBillable
  <1>2. QED
    BY Inductive, <1>1, PTL
-----------------------------------------------------------------------------
(***************************************************************************)
(* The breaker.  A reservation of a day whose outcomes are all client      *)
(* errors is granted below the threshold only, and until its own outcome   *)
(* is recorded its cycle asks for no other: outcomes and requests in hand  *)
(* are bounded together.                                                   *)
(***************************************************************************)
OnlyClientErrors(d) == \A e \in Completed(d) : event[e].answer = "4xx"

(* The cycles with a request of day d in hand. *)
AtWork(d) == {u \in Units : cycle[u].step \in Holding /\ event[cycle[u].event].day = d}

DeadKeyInv ==
    Breaker > 0 =>
        \A d \in Days :
            OnlyClientErrors(d) =>
                Cardinality(Completed(d)) + Cardinality(AtWork(d))
                    <= Breaker + Cardinality(Units) - 1

(* The rows of the trailing run of client errors of day d. *)
RunRows(d) ==
    {e \in Completed(d) :
        \A f \in Completed(d) : (f = e \/ Newer(f, e)) => event[f].answer = "4xx"}

LEMMA CompletedFinite ==
    ASSUME TypeOK, NEW d
    PROVE  /\ IsFiniteSet(Completed(d)) /\ Cardinality(Completed(d)) \in Nat
           /\ IsFiniteSet(RunRows(d)) /\ Cardinality(RunRows(d)) \in Nat
           /\ IsFiniteSet(AtWork(d)) /\ Cardinality(AtWork(d)) \in Nat
           /\ Cardinality(AtWork(d)) <= Cardinality(Units)
           /\ Cardinality(Units) \in Nat \ {0}
  <1>1. IsFiniteSet(DOMAIN event) /\ IsFiniteSet(Units) /\ Sfo \in Units
    BY OwnFinite, UsageAssumption
  <1>2. /\ Completed(d) \in SUBSET DOMAIN event
        /\ RunRows(d) \in SUBSET DOMAIN event
        /\ AtWork(d) \in SUBSET Units
    BY DEF Completed, RunRows, AtWork
  <1>3. /\ IsFiniteSet(Completed(d)) /\ IsFiniteSet(RunRows(d)) /\ IsFiniteSet(AtWork(d))
        /\ Cardinality(AtWork(d)) <= Cardinality(Units)
    BY <1>1, <1>2, FS_Subset
  <1>4. Cardinality(Units) # 0
    BY <1>1, FS_EmptySet
  <1>5. QED
    BY <1>1, <1>3, <1>4, FS_CardinalityType

LEMMA LedgerFinite ==
    ASSUME NEW ledger \in Seq(Event)
    PROVE  /\ IsFiniteSet(DOMAIN ledger)
           /\ \A e \in DOMAIN ledger : ledger[e] \in Event
  BY LenProperties, ElementOfSeq, FS_Interval

(* The same after a step. *)
LEMMA CompletedFiniteNext ==
    ASSUME TypeOK', NEW d
    PROVE  /\ IsFiniteSet(Completed(d)') /\ Cardinality(Completed(d)') \in Nat
           /\ IsFiniteSet(RunRows(d)') /\ Cardinality(RunRows(d)') \in Nat
           /\ IsFiniteSet(AtWork(d)') /\ Cardinality(AtWork(d)') \in Nat
           /\ Cardinality(AtWork(d)') <= Cardinality(Units)
  <1>1. event' \in Seq(Event)
    BY DEF TypeOK
  <1>2. IsFiniteSet(DOMAIN event') /\ IsFiniteSet(Units)
    BY <1>1, LedgerFinite, UsageAssumption
  <1>3. /\ Completed(d)' \in SUBSET DOMAIN event'
        /\ RunRows(d)' \in SUBSET DOMAIN event'
        /\ AtWork(d)' \in SUBSET Units
    BY DEF Completed, RunRows, AtWork
  <1>4. /\ IsFiniteSet(Completed(d)') /\ IsFiniteSet(RunRows(d)') /\ IsFiniteSet(AtWork(d)')
        /\ Cardinality(AtWork(d)') <= Cardinality(Units)
    BY <1>2, <1>3, FS_Subset
  <1>5. QED
    BY <1>4, FS_CardinalityType

(* While all outcomes are client errors they are all in the run. *)
LEMMA WholeDayIsTheRun ==
    ASSUME NEW d, OnlyClientErrors(d)
    PROVE  RunRows(d) = Completed(d)
  BY DEF OnlyClientErrors, RunRows

LEMMA RunIsOfRunRows == \A d : Run(d) = Cardinality(RunRows(d))
  BY DEF Run, RunRows

-----------------------------------------------------------------------------
(* What a step does to the outcomes of a day.  A recorded outcome stands. *)
OutcomesStand(d) ==
    /\ \A e \in Completed(d) : e \in Completed(d)' /\ event'[e] = event[e]
    /\ \A e \in Completed(d)' : e \notin Completed(d) =>
          /\ event'[e].day = d
          /\ e \in DOMAIN event => event[e].answer = "none"

(* No new outcome and no new request, a request granted by the breaker, the *)
(* outcome of a request in hand, or rows of the cutover.                     *)
NothingNew(d) == Completed(d)' = Completed(d) /\ AtWork(d)' \subseteq AtWork(d)
Granted(d) == Completed(d)' = Completed(d) /\ ~BreakerOpen(d)
Answered(d) ==
    \E u \in AtWork(d), k \in DOMAIN event :
        /\ Completed(d)' = Completed(d) \cup {k}
        /\ AtWork(d)' \subseteq AtWork(d) \ {u}
Imported(d) == \E e \in Completed(d)' : event'[e].answer = "legacy"

Outcomes(d) ==
    /\ OutcomesStand(d)
    /\ NothingNew(d) \/ Granted(d) \/ Answered(d) \/ Imported(d)

(* The cycle of u either lets go of its request or keeps the one it has. *)
KeepsOrDrops(u, c) ==
    /\ Goes(u, c)
    /\ c.step \notin Holding \/ (cycle[u].step \in Holding /\ c.event = cycle[u].event)

LEMMA StillOutcomes ==
    ASSUME IInv, UNCHANGED event, NEW d
    PROVE  OutcomesStand(d) /\ Completed(d)' = Completed(d)
  BY DEF OutcomesStand, Completed

LEMMA MovesOutcomes ==
    ASSUME IInv, NEW u \in Units, NEW c, KeepsOrDrops(u, c), UNCHANGED event, NEW d
    PROVE  Outcomes(d)
  <1>1. \A v \in Units : cycle'[v] = IF v = u THEN c ELSE cycle[v]
    BY DEF KeepsOrDrops, Goes, IInv, TypeOK
  <1>2. AtWork(d)' \subseteq AtWork(d)
    BY <1>1 DEF AtWork, KeepsOrDrops
  <1>3. QED
    BY <1>2, StillOutcomes DEF Outcomes, NothingNew

(* An UPDATE of the row in hand: it is no outcome before it. *)
LEMMA MarksOutcomes ==
    ASSUME IInv, NEW u \in Units, NEW c, KeepsOrDrops(u, c), cycle[u].step \in Holding,
           NEW s, NEW a, Amends(cycle[u].event, s, a), NEW d,
           a = "none" \/ c.step \notin Holding
    PROVE  Outcomes(d)
  <1> DEFINE k == cycle[u].event
  <1>1. k \in DOMAIN event /\ event[k].answer = "none"
    BY DEF IInv, CycleRows
  <1>2. /\ DOMAIN event' = DOMAIN event
        /\ \A e \in DOMAIN event : event'[e].day = event[e].day
        /\ \A e \in DOMAIN event : e # k => event'[e] = event[e]
        /\ event'[k].answer = a
    BY DEF Amends
  <1>3. \A v \in Units : cycle'[v] = IF v = u THEN c ELSE cycle[v]
    BY DEF KeepsOrDrops, Goes, IInv, TypeOK
  <1>4. \A v \in Units : cycle[v].step \in Holding => cycle[v].event \in DOMAIN event
    BY DEF IInv, CycleRows
  <1>5. AtWork(d)' \subseteq AtWork(d)
    <2> SUFFICES ASSUME NEW v \in Units, cycle'[v].step \in Holding, event'[cycle'[v].event].day = d
                 PROVE  cycle[v].step \in Holding /\ event[cycle[v].event].day = d
      BY DEF AtWork, Holding
    <2>1. cycle[v].step \in Holding /\ cycle'[v].event = cycle[v].event
      BY <1>3 DEF KeepsOrDrops
    <2>2. QED
      BY <2>1, <1>2, <1>4
  <1> HIDE DEF k
  <1>6. k \notin Completed(d)
    BY <1>1 DEF Completed
  <1>7. \A e \in DOMAIN event : e # k => (e \in Completed(d)' <=> e \in Completed(d))
    BY <1>2 DEF Completed
  <1>8. Completed(d) \subseteq DOMAIN event /\ Completed(d)' \subseteq DOMAIN event
    BY <1>2 DEF Completed
  <1>9. OutcomesStand(d)
    <2>1. ASSUME NEW e \in Completed(d) PROVE e \in Completed(d)' /\ event'[e] = event[e]
      BY <2>1, <1>2, <1>6, <1>7, <1>8
    <2>2. ASSUME NEW e \in Completed(d)', e \notin Completed(d)
          PROVE  event'[e].day = d /\ (e \in DOMAIN event => event[e].answer = "none")
      <3>1. e = k
        BY <2>2, <1>7, <1>8
      <3>2. event'[e].day = d
        BY DEF Completed
      <3>3. QED
        BY <3>1, <3>2, <1>1
    <2>3. QED
      BY <2>1, <2>2 DEF OutcomesStand
  <1>10. CASE k \notin Completed(d)'
    BY <1>5, <1>6, <1>7, <1>8, <1>9, <1>10 DEF Outcomes, NothingNew
  <1>11. CASE k \in Completed(d)'
    <2>1. Completed(d)' = Completed(d) \cup {k}
      BY <1>7, <1>8, <1>11
    <2>2. event'[k].day = d /\ a # "none"
      BY <1>2, <1>11 DEF Completed
    <2>3. u \in AtWork(d)
      BY <1>1, <1>2, <2>2 DEF AtWork, k
    <2>4. u \notin AtWork(d)'
      BY <1>3, <2>2 DEF AtWork, Holding
    <2>5. Answered(d)
      BY <1>1, <1>5, <2>1, <2>3, <2>4 DEF Answered
    <2>6. QED
      BY <1>9, <2>5 DEF Outcomes
  <1>12. QED
    BY <1>10, <1>11

LEMMA ReserveOutcomes ==
    ASSUME IInv, NEW u \in Units, Reserve(u), NEW d
    PROVE  Outcomes(d)
  <1> DEFINE n == Len(event) + 1
             c == [cycle[u] EXCEPT !.step = "reserved", !.event = n]
  <1>1. /\ DOMAIN event' = DOMAIN event \cup {n}
        /\ \A e \in DOMAIN event : event'[e] = event[e]
        /\ event'[n] = NewRow(u)
        /\ n \notin DOMAIN event
    BY ReservedRow
  <1>2. cycle'[u] = c /\ \A v \in Units \ {u} : cycle'[v] = cycle[v]
    BY DEF Reserve, Goes, IInv, TypeOK
  <1>3. c.event = n
    BY DEF IInv, TypeOK, Cycle
  <1> HIDE DEF c, n
  <1>4. event'[n].day = cycle[u].day /\ event'[n].answer = "none"
    BY <1>1 DEF NewRow
  <1>5. Completed(d)' = Completed(d)
    BY <1>1, <1>4 DEF Completed
  <1>6. OutcomesStand(d)
    <2>1. \A e \in Completed(d) : e \in DOMAIN event
      BY DEF Completed
    <2>2. QED
      BY <1>1, <1>5, <2>1 DEF OutcomesStand
  <1>7. CASE d = cycle[u].day
    BY <1>5, <1>6, <1>7 DEF Outcomes, Granted, Reserve, MayReserve
  <1>8. CASE d # cycle[u].day
    <2>1. u \notin AtWork(d)'
      BY <1>2, <1>3, <1>4, <1>8 DEF AtWork
    <2>2. \A v \in Units : cycle[v].step \in Holding => cycle[v].event \in DOMAIN event
      BY DEF IInv, CycleRows
    <2>3. AtWork(d)' \subseteq AtWork(d)
      BY <1>1, <1>2, <2>1, <2>2 DEF AtWork
    <2>4. QED
      BY <1>5, <1>6, <2>3 DEF Outcomes, NothingNew
  <1>9. QED
    BY <1>7, <1>8

LEMMA SeedOutcomes ==
    ASSUME IInv, Seed, NEW d
    PROVE  Outcomes(d)
  <1>1. /\ DOMAIN event \subseteq DOMAIN event'
        /\ \A e \in DOMAIN event : event'[e] = event[e]
        /\ \A e \in DOMAIN event' \ DOMAIN event : event'[e] = LegacyRow
    BY SeededRows
  <1>2. \A e \in DOMAIN event : e \in Completed(d)' <=> e \in Completed(d)
    BY <1>1 DEF Completed
  <1>3. Completed(d) \subseteq DOMAIN event /\ Completed(d)' \subseteq DOMAIN event'
    BY DEF Completed
  <1>4. OutcomesStand(d)
    <2>1. \A e \in Completed(d)' : event'[e].day = d
      BY DEF Completed
    <2>2. QED
      BY <1>1, <1>2, <1>3, <2>1 DEF OutcomesStand
  <1>5. CASE \E e \in Completed(d)' : e \notin DOMAIN event
    <2>1. PICK e \in Completed(d)' : e \notin DOMAIN event
      BY <1>5
    <2>2. event'[e].answer = "legacy"
      BY <1>1, <1>3, <2>1 DEF LegacyRow
    <2>3. QED
      BY <1>4, <2>2 DEF Outcomes, Imported
  <1>6. CASE \A e \in Completed(d)' : e \in DOMAIN event
    <2>1. Completed(d)' = Completed(d)
      BY <1>2, <1>3, <1>6
    <2>2. \A v \in Units : cycle[v].step \in Holding => cycle[v].event \in DOMAIN event
      BY DEF IInv, CycleRows
    <2>3. AtWork(d)' \subseteq AtWork(d)
      BY <1>1, <2>2 DEF AtWork, Seed
    <2>4. QED
      BY <1>4, <2>1, <2>3 DEF Outcomes, NothingNew
  <1>7. QED
    BY <1>5, <1>6

LEMMA UnitOutcomes ==
    ASSUME IInv, NEW u \in Units, NEW d,
           \/ Start(u) \/ EnterCity(u) \/ SkipCity(u) \/ Finish(u)
           \/ Reserve(u) \/ Denied(u)
           \/ MarkDispatched(u) \/ DispatchFails(u) \/ Send(u)
           \/ Succeed(u) \/ Fail(u) \/ CompleteFails(u)
           \/ Crash(u)
    PROVE  Outcomes(d)
  <1>0. TypeOK /\ cycle[u] \in Cycle
    BY DEF IInv, TypeOK
  <1>1. CASE Start(u)
    <2>1. CASE BreakerOpen(day)
      <3>1. UNCHANGED <<event, cycle>>
        BY <1>1, <2>1 DEF Start
      <3>2. QED
        BY <3>1, StillOutcomes DEF Outcomes, NothingNew, AtWork
    <2>2. CASE ~BreakerOpen(day)
      <3>1. UNCHANGED event /\ Goes(u, AtCity(started + 1, day, 1))
        BY <1>1, <2>2 DEF Start
      <3>2. AtCity(started + 1, day, 1).step \notin Holding
        BY DEF AtCity, Holding
      <3>3. QED
        BY <3>1, <3>2, MovesOutcomes DEF KeepsOrDrops
    <2>3. QED
      BY <2>1, <2>2
  <1>2. CASE EnterCity(u)
    <2>1. [cycle[u] EXCEPT !.step = "reserve"].step \notin Holding
      BY <1>0 DEF Cycle, Holding
    <2>2. QED
      BY <1>2, <2>1, MovesOutcomes DEF EnterCity, KeepsOrDrops
  <1>3. CASE SkipCity(u)
    BY <1>0, <1>3, NextCityTyped, MovesOutcomes DEF SkipCity, KeepsOrDrops, Holding
  <1>4. CASE Finish(u) \/ Crash(u)
    BY <1>4, OffTyped, MovesOutcomes DEF Finish, Crash, KeepsOrDrops, Holding
  <1>5. CASE Denied(u) \/ CompleteFails(u) \/ (DispatchFails(u) /\ UNCHANGED event)
    BY <1>0, <1>5, NextEndpointTyped, MovesOutcomes
       DEF Denied, CompleteFails, DispatchFails, KeepsOrDrops, Holding
  <1>6. CASE Send(u)
    <2>1. [cycle[u] EXCEPT !.step = "sent"].event = cycle[u].event
      BY <1>0 DEF Cycle
    <2>2. cycle[u].step \in Holding
      BY <1>6 DEF Send, Holding
    <2>3. QED
      BY <1>6, <2>1, <2>2, MovesOutcomes DEF Send, KeepsOrDrops
  <1>7. CASE MarkDispatched(u)
    <2>1. [cycle[u] EXCEPT !.step = "dispatched"].event = cycle[u].event
      BY <1>0 DEF Cycle
    <2>2. cycle[u].step \in Holding
      BY <1>7 DEF MarkDispatched, Holding
    <2>3. Amends(cycle[u].event, "consumed", "none")
      BY <1>7, <2>2, HoldsRow, MarkedAmends DEF MarkDispatched, Statuses, Answers
    <2>4. QED
      BY <1>7, <2>1, <2>2, <2>3, MarksOutcomes DEF MarkDispatched, KeepsOrDrops
  <1>8. CASE DispatchFails(u) /\ event' = Marked(u, "cancelled", "none")
    <2>1. cycle[u].step \in Holding
      BY <1>8 DEF DispatchFails, Holding
    <2>2. Amends(cycle[u].event, "cancelled", "none")
      BY <1>8, <2>1, HoldsRow, MarkedAmends DEF Statuses, Answers
    <2>3. KeepsOrDrops(u, NextEndpoint(u))
      BY <1>0, <1>8, NextEndpointTyped DEF DispatchFails, KeepsOrDrops, Holding
    <2>4. QED
      BY <2>1, <2>2, <2>3, MarksOutcomes
  <1>9. ASSUME cycle[u].step = "sent", NEW s \in Statuses, NEW a \in Answers, event' = Marked(u, s, a),
               NEW c, Goes(u, c), c.step \notin Holding
        PROVE  Outcomes(d)
    <2>1. cycle[u].step \in Holding
      BY <1>9 DEF Holding
    <2>2. Amends(cycle[u].event, s, a)
      BY <1>9, <2>1, HoldsRow, MarkedAmends
    <2>3. QED
      BY <1>9, <2>1, <2>2, MarksOutcomes DEF KeepsOrDrops
  <1>10. NextEndpoint(u).step \notin Holding
    BY <1>0, NextEndpointTyped DEF Holding
  <1>11. CASE Succeed(u)
    <2>1. [cycle[u] EXCEPT !.step = "reserve", !.page = @ + 1, !.event = 0].step \notin Holding
      BY <1>0 DEF Cycle, Holding
    <2>2. QED
      BY <1>9, <1>10, <1>11, <2>1 DEF Succeed, Statuses, Answers
  <1>12. CASE Fail(u)
    BY <1>9, <1>10, <1>12 DEF Fail, Statuses, Answers
  <1>13. CASE Reserve(u)
    BY <1>13, ReserveOutcomes
  <1>14. QED
    BY <1>1, <1>2, <1>3, <1>4, <1>5, <1>6, <1>7, <1>8, <1>11, <1>12, <1>13 DEF DispatchFails

LEMMA StepOutcomes ==
    ASSUME IInv, [Next]_vars, NEW d
    PROVE  Outcomes(d)
  <1>1. CASE NextDay \/ UNCHANGED vars
    <2>1. UNCHANGED <<event, cycle>>
      BY <1>1 DEF NextDay, vars
    <2>2. QED
      BY <2>1, StillOutcomes DEF Outcomes, NothingNew, AtWork
  <1>2. CASE Seed
    BY <1>2, SeedOutcomes
  <1>3. QED
    BY <1>1, <1>2, UnitOutcomes DEF Next

-----------------------------------------------------------------------------
LEMMA DeadKeyStep ==
    ASSUME IInv, IInv', DeadKeyInv, [Next]_vars
    PROVE  DeadKeyInv'
  <1> SUFFICES ASSUME Breaker > 0, NEW d \in Days, OnlyClientErrors(d)'
               PROVE  Cardinality(Completed(d)') + Cardinality(AtWork(d)')
                          <= Breaker + Cardinality(Units) - 1
    BY DEF DeadKeyInv
  <1>1. TypeOK /\ TypeOK' /\ Breaker \in Nat /\ Outcomes(d)
    BY UsageAssumption, StepOutcomes DEF IInv
  <1>2. OnlyClientErrors(d)
    BY <1>1 DEF Outcomes, OutcomesStand, OnlyClientErrors
  <1>3. /\ IsFiniteSet(Completed(d)) /\ Cardinality(Completed(d)) \in Nat
        /\ IsFiniteSet(AtWork(d)) /\ Cardinality(AtWork(d)) \in Nat
        /\ Cardinality(Units) \in Nat \ {0}
    BY <1>1, CompletedFinite
  <1>4. /\ Cardinality(Completed(d)') \in Nat /\ Cardinality(AtWork(d)') \in Nat
        /\ Cardinality(AtWork(d)') <= Cardinality(Units)
    BY <1>1, CompletedFiniteNext
  <1>5. Cardinality(Completed(d)) + Cardinality(AtWork(d)) <= Breaker + Cardinality(Units) - 1
    BY <1>2 DEF DeadKeyInv
  <1>6. CASE NothingNew(d)
    <2>1. Cardinality(AtWork(d)') <= Cardinality(AtWork(d))
      BY <1>3, <1>6, FS_Subset DEF NothingNew
    <2>2. QED
      BY <1>1, <1>3, <1>4, <1>5, <1>6, <2>1 DEF NothingNew
  <1>7. CASE Granted(d)
    <2>1. Run(d) = Cardinality(Completed(d))
      BY <1>2, WholeDayIsTheRun, RunIsOfRunRows
    <2>2. Cardinality(Completed(d)) < Breaker
      BY <1>1, <1>3, <1>7, <2>1 DEF Granted, BreakerOpen
    <2>3. QED
      BY <1>1, <1>3, <1>4, <1>7, <2>2 DEF Granted
  <1>8. CASE Answered(d)
    <2>1. PICK u \in AtWork(d), k \in DOMAIN event :
             /\ Completed(d)' = Completed(d) \cup {k}
             /\ AtWork(d)' \subseteq AtWork(d) \ {u}
      BY <1>8 DEF Answered
    <2>2. Cardinality(Completed(d)') <= Cardinality(Completed(d)) + 1
      <3>1. Cardinality(Completed(d) \cup {k}) \in {Cardinality(Completed(d)), Cardinality(Completed(d)) + 1}
        BY <1>3, FS_AddElement, Zenon
      <3>2. QED
        BY <1>3, <2>1, <3>1
    <2>3. Cardinality(AtWork(d)') <= Cardinality(AtWork(d)) - 1
      <3>1. /\ IsFiniteSet(AtWork(d) \ {u})
            /\ Cardinality(AtWork(d) \ {u}) = Cardinality(AtWork(d)) - 1
        BY <1>3, FS_RemoveElement
      <3>2. QED
        BY <2>1, <3>1, FS_Subset
    <2>4. QED
      BY <1>1, <1>3, <1>4, <1>5, <2>2, <2>3
  <1>9. CASE Imported(d)
    BY <1>9 DEF Imported, OnlyClientErrors
  <1>10. QED
    BY <1>1, <1>6, <1>7, <1>8, <1>9 DEF Outcomes

(* On a key Google refuses, a day records at most the breaker's threshold of *)
(* client errors and one more for each other unit, for any number of units,  *)
(* cities and pages, and whatever is killed, stranded or cancelled between.  *)
THEOREM DeadKeyCorrect == Spec => []DeadKeyIsCheap
  <1>1. Init => DeadKeyInv
    <2> SUFFICES ASSUME Init, Breaker > 0, NEW d \in Days
                 PROVE  Cardinality(Completed(d)) + Cardinality(AtWork(d))
                            <= Breaker + Cardinality(Units) - 1
      BY DEF DeadKeyInv
    <2>1. Completed(d) = {} /\ AtWork(d) = {}
      BY OffTyped DEF Init, Completed, AtWork, Holding
    <2>2. Cardinality(Completed(d)) = 0 /\ Cardinality(AtWork(d)) = 0
      BY <2>1, FS_EmptySet
    <2>3. Cardinality(Units) \in Nat \ {0} /\ Breaker \in Nat
      BY InitInv, CompletedFinite, UsageAssumption DEF IInv
    <2>4. QED
      BY <2>2, <2>3
  <1>2. IInv /\ DeadKeyInv => DeadKeyIsCheap
    <2> SUFFICES ASSUME IInv, DeadKeyInv, Breaker > 0, NEW d \in Days, OnlyClientErrors(d)
                 PROVE  Cardinality(Completed(d)) <= Breaker + Cardinality(Units) - 1
      BY DEF DeadKeyIsCheap, OnlyClientErrors
    <2>1. /\ Cardinality(Completed(d)) \in Nat /\ Cardinality(AtWork(d)) \in Nat
          /\ Cardinality(Units) \in Nat /\ Breaker \in Nat
      BY CompletedFinite, UsageAssumption DEF IInv
    <2>2. QED
      BY <2>1 DEF DeadKeyInv
  <1>3. QED
    BY <1>1, <1>2, DeadKeyStep, Inductive, PTL DEF Spec

(* A row of the run stays in it under newer client errors. *)
LEMMA RunGrows ==
    ASSUME TypeOK, TypeOK', NEW d, OutcomesStand(d),
           \A e \in Completed(d)' : e \notin Completed(d) => event'[e].answer = "4xx"
    PROVE  Run(d) <= Run(d)'
  <1>1. RunRows(d) \subseteq RunRows(d)'
    <2> SUFFICES ASSUME NEW e \in RunRows(d) PROVE e \in RunRows(d)'
      OBVIOUS
    <2>1. /\ e \in Completed(d)
          /\ \A f \in Completed(d) : (f = e \/ Newer(f, e)) => event[f].answer = "4xx"
      BY DEF RunRows
    <2>2. e \in Completed(d)' /\ event'[e] = event[e]
      BY <2>1 DEF OutcomesStand
    <2>3. ASSUME NEW f \in Completed(d)', f = e \/ Newer(f, e)'
          PROVE  event'[f].answer = "4xx"
      <3>1. CASE f \notin Completed(d)
        BY <3>1
      <3>2. CASE f \in Completed(d)
        <4>1. event'[f] = event[f]
          BY <3>2 DEF OutcomesStand
        <4>2. f = e \/ Newer(f, e)
          BY <2>2, <2>3, <4>1 DEF Newer
        <4>3. QED
          BY <2>1, <3>2, <4>1, <4>2
      <3>3. QED
        BY <3>1, <3>2
    <2>4. QED
      BY <2>2, <2>3 DEF RunRows
  <1>2. IsFiniteSet(RunRows(d)')
    BY CompletedFiniteNext
  <1>3. Cardinality(RunRows(d)) <= Cardinality(RunRows(d)')
    BY <1>1, <1>2, FS_Subset
  <1>4. Run(d) = Cardinality(RunRows(d)) /\ Run(d)' = Cardinality(RunRows(d)')
    BY DEF Run, RunRows
  <1>5. QED
    BY <1>3, <1>4

(* The breaker's run shrinks only by an outcome that is no client error: no  *)
(* reservation, dispatch, cancellation, kill or late 4xx shortens it.        *)
THEOREM RunCorrect == Spec => OnlyAnswersResetTheRun
  <1>1. ASSUME IInv, IInv', [Next]_vars, NEW d \in Days, Run(d)' < Run(d)
        PROVE  \E e \in DOMAIN event' :
                  /\ event'[e].day = d
                  /\ event'[e].answer \in {"ok", "other", "legacy"}
                  /\ e \in DOMAIN event => event[e].answer = "none"
    <2>1. TypeOK /\ TypeOK' /\ OutcomesStand(d)
      BY <1>1, StepOutcomes DEF IInv, Outcomes
    <2>2. Run(d) \in Nat /\ Run(d)' \in Nat
      <3>1. Run(d) = Cardinality(RunRows(d)) /\ Run(d)' = Cardinality(RunRows(d)')
        BY DEF Run, RunRows
      <3>2. QED
        BY <2>1, <3>1, CompletedFinite, CompletedFiniteNext
    <2>3. PICK e \in Completed(d)' : e \notin Completed(d) /\ event'[e].answer # "4xx"
      BY <1>1, <2>1, <2>2, RunGrows
    <2>4. e \in DOMAIN event' /\ event'[e].answer # "none"
      BY DEF Completed
    <2>5. event'[e].answer \in Answers
      <3>1. event' \in Seq(Event)
        BY <2>1 DEF TypeOK
      <3>2. event'[e] \in Event
        BY <2>4, <3>1, LedgerFinite
      <3>3. QED
        BY <3>2 DEF Event
    <2>6. QED
      BY <2>1, <2>3, <2>4, <2>5 DEF OutcomesStand, Answers
  <1>2. IInv /\ IInv' /\ [Next]_vars =>
           [\A d \in Days :
              Run(d)' < Run(d) =>
                 \E e \in DOMAIN event' :
                     /\ event'[e].day = d
                     /\ event'[e].answer \in {"ok", "other", "legacy"}
                     /\ e \in DOMAIN event => event[e].answer = "none"]_vars
    BY <1>1
  <1>3. QED
    BY <1>2, Inductive, PTL DEF Spec, OnlyAnswersResetTheRun
=============================================================================

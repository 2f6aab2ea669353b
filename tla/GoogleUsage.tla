---------------------------- MODULE GoogleUsage ----------------------------
(***************************************************************************)
(* The permanent ledger of billable Google Weather requests                *)
(* (GoogleUsageLedger) and the refresh cycles that spend it.               *)
(*                                                                         *)
(* Two systemd units run the same command against one SQLite ledger: the   *)
(* SFO unit (38 cycles a day, one city) and the non-SFO unit (one cycle a  *)
(* day, fourteen cities).  A cycle is sequential; two cycles interleave at *)
(* every transaction.  One action is one transaction of the ledger, or the *)
(* HTTP request between two of them.                                       *)
(*                                                                         *)
(* A row is an event; its index in `event` is its id.                      *)
(* `at` is reserved_at: the instant the CYCLE started, which every row of  *)
(* the cycle shares, and so does its billing day.  Starts are numbered;    *)
(* their order is all that the ledger's ORDER BY sees.                     *)
(***************************************************************************)
EXTENDS Integers, Sequences, FiniteSets

CONSTANTS
    Units,          \* the systemd units (processes)
    Sfo,            \* the unit that refreshes SFO, and SFO only
    Cities,         \* Cities[u]: how many cities unit u refreshes
    HourlyPages,    \* GOOGLE_HOURLY_MAX_PAGES
    DailyBudget, MonthlyBudget, SoftCeiling, Breaker,
    MonthLength,    \* Pacific days in a billing month
    LegacyEvents,   \* the largest count the one-time cutover seed imports
    LastDay,        \* bound: the last Pacific day
    MaxStarts       \* bound: cycles (and seeds) started

ASSUME UsageAssumption ==
    /\ IsFiniteSet(Units) /\ Sfo \in Units
    /\ Cities \in [Units -> Nat]
    /\ HourlyPages \in Nat \ {0} /\ MonthLength \in Nat \ {0}
    /\ DailyBudget \in Nat /\ MonthlyBudget \in Nat
    /\ SoftCeiling \in Nat /\ Breaker \in Nat
    /\ LegacyEvents \in Nat /\ LastDay \in Nat \ {0} /\ MaxStarts \in Nat

VARIABLES
    day,        \* the Pacific calendar day
    started,    \* the number of the last start
    event,      \* google_weather_usage_events, in id order
    sent,       \* history: the events whose HTTP request left the box
    cycle       \* cycle[u]: the running refresh_all_cities of unit u

vars == <<day, started, event, sent, cycle>>

Days == 1..LastDay
Month(d) == (d - 1) \div MonthLength
FirstOf(d) == Month(d) * MonthLength + 1

Steps == {"off", "city", "reserve", "reserved", "dispatched", "sent"}
Statuses == {"reserved", "consumed", "success", "cancelled"}
\* The recorded outcome of a request: "none" until complete_event.
Answers == {"none", "ok", "4xx", "other", "legacy"}

Event == [at : 1..MaxStarts, day : Days, status : Statuses, answer : Answers]

Cycle == [step : Steps, at : 0..MaxStarts, day : Days, city : Nat,
          endpoint : {"hourly", "daily", "current"}, page : Nat, event : Nat]

Off == [step |-> "off", at |-> 0, day |-> 1, city |-> 1,
        endpoint |-> "hourly", page |-> 1, event |-> 0]

-----------------------------------------------------------------------------
\* The ledger's queries.

\* A bug a mutant plants: a reservation counts only once it is dispatched.
BillableOnceDispatched == {"consumed", "success"}

\* _count: a reservation counts before it is sent, a cancelled one never.
Billable == {"reserved", "consumed", "success"}

DayEvents(d) == {e \in DOMAIN event : event[e].day = d /\ event[e].status \in Billable}
MonthEvents(d) ==
    {e \in DOMAIN event : Month(event[e].day) = Month(d) /\ event[e].status \in Billable}

\* A bug a mutant plants: terminality by status, as before completed_at was used.
CompletedByStatus(d) ==
    {e \in DOMAIN event : event[e].day = d /\ event[e].status \in {"consumed", "success"}}

\* The rows _consecutive_client_errors selects: terminality is completed_at.
Completed(d) ==
    {e \in DOMAIN event : /\ event[e].day = d
                          /\ event[e].status \in {"consumed", "success"}
                          /\ event[e].answer # "none"}

\* ORDER BY reserved_at DESC, id DESC.
Newer(e, f) == \/ event[e].at > event[f].at
               \/ event[e].at = event[f].at /\ e > f

\* The trailing run of client errors (not capped: only "reached?" is asked).
Run(d) ==
    Cardinality({e \in Completed(d) :
        \A f \in Completed(d) : (f = e \/ Newer(f, e)) => event[f].answer = "4xx"})

BreakerOpen(d) == Breaker > 0 /\ Run(d) >= Breaker

\* A bug a mutant plants: the breaker is asked at the start of a cycle only.
MayReserveWithoutBreaker(d) ==
    /\ Cardinality(DayEvents(d)) < DailyBudget
    /\ Cardinality(MonthEvents(d)) < MonthlyBudget
    /\ Cardinality(MonthEvents(d)) < SoftCeiling

\* reserve_event's checks, inside its BEGIN IMMEDIATE transaction.
MayReserve(d) ==
    /\ Cardinality(DayEvents(d)) < DailyBudget
    /\ Cardinality(MonthEvents(d)) < MonthlyBudget
    /\ Cardinality(MonthEvents(d)) < SoftCeiling
    /\ ~BreakerOpen(d)

-----------------------------------------------------------------------------
\* The cycle.

\* SFO_BUNDLE_MAX_EVENTS and NON_SFO_BUNDLE_MAX_EVENTS.
Bundle(u) == HourlyPages + (IF u = Sfo THEN 2 ELSE 1)

\* _budget_skip_reason: the city's whole bundle must fit, by the counts now.
SkipsCity(u) ==
    LET d == cycle[u].day IN
    \/ Cardinality(DayEvents(d)) + Bundle(u) > DailyBudget
    \/ Cardinality(MonthEvents(d)) + Bundle(u) > MonthlyBudget
    \/ u # Sfo /\ Cardinality(MonthEvents(d)) + Bundle(u) > SoftCeiling

\* The cycle that started at `at` on day d, before its n-th city.
AtCity(at, d, n) == [step |-> "city", at |-> at, day |-> d, city |-> n,
                     endpoint |-> "hourly", page |-> 1, event |-> 0]

NextCity(u) == AtCity(cycle[u].at, cycle[u].day, cycle[u].city + 1)

\* The endpoint is done with: hourly, then daily, then (SFO only) current.
NextEndpoint(u) ==
    IF cycle[u].endpoint = "hourly"
    THEN [cycle[u] EXCEPT !.step = "reserve", !.endpoint = "daily", !.page = 0, !.event = 0]
    ELSE IF cycle[u].endpoint = "daily" /\ u = Sfo
         THEN [cycle[u] EXCEPT !.step = "reserve", !.endpoint = "current", !.event = 0]
         ELSE NextCity(u)

\* The cycle of unit u is now at c.
Goes(u, c) == cycle' = [cycle EXCEPT ![u] = c]

\* The row of u's event, with the outcome of an UPDATE.
Marked(u, status, answer) ==
    [event EXCEPT ![cycle[u].event] = [@ EXCEPT !.status = status, !.answer = answer]]

Init ==
    /\ day = 1
    /\ started = 0
    /\ event = <<>>
    /\ sent = {}
    /\ cycle = [u \in Units |-> Off]

NextDay ==
    /\ day < LastDay
    /\ day' = day + 1
    /\ UNCHANGED <<started, event, sent, cycle>>

\* A timer (or an operator) starts a cycle.  fetch_instant is taken here, and
\* the breaker is read once: when it is open, every city is skipped.
Start(u) ==
    /\ cycle[u].step = "off"
    /\ started < MaxStarts
    /\ started' = started + 1
    /\ IF BreakerOpen(day)
       THEN UNCHANGED cycle
       ELSE Goes(u, AtCity(started + 1, day, 1))
    /\ UNCHANGED <<day, event, sent>>

EnterCity(u) ==
    /\ cycle[u].step = "city"
    /\ cycle[u].city <= Cities[u]
    /\ ~SkipsCity(u)
    /\ Goes(u, [cycle[u] EXCEPT !.step = "reserve"])
    /\ UNCHANGED <<day, started, event, sent>>

SkipCity(u) ==
    /\ cycle[u].step = "city"
    /\ cycle[u].city <= Cities[u]
    /\ SkipsCity(u)
    /\ Goes(u, NextCity(u))
    /\ UNCHANGED <<day, started, event, sent>>

Finish(u) ==
    /\ cycle[u].step = "city"
    /\ cycle[u].city > Cities[u]
    /\ Goes(u, Off)
    /\ UNCHANGED <<day, started, event, sent>>

NewRow(u) == [at |-> cycle[u].at, day |-> cycle[u].day,
              status |-> "reserved", answer |-> "none"]

\* reserve_event inserts the row, billed to the cycle's day.
Reserve(u) ==
    /\ cycle[u].step = "reserve"
    /\ MayReserve(cycle[u].day)
    /\ event' = Append(event, NewRow(u))
    /\ Goes(u, [cycle[u] EXCEPT !.step = "reserved", !.event = Len(event) + 1])
    /\ UNCHANGED <<day, started, sent>>

\* A denial fails this endpoint only; the next one asks again.
Denied(u) ==
    /\ cycle[u].step = "reserve"
    /\ ~MayReserve(cycle[u].day)
    /\ Goes(u, NextEndpoint(u))
    /\ UNCHANGED <<day, started, event, sent>>

MarkDispatched(u) ==
    /\ cycle[u].step = "reserved"
    /\ event' = Marked(u, "consumed", "none")
    /\ Goes(u, [cycle[u] EXCEPT !.step = "dispatched"])
    /\ UNCHANGED <<day, started, sent>>

\* mark_dispatched raised (the database stayed locked): the row is cancelled,
\* or keeps its reservation when the cancellation fails in the same way.
DispatchFails(u) ==
    /\ cycle[u].step = "reserved"
    /\ \/ event' = Marked(u, "cancelled", "none")
       \/ UNCHANGED event
    /\ Goes(u, NextEndpoint(u))
    /\ UNCHANGED <<day, started, sent>>

\* The request leaves the box: from here on it is billed by Google.
Send(u) ==
    /\ cycle[u].step = "dispatched"
    /\ sent' = sent \cup {cycle[u].event}
    /\ Goes(u, [cycle[u] EXCEPT !.step = "sent"])
    /\ UNCHANGED <<day, started, event>>

\* A parsed answer; an hourly page may name a next one, within the page limit.
Succeed(u) ==
    /\ cycle[u].step = "sent"
    /\ event' = Marked(u, "success", "ok")
    /\ \/ Goes(u, NextEndpoint(u))
       \/ /\ cycle[u].endpoint = "hourly"
          /\ cycle[u].page < HourlyPages
          /\ Goes(u, [cycle[u] EXCEPT !.step = "reserve", !.page = @ + 1, !.event = 0])
    /\ UNCHANGED <<day, started, sent>>

\* A 4xx, or any other failure: another class, timeout, transport, parse error.
Fail(u) ==
    /\ cycle[u].step = "sent"
    /\ \E answer \in {"4xx", "other"} : event' = Marked(u, "consumed", answer)
    /\ Goes(u, NextEndpoint(u))
    /\ UNCHANGED <<day, started, sent>>

\* complete_event itself raised: the outcome is lost, the row stays in flight.
CompleteFails(u) ==
    /\ cycle[u].step = "sent"
    /\ Goes(u, NextEndpoint(u))
    /\ UNCHANGED <<day, started, event, sent>>

\* Killed: TimeoutStartSec, the memory limit, a reboot.
Crash(u) ==
    /\ cycle[u].step # "off"
    /\ Goes(u, Off)
    /\ UNCHANGED <<day, started, event, sent>>

LegacyRows(d) == {e \in DOMAIN event : event[e].answer = "legacy" /\ Month(event[e].day) = Month(d)}

LegacyRow == [at |-> started + 1, day |-> FirstOf(day),
              status |-> "success", answer |-> "legacy"]

\* seed_legacy_month_carryover: INSERT OR IGNORE of pages 0..n-1 of the month,
\* completed successes billed to the 1st.
Seed ==
    /\ started < MaxStarts
    /\ started' = started + 1
    /\ \E n \in 1..LegacyEvents :
         LET missing == n - Cardinality(LegacyRows(day))
         IN event' = event \o [i \in 1..missing |-> LegacyRow]
    /\ UNCHANGED <<day, sent, cycle>>

Next ==
    \/ NextDay
    \/ Seed
    \/ \E u \in Units :
          \/ Start(u) \/ EnterCity(u) \/ SkipCity(u) \/ Finish(u)
          \/ Reserve(u) \/ Denied(u)
          \/ MarkDispatched(u) \/ DispatchFails(u) \/ Send(u)
          \/ Succeed(u) \/ Fail(u) \/ CompleteFails(u)
          \/ Crash(u)

Spec == Init /\ [][Next]_vars

-----------------------------------------------------------------------------
TypeOK ==
    /\ day \in Days
    /\ started \in 0..MaxStarts
    /\ event \in Seq(Event)
    /\ sent \subseteq DOMAIN event
    /\ cycle \in [Units -> Cycle]

SentOn(d) == {e \in sent : event[e].day = d}
SentInMonth(d) == {e \in sent : Month(event[e].day) = Month(d)}

\* Whatever cycles overlap, die or fail half-way, the requests that left the
\* box and are billed to a day (a month) never exceed its budget, because each
\* is backed by a row that still counts: reserve_event counts what others only
\* reserved, and cancel_before_dispatch never frees a request that was sent.
SentWithinBudget ==
    /\ \A e \in sent : event[e].status \in {"consumed", "success"}
    /\ \A d \in Days : /\ Cardinality(SentOn(d)) <= DailyBudget
                       /\ Cardinality(SentInMonth(d)) <= SoftCeiling
                       /\ Cardinality(SentInMonth(d)) <= MonthlyBudget

\* A dead key costs at most the breaker's threshold a day, plus one request
\* already in flight for each other unit: while every recorded outcome of the
\* day is a client error, there are no more of them than that.
DeadKeyIsCheap ==
    Breaker > 0 =>
        \A d \in Days :
            (\A e \in Completed(d) : event[e].answer = "4xx") =>
                Cardinality(Completed(d)) <= Breaker + Cardinality(Units) - 1

\* The run of client errors gets shorter only when an outcome that is no client
\* error is recorded: a reservation, a dispatch, a cancellation, or a request
\* stranded by a kill never resets the breaker (the docstring of
\* _consecutive_client_errors tells of two such rows in production).
OnlyAnswersResetTheRun ==
    [][\A d \in Days :
         Run(d)' < Run(d) =>
            \E e \in DOMAIN event' :
                /\ event'[e].day = d
                /\ event'[e].answer \in {"ok", "other", "legacy"}
                /\ e \in DOMAIN event => event[e].answer = "none"]_vars
=============================================================================

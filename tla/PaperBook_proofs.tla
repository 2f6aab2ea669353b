---------------------------- MODULE PaperBook_proofs ----------------------------
(***************************************************************************)
(* Proofs about PaperBook, for any number of orders, closers, trades and   *)
(* prices.  The inductive invariant is a predicate of one position: its    *)
(* row, its account and the trades credited to it.  Each operation of the  *)
(* store changes a position by an operator on rows and one on accounts, so *)
(* a lemma per operator shows that the predicate survives it, and the step *)
(* proof only looks up which operator an action applied to which position. *)
(***************************************************************************)
EXTENDS PaperBook, TLAPS

(* The release keys that only a quote can earn. *)
ReleaseKeys == {<<"cancel-release", 0>>, <<"cutover-release", 0>>,
                <<"settlement-expire-release", 0>>,
                <<"settlement-partial-release", 0>>,
                <<"close-partial-release", 0>>}

(* Which quantities and amounts go together in a row. *)
RowSound(r) ==
    /\ r.status \in Quoting => /\ r.reserved = r.remaining * r.cost
                               /\ r.remaining > 0
                               /\ r.filled + r.remaining = r.requested
                               /\ r.lots = 0
                               /\ r.lotQty = 0
                               /\ r.lotPnl = 0
    /\ r.status \notin Quoting => r.reserved = 0
    /\ r.status = "RESTING" => r.filled = 0
    /\ r.status = "PARTIALLY_FILLED" => r.filled > 0
    /\ r.status \in Open \cup {"CLOSED", "SETTLED"} =>
          r.contracts + r.lotQty = r.filled
    /\ r.filled <= r.requested
    /\ r.status = "NONE" => r = Absent
    /\ r.status = "EXPIRED" => r.lotPnl = 0 /\ r.lots = 0

(* The events a position has booked so far are the ones its row calls for. *)
EventsSound(r, k, cl) ==
    /\ r.status = "NONE" => k = {}
    /\ r.status \in Quoting => k \cap ReleaseKeys = {}
    /\ r.status = "CLOSED" <=> <<"exit-proceeds", 0>> \in k
    /\ \A n \in Nat \ {0} : <<"exit-proceeds", n>> \in k <=> n <= r.lots
    /\ r.status = "SETTLED" <=> <<"settlement-proceeds", 0>> \in k
    /\ \A t \in Nat : <<"maker-release", t>> \in k => t \in cl
    /\ \A t \in Nat : <<"maker-fill", t>> \in k => t \in cl
    /\ r.status \in Open \cup {"CLOSED", "SETTLED"} =>
          \/ <<"entry-fill", 0>> \in k
          \/ \E t \in Trades : <<"maker-fill", t>> \in k
    /\ r.status \in Quoting \cup {"EXPIRED"} => <<"reserve", 0>> \in k
    /\ r.status = "EXPIRED" =>
          \/ <<"cancel-release", 0>> \in k
          \/ <<"cutover-release", 0>> \in k
          \/ <<"settlement-expire-release", 0>> \in k

PositionSound(r, a, cl) ==
    /\ r \in Row
    /\ a \in Account
    /\ cl \in SUBSET Trades
    /\ RowSound(r)
    /\ EventsSound(r, a.keys, cl)
    /\ a.cash = PositionValue(r) - r.reserved

-----------------------------------------------------------------------------
(* What each operator on rows does to the fields of a row. *)

LEMMA ZeroTyped == 0 \in Nat /\ 0 \in Int
  OBVIOUS

LEMMA AbsentRow == Absent \in Row
  BY DEF Absent, Row, Status

SameLots(s, r) == s.lots = r.lots /\ s.lotQty = r.lotQty /\ s.lotPnl = r.lotPnl

SameTerms(s, r) == s.requested = r.requested /\ s.filled = r.filled /\ s.cost = r.cost

LEMMA QuoteRow ==
    ASSUME NEW n \in Nat, NEW c \in Int
    PROVE  LET w == Quote(n, c)
           IN /\ w \in Row
              /\ w.status = "RESTING" /\ w.requested = n /\ w.contracts = n
              /\ w.filled = 0 /\ w.remaining = n /\ w.reserved = n * c
              /\ w.cost = c /\ w.lots = 0 /\ w.lotQty = 0 /\ w.lotPnl = 0
  <1>1. "RESTING" \in Status /\ n * c \in Int
    BY DEF Status, Active
  <1>2. Quote(n, c) \in Row
    <2> DEFINE v == n * c
    <2>1. v \in Int
      BY <1>1
    <2>2. Quote(n, c) = [Absent EXCEPT !.status = "RESTING", !.requested = n,
                             !.contracts = n, !.remaining = n, !.reserved = v, !.cost = c]
      BY DEF Quote
    <2> HIDE DEF v
    <2> QED
      BY <1>1, <2>1, <2>2, AbsentRow DEF Row
  <1> QED
    BY <1>2 DEF Row, Quote, Absent

LEMMA TakenRow ==
    ASSUME NEW n \in Nat, NEW c \in Int
    PROVE  LET w == Taken(n, c)
           IN /\ w \in Row
              /\ w.status = "FILLED" /\ w.requested = n /\ w.contracts = n
              /\ w.filled = n /\ w.remaining = 0 /\ w.reserved = 0
              /\ w.cost = c /\ w.lots = 0 /\ w.lotQty = 0 /\ w.lotPnl = 0
  <1>1. "FILLED" \in Status
    BY DEF Status, Active, Open
  <1>2. Taken(n, c) \in Row
    BY <1>1, AbsentRow DEF Taken, Row
  <1> QED
    BY <1>2 DEF Row, Taken, Absent

LEMMA FilledRow ==
    ASSUME NEW r \in Row, NEW f \in Nat, f <= r.remaining
    PROVE  LET w == Filled(r, f)
           IN /\ w \in Row
              /\ w.status = IF r.remaining = f THEN "FILLED"
                            ELSE IF r.filled + f > 0 THEN "PARTIALLY_FILLED"
                            ELSE "RESTING"
              /\ w.remaining = r.remaining - f
              /\ w.reserved = (r.remaining - f) * r.cost
              /\ w.contracts = IF r.filled + f > 0 THEN r.filled + f ELSE r.requested
              /\ w.filled = r.filled + f
              /\ w.requested = r.requested
              /\ w.cost = r.cost
              /\ SameLots(w, r)
  <1> DEFINE st == IF r.remaining = f THEN "FILLED"
                   ELSE IF r.filled + f > 0 THEN "PARTIALLY_FILLED"
                   ELSE "RESTING"
             n == IF r.filled + f > 0 THEN r.filled + f ELSE r.requested
             g == r.filled + f
             m == r.remaining - f
             v == (r.remaining - f) * r.cost
  <1>1. st \in Status /\ n \in Nat /\ g \in Nat /\ m \in Nat /\ v \in Int
    BY DEF Row, Status, Active, Open
  <1>2. Filled(r, f) = [r EXCEPT !.filled = g, !.remaining = m, !.contracts = n,
                                 !.reserved = v, !.status = st]
    BY DEF Filled
  <1> HIDE DEF st, n, g, m, v
  <1>3. [r EXCEPT !.filled = g, !.remaining = m, !.contracts = n,
                  !.reserved = v, !.status = st] \in Row
    BY <1>1 DEF Row
  <1> USE DEF st, n, g, m, v
  <1> QED
    BY <1>1, <1>2, <1>3 DEF Row, SameLots

LEMMA WithdrawnRow ==
    ASSUME NEW r \in Row, NEW st \in Status
    PROVE  LET w == Withdrawn(r, st)
           IN /\ w \in Row
              /\ w.status = st /\ w.remaining = 0 /\ w.reserved = 0
              /\ w.contracts = r.contracts /\ w.realized = r.realized
              /\ SameTerms(w, r) /\ SameLots(w, r)
  <1>1. ASSUME NEW z \in Nat, NEW y \in Int
        PROVE  [r EXCEPT !.status = st, !.remaining = z, !.reserved = y] \in Row
    BY DEF Row
  <1>2. Withdrawn(r, st) \in Row
    BY ZeroTyped, <1>1, Zenon DEF Withdrawn
  <1> QED
    BY <1>2 DEF Row, SameLots, SameTerms, Withdrawn

LEMMA ClosedRow ==
    ASSUME NEW r \in Row, NEW pnl \in Int
    PROVE  LET w == Closed(r, pnl)
           IN /\ w \in Row
              /\ w.status = "CLOSED" /\ w.remaining = 0 /\ w.reserved = 0
              /\ w.contracts = r.contracts /\ w.realized = pnl
              /\ SameTerms(w, r) /\ SameLots(w, r)
  <1> DEFINE v == Withdrawn(r, "CLOSED")
  <1>1. "CLOSED" \in Status
    BY DEF Status, Final
  <1>2. /\ v \in Row
        /\ v.status = "CLOSED" /\ v.remaining = 0 /\ v.reserved = 0
        /\ v.contracts = r.contracts
        /\ SameTerms(v, r) /\ SameLots(v, r)
    BY <1>1, WithdrawnRow
  <1>3. Closed(r, pnl) = [v EXCEPT !.realized = pnl]
    BY DEF Closed
  <1> HIDE DEF v
  <1> QED
    BY <1>2, <1>3 DEF Row, SameLots, SameTerms

LEMMA SlicedRow ==
    ASSUME NEW r \in Row, NEW q \in Nat, q < r.contracts, NEW pnl \in Int
    PROVE  LET w == Sliced(r, r.contracts, q, pnl)
           IN /\ w \in Row
              /\ w.status = r.status /\ w.remaining = r.remaining
              /\ w.reserved = r.reserved
              /\ w.contracts = r.contracts - q
              /\ SameTerms(w, r)
              /\ w.lots = r.lots + 1 /\ w.lotQty = r.lotQty + q
              /\ w.lotPnl = r.lotPnl + pnl
  <1> DEFINE n == r.contracts - q
             l == r.lots + 1
             m == r.lotQty + q
             p == r.lotPnl + pnl
  <1>1. n \in Nat /\ l \in Nat /\ m \in Nat /\ p \in Int
    BY DEF Row
  <1>2. Sliced(r, r.contracts, q, pnl) = [r EXCEPT !.contracts = n, !.lots = l, !.lotQty = m,
                                      !.lotPnl = p]
    BY DEF Sliced
  <1> HIDE DEF n, l, m, p
  <1>3. [r EXCEPT !.contracts = n, !.lots = l, !.lotQty = m, !.lotPnl = p] \in Row
    BY <1>1 DEF Row
  <1> USE DEF n, l, m, p
  <1> QED
    BY <1>1, <1>2, <1>3 DEF Row, SameTerms

LEMMA PartClosedRow ==
    ASSUME NEW r \in Row, NEW q \in Nat, q < r.contracts, NEW pnl \in Int,
           r.status \in Open, r.status \notin Quoting => r.reserved = 0
    PROVE  LET w == PartClosed(r, r.contracts, q, pnl)
           IN /\ w \in Row
              /\ w.status \in {"FILLED", "PARTIAL_EXPIRED"}
              /\ w.reserved = 0
              /\ w.contracts = r.contracts - q
              /\ SameTerms(w, r)
              /\ w.lots = r.lots + 1 /\ w.lotQty = r.lotQty + q
              /\ w.lotPnl = r.lotPnl + pnl
  <1> DEFINE s == Sliced(r, r.contracts, q, pnl)
  <1>1. /\ s \in Row
        /\ s.status = r.status /\ s.reserved = r.reserved
        /\ s.contracts = r.contracts - q
        /\ SameTerms(s, r)
        /\ s.lots = r.lots + 1 /\ s.lotQty = r.lotQty + q
        /\ s.lotPnl = r.lotPnl + pnl
    BY SlicedRow
  <1>2. "PARTIAL_EXPIRED" \in Status
    BY DEF Status, Active, Open
  <1> HIDE DEF s
  <1>3. LET w == Withdrawn(s, "PARTIAL_EXPIRED")
        IN /\ w \in Row
           /\ w.status = "PARTIAL_EXPIRED" /\ w.reserved = 0
           /\ w.contracts = s.contracts
           /\ SameTerms(w, s) /\ SameLots(w, s)
    BY <1>1, <1>2, WithdrawnRow
  <1>4. PartClosed(r, r.contracts, q, pnl) = IF r.status = "PARTIALLY_FILLED"
                                THEN Withdrawn(s, "PARTIAL_EXPIRED") ELSE s
    BY DEF PartClosed, s
  <1>5. CASE r.status = "PARTIALLY_FILLED"
    BY <1>1, <1>3, <1>4, <1>5 DEF SameTerms, SameLots
  <1>6. CASE r.status # "PARTIALLY_FILLED"
    BY <1>1, <1>4, <1>6 DEF Open, Quoting
  <1> QED
    BY <1>5, <1>6

LEMMA SettledRestingRow ==
    ASSUME NEW r \in Row, r.status = "RESTING", NEW win
    PROVE  LET w == SettledRow(r, win)
           IN /\ w \in Row
              /\ w.status = "EXPIRED" /\ w.reserved = 0
              /\ SameTerms(w, r) /\ SameLots(w, r)
  <1>1. ASSUME NEW y \in Int
        PROVE  [r EXCEPT !.status = "EXPIRED", !.reserved = y] \in Row
    <2>1. "EXPIRED" \in Status
      BY DEF Status, Final
    <2> QED
      BY <2>1 DEF Row
  <1>2. SettledRow(r, win) = [r EXCEPT !.status = "EXPIRED", !.reserved = 0]
    BY DEF SettledRow
  <1>3. SettledRow(r, win) \in Row
    BY ZeroTyped, <1>1, <1>2, Zenon
  <1> QED
    BY <1>2, <1>3 DEF Row, SameTerms, SameLots

LEMMA SettledOpenRow ==
    ASSUME NEW r \in Row, r.status \in Open, NEW win \in BOOLEAN,
           r.status \notin Quoting => r.reserved = 0
    PROVE  LET w == SettledRow(r, win)
           IN /\ w \in Row
              /\ w.status = "SETTLED" /\ w.reserved = 0
              /\ w.contracts = r.contracts
              /\ w.realized = r.contracts * (IF win THEN Payout - r.cost ELSE -r.cost)
              /\ SameTerms(w, r) /\ SameLots(w, r)
  <1> DEFINE m == IF r.status = "PARTIALLY_FILLED" THEN 0 ELSE r.remaining
             v == IF r.status = "PARTIALLY_FILLED" THEN 0 ELSE r.reserved
             p == r.contracts * (IF win THEN Payout - r.cost ELSE -r.cost)
  <1>1. m \in Nat /\ v \in Int /\ "SETTLED" \in Status
    BY DEF Row, Status, Final
  <1>2. p \in Int
    <2> DEFINE g == IF win THEN Payout - r.cost ELSE -r.cost
    <2>1. g \in Int
      BY AmountAssumption DEF Row
    <2> HIDE DEF g
    <2>2. r.contracts * g \in Int
      BY <2>1 DEF Row
    <2> QED
      BY <2>2 DEF g
  <1>3. SettledRow(r, win) = [r EXCEPT !.status = "SETTLED", !.remaining = m,
                                       !.reserved = v, !.realized = p]
    BY DEF SettledRow, Open
  <1>4. v = 0
    BY DEF Open, Quoting
  <1> HIDE DEF m, v, p
  <1>5. [r EXCEPT !.status = "SETTLED", !.remaining = m,
                  !.reserved = v, !.realized = p] \in Row
    BY <1>1, <1>2 DEF Row
  <1>6. /\ SettledRow(r, win) \in Row
        /\ SettledRow(r, win).status = "SETTLED"
        /\ SettledRow(r, win).reserved = v
        /\ SettledRow(r, win).contracts = r.contracts
        /\ SettledRow(r, win).realized = p
        /\ SameTerms(SettledRow(r, win), r) /\ SameLots(SettledRow(r, win), r)
    BY <1>3, <1>5 DEF Row, SameTerms, SameLots
  <1> QED
    BY <1>4, <1>6 DEF p

-----------------------------------------------------------------------------
(* Booking an event under a fresh key adds its amount and its key. *)

LEMMA FreshEvent ==
    ASSUME NEW a \in Account, NEW k \in Key, k \notin a.keys, NEW m \in Int
    PROVE  /\ RecordEvent(a, k, m) \in Account
           /\ RecordEvent(a, k, m).cash = a.cash + m
           /\ RecordEvent(a, k, m).keys = a.keys \cup {k}
  <1>1. RecordEvent(a, k, m) = [cash |-> a.cash + m, keys |-> a.keys \cup {k}]
    BY DEF RecordEvent
  <1> QED
    BY <1>1 DEF Account

LEMMA KeyTyped ==
    ASSUME NEW e \in EventKinds, NEW n \in Nat
    PROVE  <<e, n>> \in Key
  BY DEF Key

-----------------------------------------------------------------------------
(* Each operation keeps a position sound. *)

LEMMA AbsentSound == PositionSound(Absent, NoEvents, {})
  <1>1. NoEvents \in Account
    BY DEF NoEvents, Account
  <1>2. RowSound(Absent)
    BY DEF RowSound, Absent, Open, Quoting
  <1>3. EventsSound(Absent, NoEvents.keys, {})
    BY DEF EventsSound, Absent, NoEvents, Open, Quoting
  <1>4. NoEvents.cash = PositionValue(Absent) - Absent.reserved
    BY DEF PositionValue, Absent, NoEvents, Open
  <1> QED
    BY <1>1, <1>2, <1>3, <1>4, AbsentRow DEF PositionSound

LEMMA QuoteSound ==
    ASSUME NEW n \in Nat, n > 0, NEW c \in Int, NEW cl \in SUBSET Trades
    PROVE  PositionSound(Quote(n, c),
                         RecordEvent(NoEvents, <<"reserve", 0>>, -(n * c)), cl)
  <1> DEFINE w == Quote(n, c)
             k == <<"reserve", 0>>
             a == RecordEvent(NoEvents, k, -(n * c))
  <1>1. /\ w \in Row
        /\ w.status = "RESTING" /\ w.requested = n /\ w.contracts = n
        /\ w.filled = 0 /\ w.remaining = n /\ w.reserved = n * c
        /\ w.cost = c /\ w.lots = 0 /\ w.lotQty = 0 /\ w.lotPnl = 0
    BY QuoteRow
  <1>2. n * c \in Int /\ -(n * c) \in Int
    OBVIOUS
  <1>3. a \in Account /\ a.cash = -(n * c) /\ a.keys = {k}
    <2>1. k \in Key
      BY KeyTyped DEF EventKinds
    <2>2. NoEvents \in Account /\ NoEvents.cash = 0 /\ NoEvents.keys = {}
      BY DEF NoEvents, Account
    <2> HIDE DEF k
    <2> QED
      BY <1>2, <2>1, <2>2, FreshEvent
  <1> HIDE DEF w, a
  <1>4. RowSound(w)
    BY <1>1 DEF RowSound, Open, Quoting
  <1>5. EventsSound(w, a.keys, cl)
    BY <1>1, <1>3 DEF EventsSound, Open, Quoting, ReleaseKeys
  <1>6. a.cash = PositionValue(w) - w.reserved
    BY <1>1, <1>2, <1>3 DEF PositionValue, Open
  <1>7. PositionSound(w, a, cl)
    BY <1>1, <1>3, <1>4, <1>5, <1>6 DEF PositionSound
  <1> QED
    BY <1>7 DEF w, a

LEMMA TakenSound ==
    ASSUME NEW n \in Nat, NEW c \in Int, NEW cl \in SUBSET Trades
    PROVE  PositionSound(Taken(n, c),
                         RecordEvent(NoEvents, <<"entry-fill", 0>>, -(n * c)), cl)
  <1> DEFINE w == Taken(n, c)
             k == <<"entry-fill", 0>>
             a == RecordEvent(NoEvents, k, -(n * c))
  <1>1. /\ w \in Row
        /\ w.status = "FILLED" /\ w.requested = n /\ w.contracts = n
        /\ w.filled = n /\ w.remaining = 0 /\ w.reserved = 0
        /\ w.cost = c /\ w.lots = 0 /\ w.lotQty = 0 /\ w.lotPnl = 0
    BY TakenRow
  <1>2. n * c \in Int /\ -(n * c) \in Int
    OBVIOUS
  <1>3. a \in Account /\ a.cash = -(n * c) /\ a.keys = {k}
    <2>1. k \in Key
      BY KeyTyped DEF EventKinds
    <2>2. NoEvents \in Account /\ NoEvents.cash = 0 /\ NoEvents.keys = {}
      BY DEF NoEvents, Account
    <2> HIDE DEF k
    <2> QED
      BY <1>2, <2>1, <2>2, FreshEvent
  <1> HIDE DEF w, a
  <1>4. RowSound(w)
    BY <1>1 DEF RowSound, Open, Quoting
  <1>5. EventsSound(w, a.keys, cl)
    BY <1>1, <1>3 DEF EventsSound, Open, Quoting, ReleaseKeys
  <1>6. a.cash = PositionValue(w) - w.reserved
    BY <1>1, <1>2, <1>3 DEF PositionValue, Open
  <1>7. PositionSound(w, a, cl)
    BY <1>1, <1>3, <1>4, <1>5, <1>6 DEF PositionSound
  <1> QED
    BY <1>7 DEF w, a

LEMMA FilledSound ==
    ASSUME NEW r, NEW a, NEW cl, PositionSound(r, a, cl),
           r.status \in Quoting,
           NEW t \in Trades, t \notin cl, NEW f \in Nat, f <= r.remaining
    PROVE  PositionSound(Filled(r, f), FilledAccount(a, r, t, f), cl \cup {t})
  <1> DEFINE w == Filled(r, f)
             b == FilledAccount(a, r, t, f)
             k1 == <<"maker-release", t>>
             k2 == <<"maker-fill", t>>
  <1>1. /\ r \in Row /\ a \in Account /\ cl \in SUBSET Trades
        /\ RowSound(r) /\ EventsSound(r, a.keys, cl)
        /\ a.cash = PositionValue(r) - r.reserved
    BY DEF PositionSound
  <1>2. /\ w \in Row
        /\ w.status = IF r.remaining = f THEN "FILLED"
                      ELSE IF r.filled + f > 0 THEN "PARTIALLY_FILLED"
                      ELSE "RESTING"
        /\ w.remaining = r.remaining - f
        /\ w.reserved = (r.remaining - f) * r.cost
        /\ w.contracts = IF r.filled + f > 0 THEN r.filled + f ELSE r.requested
        /\ w.filled = r.filled + f
        /\ w.requested = r.requested
        /\ w.cost = r.cost
        /\ w.lots = r.lots /\ w.lotQty = r.lotQty /\ w.lotPnl = r.lotPnl
    BY <1>1, FilledRow DEF SameLots
  <1>3. /\ b \in Account
        /\ b.cash = a.cash
        /\ b.keys = IF f = 0 THEN a.keys ELSE a.keys \cup {k1, k2}
    <2>1. CASE f = 0
      BY <1>1, <2>1 DEF FilledAccount
    <2>2. CASE f # 0
      <3> DEFINE m == f * r.cost
                 a1 == RecordEvent(a, k1, m)
      <3>1. t \in Nat /\ m \in Int /\ -m \in Int
        BY <1>1, AmountAssumption DEF Row
      <3>2. k1 \in Key /\ k2 \in Key
        BY <3>1, KeyTyped DEF EventKinds
      <3>3. k1 \notin a.keys /\ k2 \notin a.keys /\ k1 # k2
        BY <1>1, <3>1 DEF EventsSound
      <3>4. b = RecordEvent(a1, k2, -m)
        BY <2>2 DEF FilledAccount
      <3> HIDE DEF m, k1, k2, b
      <3>5. a1 \in Account /\ a1.cash = a.cash + m /\ a1.keys = a.keys \cup {k1}
        BY <1>1, <3>1, <3>2, <3>3, FreshEvent
      <3> HIDE DEF a1
      <3>6. b \in Account /\ b.cash = a1.cash + (-m) /\ b.keys = a1.keys \cup {k2}
        BY <3>1, <3>2, <3>3, <3>4, <3>5, FreshEvent
      <3>7. a.cash \in Int
        BY <1>1 DEF Account
      <3> QED
        BY <2>2, <3>1, <3>5, <3>6, <3>7
    <2> QED
      BY <2>1, <2>2
  <1> HIDE DEF w, b
  <1>4. RowSound(w)
    <2>1. /\ r.lots = 0 /\ r.lotQty = 0 /\ r.lotPnl = 0
          /\ r.filled + r.remaining = r.requested
          /\ r.filled \in Nat /\ r.remaining \in Nat /\ r.requested \in Nat
          /\ r.remaining > 0
          /\ r.status = "RESTING" => r.filled = 0
      BY <1>1 DEF RowSound, Row
    <2>2. w.reserved = w.remaining * w.cost
      BY <1>2
    <2>3. CASE r.remaining = f
      <3>1. w.status = "FILLED" /\ w.contracts = r.filled + f /\ w.remaining = 0
        BY <1>2, <2>1, <2>3
      <3>2. w.reserved = 0
        BY <1>1, <2>2, <3>1, <1>2 DEF Row
      <3> QED
        BY <1>2, <2>1, <3>1, <3>2 DEF RowSound, Open, Quoting
    <2>4. CASE r.remaining # f /\ r.filled + f > 0
      BY <1>2, <2>1, <2>2, <2>4 DEF RowSound, Open, Quoting
    <2>5. CASE r.remaining # f /\ ~(r.filled + f > 0)
      BY <1>2, <2>1, <2>2, <2>5 DEF RowSound, Open, Quoting
    <2> QED
      BY <2>3, <2>4, <2>5
  <1>5. EventsSound(w, b.keys, cl \cup {t})
    BY <1>1, <1>2, <1>3, AmountAssumption
       DEF EventsSound, RowSound, Row, Open, Quoting, ReleaseKeys
  <1>6. b.cash = PositionValue(w) - w.reserved
    BY <1>1, <1>2, <1>3 DEF PositionValue, RowSound, Row, Account, Open, Quoting
  <1>7. PositionSound(w, b, cl \cup {t})
    BY <1>1, <1>2, <1>3, <1>4, <1>5, <1>6 DEF PositionSound
  <1> QED
    BY <1>7 DEF w, b

(* A quote withdrawn under a release key: by cancel or by the cutover. *)
LEMMA WithdrawnSound ==
    ASSUME NEW r, NEW a, NEW cl, PositionSound(r, a, cl),
           r.status \in Quoting,
           NEW kind \in {"cancel-release", "cutover-release"}
    PROVE  LET st == IF r.filled > 0 THEN "PARTIAL_EXPIRED" ELSE "EXPIRED"
           IN PositionSound(Withdrawn(r, st),
                            RecordEvent(a, <<kind, 0>>, r.reserved), cl)
  <1> DEFINE st == IF r.filled > 0 THEN "PARTIAL_EXPIRED" ELSE "EXPIRED"
             w == Withdrawn(r, st)
             k == <<kind, 0>>
             b == RecordEvent(a, k, r.reserved)
  <1>1. /\ r \in Row /\ a \in Account /\ cl \in SUBSET Trades
        /\ RowSound(r) /\ EventsSound(r, a.keys, cl)
        /\ a.cash = PositionValue(r) - r.reserved
    BY DEF PositionSound
  <1>2. st \in Status
    BY DEF Status, Active, Open, Final
  <1>3. /\ w \in Row
        /\ w.status = st /\ w.reserved = 0
        /\ w.contracts = r.contracts
        /\ w.requested = r.requested /\ w.filled = r.filled /\ w.cost = r.cost
        /\ w.lots = r.lots /\ w.lotQty = r.lotQty /\ w.lotPnl = r.lotPnl
    BY <1>1, <1>2, WithdrawnRow DEF SameTerms, SameLots
  <1>4. /\ b \in Account /\ b.cash = a.cash + r.reserved /\ b.keys = a.keys \cup {k}
    <2>1. k \in Key
      BY KeyTyped DEF EventKinds
    <2>2. k \notin a.keys
      BY <1>1 DEF EventsSound, ReleaseKeys
    <2> HIDE DEF k
    <2> QED
      BY <1>1, <2>1, <2>2, FreshEvent DEF Row
  <1> HIDE DEF w, b
  <1>5. RowSound(w)
    BY <1>1, <1>3 DEF RowSound, Open, Quoting, Row
  <1>6. EventsSound(w, b.keys, cl)
    BY <1>1, <1>3, <1>4 DEF EventsSound, RowSound, Row, Open, Quoting
  <1>7. b.cash = PositionValue(w) - w.reserved
    <2>1. /\ r.reserved \in Int /\ r.lotPnl \in Int /\ r.contracts * r.cost \in Int
          /\ r.filled \in Nat
      BY <1>1 DEF Row
    <2>2. CASE r.status = "RESTING"
      <3>1. w.status = "EXPIRED"
        BY <1>1, <1>3, <2>2 DEF RowSound
      <3> QED
        BY <1>1, <1>3, <1>4, <2>1, <2>2, <3>1 DEF PositionValue, Open
    <2>3. CASE r.status = "PARTIALLY_FILLED"
      <3>1. w.status = "PARTIAL_EXPIRED"
        BY <1>1, <1>3, <2>3 DEF RowSound
      <3> QED
        BY <1>1, <1>3, <1>4, <2>1, <2>3, <3>1 DEF PositionValue, Open
    <2> QED
      BY <2>2, <2>3 DEF Quoting
  <1>8. PositionSound(w, b, cl)
    BY <1>1, <1>3, <1>4, <1>5, <1>6, <1>7 DEF PositionSound
  <1> QED
    BY <1>8 DEF w, b

(* The cash of a close: a partly filled quote first gets its reservation    *)
(* back, so that the account then holds the bare value of the position.     *)
LEMMA ClosedAccountSound ==
    ASSUME NEW r, NEW a, NEW cl, PositionSound(r, a, cl),
           r.status \in Open,
           NEW n \in Nat, <<"exit-proceeds", n>> \notin a.keys, NEW m \in Int
    PROVE  LET b == ClosedAccount(a, r, n, m)
           IN /\ b \in Account
              /\ b.cash = PositionValue(r) + m
              /\ b.keys = a.keys \cup {<<"exit-proceeds", n>>} \cup
                          IF r.status = "PARTIALLY_FILLED"
                          THEN {<<"close-partial-release", 0>>} ELSE {}
  <1> DEFINE k1 == <<"close-partial-release", 0>>
             k2 == <<"exit-proceeds", n>>
             a1 == IF r.status = "PARTIALLY_FILLED"
                   THEN RecordEvent(a, k1, r.reserved) ELSE a
             b == ClosedAccount(a, r, n, m)
  <1>1. /\ r \in Row /\ a \in Account
        /\ RowSound(r) /\ EventsSound(r, a.keys, cl)
        /\ a.cash = PositionValue(r) - r.reserved
    BY DEF PositionSound
  <1>2. k1 \in Key /\ k2 \in Key /\ k1 # k2
    BY KeyTyped DEF EventKinds
  <1>3. r.reserved \in Int /\ a.cash \in Int /\ PositionValue(r) \in Int
    BY <1>1 DEF Row, Account, PositionValue, Open
  <1>4. /\ a1 \in Account /\ a1.cash = PositionValue(r)
        /\ a1.keys = a.keys \cup IF r.status = "PARTIALLY_FILLED" THEN {k1} ELSE {}
    <2>1. CASE r.status = "PARTIALLY_FILLED"
      <3>1. k1 \notin a.keys
        BY <1>1, <2>1 DEF EventsSound, ReleaseKeys, Quoting
      <3> HIDE DEF k1
      <3>2. /\ RecordEvent(a, k1, r.reserved) \in Account
            /\ RecordEvent(a, k1, r.reserved).cash = a.cash + r.reserved
            /\ RecordEvent(a, k1, r.reserved).keys = a.keys \cup {k1}
        BY <1>1, <1>2, <1>3, <3>1, FreshEvent
      <3> QED
        BY <1>1, <1>3, <2>1, <3>2
    <2>2. CASE r.status # "PARTIALLY_FILLED"
      <3>1. r.reserved = 0
        BY <1>1, <2>2 DEF RowSound, Open, Quoting
      <3> QED
        BY <1>1, <1>3, <2>2, <3>1
    <2> QED
      BY <2>1, <2>2
  <1>5. k2 \notin a1.keys
    BY <1>2, <1>4
  <1>6. b = RecordEvent(a1, k2, m)
    BY DEF ClosedAccount
  <1> HIDE DEF a1, k1, k2, b
  <1>7. b \in Account /\ b.cash = a1.cash + m /\ b.keys = a1.keys \cup {k2}
    BY <1>2, <1>4, <1>5, <1>6, FreshEvent
  <1>8. b.keys = a.keys \cup {k2} \cup IF r.status = "PARTIALLY_FILLED" THEN {k1} ELSE {}
    BY <1>4, <1>7
  <1> QED
    BY <1>4, <1>7, <1>8 DEF k1, k2, b

LEMMA ClosedSound ==
    ASSUME NEW r, NEW a, NEW cl, PositionSound(r, a, cl),
           r.status \in Open, NEW net \in Int
    PROVE  PositionSound(Closed(r, r.contracts * (net - r.cost)),
                         ClosedAccount(a, r, 0, r.contracts * net), cl)
  <1> DEFINE pnl == r.contracts * (net - r.cost)
             w == Closed(r, pnl)
             b == ClosedAccount(a, r, 0, r.contracts * net)
  <1>1. /\ r \in Row /\ a \in Account /\ cl \in SUBSET Trades
        /\ RowSound(r) /\ EventsSound(r, a.keys, cl)
    BY DEF PositionSound
  <1>2. /\ r.contracts * net \in Int /\ r.contracts * r.cost \in Int
        /\ pnl = r.contracts * net - r.contracts * r.cost
        /\ pnl \in Int
    BY <1>1 DEF Row
  <1>3. <<"exit-proceeds", 0>> \notin a.keys
    BY <1>1 DEF EventsSound, Open
  <1>4. /\ b \in Account
        /\ b.cash = PositionValue(r) + r.contracts * net
        /\ b.keys = a.keys \cup {<<"exit-proceeds", 0>>} \cup
                    IF r.status = "PARTIALLY_FILLED"
                    THEN {<<"close-partial-release", 0>>} ELSE {}
    BY <1>2, <1>3, ClosedAccountSound
  <1>5. /\ w \in Row
        /\ w.status = "CLOSED" /\ w.reserved = 0
        /\ w.contracts = r.contracts /\ w.realized = pnl
        /\ w.requested = r.requested /\ w.filled = r.filled /\ w.cost = r.cost
        /\ w.lots = r.lots /\ w.lotQty = r.lotQty /\ w.lotPnl = r.lotPnl
    <2> HIDE DEF pnl
    <2> QED
      BY <1>1, <1>2, ClosedRow DEF SameTerms, SameLots
  <1> HIDE DEF w, b, pnl
  <1>6. RowSound(w)
    BY <1>1, <1>5 DEF RowSound, Open, Quoting
  <1>7. EventsSound(w, b.keys, cl)
    BY <1>1, <1>4, <1>5 DEF EventsSound, Open, Quoting
  <1>8. b.cash = PositionValue(w) - w.reserved
    BY <1>1, <1>2, <1>4, <1>5 DEF PositionValue, Open, Row
  <1>9. PositionSound(w, b, cl)
    BY <1>1, <1>4, <1>5, <1>6, <1>7, <1>8 DEF PositionSound
  <1> QED
    BY <1>9 DEF w, b, pnl

LEMMA PartClosedSound ==
    ASSUME NEW r, NEW a, NEW cl, PositionSound(r, a, cl),
           r.status \in Open, NEW q \in Nat, q < r.contracts, NEW net \in Int
    PROVE  PositionSound(PartClosed(r, r.contracts, q, q * (net - r.cost)),
                         ClosedAccount(a, r, r.lots + 1, q * net), cl)
  <1> DEFINE pnl == q * (net - r.cost)
             w == PartClosed(r, r.contracts, q, pnl)
             n == r.lots + 1
             b == ClosedAccount(a, r, n, q * net)
  <1>1. /\ r \in Row /\ a \in Account /\ cl \in SUBSET Trades
        /\ RowSound(r) /\ EventsSound(r, a.keys, cl)
    BY DEF PositionSound
  <1>2. /\ q * net \in Int /\ r.contracts * r.cost \in Int /\ q * r.cost \in Int
        /\ pnl = q * net - q * r.cost
        /\ (r.contracts - q) * r.cost = r.contracts * r.cost - q * r.cost
        /\ pnl \in Int
    BY <1>1 DEF Row
  <1>3. n \in Nat \ {0} /\ ~(n <= r.lots)
    BY <1>1 DEF Row
  <1>4. <<"exit-proceeds", n>> \notin a.keys
    BY <1>1, <1>3 DEF EventsSound
  <1>5. /\ b \in Account
        /\ b.cash = PositionValue(r) + q * net
        /\ b.keys = a.keys \cup {<<"exit-proceeds", n>>} \cup
                    IF r.status = "PARTIALLY_FILLED"
                    THEN {<<"close-partial-release", 0>>} ELSE {}
    <2> HIDE DEF n
    <2> QED
      BY <1>2, <1>3, <1>4, ClosedAccountSound DEF b
  <1>6. /\ w \in Row
        /\ w.status \in {"FILLED", "PARTIAL_EXPIRED"} /\ w.reserved = 0
        /\ w.contracts = r.contracts - q
        /\ w.requested = r.requested /\ w.filled = r.filled /\ w.cost = r.cost
        /\ w.lots = n /\ w.lotQty = r.lotQty + q
        /\ w.lotPnl = r.lotPnl + pnl
    <2>1. r.status \notin Quoting => r.reserved = 0
      BY <1>1 DEF RowSound
    <2> HIDE DEF pnl
    <2> QED
      BY <1>1, <1>2, <2>1, PartClosedRow DEF SameTerms
  <1> HIDE DEF w, b, pnl
  <1>7. RowSound(w)
    BY <1>1, <1>6 DEF RowSound, Row, Open, Quoting
  <1>8. EventsSound(w, b.keys, cl)
    <2>1. \A m \in Nat \ {0} : <<"exit-proceeds", m>> \in b.keys <=> m <= w.lots
      <3> TAKE m \in Nat \ {0}
      <3>1. <<"exit-proceeds", m>> \in b.keys
               <=> (m = n \/ <<"exit-proceeds", m>> \in a.keys)
        BY <1>5, Zenon DEF b
      <3>2. <<"exit-proceeds", m>> \in a.keys <=> m <= r.lots
        BY <1>1 DEF EventsSound
      <3>3. r.lots \in Nat
        BY <1>1 DEF Row
      <3> QED
        BY <1>6, <3>1, <3>2, <3>3
    <2> HIDE DEF n
    <2>2. /\ \A t \in Nat : <<"maker-release", t>> \in b.keys => t \in cl
          /\ \A t \in Nat : <<"maker-fill", t>> \in b.keys => t \in cl
          /\ <<"entry-fill", 0>> \in b.keys
             \/ \E t \in Trades : <<"maker-fill", t>> \in b.keys
      BY <1>1, <1>5 DEF EventsSound
    <2>3. /\ <<"exit-proceeds", 0>> \notin b.keys
          /\ <<"settlement-proceeds", 0>> \notin b.keys
      BY <1>1, <1>3, <1>5 DEF EventsSound, Open
    <2> QED
      BY <1>6, <2>1, <2>2, <2>3 DEF EventsSound, Open, Quoting
  <1>9. b.cash = PositionValue(w) - w.reserved
    BY <1>1, <1>2, <1>5, <1>6 DEF PositionValue, Open, Row
  <1>10. PositionSound(w, b, cl)
    BY <1>1, <1>5, <1>6, <1>7, <1>8, <1>9 DEF PositionSound
  <1> QED
    BY <1>10 DEF w, b, pnl

LEMMA SettledSound ==
    ASSUME NEW r, NEW a, NEW cl, PositionSound(r, a, cl), NEW win \in BOOLEAN
    PROVE  PositionSound(SettledRow(r, win), SettledAccount(a, r, win), cl)
  <1> DEFINE w == SettledRow(r, win)
             b == SettledAccount(a, r, win)
             pay == IF win THEN r.contracts * Payout ELSE 0
  <1>1. /\ r \in Row /\ a \in Account /\ cl \in SUBSET Trades
        /\ RowSound(r) /\ EventsSound(r, a.keys, cl)
        /\ a.cash = PositionValue(r) - r.reserved
    BY DEF PositionSound
  <1>2. /\ r.reserved \in Int /\ r.lotPnl \in Int /\ r.contracts * r.cost \in Int
        /\ r.contracts * Payout \in Int /\ pay \in Int
        /\ r.cost \in Int /\ r.contracts \in Int
    BY <1>1, AmountAssumption DEF Row
  <1>3. CASE r.status = "RESTING"
    <2> DEFINE k == <<"settlement-expire-release", 0>>
    <2>1. k \in Key /\ k \notin a.keys
      BY <1>1, <1>3, KeyTyped DEF EventKinds, EventsSound, Quoting, ReleaseKeys
    <2>2. b = RecordEvent(a, k, r.reserved)
      BY <1>3 DEF SettledAccount
    <2>3. b \in Account /\ b.cash = a.cash + r.reserved /\ b.keys = a.keys \cup {k}
      <3> HIDE DEF k, b
      <3> QED
        BY <1>1, <1>2, <2>1, <2>2, FreshEvent
    <2>4. /\ w \in Row
          /\ w.status = "EXPIRED" /\ w.reserved = 0
          /\ w.requested = r.requested /\ w.filled = r.filled /\ w.cost = r.cost
          /\ w.lots = r.lots /\ w.lotQty = r.lotQty /\ w.lotPnl = r.lotPnl
      BY <1>1, <1>3, SettledRestingRow DEF SameTerms, SameLots
    <2> HIDE DEF w, b
    <2>5. RowSound(w)
      BY <1>1, <1>3, <2>4 DEF RowSound, Open, Quoting
    <2>6. EventsSound(w, b.keys, cl)
      BY <1>1, <1>3, <2>3, <2>4 DEF EventsSound, Open, Quoting
    <2>7. b.cash = PositionValue(w) - w.reserved
      BY <1>1, <1>2, <1>3, <2>3, <2>4 DEF PositionValue, Open
    <2>8. PositionSound(w, b, cl)
      BY <1>1, <2>3, <2>4, <2>5, <2>6, <2>7 DEF PositionSound
    <2> QED
      BY <2>8 DEF w, b
  <1>4. CASE r.status \in Open
    <2> DEFINE k1 == <<"settlement-partial-release", 0>>
               k2 == <<"settlement-proceeds", 0>>
               a1 == IF r.status = "PARTIALLY_FILLED"
                     THEN RecordEvent(a, k1, r.reserved) ELSE a
    <2>1. k1 \in Key /\ k2 \in Key /\ k1 # k2
      BY KeyTyped DEF EventKinds
    <2>2. k2 \notin a.keys
      BY <1>1, <1>4 DEF EventsSound, Open
    <2>3. /\ a1 \in Account /\ a1.cash = PositionValue(r)
          /\ a1.keys = a.keys \cup IF r.status = "PARTIALLY_FILLED" THEN {k1} ELSE {}
      <3>1. PositionValue(r) \in Int /\ a.cash \in Int
        BY <1>1, <1>2, <1>4 DEF PositionValue, Account, Open
      <3>2. CASE r.status = "PARTIALLY_FILLED"
        <4>1. k1 \notin a.keys
          BY <1>1, <3>2 DEF EventsSound, ReleaseKeys, Quoting
        <4> HIDE DEF k1
        <4>2. /\ RecordEvent(a, k1, r.reserved) \in Account
              /\ RecordEvent(a, k1, r.reserved).cash = a.cash + r.reserved
              /\ RecordEvent(a, k1, r.reserved).keys = a.keys \cup {k1}
          BY <1>1, <1>2, <2>1, <4>1, FreshEvent
        <4> QED
          BY <1>1, <1>2, <3>1, <3>2, <4>2
      <3>3. CASE r.status # "PARTIALLY_FILLED"
        <4>1. r.reserved = 0
          BY <1>1, <1>4, <3>3 DEF RowSound, Open, Quoting
        <4> QED
          BY <1>1, <3>1, <3>3, <4>1
      <3> QED
        BY <3>2, <3>3
    <2>4. b = RecordEvent(a1, k2, pay)
      BY <1>4 DEF SettledAccount, Proceeds, Open
    <2>5. k2 \notin a1.keys
      BY <2>1, <2>2, <2>3
    <2> HIDE DEF a1, k1, k2, pay, b
    <2>6. b \in Account /\ b.cash = a1.cash + pay /\ b.keys = a1.keys \cup {k2}
      BY <1>2, <2>1, <2>3, <2>4, <2>5, FreshEvent
    <2>7. /\ w \in Row
          /\ w.status = "SETTLED" /\ w.reserved = 0
          /\ w.contracts = r.contracts
          /\ w.realized = r.contracts * (IF win THEN Payout - r.cost ELSE -r.cost)
          /\ w.requested = r.requested /\ w.filled = r.filled /\ w.cost = r.cost
          /\ w.lots = r.lots /\ w.lotQty = r.lotQty /\ w.lotPnl = r.lotPnl
      <3>1. r.status \notin Quoting => r.reserved = 0
        BY <1>1 DEF RowSound
      <3> QED
        BY <1>1, <1>4, <3>1, SettledOpenRow DEF SameTerms, SameLots
    <2> HIDE DEF w
    <2>8. RowSound(w)
      BY <1>1, <1>4, <2>7 DEF RowSound, Open, Quoting
    <2>9. EventsSound(w, b.keys, cl)
      BY <1>1, <1>4, <2>3, <2>6, <2>7 DEF EventsSound, Open, Quoting, k1, k2
    <2>10. w.realized = pay - r.contracts * r.cost
      <3>1. /\ r.contracts * (Payout - r.cost) = r.contracts * Payout - r.contracts * r.cost
            /\ r.contracts * (-r.cost) = -(r.contracts * r.cost)
        BY <1>2, AmountAssumption
      <3> QED
        BY <1>2, <2>7, <3>1 DEF pay
    <2>11. b.cash = PositionValue(w) - w.reserved
      BY <1>2, <1>4, <2>3, <2>6, <2>7, <2>10 DEF PositionValue, Open
    <2>12. PositionSound(w, b, cl)
      BY <1>1, <2>6, <2>7, <2>8, <2>9, <2>11 DEF PositionSound
    <2> QED
      BY <2>12 DEF w, b
  <1>5. CASE r.status # "RESTING" /\ r.status \notin Open
    <2>1. w = r /\ b = a
      BY <1>5 DEF SettledRow, SettledAccount, Open
    <2> QED
      BY <2>1
  <1> QED
    BY <1>3, <1>4, <1>5

-----------------------------------------------------------------------------
(* The inductive invariant: every position is sound, and what a closer has  *)
(* read agrees with the order on the terms that never change after entry.   *)

Positions == \A o \in Orders : PositionSound(order[o], ledger[o], claimed[o])

Readings ==
    \A c \in Closers :
        reading[c].order # NoOrder =>
            LET r == reading[c].row
                o == reading[c].order
            IN /\ r.status \in Open
               /\ order[o].status # "NONE"
               /\ order[o].cost = r.cost

IInv == TypeOK /\ Positions /\ Readings

(* What a step may do to a row that other processes have read. *)
TermsKept == \A o \in Orders : order[o].status # "NONE" =>
                /\ order'[o].status # "NONE"
                /\ order'[o].cost = order[o].cost

LEMMA InitInv == Init => IInv
  <1> SUFFICES ASSUME Init PROVE IInv
    OBVIOUS
  <1>1. TypeOK
    <2>1. NoEvents \in Account
      BY DEF NoEvents, Account
    <2> QED
      BY <2>1, AbsentRow, Zenon DEF Init, TypeOK, NothingRead
  <1>2. Positions
    BY AbsentSound DEF Init, Positions
  <1>3. Readings
    BY DEF Init, Readings, NothingRead
  <1> QED
    BY <1>1, <1>2, <1>3 DEF IInv

(* Replacing one position by a sound one. *)
LEMMA OneMoved ==
    ASSUME TypeOK, Positions, NEW o \in Orders, NEW r, NEW a, NEW cl,
           PositionSound(r, a, cl),
           order' = [order EXCEPT ![o] = r],
           ledger' = [ledger EXCEPT ![o] = a],
           claimed' = [claimed EXCEPT ![o] = cl]
    PROVE  /\ order' \in [Orders -> Row]
           /\ ledger' \in [Orders -> Account]
           /\ claimed' \in [Orders -> SUBSET Trades]
           /\ Positions'
           /\ order'[o] = r
           /\ \A p \in Orders \ {o} : order'[p] = order[p]
  <1>1. r \in Row /\ a \in Account /\ cl \in SUBSET Trades
    BY DEF PositionSound
  <1>2. /\ order \in [Orders -> Row]
        /\ ledger \in [Orders -> Account]
        /\ claimed \in [Orders -> SUBSET Trades]
    BY DEF TypeOK
  <1>3. /\ order'[o] = r /\ ledger'[o] = a /\ claimed'[o] = cl
        /\ \A p \in Orders \ {o} : /\ order'[p] = order[p]
                                   /\ ledger'[p] = ledger[p]
                                   /\ claimed'[p] = claimed[p]
    BY <1>2
  <1>4. Positions'
    <2> SUFFICES ASSUME NEW p \in Orders
                 PROVE  PositionSound(order[p], ledger[p], claimed[p])'
      BY DEF Positions
    <2>1. PositionSound(order'[p], ledger'[p], claimed'[p])
      <3>1. CASE p = o
        BY <1>3, <3>1
      <3>2. CASE p # o
        BY <1>3, <3>2 DEF Positions
      <3> QED
        BY <3>1, <3>2
    <2> QED
      BY <2>1 DEF PositionSound, RowSound, EventsSound, PositionValue
  <1> QED
    BY <1>1, <1>2, <1>3, <1>4

(* Readings survive a step that keeps the terms of entered orders and only  *)
(* empties readings.                                                        *)
LEMMA ReadingsSurvive ==
    ASSUME TypeOK, Readings, TermsKept,
           reading' \in [Closers -> [order : Orders \cup {NoOrder}, row : Row]],
           \A c \in Closers : reading'[c] = reading[c] \/ reading'[c].order = NoOrder
    PROVE  Readings'
  <1> SUFFICES ASSUME NEW c \in Closers, reading'[c].order # NoOrder
               PROVE  /\ reading'[c].row.status \in Open
                      /\ order'[reading'[c].order].status # "NONE"
                      /\ order'[reading'[c].order].cost = reading'[c].row.cost
    BY DEF Readings
  <1>1. reading'[c] = reading[c]
    OBVIOUS
  <1>2. reading[c].order \in Orders
    BY <1>1 DEF TypeOK
  <1> QED
    BY <1>1, <1>2 DEF Readings, TermsKept

LEMMA UnchangedReading ==
    ASSUME TypeOK, Readings, TermsKept, UNCHANGED reading
    PROVE  /\ reading' \in [Closers -> [order : Orders \cup {NoOrder}, row : Row]]
           /\ Readings'
  <1>1. reading' \in [Closers -> [order : Orders \cup {NoOrder}, row : Row]]
    BY DEF TypeOK
  <1> QED
    BY <1>1, ReadingsSurvive

LEMMA PlaceInv ==
    ASSUME IInv, NEW o \in Orders, NEW n \in 1..MaxContracts, NEW c \in Costs,
           PlaceResting(o, n, c) \/ PlaceFilled(o, n, c)
    PROVE  IInv'
  <1>1. /\ n \in Nat /\ n > 0 /\ c \in Int
        /\ order[o].status = "NONE"
    BY AmountAssumption DEF PlaceResting, PlaceFilled
  <1>2. PositionSound(order[o], ledger[o], claimed[o])
    BY DEF IInv, Positions
  <1>3. ledger[o] = NoEvents
    <2>1. ledger[o] \in Account /\ order[o] = Absent /\ ledger[o].keys = {}
      BY <1>1, <1>2 DEF PositionSound, RowSound, EventsSound
    <2>2. ledger[o].cash = 0
      BY <1>2, <2>1 DEF PositionSound, PositionValue, Absent, Open
    <2> QED
      BY <2>1, <2>2 DEF Account, NoEvents
  <1>4. PICK r, a : /\ PositionSound(r, a, claimed[o])
                    /\ r.status # "NONE"
                    /\ order' = [order EXCEPT ![o] = r]
                    /\ ledger' = [ledger EXCEPT ![o] = a]
    <2>1. claimed[o] \in SUBSET Trades
      BY <1>2 DEF PositionSound
    <2>2. CASE PlaceResting(o, n, c)
      <3>1. ledger' = [ledger EXCEPT ![o] = RecordEvent(NoEvents, <<"reserve", 0>>, -(n * c))]
        BY <1>3, <2>2 DEF PlaceResting
      <3>2. PositionSound(Quote(n, c),
                RecordEvent(NoEvents, <<"reserve", 0>>, -(n * c)), claimed[o])
        BY <1>1, <2>1, QuoteSound
      <3>3. Quote(n, c).status # "NONE"
        BY <1>1, QuoteRow
      <3> QED
        BY <2>2, <3>1, <3>2, <3>3 DEF PlaceResting
    <2>3. CASE PlaceFilled(o, n, c)
      <3>1. ledger' = [ledger EXCEPT ![o] = RecordEvent(NoEvents, <<"entry-fill", 0>>, -(n * c))]
        BY <1>3, <2>3 DEF PlaceFilled
      <3>2. PositionSound(Taken(n, c),
                RecordEvent(NoEvents, <<"entry-fill", 0>>, -(n * c)), claimed[o])
        BY <1>1, <2>1, TakenSound
      <3>3. Taken(n, c).status # "NONE"
        BY <1>1, TakenRow
      <3> QED
        BY <2>3, <3>1, <3>2, <3>3 DEF PlaceFilled
    <2> QED
      BY <2>2, <2>3
  <1>5. UNCHANGED <<claimed, reading>>
    BY DEF PlaceResting, PlaceFilled
  <1>6. claimed' = [claimed EXCEPT ![o] = claimed[o]]
    BY <1>5 DEF IInv, TypeOK
  <1>7. /\ order' \in [Orders -> Row]
        /\ ledger' \in [Orders -> Account]
        /\ claimed' \in [Orders -> SUBSET Trades]
        /\ Positions'
        /\ order'[o] = r
        /\ \A p \in Orders \ {o} : order'[p] = order[p]
    BY <1>4, <1>6, OneMoved DEF IInv
  <1>8. TermsKept
    BY <1>1, <1>7 DEF TermsKept
  <1>9. /\ reading' \in [Closers -> [order : Orders \cup {NoOrder}, row : Row]]
        /\ Readings'
    BY <1>5, <1>8, UnchangedReading DEF IInv
  <1> QED
    BY <1>7, <1>9 DEF IInv, TypeOK

LEMMA FillInv ==
    ASSUME IInv, NEW o \in Orders, NEW t \in Trades, NEW f \in 0..MaxContracts,
           ApplyMakerTrade(o, t, f)
    PROVE  IInv'
  <1> DEFINE r == Filled(order[o], f)
             a == FilledAccount(ledger[o], order[o], t, f)
             cl == claimed[o] \cup {t}
  <1>1. /\ f \in Nat /\ f <= order[o].remaining
        /\ order[o].status \in Quoting /\ t \notin claimed[o]
    BY AmountAssumption DEF ApplyMakerTrade
  <1>2. PositionSound(order[o], ledger[o], claimed[o])
    BY DEF IInv, Positions
  <1>3. PositionSound(r, a, cl)
    BY <1>1, <1>2, FilledSound
  <1>4. r.status # "NONE" /\ r.cost = order[o].cost
    BY <1>1, <1>2, FilledRow DEF PositionSound
  <1>5. /\ order' = [order EXCEPT ![o] = r]
        /\ ledger' = [ledger EXCEPT ![o] = a]
        /\ claimed' = [claimed EXCEPT ![o] = cl]
        /\ UNCHANGED reading
    BY DEF ApplyMakerTrade
  <1> HIDE DEF r, a, cl
  <1>6. /\ order' \in [Orders -> Row]
        /\ ledger' \in [Orders -> Account]
        /\ claimed' \in [Orders -> SUBSET Trades]
        /\ Positions'
        /\ order'[o] = r
        /\ \A p \in Orders \ {o} : order'[p] = order[p]
    BY <1>3, <1>5, OneMoved DEF IInv
  <1>7. TermsKept
    BY <1>4, <1>6 DEF TermsKept
  <1>8. /\ reading' \in [Closers -> [order : Orders \cup {NoOrder}, row : Row]]
        /\ Readings'
    BY <1>5, <1>7, UnchangedReading DEF IInv
  <1> QED
    BY <1>6, <1>8 DEF IInv, TypeOK

LEMMA CancelInv ==
    ASSUME IInv, NEW o \in Orders, Cancel(o)
    PROVE  IInv'
  <1> DEFINE st == IF order[o].filled > 0 THEN "PARTIAL_EXPIRED" ELSE "EXPIRED"
             r == Withdrawn(order[o], st)
             a == RecordEvent(ledger[o], <<"cancel-release", 0>>, order[o].reserved)
  <1>1. order[o].status \in Quoting
    BY DEF Cancel
  <1>2. PositionSound(order[o], ledger[o], claimed[o])
    BY DEF IInv, Positions
  <1>3. PositionSound(r, a, claimed[o])
    BY <1>1, <1>2, WithdrawnSound
  <1>4. r.status # "NONE" /\ r.cost = order[o].cost
    <2>1. st \in Status /\ st # "NONE"
      BY DEF Status, Active, Open, Final
    <2> HIDE DEF st
    <2> QED
      BY <1>2, <2>1, WithdrawnRow DEF PositionSound, SameTerms
  <1>5. /\ order' = [order EXCEPT ![o] = r]
        /\ ledger' = [ledger EXCEPT ![o] = a]
        /\ UNCHANGED <<claimed, reading>>
    BY DEF Cancel
  <1>6. claimed' = [claimed EXCEPT ![o] = claimed[o]]
    BY <1>5 DEF IInv, TypeOK
  <1> HIDE DEF r, a
  <1>7. /\ order' \in [Orders -> Row]
        /\ ledger' \in [Orders -> Account]
        /\ claimed' \in [Orders -> SUBSET Trades]
        /\ Positions'
        /\ order'[o] = r
        /\ \A p \in Orders \ {o} : order'[p] = order[p]
    BY <1>3, <1>5, <1>6, OneMoved DEF IInv
  <1>8. TermsKept
    BY <1>4, <1>7 DEF TermsKept
  <1>9. /\ reading' \in [Closers -> [order : Orders \cup {NoOrder}, row : Row]]
        /\ Readings'
    BY <1>5, <1>8, UnchangedReading DEF IInv
  <1> QED
    BY <1>7, <1>9 DEF IInv, TypeOK

(* A step that rewrites many positions at once. *)
LEMMA AllMoved ==
    ASSUME IInv,
           order' = [o \in Orders |-> order'[o]],
           ledger' = [o \in Orders |-> ledger'[o]],
           UNCHANGED <<claimed, reading>>,
           \A o \in Orders : /\ PositionSound(order'[o], ledger'[o], claimed[o])
                             /\ order[o].status # "NONE" => order'[o].status # "NONE"
                             /\ order'[o].cost = order[o].cost
    PROVE  IInv'
  <1>1. \A o \in Orders : PositionSound(order'[o], ledger'[o], claimed'[o])
    OBVIOUS
  <1>2. Positions'
    BY <1>1 DEF Positions, PositionSound, RowSound, EventsSound, PositionValue
  <1>3. /\ order' \in [Orders -> Row]
        /\ ledger' \in [Orders -> Account]
        /\ claimed' \in [Orders -> SUBSET Trades]
    <2>1. \A o \in Orders : order'[o] \in Row /\ ledger'[o] \in Account
      BY DEF PositionSound
    <2> QED
      BY <2>1 DEF IInv, TypeOK
  <1>4. TermsKept
    BY DEF TermsKept
  <1>5. /\ reading' \in [Closers -> [order : Orders \cup {NoOrder}, row : Row]]
        /\ Readings'
    BY <1>4, UnchangedReading DEF IInv
  <1> QED
    BY <1>2, <1>3, <1>5 DEF IInv, TypeOK

LEMMA CutoverInv ==
    ASSUME IInv, Cutover
    PROVE  IInv'
  <1> DEFINE R(o) == IF order[o].status \in Quoting
                     THEN Withdrawn(order[o], IF order[o].status = "PARTIALLY_FILLED"
                                              THEN "PARTIAL_EXPIRED" ELSE "EXPIRED")
                     ELSE order[o]
             A(o) == IF order[o].status \in Quoting
                     THEN RecordEvent(ledger[o], <<"cutover-release", 0>>,
                                      order[o].reserved)
                     ELSE ledger[o]
  <1>1. ASSUME NEW o \in Orders
        PROVE  /\ PositionSound(R(o), A(o), claimed[o])
               /\ order[o].status # "NONE" => R(o).status # "NONE"
               /\ R(o).cost = order[o].cost
    <2>1. PositionSound(order[o], ledger[o], claimed[o])
      BY DEF IInv, Positions
    <2>2. CASE order[o].status \in Quoting
      <3> DEFINE st == IF order[o].filled > 0 THEN "PARTIAL_EXPIRED" ELSE "EXPIRED"
      <3>1. st = IF order[o].status = "PARTIALLY_FILLED"
                 THEN "PARTIAL_EXPIRED" ELSE "EXPIRED"
        BY <2>1, <2>2 DEF PositionSound, RowSound, Quoting
      <3>2. R(o) = Withdrawn(order[o], st)
        BY <2>2, <3>1
      <3>3. PositionSound(R(o), A(o), claimed[o])
        BY <2>1, <2>2, <3>2, WithdrawnSound
      <3>4. st \in Status /\ st # "NONE"
        BY DEF Status, Active, Open, Final
      <3> HIDE DEF st
      <3>5. R(o).status # "NONE" /\ R(o).cost = order[o].cost
        BY <2>1, <3>2, <3>4, WithdrawnRow DEF PositionSound, SameTerms
      <3> QED
        BY <3>3, <3>5
    <2>3. CASE order[o].status \notin Quoting
      BY <2>1, <2>3
    <2> QED
      BY <2>2, <2>3
  <1>2. /\ order' = [o \in Orders |-> R(o)]
        /\ ledger' = [o \in Orders |-> A(o)]
        /\ UNCHANGED <<claimed, reading>>
    BY DEF Cutover
  <1> HIDE DEF R, A
  <1>3. \A o \in Orders : order'[o] = R(o) /\ ledger'[o] = A(o)
    BY <1>2
  <1>4. order' = [o \in Orders |-> order'[o]] /\ ledger' = [o \in Orders |-> ledger'[o]]
    BY <1>2, <1>3
  <1> QED
    BY <1>1, <1>2, <1>3, <1>4, AllMoved

LEMMA SettleInv ==
    ASSUME IInv, NEW D \in SUBSET Slots, NEW win \in [D -> BOOLEAN], Settle(D, win)
    PROVE  IInv'
  <1> DEFINE R(o) == IF SlotOf[o] \in D THEN SettledRow(order[o], win[SlotOf[o]])
                                        ELSE order[o]
             A(o) == IF SlotOf[o] \in D
                     THEN SettledAccount(ledger[o], order[o], win[SlotOf[o]])
                     ELSE ledger[o]
  <1>1. ASSUME NEW o \in Orders
        PROVE  /\ PositionSound(R(o), A(o), claimed[o])
               /\ order[o].status # "NONE" => R(o).status # "NONE"
               /\ R(o).cost = order[o].cost
    <2>1. PositionSound(order[o], ledger[o], claimed[o])
      BY DEF IInv, Positions
    <2>2. CASE SlotOf[o] \in D
      <3> DEFINE w == win[SlotOf[o]]
      <3>1. w \in BOOLEAN
        BY <2>2
      <3> HIDE DEF w
      <3>2. PositionSound(SettledRow(order[o], w), SettledAccount(ledger[o], order[o], w),
                          claimed[o])
        BY <2>1, <3>1, SettledSound
      <3>3. /\ order[o].status # "NONE" => SettledRow(order[o], w).status # "NONE"
            /\ SettledRow(order[o], w).cost = order[o].cost
        <4>1. order[o] \in Row /\ (order[o].status \notin Quoting => order[o].reserved = 0)
          BY <2>1 DEF PositionSound, RowSound
        <4>2. CASE order[o].status = "RESTING"
          BY <4>1, <4>2, SettledRestingRow DEF SameTerms
        <4>3. CASE order[o].status \in Open
          BY <3>1, <4>1, <4>3, SettledOpenRow DEF SameTerms
        <4>4. CASE order[o].status # "RESTING" /\ order[o].status \notin Open
          BY <4>4 DEF SettledRow
        <4> QED
          BY <4>2, <4>3, <4>4
      <3> QED
        BY <2>2, <3>2, <3>3 DEF w
    <2>3. CASE SlotOf[o] \notin D
      BY <2>1, <2>3
    <2> QED
      BY <2>2, <2>3
  <1>2. /\ order' = [o \in Orders |-> R(o)]
        /\ ledger' = [o \in Orders |-> A(o)]
        /\ UNCHANGED <<claimed, reading>>
    BY DEF Settle
  <1> HIDE DEF R, A
  <1>3. \A o \in Orders : order'[o] = R(o) /\ ledger'[o] = A(o)
    BY <1>2
  <1>4. order' = [o \in Orders |-> order'[o]] /\ ledger' = [o \in Orders |-> ledger'[o]]
    BY <1>2, <1>3
  <1> QED
    BY <1>1, <1>2, <1>3, <1>4, AllMoved

LEMMA ReadInv ==
    ASSUME IInv, NEW c \in Closers, NEW o \in Orders, ReadForClose(c, o)
    PROVE  IInv'
  <1>1. /\ order[o].status \in Open /\ order[o] \in Row
        /\ reading' = [reading EXCEPT ![c] = [order |-> o, row |-> order[o]]]
        /\ UNCHANGED <<order, ledger, claimed>>
    BY DEF ReadForClose, IInv, TypeOK
  <1>2. Positions'
    BY <1>1 DEF IInv, Positions, PositionSound, RowSound, EventsSound, PositionValue
  <1>3. TypeOK'
    BY <1>1 DEF IInv, TypeOK
  <1>4. Readings'
    BY <1>1 DEF IInv, TypeOK, Readings, Open
  <1> QED
    BY <1>2, <1>3, <1>4 DEF IInv

LEMMA RefusedInv ==
    ASSUME IInv, NEW c \in Closers, CloseRefused(c)
    PROVE  IInv'
  <1>1. /\ reading' = [reading EXCEPT ![c] = NothingRead]
        /\ UNCHANGED <<order, ledger, claimed>>
    BY DEF CloseRefused
  <1>2. Positions'
    BY <1>1 DEF IInv, Positions, PositionSound, RowSound, EventsSound, PositionValue
  <1>3. TypeOK'
    BY <1>1, AbsentRow DEF IInv, TypeOK, NothingRead
  <1>4. Readings'
    BY <1>1 DEF IInv, TypeOK, Readings, NothingRead
  <1> QED
    BY <1>2, <1>3, <1>4 DEF IInv

(* What the guarded UPDATE establishes: the row is still the one the exit   *)
(* was computed from, in everything the exit was computed from.             *)
LEMMA GuardHolds ==
    ASSUME IInv, NEW c \in Closers, reading[c].order # NoOrder, StillAsRead(c)
    PROVE  LET o == reading[c].order
               r == reading[c].row
           IN /\ o \in Orders
              /\ PositionSound(order[o], ledger[o], claimed[o])
              /\ order[o].status \in Open
              /\ order[o].status = r.status
              /\ order[o].contracts = r.contracts
              /\ order[o].reserved = r.reserved
              /\ order[o].cost = r.cost
  <1>1. reading[c].order \in Orders
    BY DEF IInv, TypeOK
  <1> QED
    BY <1>1 DEF IInv, Positions, Readings, StillAsRead

LEMMA CloseAllInv ==
    ASSUME IInv, NEW c \in Closers, NEW net \in ExitNets, CloseAll(c, net)
    PROVE  IInv'
  <1> DEFINE o == reading[c].order
             s == order[o]
             r == Closed(s, s.contracts * (net - s.cost))
             a == ClosedAccount(ledger[o], s, 0, s.contracts * net)
  <1>1. reading[c].order # NoOrder /\ StillAsRead(c)
    BY DEF CloseAll
  <1>2. /\ o \in Orders
        /\ PositionSound(s, ledger[o], claimed[o])
        /\ s.status \in Open
        /\ s.status = reading[c].row.status
        /\ s.contracts = reading[c].row.contracts
        /\ s.reserved = reading[c].row.reserved
        /\ s.cost = reading[c].row.cost
    BY <1>1, GuardHolds
  <1>3. /\ order' = [order EXCEPT ![o] = r]
        /\ ledger' = [ledger EXCEPT ![o] = a]
        /\ reading' = [reading EXCEPT ![c] = NothingRead]
        /\ UNCHANGED claimed
    BY <1>2 DEF CloseAll, ClosedAccount
  <1>4. net \in Int
    BY AmountAssumption
  <1>5. PositionSound(r, a, claimed[o])
    BY <1>2, <1>4, ClosedSound
  <1>6. r.status # "NONE" /\ r.cost = s.cost
    <2>1. s \in Row
      BY <1>2 DEF PositionSound
    <2>2. s.contracts * (net - s.cost) \in Int
      BY <1>4, <2>1 DEF Row
    <2> QED
      BY <2>1, <2>2, ClosedRow DEF SameTerms
  <1>7. claimed' = [claimed EXCEPT ![o] = claimed[o]]
    BY <1>3 DEF IInv, TypeOK
  <1> HIDE DEF r, a
  <1>8. /\ order' \in [Orders -> Row]
        /\ ledger' \in [Orders -> Account]
        /\ claimed' \in [Orders -> SUBSET Trades]
        /\ Positions'
        /\ order'[o] = r
        /\ \A p \in Orders \ {o} : order'[p] = order[p]
    <2> HIDE DEF o
    <2> QED
      BY <1>2, <1>3, <1>5, <1>7, OneMoved DEF IInv
  <1>9. TermsKept
    BY <1>6, <1>8 DEF TermsKept
  <1>10. /\ reading' \in [Closers -> [order : Orders \cup {NoOrder}, row : Row]]
         /\ \A d \in Closers : reading'[d] = reading[d] \/ reading'[d].order = NoOrder
    BY <1>3, AbsentRow DEF IInv, TypeOK, NothingRead
  <1>11. Readings'
    BY <1>9, <1>10, ReadingsSurvive DEF IInv
  <1> QED
    BY <1>8, <1>10, <1>11 DEF IInv, TypeOK

LEMMA ClosePartInv ==
    ASSUME IInv, NEW c \in Closers, NEW q \in 1..MaxContracts, NEW net \in ExitNets,
           ClosePart(c, q, net)
    PROVE  IInv'
  <1> DEFINE o == reading[c].order
             s == order[o]
             r == PartClosed(s, s.contracts, q, q * (net - s.cost))
             a == ClosedAccount(ledger[o], s, s.lots + 1, q * net)
  <1>1. reading[c].order # NoOrder /\ StillAsRead(c)
    BY DEF ClosePart
  <1>2. /\ o \in Orders
        /\ PositionSound(s, ledger[o], claimed[o])
        /\ s.status \in Open
        /\ s.status = reading[c].row.status
        /\ s.contracts = reading[c].row.contracts
        /\ s.reserved = reading[c].row.reserved
        /\ s.cost = reading[c].row.cost
    BY <1>1, GuardHolds
  <1>3. /\ order' = [order EXCEPT ![o] = r]
        /\ ledger' = [ledger EXCEPT ![o] = a]
        /\ reading' = [reading EXCEPT ![c] = NothingRead]
        /\ UNCHANGED claimed
        /\ q < s.contracts
    BY <1>2 DEF ClosePart, ClosedAccount
  <1>4. net \in Int /\ q \in Nat
    BY AmountAssumption
  <1>5. PositionSound(r, a, claimed[o])
    BY <1>2, <1>3, <1>4, PartClosedSound
  <1>6. r.status # "NONE" /\ r.cost = s.cost
    <2>1. s \in Row /\ (s.status \notin Quoting => s.reserved = 0)
      BY <1>2 DEF PositionSound, RowSound
    <2>2. q * (net - s.cost) \in Int
      BY <1>4, <2>1 DEF Row
    <2> QED
      BY <1>2, <1>3, <1>4, <2>1, <2>2, PartClosedRow DEF SameTerms
  <1>7. claimed' = [claimed EXCEPT ![o] = claimed[o]]
    BY <1>3 DEF IInv, TypeOK
  <1> HIDE DEF r, a
  <1>8. /\ order' \in [Orders -> Row]
        /\ ledger' \in [Orders -> Account]
        /\ claimed' \in [Orders -> SUBSET Trades]
        /\ Positions'
        /\ order'[o] = r
        /\ \A p \in Orders \ {o} : order'[p] = order[p]
    <2> HIDE DEF o
    <2> QED
      BY <1>2, <1>3, <1>5, <1>7, OneMoved DEF IInv
  <1>9. TermsKept
    BY <1>6, <1>8 DEF TermsKept
  <1>10. /\ reading' \in [Closers -> [order : Orders \cup {NoOrder}, row : Row]]
         /\ \A d \in Closers : reading'[d] = reading[d] \/ reading'[d].order = NoOrder
    BY <1>3, AbsentRow DEF IInv, TypeOK, NothingRead
  <1>11. Readings'
    BY <1>9, <1>10, ReadingsSurvive DEF IInv
  <1> QED
    BY <1>8, <1>10, <1>11 DEF IInv, TypeOK

LEMMA StepInv == IInv /\ [Next]_vars => IInv'
  <1> SUFFICES ASSUME IInv, [Next]_vars PROVE IInv'
    OBVIOUS
  <1>1. CASE \E o \in Orders, n \in 1..MaxContracts, c \in Costs :
                PlaceResting(o, n, c) \/ PlaceFilled(o, n, c)
    BY <1>1, PlaceInv
  <1>2. CASE \E o \in Orders, t \in Trades, f \in 0..MaxContracts :
                ApplyMakerTrade(o, t, f)
    BY <1>2, FillInv
  <1>3. CASE \E o \in Orders : Cancel(o)
    BY <1>3, CancelInv
  <1>4. CASE Cutover
    BY <1>4, CutoverInv
  <1>5. CASE \E c \in Closers, o \in Orders : ReadForClose(c, o)
    BY <1>5, ReadInv
  <1>6. CASE \E c \in Closers : CloseRefused(c)
    BY <1>6, RefusedInv
  <1>7. CASE \E c \in Closers, net \in ExitNets : CloseAll(c, net)
    BY <1>7, CloseAllInv
  <1>8. CASE \E c \in Closers, q \in 1..MaxContracts, net \in ExitNets :
                ClosePart(c, q, net)
    BY <1>8, ClosePartInv
  <1>9. CASE \E D \in SUBSET Slots : \E win \in [D -> BOOLEAN] : Settle(D, win)
    BY <1>9, SettleInv
  <1>10. CASE UNCHANGED vars
    BY <1>10 DEF vars, IInv, TypeOK, Positions, Readings, PositionSound, RowSound,
                 EventsSound, PositionValue
  <1> QED
    BY <1>1, <1>2, <1>3, <1>4, <1>5, <1>6, <1>7, <1>8, <1>9, <1>10 DEF Next

THEOREM Inductive == Spec => []IInv
  BY InitInv, StepInv, PTL DEF Spec

-----------------------------------------------------------------------------
(* In every state the variables have the types the table and its columns     *)
(* declare; in particular no row is credited beyond what it still quotes.    *)
THEOREM TypeCorrect == Spec => []TypeOK
  <1>1. IInv => TypeOK
    BY DEF IInv
  <1> QED
    BY <1>1, Inductive, PTL

(* The account ledger reconciles with the order rows after every transaction *)
(* of every interleaving of entry, tape, cancel, cutover, close, settlement. *)
THEOREM LedgerAlwaysReconciles == Spec => []LedgerReconciles
  <1>1. IInv => LedgerReconciles
    BY DEF IInv, Positions, PositionSound, LedgerReconciles
  <1> QED
    BY <1>1, Inductive, PTL

(* No position is resolved without the events the reconciliation requires.   *)
THEOREM EventsAlwaysThere == Spec => []RequiredEvents
  <1>1. IInv => RequiredEvents
    <2> SUFFICES ASSUME IInv, NEW o \in Orders
                 PROVE LET r == order[o]
                           k == ledger[o].keys
                       IN /\ r.status = "CLOSED" => <<"exit-proceeds", 0>> \in k
                          /\ \A n \in 1..r.lots : <<"exit-proceeds", n>> \in k
                          /\ r.status = "SETTLED" => <<"settlement-proceeds", 0>> \in k
                          /\ r.status \in Open \cup {"CLOSED", "SETTLED"} =>
                                \/ <<"entry-fill", 0>> \in k
                                \/ \E t \in Trades : <<"maker-fill", t>> \in k
                          /\ r.status = "EXPIRED" =>
                                /\ <<"reserve", 0>> \in k
                                /\ \/ <<"cancel-release", 0>> \in k
                                   \/ <<"cutover-release", 0>> \in k
                                   \/ <<"settlement-expire-release", 0>> \in k
      BY DEF RequiredEvents
    <2>1. EventsSound(order[o], ledger[o].keys, claimed[o]) /\ order[o].lots \in Nat
      BY DEF IInv, Positions, PositionSound, Row
    <2>2. \A n \in 1..order[o].lots : n \in Nat \ {0} /\ n <= order[o].lots
      BY <2>1
    <2> QED
      BY <2>1, <2>2 DEF EventsSound
  <1> QED
    BY <1>1, Inductive, PTL

(* Cash is reserved exactly while a quote rests, and exactly its cost.       *)
THEOREM ReservationsBacked == Spec => []ReservationBacked
  <1>1. IInv => ReservationBacked
    BY DEF IInv, Positions, PositionSound, RowSound, ReservationBacked
  <1> QED
    BY <1>1, Inductive, PTL

(* Contracts are conserved by fills, partial exits and resolutions.          *)
THEOREM QuantitiesConserved == Spec => []QuantityConserved
  <1>1. IInv => QuantityConserved
    BY DEF IInv, Positions, PositionSound, RowSound, QuantityConserved
  <1> QED
    BY <1>1, Inductive, PTL

-----------------------------------------------------------------------------
(* A row becomes active only by an entry into a free slot, and a resolved    *)
(* row and its account are left alone.                                       *)
EntersFree(o) == SlotFree(o) /\ \A p \in Orders \ {o} : order'[p] = order[p]

StepKeeps(o) ==
    /\ order'[o].status \in Active => order[o].status \in Active \/ EntersFree(o)
    /\ order[o].status \in Final => order'[o] = order[o] /\ ledger'[o] = ledger[o]

LEMMA OneStepKeeps ==
    ASSUME TypeOK, NEW o \in Orders, NEW r, NEW a,
           order' = [order EXCEPT ![o] = r],
           ledger' = [ledger EXCEPT ![o] = a],
           order[o].status \notin Final,
           order[o].status \in Active \/ SlotFree(o)
    PROVE  \A p \in Orders : StepKeeps(p)
  BY DEF TypeOK, StepKeeps, EntersFree

LEMMA NextKeeps == IInv /\ [Next]_vars => \A o \in Orders : StepKeeps(o)
  <1> SUFFICES ASSUME IInv, [Next]_vars PROVE \A o \in Orders : StepKeeps(o)
    OBVIOUS
  <1>0. TypeOK
    BY DEF IInv
  <1>1. CASE \E o \in Orders, n \in 1..MaxContracts, c \in Costs :
                PlaceResting(o, n, c) \/ PlaceFilled(o, n, c)
    BY <1>0, <1>1, OneStepKeeps DEF PlaceResting, PlaceFilled, Final
  <1>2. CASE \E o \in Orders, t \in Trades, f \in 0..MaxContracts :
                ApplyMakerTrade(o, t, f)
    BY <1>0, <1>2, OneStepKeeps DEF ApplyMakerTrade, Quoting, Active, Open, Final
  <1>3. CASE \E o \in Orders : Cancel(o)
    BY <1>0, <1>3, OneStepKeeps DEF Cancel, Quoting, Active, Open, Final
  <1>4. CASE Cutover
    <2> SUFFICES ASSUME NEW o \in Orders PROVE StepKeeps(o)
      OBVIOUS
    <2> QED
      BY <1>4 DEF Cutover, StepKeeps, Quoting, Active, Open, Final
  <1>5. CASE \E c \in Closers, o \in Orders : ReadForClose(c, o)
    BY <1>5 DEF ReadForClose, StepKeeps
  <1>6. CASE \E c \in Closers : CloseRefused(c)
    BY <1>6 DEF CloseRefused, StepKeeps
  <1>7. CASE \E c \in Closers, net \in ExitNets : CloseAll(c, net)
    <2>1. PICK c \in Closers, net \in ExitNets : CloseAll(c, net)
      BY <1>7
    <2>2. reading[c].order # NoOrder /\ StillAsRead(c)
      BY <2>1 DEF CloseAll
    <2>3. reading[c].order \in Orders /\ order[reading[c].order].status \in Open
      BY <2>2, GuardHolds
    <2> QED
      BY <1>0, <2>1, <2>3, OneStepKeeps DEF CloseAll, Active, Open, Final
  <1>8. CASE \E c \in Closers, q \in 1..MaxContracts, net \in ExitNets :
                ClosePart(c, q, net)
    <2>1. PICK c \in Closers, q \in 1..MaxContracts, net \in ExitNets :
             ClosePart(c, q, net)
      BY <1>8
    <2>2. reading[c].order # NoOrder /\ StillAsRead(c)
      BY <2>1 DEF ClosePart
    <2>3. reading[c].order \in Orders /\ order[reading[c].order].status \in Open
      BY <2>2, GuardHolds
    <2> QED
      BY <1>0, <2>1, <2>3, OneStepKeeps DEF ClosePart, Active, Open, Final
  <1>9. CASE \E D \in SUBSET Slots : \E win \in [D -> BOOLEAN] : Settle(D, win)
    <2>1. PICK D \in SUBSET Slots : \E win \in [D -> BOOLEAN] : Settle(D, win)
      BY <1>9
    <2>2. PICK win \in [D -> BOOLEAN] : Settle(D, win)
      BY <2>1
    <2> SUFFICES ASSUME NEW o \in Orders PROVE StepKeeps(o)
      OBVIOUS
    <2>3. order[o] \in Row
      BY <1>0 DEF TypeOK
    <2>4. CASE SlotOf[o] \in D
      <3>1. /\ order'[o] = SettledRow(order[o], win[SlotOf[o]])
            /\ ledger'[o] = SettledAccount(ledger[o], order[o], win[SlotOf[o]])
        BY <2>2, <2>4 DEF Settle
      <3>2. CASE order[o].status \in Active
        BY <3>2 DEF StepKeeps, Active, Open, Final
      <3>3. CASE order[o].status \notin Active
        BY <3>1, <3>3 DEF SettledRow, SettledAccount, StepKeeps, Active, Open
      <3> QED
        BY <3>2, <3>3
    <2>5. CASE SlotOf[o] \notin D
      BY <2>2, <2>5 DEF Settle, StepKeeps
    <2> QED
      BY <2>4, <2>5
  <1>10. CASE UNCHANGED vars
    BY <1>10 DEF vars, StepKeeps
  <1> QED
    BY <1>1, <1>2, <1>3, <1>4, <1>5, <1>6, <1>7, <1>8, <1>9, <1>10 DEF Next

(* Two active rows never share the guard index key, although re-entry after  *)
(* a resolution is allowed at any time.                                      *)
THEOREM SlotsExclusive == Spec => []SlotExclusive
  <1>1. Init => SlotExclusive
    BY DEF Init, SlotExclusive, Absent, Active, Open
  <1>2. SlotExclusive /\ IInv /\ [Next]_vars => SlotExclusive'
    <2> SUFFICES ASSUME SlotExclusive, IInv, [Next]_vars,
                        NEW o \in Orders, NEW p \in Orders, o # p,
                        order'[o].status \in Active, order'[p].status \in Active
                 PROVE  SlotOf[o] # SlotOf[p]
      BY DEF SlotExclusive
    <2>1. StepKeeps(o) /\ StepKeeps(p)
      BY NextKeeps
    <2>2. CASE order[o].status \in Active /\ order[p].status \in Active
      BY <2>2 DEF SlotExclusive
    <2>3. CASE EntersFree(o)
      BY <2>3 DEF EntersFree, SlotFree
    <2>4. CASE EntersFree(p)
      BY <2>4 DEF EntersFree, SlotFree
    <2> QED
      BY <2>1, <2>2, <2>3, <2>4 DEF StepKeeps
  <1> QED
    BY <1>1, <1>2, Inductive, PTL DEF Spec

(* Neither a stale close nor a second settlement, cancel or tape credit      *)
(* touches a resolved row or moves cash for it.                              *)
THEOREM ResolvedStay == Spec => ResolvedRowsStay
  <1>1. IInv /\ [Next]_vars =>
           [\A o \in Orders : order[o].status \in Final =>
               order'[o] = order[o] /\ ledger'[o] = ledger[o]]_vars
    BY NextKeeps DEF StepKeeps
  <1> QED
    BY <1>1, Inductive, PTL DEF Spec, ResolvedRowsStay

=============================================================================

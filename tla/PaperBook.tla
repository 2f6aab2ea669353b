------------------------------- MODULE PaperBook -------------------------------
(***************************************************************************)
(* The paper order book and its account ledger (PaperStore, db.py).        *)
(*                                                                         *)
(* Every transaction of the store that moves an order or books cash for    *)
(* it is one action.  The single operation that is not one transaction,    *)
(* close_paper_order, is two: it reads the row on a connection of its own, *)
(* computes the exit from what it read, and only then opens the writing    *)
(* transaction.  Any other writer may commit between the two.              *)
(*                                                                         *)
(* Simplifications, none of which adds a behaviour the store lacks:        *)
(*  - money is an integer; Payout is what one winning contract pays;       *)
(*  - the exit price less its fee is one number, chosen at each close;     *)
(*  - a tape batch that makes n credits is n consecutive credits, each of  *)
(*    which a smaller batch could have made (how a trade's quantity is     *)
(*    shared out is module MakerTape's);                                   *)
(*  - the executed slices of partial closes (child rows) are immutable, so *)
(*    a position carries their number, total quantity and total P&L;       *)
(*  - the group_id guard of the close is module ArbitrageBox's.            *)
(***************************************************************************)
EXTENDS Integers, FiniteSets

CONSTANTS
    Orders,      \* the root rows paper_orders may come to hold
    NoOrder,     \* a closer that has read nothing
    Slots,       \* (account, target date, ticker, side): the guard index key
    SlotOf,      \* the slot each order would occupy
    Closers,     \* processes that close positions: the monitor, an operator
    Trades,      \* ids of public trades, numbers
    Costs,       \* fee-inclusive entry costs of one contract
    ExitNets,    \* exit price less exit fee of one contract
    Payout,      \* what one contract pays when its side wins
    MaxContracts \* bound: contracts requested by one order

ASSUME OrderAssumption ==
    /\ NoOrder \notin Orders
    /\ SlotOf \in [Orders -> Slots]

ASSUME AmountAssumption ==
    /\ Trades \subseteq Nat
    /\ Costs \subseteq Int
    /\ ExitNets \subseteq Int
    /\ Payout \in Int
    /\ MaxContracts \in Nat

VARIABLES
    order,   \* the row of each order
    ledger,  \* per order: the sum of its ledger events, and their keys
    claimed, \* trades with a paper_maker_allocations row, per order
    reading  \* the row a closer has read and not yet acted on

vars == <<order, ledger, claimed, reading>>

-----------------------------------------------------------------------------
(* Rows *)

Open == {"FILLED", "PARTIALLY_FILLED", "PARTIAL_EXPIRED"}
Quoting == {"RESTING", "PARTIALLY_FILLED"}
Active == Open \cup {"RESTING"}
Final == {"EXPIRED", "CLOSED", "SETTLED"}
Status == {"NONE"} \cup Active \cup Final

Row == [status : Status, requested : Nat, contracts : Nat, filled : Nat,
        remaining : Nat, reserved : Int, cost : Int, realized : Int,
        lots : Nat, lotQty : Nat, lotPnl : Int]

Absent == [status |-> "NONE", requested |-> 0, contracts |-> 0, filled |-> 0,
           remaining |-> 0, reserved |-> 0, cost |-> 0, realized |-> 0,
           lots |-> 0, lotQty |-> 0, lotPnl |-> 0]

NothingRead == [order |-> NoOrder, row |-> Absent]

(* Ledger.  An event is identified by its idempotency key; recording a key  *)
(* twice is silently ignored (INSERT OR IGNORE).                            *)

EventKinds == {"reserve", "entry-fill", "maker-release", "maker-fill",
               "cancel-release", "settlement-expire-release",
               "settlement-partial-release", "close-partial-release",
               "cutover-release", "exit-proceeds", "settlement-proceeds"}

Key == EventKinds \X Nat

Account == [cash : Int, keys : SUBSET Key]

NoEvents == [cash |-> 0, keys |-> {}]

RecordEvent(account, key, amount) ==
    IF key \in account.keys
    THEN account
    ELSE [cash |-> account.cash + amount, keys |-> account.keys \cup {key}]

-----------------------------------------------------------------------------
Init ==
    /\ order = [o \in Orders |-> Absent]
    /\ ledger = [o \in Orders |-> NoEvents]
    /\ claimed = [o \in Orders |-> {}]
    /\ reading = [c \in Closers |-> NothingRead]

(* The partial unique index over active rows rejects a second one. *)
SlotFree(o) ==
    \A p \in Orders \ {o} : order[p].status \in Active => SlotOf[p] # SlotOf[o]

(* A maker quote: the whole cost is reserved. *)
Quote(n, c) ==
    [Absent EXCEPT !.status = "RESTING", !.requested = n, !.contracts = n,
                   !.remaining = n, !.reserved = n * c, !.cost = c]

PlaceResting(o, n, c) ==
    /\ order[o].status = "NONE"
    /\ SlotFree(o)
    /\ order' = [order EXCEPT ![o] = Quote(n, c)]
    /\ ledger' = [ledger EXCEPT ![o] = RecordEvent(@, <<"reserve", 0>>, -(n * c))]
    /\ UNCHANGED <<claimed, reading>>

(* A taker entry: filled at the visible quote at once. *)
Taken(n, c) ==
    [Absent EXCEPT !.status = "FILLED", !.requested = n, !.contracts = n,
                   !.filled = n, !.cost = c]

PlaceFilled(o, n, c) ==
    /\ order[o].status = "NONE"
    /\ SlotFree(o)
    /\ order' = [order EXCEPT ![o] = Taken(n, c)]
    /\ ledger' = [ledger EXCEPT ![o] =
            RecordEvent(@, <<"entry-fill", 0>>, -(n * c))]
    /\ UNCHANGED <<claimed, reading>>

(* The row after f more contracts were credited from the tape. *)
Filled(r, f) ==
    [r EXCEPT !.filled = @ + f,
              !.remaining = @ - f,
              !.contracts = IF r.filled + f > 0 THEN r.filled + f ELSE r.requested,
              !.reserved = (r.remaining - f) * r.cost,
              !.status = IF r.remaining = f THEN "FILLED"
                         ELSE IF r.filled + f > 0 THEN "PARTIALLY_FILLED"
                         ELSE "RESTING"]

FilledAccount(a, r, t, f) ==
    IF f = 0 THEN a
    ELSE RecordEvent(RecordEvent(a, <<"maker-release", t>>, f * r.cost),
                     <<"maker-fill", t>>, -(f * r.cost))

(* A public trade is credited to a quoting order: f contracts, zero when it *)
(* only consumed the queue ahead.  An order that already has an allocation  *)
(* row for the trade is not credited again.                                 *)
ApplyMakerTrade(o, t, f) ==
    /\ order[o].status \in Quoting
    /\ t \notin claimed[o]
    /\ f <= order[o].remaining
    /\ order' = [order EXCEPT ![o] = Filled(@, f)]
    /\ ledger' = [ledger EXCEPT ![o] = FilledAccount(@, order[o], t, f)]
    /\ claimed' = [claimed EXCEPT ![o] = @ \cup {t}]
    /\ UNCHANGED reading

\* Mutant: the reservation column keeps its value.
WithdrawnStillReserved(r, status) ==
    [r EXCEPT !.status = status, !.remaining = 0]

(* The unfilled remainder is withdrawn; what was filled is kept. *)
Withdrawn(r, status) ==
    [r EXCEPT !.status = status, !.remaining = 0, !.reserved = 0]

Cancel(o) ==
    /\ order[o].status \in Quoting
    /\ order' = [order EXCEPT ![o] =
            Withdrawn(@, IF order[o].filled > 0 THEN "PARTIAL_EXPIRED" ELSE "EXPIRED")]
    /\ ledger' = [ledger EXCEPT ![o] =
            RecordEvent(@, <<"cancel-release", 0>>, order[o].reserved)]
    /\ UNCHANGED <<claimed, reading>>

(* The first start of a new execution model withdraws every quote that an   *)
(* earlier model left in the book, and each such quote carries the earlier  *)
(* model's version.                                                         *)
Cutover ==
    /\ \E o \in Orders : order[o].status \in Quoting
    /\ order' = [o \in Orders |->
            IF order[o].status \in Quoting
            THEN Withdrawn(order[o], IF order[o].status = "PARTIALLY_FILLED"
                                     THEN "PARTIAL_EXPIRED" ELSE "EXPIRED")
            ELSE order[o]]
    /\ ledger' = [o \in Orders |->
            IF order[o].status \in Quoting
            THEN RecordEvent(ledger[o], <<"cutover-release", 0>>, order[o].reserved)
            ELSE ledger[o]]
    /\ UNCHANGED <<claimed, reading>>

-----------------------------------------------------------------------------
(* close_paper_order, first half: _open_order on its own connection. *)
ReadForClose(c, o) ==
    /\ reading[c].order = NoOrder
    /\ order[o].status \in Open
    /\ reading' = [reading EXCEPT ![c] = [order |-> o, row |-> order[o]]]
    /\ UNCHANGED <<order, ledger, claimed>>

\* Mutants of the guard: a bare WHERE id = ?, the quantity only, or the
\* status and the reservation without the quantity.
NoGuard(c) == TRUE

GuardOnContracts(c) ==
    order[reading[c].order].contracts = reading[c].row.contracts

GuardWithoutContracts(c) ==
    /\ order[reading[c].order].status = reading[c].row.status
    /\ order[reading[c].order].reserved = reading[c].row.reserved

(* What the guarded UPDATE compares. *)
StillAsRead(c) ==
    LET r == reading[c].row
        s == order[reading[c].order]
    IN /\ s.status = r.status
       /\ s.contracts = r.contracts
       /\ s.reserved = r.reserved

(* The guarded UPDATE changed no row: ValueError, nothing is written. *)
CloseRefused(c) ==
    /\ reading[c].order # NoOrder
    /\ ~StillAsRead(c)
    /\ reading' = [reading EXCEPT ![c] = NothingRead]
    /\ UNCHANGED <<order, ledger, claimed>>

(* Cash of a close: the reservation of a partly filled quote comes back,    *)
(* and the proceeds are booked under the row that holds the executed lot.   *)
ClosedAccount(a, r, lot, amount) ==
    RecordEvent(IF r.status = "PARTIALLY_FILLED"
                THEN RecordEvent(a, <<"close-partial-release", 0>>, r.reserved)
                ELSE a,
                <<"exit-proceeds", lot>>, amount)

(* The recorded liquidity covers the whole position. *)
Closed(r, pnl) == [Withdrawn(r, "CLOSED") EXCEPT !.realized = pnl]

CloseAll(c, net) ==
    LET o == reading[c].order
        r == reading[c].row
    IN /\ reading[c].order # NoOrder
       /\ StillAsRead(c)
       /\ order' = [order EXCEPT ![o] = Closed(@, r.contracts * (net - r.cost))]
       /\ ledger' = [ledger EXCEPT ![o] =
              ClosedAccount(@, r, 0, r.contracts * net)]
       /\ reading' = [reading EXCEPT ![c] = NothingRead]
       /\ UNCHANGED claimed

(* It covers only q contracts: they become a closed child row and the       *)
(* parent keeps the rest.                                                   *)
Sliced(r, held, q, pnl) ==
    [r EXCEPT !.contracts = held - q, !.lots = @ + 1, !.lotQty = @ + q,
              !.lotPnl = @ + pnl]

PartClosed(r, held, q, pnl) ==
    IF r.status = "PARTIALLY_FILLED"
    THEN Withdrawn(Sliced(r, held, q, pnl), "PARTIAL_EXPIRED")
    ELSE Sliced(r, held, q, pnl)

ClosePart(c, q, net) ==
    LET o == reading[c].order
        r == reading[c].row
    IN /\ reading[c].order # NoOrder
       /\ StillAsRead(c)
       /\ q < r.contracts
       /\ order' = [order EXCEPT ![o] =
              PartClosed(@, r.contracts, q, q * (net - r.cost))]
       /\ ledger' = [ledger EXCEPT ![o] =
              ClosedAccount(@, r, order[o].lots + 1, q * net)]
       /\ reading' = [reading EXCEPT ![c] = NothingRead]
       /\ UNCHANGED claimed

-----------------------------------------------------------------------------
(* settle_paper_orders for one target date and series: D is its slots and   *)
(* win[s] says whether the side of slot s won.  A resting row keeps its     *)
(* remaining quantity.                                                      *)
SettledRow(r, win) ==
    IF r.status = "RESTING"
    THEN [r EXCEPT !.status = "EXPIRED", !.reserved = 0]
    ELSE IF r.status \in Open
    THEN [r EXCEPT !.status = "SETTLED",
                   !.remaining = IF r.status = "PARTIALLY_FILLED" THEN 0 ELSE @,
                   !.reserved = IF r.status = "PARTIALLY_FILLED" THEN 0 ELSE @,
                   !.realized = r.contracts * (IF win THEN Payout - r.cost
                                                      ELSE -r.cost)]
    ELSE r

Proceeds(a, r, win) ==
    RecordEvent(a, <<"settlement-proceeds", 0>>,
                IF win THEN r.contracts * Payout ELSE 0)

SettledAccount(a, r, win) ==
    IF r.status = "RESTING"
    THEN RecordEvent(a, <<"settlement-expire-release", 0>>, r.reserved)
    ELSE IF r.status = "PARTIALLY_FILLED"
    THEN Proceeds(RecordEvent(a, <<"settlement-partial-release", 0>>, r.reserved),
                  r, win)
    ELSE IF r.status \in Open THEN Proceeds(a, r, win)
    ELSE a

Settle(D, win) ==
    /\ \E o \in Orders : SlotOf[o] \in D /\ order[o].status \in Active
    /\ order' = [o \in Orders |->
            IF SlotOf[o] \in D THEN SettledRow(order[o], win[SlotOf[o]])
                               ELSE order[o]]
    /\ ledger' = [o \in Orders |->
            IF SlotOf[o] \in D
            THEN SettledAccount(ledger[o], order[o], win[SlotOf[o]])
            ELSE ledger[o]]
    /\ UNCHANGED <<claimed, reading>>

-----------------------------------------------------------------------------
Next ==
    \/ \E o \in Orders, n \in 1..MaxContracts, c \in Costs :
          PlaceResting(o, n, c) \/ PlaceFilled(o, n, c)
    \/ \E o \in Orders, t \in Trades, f \in 0..MaxContracts :
          ApplyMakerTrade(o, t, f)
    \/ \E o \in Orders : Cancel(o)
    \/ Cutover
    \/ \E c \in Closers, o \in Orders : ReadForClose(c, o)
    \/ \E c \in Closers : CloseRefused(c)
    \/ \E c \in Closers, net \in ExitNets : CloseAll(c, net)
    \/ \E c \in Closers, q \in 1..MaxContracts, net \in ExitNets :
          ClosePart(c, q, net)
    \/ \E D \in SUBSET Slots : \E win \in [D -> BOOLEAN] : Settle(D, win)

Spec == Init /\ [][Next]_vars

-----------------------------------------------------------------------------
(* Properties *)

TypeOK ==
    /\ order \in [Orders -> Row]
    /\ ledger \in [Orders -> Account]
    /\ claimed \in [Orders -> SUBSET Trades]
    /\ reading \in [Closers -> [order : Orders \cup {NoOrder}, row : Row]]

(* What a position still owes or has earned, apart from its reservation. *)
PositionValue(r) ==
    r.lotPnl + (IF r.status \in {"CLOSED", "SETTLED"} THEN r.realized
                ELSE IF r.status \in Open THEN -(r.contracts * r.cost)
                ELSE 0)

(* The ledger of every position reconciles with its rows: its cash movements *)
(* add up to the realized P&L less the open cost less the reservation, so no *)
(* interleaving of fills, stale closes, cancels and settlement books a       *)
(* movement twice or loses one to a repeated idempotency key                 *)
(* (_account_order_ledger_reconciliation_on_connection).                     *)
LedgerReconciles ==
    \A o \in Orders :
        ledger[o].cash = PositionValue(order[o]) - order[o].reserved

(* Every resolved position has the ledger events the reconciliation demands  *)
(* of it: proceeds of the exit or the settlement, for each executed slice    *)
(* too, and the reservation and its release of a quote that expired.         *)
RequiredEvents ==
    \A o \in Orders :
        LET r == order[o]
            k == ledger[o].keys
        IN /\ r.status = "CLOSED" => <<"exit-proceeds", 0>> \in k
           /\ \A n \in 1..r.lots : <<"exit-proceeds", n>> \in k
           /\ r.status = "SETTLED" => <<"settlement-proceeds", 0>> \in k
           /\ r.status \in Open \cup {"CLOSED", "SETTLED"} =>
                 \/ <<"entry-fill", 0>> \in k
                 \/ \E t \in Trades : <<"maker-fill", t>> \in k
           /\ r.status = "EXPIRED" =>
                 /\ <<"reserve", 0>> \in k
                 /\ \/ <<"cancel-release", 0>> \in k
                    \/ <<"cutover-release", 0>> \in k
                    \/ <<"settlement-expire-release", 0>> \in k

(* Cash is reserved for exactly the quantity that may still fill: a quote    *)
(* holds its remaining cost and a row that no longer quotes holds nothing,   *)
(* whichever of cancel, cutover, close and settlement ended it.              *)
ReservationBacked ==
    \A o \in Orders :
        LET r == order[o]
        IN /\ r.status \in Quoting => r.reserved = r.remaining * r.cost
           /\ r.status \notin Quoting => r.reserved = 0

(* Contracts are neither made nor lost: what was sold in slices and what is  *)
(* held or was resolved add up to what was filled, and a live quote offers   *)
(* exactly the rest of what was requested.                                   *)
QuantityConserved ==
    \A o \in Orders :
        LET r == order[o]
        IN /\ r.status \in Open \cup {"CLOSED", "SETTLED"} =>
                 r.contracts + r.lotQty = r.filled
           /\ r.status \in Quoting => r.filled + r.remaining = r.requested
           /\ r.filled <= r.requested

(* At most one active row per account, date, market and side: re-entry after *)
(* a resolution never meets a row that is still active.                      *)
SlotExclusive ==
    \A o, p \in Orders :
        /\ o # p
        /\ order[o].status \in Active
        /\ order[p].status \in Active
        => SlotOf[o] # SlotOf[p]

(* The outcome of a resolved row is never overwritten and no cash moves for  *)
(* it any more: a close computed from a row read before a settlement, or the *)
(* other way round, changes nothing (close_paper_order, settle_paper_orders).*)
ResolvedRowsStay ==
    [][\A o \in Orders :
          order[o].status \in Final =>
             order'[o] = order[o] /\ ledger'[o] = ledger[o]]_vars

=============================================================================

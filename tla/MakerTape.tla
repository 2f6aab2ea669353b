-------------------------------- MODULE MakerTape --------------------------------
(***************************************************************************)
(* How the paper monitor credits public trades to resting maker quotes and *)
(* decides that a quote has expired, for one market.                       *)
(*                                                                         *)
(* A trade executes on the exchange and appears on the public tape later.  *)
(* A monitor pass takes the time, queries the tape up to that time, credits*)
(* what it got in one transaction, and only then expires the quotes whose  *)
(* end the queried interval covers by the ingestion grace.  The pass may   *)
(* fail or be killed between any two of these steps, and a payload that is *)
(* not understood stays on the tape.  The scan may place and pull quotes   *)
(* meanwhile.  Three things end a quote without asking the tape: an exit   *)
(* of what it filled, a cutover of the execution model, settlement.        *)
(*                                                                         *)
(* The model assumes of the exchange what the code assumes: a trade is on  *)
(* the tape no later than Grace after it executed.  Prices are integers    *)
(* and rank the price levels.  Cash is module PaperBook's.                 *)
(*                                                                         *)
(* Names that every state machine has begin with Tape: the proofs extend   *)
(* this module beside another.                                             *)
(***************************************************************************)
EXTENDS Integers, FiniteSets, FiniteSetsExt, Folds, Functions

CONSTANTS
    Quotes,     \* ids of quotes, numbers: the last tiebreak of the priority
    Trades,     \* ids of public trades, numbers
    QuoteTerms, \* account, side, limit, queuePrice, queue, quantity, ttl
    TradeTerms, \* side (the maker's), price, quantity
    Research,   \* the account whose quotes are counterfactual shadows
    Grace,      \* MAKER_TAPE_RECONCILIATION_GRACE_SECONDS, in ticks
    MaxTime     \* bound: the clock stops here

ASSUME TimeAssumption == Grace \in Nat \ {0} /\ MaxTime \in Nat \ {0}

ASSUME TermsAssumption ==
    /\ IsFiniteSet(Quotes) /\ Quotes \subseteq Nat
    /\ IsFiniteSet(Trades) /\ Trades \subseteq Nat
    /\ \A o \in Quotes :
          /\ QuoteTerms[o].limit \in Nat /\ QuoteTerms[o].queuePrice \in Nat
          /\ QuoteTerms[o].queue \in Nat /\ QuoteTerms[o].quantity \in Nat
          /\ QuoteTerms[o].ttl \in Nat
    /\ \A t \in Trades : TradeTerms[t].price \in Nat /\ TradeTerms[t].quantity \in Nat

(* initial_queue_ahead: a quote above the visible bid has no queue ahead.   *)
ASSUME QueueAssumption ==
    \A o \in Quotes :
        QuoteTerms[o].limit > QuoteTerms[o].queuePrice => QuoteTerms[o].queue = 0

VARIABLES
    now,
    executed,  \* when each trade executed, 0 while it has not
    published, \* the trades on the public tape
    garbled,   \* those whose payload cannot be normalized, now or later
    open,      \* the market still trades
    row,       \* the row of each quote
    allocations, \* paper_maker_allocations, the journal: what each quote took of each trade
    pass       \* the monitor pass under way

tapeVars == <<now, executed, published, garbled, open, row, allocations, pass>>

-----------------------------------------------------------------------------
Nothing == [queue |-> 0, fill |-> 0]

NoRow == [status |-> "NONE", placed |-> 0, expires |-> 0, pulled |-> FALSE,
          filled |-> 0, queue |-> 0]

NoPass == [pc |-> "idle", from |-> 0, through |-> 0, tape |-> {}, complete |-> FALSE]

TapeInit ==
    /\ now = 1
    /\ executed = [t \in Trades |-> 0]
    /\ published = {}
    /\ garbled = {}
    /\ open = TRUE
    /\ row = [o \in Quotes |-> NoRow]
    /\ allocations = [o \in Quotes |-> [t \in Trades |-> Nothing]]
    /\ pass = NoPass

Resting == {o \in Quotes : row[o].status = "RESTING"}

-----------------------------------------------------------------------------
(* The exchange. *)

Tick ==
    /\ now < MaxTime
    /\ \A t \in Trades \ published :
          executed[t] # 0 => now + 1 < executed[t] + Grace
    /\ now' = now + 1
    /\ UNCHANGED <<executed, published, garbled, open, row, allocations, pass>>

Execute(t) ==
    /\ open
    /\ executed[t] = 0
    /\ executed' = [executed EXCEPT ![t] = now]
    /\ UNCHANGED <<now, published, garbled, open, row, allocations, pass>>

Publish(t) ==
    /\ executed[t] # 0
    /\ t \notin published
    /\ published' = published \cup {t}
    /\ garbled' \in {garbled, garbled \cup {t}}
    /\ UNCHANGED <<now, executed, open, row, allocations, pass>>

Close ==
    /\ open
    /\ open' = FALSE
    /\ UNCHANGED <<now, executed, published, garbled, row, allocations, pass>>

-----------------------------------------------------------------------------
(* Quotes.  Only those are placed whose whole life fits under MaxTime. *)

Place(o) ==
    /\ open
    /\ row[o].status = "NONE"
    /\ now + QuoteTerms[o].ttl + Grace <= MaxTime
    /\ row' = [row EXCEPT ![o] =
            [NoRow EXCEPT !.status = "RESTING", !.placed = now,
                          !.expires = now + QuoteTerms[o].ttl,
                          !.queue = QuoteTerms[o].queue]]
    /\ UNCHANGED <<now, executed, published, garbled, open, allocations, pass>>

(* request_resting_order_cancel: the quote ends now, or at its own expiry   *)
(* if that is earlier; a second request changes nothing.                    *)
Pull(o) ==
    /\ o \in Resting
    /\ ~row[o].pulled
    /\ now > row[o].placed
    /\ row' = [row EXCEPT ![o].pulled = TRUE,
                          ![o].expires = IF @ <= now THEN @ ELSE now]
    /\ UNCHANGED <<now, executed, published, garbled, open, allocations, pass>>

(* The remainder of a quote is given up. *)
Ended(r, status) == [r EXCEPT !.status = status, !.queue = 0]

(* What a partly filled quote holds is sold, all of it or a part, by the    *)
(* monitor's exit rules or by hand: its remainder is cancelled at once.     *)
Exit(o) ==
    /\ o \in Resting
    /\ row[o].filled > 0
    /\ row' = [row EXCEPT ![o] = Ended(@, "EXITED")]
    /\ UNCHANGED <<now, executed, published, garbled, open, allocations, pass>>

(* A release with a new execution model expires whatever rests under the old. *)
Cutover ==
    /\ Resting # {}
    /\ row' = [o \in Quotes |-> IF o \in Resting THEN Ended(row[o], "CUT_OVER") ELSE row[o]]
    /\ UNCHANGED <<now, executed, published, garbled, open, allocations, pass>>

(* Settlement of the target date ends whatever still rests. *)
Settle ==
    /\ ~open
    /\ Resting # {}
    /\ row' = [o \in Quotes |->
            IF o \notin Resting THEN row[o]
            ELSE IF row[o].filled > 0 THEN Ended(row[o], "SETTLED_OUT")
            ELSE [row[o] EXCEPT !.status = "SETTLED_OUT"]]
    /\ UNCHANGED <<now, executed, published, garbled, open, allocations, pass>>

-----------------------------------------------------------------------------
(* Allocation of a tape to the resting quotes. *)

(* Quotes of one account share the volume; a research shadow is alone.      *)
Scope(o) ==
    IF QuoteTerms[o].account = Research THEN {o}
    ELSE {p \in Quotes : QuoteTerms[p].account = QuoteTerms[o].account}

VolumeScopes == {Scope(o) : o \in Quotes}

(* What each quote took of a trade, the queue ahead of it included.         *)
Volume(t) == [o \in Quotes |-> allocations[o][t].queue + allocations[o][t].fill]

TakenBy(S, t) == SumFunctionOnSet(Volume(t), S)

\* Mutants: the claims of quotes that no longer rest are forgotten; the queue
\* that was consumed is not counted as taken.
AvailableToResting(S, t) == TradeTerms[t].quantity - TakenBy(S \cap Resting, t)

AvailableAfterFills(S, t) ==
    TradeTerms[t].quantity - SumFunctionOnSet([o \in Quotes |-> allocations[o][t].fill], S)

(* What every scope, whoever of it still rests, has left of a trade. *)
Available(S, t) == TradeTerms[t].quantity - TakenBy(S, t)

TradeOrder(t, u) ==
    \/ executed[t] < executed[u]
    \/ executed[t] = executed[u] /\ t < u

Priority(o, p) ==
    \/ QuoteTerms[o].limit > QuoteTerms[p].limit
    \/ /\ QuoteTerms[o].limit = QuoteTerms[p].limit
       /\ \/ row[o].placed < row[p].placed
          \/ row[o].placed = row[p].placed /\ o < p

(* The trade happened on the quote's side while the quote was in the book.  *)
DuringLife(t, o) ==
    /\ QuoteTerms[o].side = TradeTerms[t].side
    /\ executed[t] > row[o].placed
    /\ executed[t] <= row[o].expires

Reaches(t, level) == TradeTerms[t].price <= level

Consumed(want, left) == IF want <= left THEN want ELSE left

(* One trade offered to one quote: first the queue ahead, then the quote.   *)
Offer(s, t, o) ==
    LET left == s.left[Scope(o)][t]
        toQueue == Consumed(s.queue[o], left)
        rest == left - toQueue
        toFill == IF s.queue[o] > toQueue \/ ~Reaches(t, QuoteTerms[o].limit) THEN 0
                  ELSE Consumed(s.unfilled[o], rest)
    IN IF \/ left <= 0
          \/ ~DuringLife(t, o)
          \/ s.unfilled[o] <= 0
          \/ s.queue[o] > 0 /\ ~Reaches(t, QuoteTerms[o].queuePrice)
       THEN s
       ELSE [left |-> [s.left EXCEPT ![Scope(o)][t] = rest - toFill],
             queue |-> [s.queue EXCEPT ![o] = @ - toQueue],
             unfilled |-> [s.unfilled EXCEPT ![o] = @ - toFill],
             got |-> [s.got EXCEPT ![o][t] = [queue |-> toQueue, fill |-> toFill]]]

(* The allocation before the first offer. *)
Start ==
    [left |-> [S \in VolumeScopes |-> [t \in Trades |-> Available(S, t)]],
     queue |-> [o \in Quotes |-> row[o].queue],
     unfilled |-> [o \in Quotes |-> QuoteTerms[o].quantity - row[o].filled],
     got |-> [o \in Quotes |-> [t \in Trades |-> Nothing]]]

(* Every trade in tape order to every resting quote in price-time priority. *)
Before(q, r) ==
    \/ TradeOrder(q[1], r[1])
    \/ q[1] = r[1] /\ Priority(q[2], r[2])

LastOffer(offers) == CHOOSE q \in offers : \A r \in offers \ {q} : Before(r, q)

Allocated(tape) ==
    MapThenFoldSet(LAMBDA q, s : Offer(s, q[1], q[2]), Start,
                   LAMBDA q : q, LastOffer, tape \X Resting)

Allocation(tape) == Allocated(tape).got

(* The journal's uniqueness keeps a quote from taking of one trade twice.   *)
Novel(tape) ==
    LET got == Allocation(tape)
    IN [o \in Quotes |-> [t \in Trades |->
           IF allocations[o][t] = Nothing THEN got[o][t] ELSE Nothing]]

Total(credit, field) == SumFunctionOnSet([t \in Trades |-> credit[t][field]], Trades)

-----------------------------------------------------------------------------
(* A monitor pass. *)

BeginPass ==
    /\ pass.pc = "idle"
    /\ Resting # {}
    /\ pass' = [NoPass EXCEPT !.pc = "query", !.through = now,
                              !.from = Min({row[o].placed : o \in Resting})]
    /\ UNCHANGED <<now, executed, published, garbled, open, row, allocations>>

Visible == {t \in published : pass.from <= executed[t] /\ executed[t] <= pass.through}

(* The whole cursor chain was read.  What cannot be normalized is left out, *)
(* the rest is credited all the same, and the pass sets no watermark.       *)
Fetch ==
    /\ pass.pc = "query"
    /\ pass' = [pass EXCEPT !.pc = "fetched", !.tape = Visible \ garbled,
                            !.complete = Visible \cap garbled = {}]
    /\ UNCHANGED <<now, executed, published, garbled, open, row, allocations>>

(* The exchange does not answer: no credit and no watermark in this pass.   *)
FetchFails ==
    /\ pass.pc = "query"
    /\ pass' = NoPass
    /\ UNCHANGED <<now, executed, published, garbled, open, row, allocations>>

\* Mutant: the credits of this batch replace those of earlier batches.
CreditedAnew(r, o, credit) ==
    LET filled == Total(credit, "fill")
    IN IF credit = [t \in Trades |-> Nothing] THEN r
       ELSE [r EXCEPT !.filled = filled,
                      !.queue = @ - Total(credit, "queue"),
                      !.status = IF filled = QuoteTerms[o].quantity THEN "FILLED" ELSE @]

(* The row of a quote after its credits. *)
Credited(r, o, credit) ==
    LET filled == r.filled + Total(credit, "fill")
    IN [r EXCEPT !.filled = filled,
                 !.queue = @ - Total(credit, "queue"),
                 !.status = IF filled = QuoteTerms[o].quantity THEN "FILLED" ELSE @]

\* Mutant: a batch that credits nothing does not advance the watermark.
ApplyMarkingCredits ==
    /\ pass.pc = "fetched"
    /\ LET novel == Novel(pass.tape)
       IN /\ allocations' = [o \in Quotes |-> [t \in Trades |->
                IF novel[o][t] = Nothing THEN allocations[o][t] ELSE novel[o][t]]]
          /\ row' = [o \in Quotes |-> IF o \in Resting
                                      THEN Credited(row[o], o, novel[o]) ELSE row[o]]
          /\ pass' = [pass EXCEPT !.pc = "applied", !.complete = @ /\ allocations' # allocations]
    /\ UNCHANGED <<now, executed, published, garbled, open>>

(* apply_maker_trade_batch: one transaction over the rows as they are now.  *)
Apply ==
    /\ pass.pc = "fetched"
    /\ LET novel == Novel(pass.tape)
       IN /\ allocations' = [o \in Quotes |-> [t \in Trades |->
                IF novel[o][t] = Nothing THEN allocations[o][t] ELSE novel[o][t]]]
          /\ row' = [o \in Quotes |-> IF o \in Resting
                                      THEN Credited(row[o], o, novel[o]) ELSE row[o]]
    /\ pass' = [pass EXCEPT !.pc = "applied"]
    /\ UNCHANGED <<now, executed, published, garbled, open>>

\* Mutant: the tape is taken to be complete at once.
CoversWithoutGrace(through, expires) == through >= expires

Covers(through, expires) == through >= expires + Grace

Due == {o \in Resting : Covers(pass.through, row[o].expires)}

(* expire_stale_resting_orders: only after a complete query. *)
Expire(o) ==
    /\ pass.pc = "applied"
    /\ pass.complete
    /\ o \in Due
    /\ row' = [row EXCEPT ![o] = Ended(@, "EXPIRED")]
    /\ UNCHANGED <<now, executed, published, garbled, open, allocations, pass>>

EndPass ==
    /\ pass.pc = "applied"
    /\ pass.complete => Due = {}
    /\ pass' = NoPass
    /\ UNCHANGED <<now, executed, published, garbled, open, row, allocations>>

(* The monitor is killed; what it committed stays. *)
Crash ==
    /\ pass.pc # "idle"
    /\ pass' = NoPass
    /\ UNCHANGED <<now, executed, published, garbled, open, row, allocations>>

-----------------------------------------------------------------------------
TapeNext ==
    \/ Tick
    \/ \E t \in Trades : Execute(t) \/ Publish(t)
    \/ Close
    \/ \E o \in Quotes : Place(o) \/ Pull(o) \/ Expire(o) \/ Exit(o)
    \/ Cutover \/ Settle
    \/ BeginPass \/ Fetch \/ FetchFails
    \/ Apply \/ EndPass \/ Crash

TapeSpec == TapeInit /\ [][TapeNext]_tapeVars

(* Passes do not all fail or die between the query and the credit: strong   *)
(* fairness of Apply, said of the states it leads from and to.              *)
NotAllDie == []<>(pass.pc = "fetched") => []<>(pass.pc = "applied")

(* Time passes and the tape is published; the timer starts passes for ever, *)
(* and not every one of them fails or is killed.                            *)
Fairness ==
    /\ WF_tapeVars(Tick)
    /\ \A t \in Trades : WF_tapeVars(Publish(t))
    /\ WF_tapeVars(BeginPass)
    /\ SF_tapeVars(Fetch)
    /\ NotAllDie
    /\ \A o \in Quotes : SF_tapeVars(Expire(o))
    /\ SF_tapeVars(EndPass)

TapeFairSpec == TapeSpec /\ Fairness

-----------------------------------------------------------------------------
(* Properties *)

TapeTypeOK ==
    /\ now \in 1..MaxTime
    /\ executed \in [Trades -> 0..MaxTime]
    /\ published \subseteq {t \in Trades : executed[t] # 0}
    /\ garbled \subseteq published
    /\ open \in BOOLEAN
    /\ \A o \in Quotes :
          /\ row[o].status \in {"NONE", "RESTING", "FILLED", "EXPIRED", "EXITED",
                                "CUT_OVER", "SETTLED_OUT"}
          /\ row[o].filled \in 0..QuoteTerms[o].quantity
          /\ row[o].queue \in 0..QuoteTerms[o].queue
    /\ allocations \in [Quotes -> [Trades -> [queue : Nat, fill : Nat]]]
    /\ pass.pc \in {"idle", "query", "fetched", "applied"}

(* A public trade is finite: over all passes, restarts and resolved quotes   *)
(* the quotes of an account together never take more of it than was traded,  *)
(* and a research shadow, which is alone, not either (apply_volume_claims    *)
(* over the journal of every owner).                                         *)
VolumeConserved ==
    \A t \in Trades :
        /\ \A o \in Quotes : TakenBy({o}, t) <= TradeTerms[t].quantity
        /\ \A a \in {QuoteTerms[o].account : o \in Quotes} \ {Research} :
              TakenBy({o \in Quotes : QuoteTerms[o].account = a}, t) <= TradeTerms[t].quantity

(* A row's progress is what the journal says it took, whatever the order in  *)
(* which batches overlapped or were repeated; the queue ahead is that of a   *)
(* quote that still rests or was filled.                                     *)
RowsMatchJournal ==
    \A o \in Quotes : row[o].status # "NONE" =>
        /\ row[o].filled = Total(allocations[o], "fill")
        /\ row[o].status \in {"RESTING", "FILLED"} =>
              row[o].queue = QuoteTerms[o].queue - Total(allocations[o], "queue")

(* Once a batch is applied, the same tape credits nothing more: a restarted  *)
(* or repeated pass over a tape that did not change is a no-op.              *)
ReplayIsNoop ==
    pass.pc = "applied" =>
        \A o \in Quotes : Novel(pass.tape)[o] = [t \in Trades |-> Nothing]

(* What the whole exchange tape, published or not, would still give o.       *)
Uncredited(o) == Novel({t \in Trades : executed[t] # 0})[o]

(* A quote that expires, at its TTL or pulled, has been credited everything  *)
(* that traded through it in its life, although the tape is late, passes     *)
(* fail, payloads are garbled and other quotes of its account are ended in   *)
(* between.  Of a quote ended by an exit, a cutover or settlement nothing is *)
(* said: those do not wait for the tape.                                     *)
ExpiryLosesNothing ==
    [][\A o \in Quotes :
          row[o].status = "RESTING" /\ row'[o].status = "EXPIRED" =>
             Uncredited(o) = [t \in Trades |-> Nothing]]_tapeVars

(* Neither the volume nor a better quote of the scope kept o from taking more  *)
(* of t: its life, its size or the price did.                                  *)
CannotTake(t, o) ==
    \/ ~DuringLife(t, o)
    \/ QuoteTerms[o].quantity - row[o].filled <= 0
    \/ row[o].queue > 0 /\ ~Reaches(t, QuoteTerms[o].queuePrice)
    \/ row[o].queue = 0 /\ ~Reaches(t, QuoteTerms[o].limit)

(* Price-time priority: a batch gives a quote shares of a trade only when no   *)
(* quote of its scope that goes before it could take more of that trade, the   *)
(* queue ahead of that quote included.                                         *)
PriceTimePriority ==
    [][\A t \in Trades, o, p \in Quotes :
          /\ allocations'[p][t] # allocations[p][t]
          /\ o \in Resting /\ Scope(o) = Scope(p) /\ Priority(o, p)
          => CannotTake(t, o)']_tapeVars

(* A payload no pass understands, younger than the oldest quote that rests: *)
(* every query reaches back to that quote, so none is complete.             *)
TapeBlocked ==
    \E t \in garbled, o \in Resting : row[o].placed <= executed[t]

(* Every quote ends, pulled or not, so that its reservation does not stay    *)
(* for ever, unless the tape is blocked for ever.                            *)
QuotesEnd ==
    \A o \in Quotes :
        row[o].status = "RESTING" ~> (row[o].status # "RESTING" \/ []TapeBlocked)

=============================================================================

------------------------------ MODULE MCMakerTape ------------------------------
(* Instances of MakerTape: what the quotes and the trades are. *)
EXTENDS MakerTape

Quote(account, side, limit, queuePrice, queue, quantity, ttl) ==
    [account |-> account, side |-> side, limit |-> limit, queuePrice |-> queuePrice,
     queue |-> queue, quantity |-> quantity, ttl |-> ttl]

PublicTrade(side, price, quantity) ==
    [side |-> side, price |-> price, quantity |-> quantity]

(* Two quotes of the live account: one joins the bid behind a queue, the     *)
(* other rests a level below; both trades reach both levels.                 *)
SharedQuotes == <<Quote("live", "YES", 2, 2, 1, 1, 1),
                  Quote("live", "YES", 1, 1, 0, 2, 1)>>
SharedTrades == <<PublicTrade("YES", 1, 1), PublicTrade("YES", 1, 1)>>

=============================================================================

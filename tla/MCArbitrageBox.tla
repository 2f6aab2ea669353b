----------------------------- MODULE MCArbitrageBox -----------------------------
(* The instance of ArbitrageBox: the last leg has no bid to be sold into. *)
EXTENDS ArbitrageBox

LastHasNoBid == [l \in Legs |-> l # Count]

=============================================================================

------------------------- MODULE MCSettlementTruth -------------------------
(* One city-day with two adjacent bins: "70" and "71 or above", two lots on   *)
(* them, the first in an archived ledger.                                     *)
EXTENDS SettlementTruth
CONSTANTS a, b, c, low, high

OnEach == [l \in Lots |-> IF l = b THEN high ELSE low]
Bins == [m \in Markets |-> IF m = low THEN {70} ELSE {71}]
=============================================================================

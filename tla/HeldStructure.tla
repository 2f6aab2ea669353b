------------------------------ MODULE HeldStructure ------------------------------
(***************************************************************************)
(* What a guaranteed-payoff group promises: contracts held leg by leg, and *)
(* a trust in the structure that the rest of the program acts upon.  While *)
(* the structure is not trusted its legs are ordinary risk and may change  *)
(* in any way.  It becomes trusted only whole, and from then on it is held *)
(* leg for leg until all of it settles at once.                            *)
(***************************************************************************)
EXTENDS Integers

CONSTANTS Legs, Size

VARIABLES held, trusted

Whole == [l \in Legs |-> Size]

None == [l \in Legs |-> 0]

Init == held = None /\ trusted = FALSE

Manage ==
    /\ ~trusted
    /\ held' \in [Legs -> 0..Size]
    /\ UNCHANGED trusted

Trust ==
    /\ ~trusted
    /\ held = Whole
    /\ trusted' = TRUE
    /\ UNCHANGED held

SettleWhole ==
    /\ trusted
    /\ held' = None
    /\ trusted' = FALSE

Next == Manage \/ Trust \/ SettleWhole

Spec == Init /\ [][Next]_<<held, trusted>>

=============================================================================

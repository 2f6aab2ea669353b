------------------------------ MODULE MCPaperBook ------------------------------
(* Two orders that would occupy the same slot, two closers. *)
EXTENDS PaperBook, TLC

CONSTANTS o1, o2, c1, c2, s1

OneSlot == o1 :> s1 @@ o2 :> s1

CloserSymmetry == Permutations(Closers)

=============================================================================

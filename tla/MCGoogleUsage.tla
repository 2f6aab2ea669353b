--------------------------- MODULE MCGoogleUsage ---------------------------
(* Instances of GoogleUsage: one city of each unit. *)
EXTENDS GoogleUsage

OneCityEach == [u \in Units |-> 1]
=============================================================================

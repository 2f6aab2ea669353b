------------------------------- MODULE MCM1Trial -------------------------------
(* An instance of M1Trial: two legs of one target, whose day-ahead hours     *)
(* straddle the end of a UTC day.                                            *)
EXTENDS M1Trial

Dates == [l \in Legs |-> 1]
Ahead == <<{1, 2}>>

=============================================================================

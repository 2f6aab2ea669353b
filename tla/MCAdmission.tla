----------------------------- MODULE MCAdmission -----------------------------
(* Two cities, one market each, whose risk adds up in the account.             *)
EXTENDS Admission, TLC

CONSTANTS m1, m2

ScopePeers ==
  ("city" :> [m \in Markets |-> {m}]) @@ ("all" :> [m \in Markets |-> Markets])
Shares == ("city" :> 30) @@ ("all" :> 40)
Caps == ("city" :> 2) @@ ("all" :> 3)
OfferedPairs == {<<m1, "YES">>, <<m1, "NO">>, <<m2, "YES">>}
YesNoBox == {{<<m1, "YES">>, <<m1, "NO">>}}
ClosingProfits == {-1, 1}
Interchangeable == Permutations(Orders) \cup Permutations(Decisions) \cup Permutations(Scripts)
=============================================================================

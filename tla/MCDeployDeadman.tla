--------------------------- MODULE MCDeployDeadman ---------------------------
(* The dead-man explored until a host and a dead-man have crossed.  crossed    *)
(* is never taken back (lemma CrossedStays of DeployDeadman_proofs) and every  *)
(* property of the run holds of a state or step where it is set, so nothing    *)
(* that could break one of them is cut off.                                    *)
EXTENDS DeployDeadman

Uncrossed == ~crossed
=============================================================================

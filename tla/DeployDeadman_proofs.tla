------------------------- MODULE DeployDeadman_proofs -------------------------
(* For any number of deploys, reboots and restore attempts: types, the release *)
(* the timers run over, and who attends to a box that is dark.  Until a host   *)
(* and a dead-man have crossed: what they leave behind then is no invariant.   *)
EXTENDS DeployDeadman, TLAPS

USE DEF Parts, Steps, Recovery, Ends, Groups

LEMMA NoneIsNoDeploy == None \notin Deploys
BY ConstantsAssumption

-----------------------------------------------------------------------------
LEMMA NoStateType == NoState \in Leases
BY ConstantsAssumption DEF NoState, Leases

(* What the helper makes of the timers, and what a command notes.             *)
LEMMA HelperType ==
  ASSUME TypeOK, StartsAll \/ StopsAll \/ StartsSome \/ StopsSome \/ \E G \in SUBSET Groups : Starts(G)
  PROVE  timers' \in [Groups -> {"on", "stopped", "off"}]
<1>1. CASE StartsAll \/ StopsAll
  BY <1>1 DEF StartsAll, StopsAll
<1>2. CASE StartsSome \/ StopsSome \/ \E G \in SUBSET Groups : Starts(G)
  BY <1>2 DEF StartsSome, StopsSome, Starts, TypeOK
<1> QED BY <1>1, <1>2

LEMMA SentType ==
  ASSUME TypeOK, NEW d \in Deploys, NEW alone \in BOOLEAN, Sent(d, alone) PROVE crossed' \in BOOLEAN
BY DEF Sent

LEMMA IdleType == Idle \in Scripts
BY DEF Idle, Scripts, Pcs

LEMMA ScriptType ==
  ASSUME NEW h \in Scripts, NEW p \in Pcs, NEW f \in {"none", "pre", "mixed", "post"},
         NEW s \in {"none", "revoked"}, NEW b \in BOOLEAN, NEW c \in BOOLEAN
  PROVE  /\ [h EXCEPT !.pc = p] \in Scripts
         /\ [h EXCEPT !.fence = s] \in Scripts
         /\ [h EXCEPT !.pc = p, !.phase = f] \in Scripts
         /\ [h EXCEPT !.pc = p, !.phase = f, !.clear = b] \in Scripts
         /\ [h EXCEPT !.pc = p, !.fence = s] \in Scripts
         /\ [h EXCEPT !.pc = p, !.clear = b, !.restorable = c] \in Scripts
BY DEF Scripts

LEMMA GoToType ==
  ASSUME TypeOK, NEW d \in Deploys, NEW p \in Pcs, GoTo(d, p)
  PROVE  host' \in [Deploys -> Scripts]
<1> DEFINE h == IF p \in Ends THEN Idle ELSE host[d]
<1>1. h \in Scripts
  BY IdleType DEF TypeOK
<1> HIDE DEF h
<1>2. [h EXCEPT !.pc = p] \in Scripts
  BY <1>1 DEF Scripts
<1> QED BY <1>2 DEF GoTo, TypeOK, h

-----------------------------------------------------------------------------
(* Every step leaves a well-formed box and well-formed deploy hosts, whatever *)
(* the number of deploys that compete for it.                                 *)
LEMMA InitTypeOK == Init => TypeOK
<1> SUFFICES ASSUME Init PROVE TypeOK OBVIOUS
<1>1. /\ boot \in 0..Reboots /\ tree \in [Parts -> Deploys \cup {None}]
      /\ timers \in [Groups -> {"on", "stopped", "off"}]
  BY ConstantsAssumption DEF Init
<1>2. host \in [Deploys -> Scripts] /\ dm \in Leases
  BY NoStateType, IdleType DEF Init
<1> QED BY <1>1, <1>2 DEF Init, TypeOK

LEMMA ArmType == ASSUME TypeOK, NEW d \in Deploys, Arm(d) PROVE TypeOK'
<1> DEFINE restorable == ~marker /\ ~Quiet
<1>1. PICK clear \in BOOLEAN :
        \/ /\ triggers' = TRUE
           /\ dm' = [NoState EXCEPT !.deploy = d, !.phase = "pre-transfer", !.boot = boot,
                                    !.restorable = restorable, !.fresh = TRUE]
           /\ host' = [host EXCEPT ![d] = [Idle EXCEPT !.pc = "await", !.clear = clear, !.restorable = restorable]]
        \/ dm' = NoState /\ triggers' \in {FALSE, triggers} /\ GoTo(d, Refused(clear))
        \/ GoTo(d, Refused(clear)) /\ UNCHANGED <<dm, triggers>>
  BY DEF Arm, RemoveTriggers
<1>2. restorable \in BOOLEAN /\ boot \in 0..Reboots /\ Refused(clear) \in Pcs
  BY DEF TypeOK, Refused, Pcs
<1> HIDE DEF restorable
<1>3. dm' \in Leases
  <2>1. [NoState EXCEPT !.deploy = d, !.phase = "pre-transfer", !.boot = boot,
                        !.restorable = restorable, !.fresh = TRUE] \in Leases
    BY <1>2, NoStateType DEF Leases
  <2> QED BY <1>1, <2>1, NoStateType DEF TypeOK
<1>4. host' \in [Deploys -> Scripts]
  <2>1. [Idle EXCEPT !.pc = "await", !.clear = clear, !.restorable = restorable] \in Scripts
    BY <1>2, IdleType DEF Pcs, Scripts
  <2>2. ASSUME host' = [host EXCEPT ![d] = [Idle EXCEPT !.pc = "await", !.clear = clear, !.restorable = restorable]]
        PROVE  host' \in [Deploys -> Scripts]
    BY <2>1, <2>2 DEF TypeOK
  <2> QED BY <1>1, <1>2, <2>2, GoToType
<1> QED BY <1>1, <1>3, <1>4 DEF Arm, TypeOK, site

LEMMA ScriptUpdate ==
  ASSUME TypeOK, NEW d \in Deploys, NEW h \in Scripts, host' = [host EXCEPT ![d] = h]
  PROVE  host' \in [Deploys -> Scripts]
BY DEF TypeOK

LEMMA AwaitType == ASSUME TypeOK, NEW d \in Deploys, Await(d) PROVE TypeOK'
<1>1. CASE /\ UNCHANGED <<dm, triggers>>
           /\ host' = [host EXCEPT ![d].pc = "marker", ![d].phase = "pre", ![d].clear = FALSE]
  <2>1. [host[d] EXCEPT !.pc = "marker", !.phase = "pre", !.clear = FALSE] \in Scripts
    BY ScriptType DEF TypeOK, Pcs
  <2>2. host' \in [Deploys -> Scripts]
    BY <1>1, <2>1 DEF TypeOK
  <2> QED BY <1>1, <2>2 DEF Await, TypeOK, site
<1>2. CASE dm' = NoState /\ RemoveTriggers /\ GoTo(d, Refused(host[d].clear))
  <2>1. Refused(host[d].clear) \in Pcs
    BY DEF Refused, Pcs
  <2>2. host' \in [Deploys -> Scripts]
    BY <1>2, <2>1, GoToType
  <2> QED BY <1>2, <2>2, NoStateType DEF Await, TypeOK, site, RemoveTriggers
<1> QED BY <1>1, <1>2 DEF Await

LEMMA CommandType ==
  ASSUME TypeOK, NEW d \in Deploys, NEW p \in Pcs, GoTo(d, p),
         timers' \in [Groups -> {"on", "stopped", "off"}], marker' \in BOOLEAN, crossed' \in BOOLEAN,
         UNCHANGED <<tree, watch, boot>>
  PROVE  TypeOK'
BY GoToType DEF TypeOK, watch

LEMMA LeavesType == ASSUME NEW d PROVE Leaves(d) \in Pcs
BY DEF Leaves, Pcs

LEMMA AdvanceType ==
  ASSUME TypeOK, NEW d \in Deploys, NEW pc, NEW phase \in {"mixed", "post-install"}, NEW next \in Pcs,
         Advance(d, pc, phase, next)
  PROVE  TypeOK'
<1> DEFINE f == IF phase = "mixed" THEN "mixed" ELSE host[d].phase
<1>0. host[d] \in Scripts /\ f \in {"none", "pre", "mixed", "post"}
  BY DEF TypeOK, Scripts
<1>1. CASE GoTo(d, "revoked") /\ UNCHANGED <<dm, triggers, crossed>>
  <2>1. host' \in [Deploys -> Scripts] BY <1>1, GoToType DEF Pcs
  <2> QED BY <1>1, <2>1 DEF Advance, TypeOK, site
<1>2. CASE /\ dm' = [dm EXCEPT !.phase = phase, !.fresh = TRUE]
           /\ triggers' = TRUE /\ crossed' = (crossed \/ (phase = "mixed" /\ dm.acted))
           /\ host' = [host EXCEPT ![d].pc = next, ![d].phase = IF phase = "mixed" THEN "mixed" ELSE @]
  <2>1. dm' \in Leases
    <3>1. dm \in Leases BY DEF TypeOK
    <3>2. [dm EXCEPT !.phase = phase, !.fresh = TRUE] \in Leases
      BY <3>1 DEF Leases
    <3> QED BY <1>2, <3>2
  <2>2. [host[d] EXCEPT !.pc = next, !.phase = f] \in Scripts
    BY <1>0, ScriptType
  <2>3. host' = [host EXCEPT ![d] = [host[d] EXCEPT !.pc = next, !.phase = f]]
    BY <1>2 DEF TypeOK
  <2>4. host' \in [Deploys -> Scripts]
    BY <2>2, <2>3, ScriptUpdate
  <2> QED BY <1>2, <2>1, <2>4 DEF Advance, TypeOK, site
<1>3. CASE /\ UNCHANGED <<dm, triggers, crossed>>
           /\ \E fence \in {"revoked"} \cup (IF dm.deploy = None THEN {host[d].fence} ELSE {}) :
                host' = [host EXCEPT ![d] = IF Trapped(d) THEN [@ EXCEPT !.pc = "gate", !.fence = fence]
                                                         ELSE [Idle EXCEPT !.pc = "gone"]]
  <2>1. PICK fence \in {"none", "revoked"} :
          host' = [host EXCEPT ![d] = IF Trapped(d) THEN [host[d] EXCEPT !.pc = "gate", !.fence = fence]
                                                    ELSE [Idle EXCEPT !.pc = "gone"]]
    BY <1>0, <1>3 DEF Scripts, TypeOK
  <2>2. [host[d] EXCEPT !.pc = "gate", !.fence = fence] \in Scripts
    BY <1>0, ScriptType DEF Pcs
  <2>3. [Idle EXCEPT !.pc = "gone"] \in Scripts
    BY IdleType DEF Pcs, Scripts
  <2>4. host' \in [Deploys -> Scripts]
    BY <2>1, <2>2, <2>3, ScriptUpdate
  <2> QED BY <1>3, <2>4 DEF Advance, TypeOK, site
<1> QED BY <1>1, <1>2, <1>3 DEF Advance

LEMMA TransferType ==
  ASSUME TypeOK, NEW d \in Deploys, NEW part \in Parts, NEW next \in Pcs, Transfer(d, part, next)
  PROVE  TypeOK'
<1> DEFINE f == IF part = "install" THEN "post" ELSE host[d].phase
<1>1. host[d] \in Scripts /\ f \in {"none", "pre", "mixed", "post"}
  BY DEF TypeOK, Scripts
<1>2. [host[d] EXCEPT !.pc = next, !.phase = f] \in Scripts
  BY <1>1, ScriptType
<1>3. host' = [host EXCEPT ![d] = [host[d] EXCEPT !.pc = next, !.phase = f]]
  BY DEF Transfer, TypeOK
<1>4. host' \in [Deploys -> Scripts]
  BY <1>2, <1>3, ScriptUpdate
<1> QED BY <1>4, SentType DEF Transfer, TypeOK, watch

LEMMA DisarmType ==
  ASSUME TypeOK, NEW d \in Deploys, NEW pc, NEW next \in Pcs, Disarm(d, pc, next)
  PROVE  TypeOK'
BY GoToType, NoStateType DEF Disarm, TypeOK, site

LEMMA ReleaseType == ASSUME TypeOK, NEW d \in Deploys, Release(d) PROVE TypeOK'
<1>1. [host[d] EXCEPT !.pc = "disarm", !.phase = "none"] \in Scripts
  BY ScriptType DEF TypeOK, Pcs
<1>2. host' = [host EXCEPT ![d] = [host[d] EXCEPT !.pc = "disarm", !.phase = "none"]]
  BY DEF Release, TypeOK
<1>3. host' \in [Deploys -> Scripts]
  BY <1>1, <1>2, ScriptUpdate
<1> QED BY <1>3, SentType DEF Release, TypeOK, watch

LEMMA DeployTypeOK ==
  ASSUME TypeOK, NEW d \in Deploys, Deploy(d) PROVE TypeOK'
<1>1. CASE Marker(d)
  BY <1>1, CommandType, SentType DEF Marker, TypeOK, Pcs
<1>a. CASE Quiesce(d)
  <2>1. timers' \in [Groups -> {"on", "stopped", "off"}] /\ crossed' \in BOOLEAN
    BY <1>a, HelperType, SentType DEF Quiesce, TypeOK
  <2> QED BY <1>a, <2>1, CommandType, LeavesType DEF Quiesce, TypeOK, Pcs
<1>2. CASE Advance(d, "to-mixed", "mixed", "source") \/ Advance(d, "to-post", "post-install", "producers")
  BY <1>2, AdvanceType DEF Pcs
<1>3. CASE Transfer(d, "source", "stamp") \/ Transfer(d, "stamp", "install") \/ Transfer(d, "install", "to-post")
  BY <1>3, TransferType DEF Pcs
<1>b. ASSUME NEW pc, NEW G \in SUBSET Groups, NEW next \in Pcs, Restores(d, pc, G, next) PROVE TypeOK'
  <2>1. timers' \in [Groups -> {"on", "stopped", "off"}] /\ crossed' \in BOOLEAN
    BY <1>b, HelperType, SentType DEF Restores, TypeOK
  <2> QED BY <1>b, <2>1, CommandType DEF Restores, TypeOK
<1>4. CASE \/ Restores(d, "producers", {"producers"}, "others")
           \/ Restores(d, "others", {"publishers"}, "pause") \/ Restores(d, "others", {"publishers"}, "release")
           \/ Restores(d, "resume", {"publishers"}, "release")
  BY <1>4, <1>b DEF Pcs
<1>c. CASE Pause(d)
  <2>1. timers' \in [Groups -> {"on", "stopped", "off"}] /\ crossed' \in BOOLEAN
    BY <1>c, SentType DEF Pause, TypeOK
  <2> QED BY <1>c, <2>1, CommandType DEF Pause, TypeOK, Pcs
<1>5. CASE Disarm(d, "disarm", "gone")
  BY <1>5, DisarmType DEF Pcs
<1> QED BY ArmType, AwaitType, ReleaseType, <1>1, <1>a, <1>c, <1>2, <1>3, <1>4, <1>5 DEF Deploy

LEMMA HostTypeOK ==
  ASSUME TypeOK, NEW d \in Deploys, Recover(d) \/ Beat(d) \/ Fail(d) \/ Dies(d) PROVE TypeOK'
<1>0. host[d] \in Scripts /\ dm \in Leases
  BY DEF TypeOK
<1>1. CASE Beat(d)
  <2>1. dm' \in Leases BY <1>0, <1>1 DEF Beat, Refreshes, Leases
  <2>2. PICK s \in {"none", "revoked"} : host' = [host EXCEPT ![d] = [host[d] EXCEPT !.fence = s]]
    BY <1>0, <1>1 DEF Beat, TypeOK, Scripts
  <2>3. [host[d] EXCEPT !.fence = s] \in Scripts BY <1>0 DEF Scripts
  <2>4. host' \in [Deploys -> Scripts] BY <2>2, <2>3, ScriptUpdate
  <2> QED BY <1>1, <2>1, <2>4 DEF Beat, TypeOK, site
<1>2. CASE Gate(d)
  <2>1. dm' \in Leases BY <1>0, <1>2 DEF Gate, Refreshes, Leases
  <2>2. host' \in [Deploys -> Scripts] BY <1>2, GoToType DEF Gate, Pcs
  <2> QED BY <1>2, <2>1, <2>2 DEF Gate, TypeOK, site
<1>3. CASE Restore(d) \/ Unmark(d) \/ Requiesce(d)
  <2>1. timers' \in [Groups -> {"on", "stopped", "off"}] /\ crossed' \in BOOLEAN
    BY <1>3, HelperType, SentType DEF Restore, Unmark, Requiesce, TypeOK
  <2> QED BY <1>3, <2>1, CommandType DEF Restore, Unmark, Requiesce, TypeOK, Pcs
<1>4. CASE Disarm(d, "settle", "gone")
  BY <1>4, DisarmType DEF Pcs
<1>5. CASE Hold(d)
  <2>1. dm' \in Leases BY <1>0, <1>5 DEF Hold, RaiseAttention, Leases
  <2>2. host' \in [Deploys -> Scripts] BY <1>5, GoToType DEF Hold, Pcs
  <2> QED BY <1>5, <2>1, <2>2 DEF Hold, TypeOK, site, RaiseAttention, RemoveTriggers
<1>6. CASE Fail(d) \/ Dies(d)
  <2>1. PICK p \in Pcs : GoTo(d, p)
    BY <1>6, LeavesType DEF Fail, Dies, Refused, Pcs
  <2> QED BY <1>6, <2>1, GoToType DEF Fail, Dies, TypeOK, site, watch
<1> QED BY <1>1, <1>2, <1>3, <1>4, <1>5, <1>6 DEF Recover

LEMMA BoxTypeOK ==
  ASSUME TypeOK, Tick \/ TickReleases \/ Lapse \/ Reboot \/ Clear PROVE TypeOK'
<1>0. dm \in Leases BY DEF TypeOK
<1>1. ASSUME RaiseAttention PROVE dm' \in Leases /\ incident' \in BOOLEAN /\ triggers' \in BOOLEAN
  BY <1>0, <1>1 DEF RaiseAttention, RemoveTriggers, TypeOK, Leases
<1>2. ASSUME TearDown PROVE dm' \in Leases /\ incident' \in BOOLEAN /\ triggers' \in BOOLEAN
  BY <1>1, <1>2, NoStateType DEF TearDown
<1>3. ASSUME NEW seen \in BOOLEAN, PerformRestore(seen)
      PROVE  /\ dm' \in Leases /\ incident' \in BOOLEAN /\ triggers' \in BOOLEAN
             /\ timers' \in [Groups -> {"on", "stopped", "off"}] /\ firing' \in BOOLEAN
  <2>1. dm.attempts < MaxAttempts => dm.attempts + 1 \in 0..MaxAttempts
    BY <1>0, ConstantsAssumption DEF Leases
  <2>2. CASE Holds
    BY <1>1, <2>2 DEF Holds, TypeOK
  <2>3. CASE Restored(seen)
    BY <1>0, <2>3, HelperType DEF Restored, TypeOK, Leases
  <2>4. CASE dm.attempts < MaxAttempts /\ RestoreFails(seen)
    <3>1. [dm EXCEPT !.ticked = TRUE, !.seen = seen, !.attempts = dm.attempts + 1, !.acted = TRUE] \in Leases
      BY <1>0, <2>1, <2>4 DEF Leases
    <3> QED BY <2>4, <3>1, HelperType DEF RestoreFails, TypeOK
  <2> QED BY <1>3, <2>2, <2>3, <2>4 DEF PerformRestore
<1>4. CASE Tick
  <2> DEFINE seen == dm.seen \/ marker
  <2>0. seen \in BOOLEAN OBVIOUS
  <2>1. CASE Fire(seen)
    BY <1>1, <1>3, <1>4, <2>1, <2>0 DEF Tick, Fire, FirePreTransfer, FirePostInstall, Holds, TypeOK
  <2>2. CASE RemoveTriggers /\ UNCHANGED <<timers, dm, firing, incident>>
    BY <1>4, <2>2 DEF Tick, RemoveTriggers, TypeOK
  <2>3. CASE TearDown /\ UNCHANGED <<timers, firing>>
    BY <1>2, <1>4, <2>3 DEF Tick, TypeOK
  <2>4. CASE dm' = [dm EXCEPT !.ticked = TRUE, !.seen = seen] /\ UNCHANGED <<timers, triggers, firing, incident>>
    BY <1>0, <1>4, <2>4 DEF Tick, TypeOK, Leases
  <2> QED BY <1>4, <2>1, <2>2, <2>3, <2>4 DEF Tick
<1>5. CASE TickReleases
  BY <1>2, <1>5 DEF TickReleases, TypeOK
<1>6. CASE Lapse
  BY <1>0, <1>6 DEF Lapse, TypeOK, site, Leases
<1>7. CASE Reboot
  <2>1. boot' \in 0..Reboots
    BY <1>7, ConstantsAssumption DEF Reboot, TypeOK
  <2>2. timers' \in [Groups -> {"on", "stopped", "off"}]
    BY <1>7 DEF Reboot, TypeOK
  <2> QED BY <1>7, <2>1, <2>2 DEF Reboot, TypeOK
<1>8. CASE Clear
  BY <1>8, NoStateType DEF Clear, TypeOK, site, RemoveTriggers
<1> QED BY <1>4, <1>5, <1>6, <1>7, <1>8

LEMMA StepTypeOK == TypeOK /\ [Next]_vars => TypeOK'
<1> SUFFICES ASSUME TypeOK, [Next]_vars PROVE TypeOK' OBVIOUS
<1>1. CASE UNCHANGED vars
  BY <1>1 DEF TypeOK, vars, site, watch
<1>2. CASE Next
  BY <1>2, DeployTypeOK, HostTypeOK, BoxTypeOK DEF Next
<1> QED BY <1>1, <1>2

(* The variables stay in their types.                                         *)
THEOREM TypeCorrect == Spec => []TypeOK
BY InitTypeOK, StepTypeOK, PTL DEF Spec

-----------------------------------------------------------------------------
(* What the box looks like in each phase of the lease and at each command of  *)
(* the host that holds it, or held it last.                                   *)

AllOf(d) == \A p \in Parts : tree[p] = d

BeforeTransfer == {"await", "marker", "quiesce", "to-mixed"}
InTransfer == {"source", "stamp", "install", "to-post"}
AfterInstall == {"producers", "others", "pause", "resume", "release", "disarm"}

BoxInv ==
  /\ ~Quiet => Whole
  /\ firing => AllOn /\ dm.acted /\ dm.ticked /\ dm.phase \in {"pre-transfer", "post-install"}
  /\ dm.phase = "mixed" => Quiet \/ AllOf(dm.deploy)
  /\ dm.phase = "post-install" => AllOf(dm.deploy)
  /\ dm.phase = "pre-transfer" /\ dm.restorable => Whole

HostInv(d) ==
  /\ host[d].pc \in BeforeTransfer => dm.phase \notin {"mixed", "post-install"} /\ (host[d].restorable => Whole)
  /\ host[d].pc = "to-mixed" /\ dm.phase = "pre-transfer" /\ ~dm.acted => Quiet
  /\ host[d].pc \in InTransfer => dm.phase \notin {"pre-transfer", "post-install"} /\ (Quiet \/ AllOf(d))
  /\ host[d].pc \in {"stamp", "install", "to-post"} => tree["source"] = d
  /\ host[d].pc \in {"install", "to-post"} => tree["stamp"] = d
  /\ host[d].pc = "to-post" => tree["install"] = d
  /\ host[d].pc \in AfterInstall => dm.phase \notin {"pre-transfer", "mixed"} /\ AllOf(d)
  /\ host[d].pc \in {"others", "pause", "resume", "release"} => timers["producers"] = "on"
  /\ host[d].pc = "release" => AllOn
  /\ host[d].pc \in Recovery => \/ host[d].phase = "post" /\ AllOf(d)
                                \/ host[d].phase = "pre" /\ Whole /\ dm.phase \notin {"mixed", "post-install"}

(* A script's own phase, whoever holds the box.                               *)
ScriptInv(d) ==
  /\ host[d].pc \in {"marker", "quiesce", "to-mixed"} => host[d].phase = "pre"
  /\ host[d].pc \in {"source", "stamp", "install"} => host[d].phase = "mixed"
  /\ host[d].pc \in {"to-post", "producers", "others", "pause", "resume", "release"} => host[d].phase = "post"

(* Deploys arm in their order, and a lease is never older than one at work.   *)
OrderInv ==
  /\ \A d, e \in Deploys : e < d /\ host[d].pc # "idle" => host[e].pc # "idle"
  /\ \A d \in Deploys : host[d].pc = "idle" => dm.deploy # d
  /\ \A d, e \in Deploys : dm.deploy = e /\ e < d => host[d].pc \in Ends \cup {"idle"}
  /\ dm.phase = "none" => dm.deploy = None

RunInv ==
  /\ BoxInv /\ OrderInv
  /\ \A d \in Deploys : (Undisputed(d) => HostInv(d)) /\ ScriptInv(d)

(* A step of a host that others do not notice, or of none.                    *)
NobodyBack == \A e \in Deploys : host'[e].pc = "idle" => host[e].pc = "idle"

(* Where GoTo leaves the hosts.                                               *)
LEMMA GoToFrame ==
  ASSUME TypeOK, NEW d \in Deploys, NEW p \in Pcs, GoTo(d, p)
  PROVE  /\ host'[d].pc = p
         /\ p \notin Ends => host'[d].phase = host[d].phase /\ host'[d].restorable = host[d].restorable
         /\ \A e \in Deploys \ {d} : host'[e] = host[e]
<1> DEFINE h == IF p \in Ends THEN Idle ELSE host[d]
<1>1. h \in Scripts
  BY IdleType DEF TypeOK
<1>2. host' = [host EXCEPT ![d] = [h EXCEPT !.pc = p]]
  BY DEF GoTo
<1>3. p \notin Ends => h = host[d]
  OBVIOUS
<1> HIDE DEF h
<1>4. /\ [h EXCEPT !.pc = p].pc = p
      /\ [h EXCEPT !.pc = p].phase = h.phase
      /\ [h EXCEPT !.pc = p].restorable = h.restorable
  BY <1>1 DEF Scripts
<1> QED BY <1>2, <1>3, <1>4 DEF TypeOK

(* Who has the box after a step had it before, or is through.                 *)
LEMMA StillUndisputed ==
  ASSUME OrderInv, NEW e \in Deploys, NobodyBack, dm' = NoState \/ dm'.deploy = dm.deploy,
         TypeOK, Undisputed(e)'
  PROVE  Undisputed(e) \/ host[e].pc \in Ends \cup {"idle"}
<1>1. CASE dm'.deploy = dm.deploy
  BY <1>1 DEF Undisputed, Mine, NobodyBack
<1>2. CASE dm' = NoState
  <2>1. \A x \in Deploys : x > e => host[x].pc = "idle"
    BY <1>2, NoneIsNoDeploy DEF Undisputed, Mine, NoState, NobodyBack
  <2>2. CASE dm.deploy = None
    BY <2>1, <2>2 DEF Undisputed
  <2>3. CASE dm.deploy \in Deploys
    <3>1. dm.deploy \in Nat /\ e \in Nat
      BY <2>3, ConstantsAssumption
    <3>2. CASE dm.deploy = e
      BY <3>2 DEF Undisputed, Mine
    <3>3. CASE dm.deploy > e
      BY <2>1, <2>3, <3>3 DEF OrderInv
    <3>4. CASE dm.deploy < e
      BY <2>3, <3>4 DEF OrderInv
    <3> QED BY <3>1, <3>2, <3>3, <3>4
  <2> QED BY <2>2, <2>3 DEF TypeOK, Leases
<1> QED BY <1>1, <1>2

(* A host that has not moved over a box that is none the worse.               *)
LEMMA Untouched ==
  ASSUME RunInv, TypeOK, NEW e \in Deploys, host'[e] = host[e], NobodyBack, Undisputed(e)', UNCHANGED tree,
         dm' = NoState \/ (dm'.deploy = dm.deploy /\ (dm.acted => dm'.acted)),
         dm'.phase \in {dm.phase, "none", "attention"},
         \A g \in Groups : timers[g] = "on" => timers'[g] = "on",
         (Quiet => Quiet') \/ (dm.phase \in {"pre-transfer", "post-install"} /\ dm'.acted)
  PROVE  HostInv(e)'
<1>1. CASE host[e].pc \in Ends \cup {"idle"}
  BY <1>1 DEF HostInv, BeforeTransfer, InTransfer, AfterInstall
<1>2. CASE Undisputed(e)
  <2>1. HostInv(e)
    BY <1>2 DEF RunInv
  <2>2. (AllOn => AllOn') /\ (Whole => Whole') /\ (AllOf(e) => AllOf(e)')
    BY DEF AllOn, Whole, AllOf
  <2>3. dm'.phase = "pre-transfer" => dm.phase = "pre-transfer" /\ (dm.acted => dm'.acted)
    BY DEF NoState
  <2>4. host[e].pc \in InTransfer => Quiet' \/ AllOf(e)'
    BY <2>1, <2>2 DEF HostInv
  <2>5. host[e].pc = "to-mixed" /\ dm'.phase = "pre-transfer" /\ ~dm'.acted => Quiet'
    BY <2>1, <2>3 DEF HostInv
  <2> QED BY <2>1, <2>2, <2>4, <2>5 DEF HostInv, BeforeTransfer, InTransfer, AfterInstall
<1> QED BY <1>1, <1>2, StillUndisputed DEF RunInv

LEMMA SameScript ==
  ASSUME RunInv, NEW e \in Deploys, host'[e] = host[e] PROVE ScriptInv(e)'
BY DEF RunInv, ScriptInv

LEMMA SameBox ==
  ASSUME RunInv, UNCHANGED <<timers, tree, firing>>, dm.ticked => dm'.ticked, dm.acted => dm'.acted,
         dm'.deploy = dm.deploy, dm'.phase = dm.phase, dm'.restorable = dm.restorable
  PROVE  BoxInv'
BY DEF RunInv, BoxInv, Whole, AllOf, Quiet, AllOn

(* The box when no lease is left, or an incident owns it.                     *)
LEMMA BoxHeld ==
  ASSUME RunInv, UNCHANGED <<timers, tree>>, ~firing', dm'.phase \in {"none", "attention"}
  PROVE  BoxInv'
BY DEF RunInv, BoxInv, Whole, Quiet

(* One host moves on.                                                         *)
LEMMA OrderKept ==
  ASSUME RunInv, NEW d \in Deploys, host[d].pc \notin Ends \cup {"idle"}, host'[d].pc # "idle",
         \A e \in Deploys \ {d} : host'[e] = host[e],
         dm' = NoState \/ (dm'.deploy = dm.deploy /\ (dm'.phase = "none" => dm.phase = "none"))
  PROVE  OrderInv' /\ NobodyBack
<1>1. NobodyBack
  BY DEF NobodyBack
<1>2. \A x, e \in Deploys : e < x /\ host'[x].pc # "idle" => host'[e].pc # "idle"
  BY DEF RunInv, OrderInv
<1>3. \A x \in Deploys : host'[x].pc = "idle" => dm'.deploy # x
  BY NoneIsNoDeploy DEF RunInv, OrderInv, NoState
<1>4. \A x, e \in Deploys : dm'.deploy = e /\ e < x => host'[x].pc \in Ends \cup {"idle"}
  BY NoneIsNoDeploy DEF RunInv, OrderInv, NoState
<1>5. dm'.phase = "none" => dm'.deploy = None
  BY DEF RunInv, OrderInv, NoState
<1> QED BY <1>1, <1>2, <1>3, <1>4, <1>5 DEF OrderInv

(* The parts of the invariant one host's step has to keep.                    *)
LEMMA Preserved ==
  ASSUME RunInv, BoxInv', OrderInv', NEW d \in Deploys, \A e \in Deploys \ {d} : host'[e] = host[e],
         ScriptInv(d)', \A e \in Deploys : Undisputed(e)' => HostInv(e)'
  PROVE  RunInv'
<1>1. \A e \in Deploys : ScriptInv(e)'
  BY SameScript
<1> QED BY <1>1 DEF RunInv

-----------------------------------------------------------------------------
(* One lemma for each group of steps.                                         *)

(* A host whose script is through changes nothing for the others.             *)
LEMMA Leaving ==
  ASSUME RunInv, TypeOK, NEW d \in Deploys, OrderInv', NobodyBack, host'[d].pc \in Ends,
         \A e \in Deploys \ {d} : host'[e] = host[e], UNCHANGED <<timers, tree, firing>>,
         UNCHANGED dm \/ (~firing /\ (dm' = NoState \/ dm' = [dm EXCEPT !.phase = "attention"]))
  PROVE  RunInv'
<1>1. CASE UNCHANGED dm
  <2>1. BoxInv' BY <1>1, SameBox
  <2>2. ASSUME NEW e \in Deploys \ {d}, Undisputed(e)' PROVE HostInv(e)'
    BY <1>1, <2>2, Untouched DEF Quiet
  <2>3. HostInv(d)' /\ ScriptInv(d)'
    BY DEF HostInv, ScriptInv, BeforeTransfer, InTransfer, AfterInstall
  <2> QED BY <2>1, <2>2, <2>3, Preserved
<1>2. CASE ~firing /\ (dm' = NoState \/ dm' = [dm EXCEPT !.phase = "attention"])
  <2>0. \/ dm' = NoState /\ dm'.phase = "none"
        \/ dm'.phase = "attention" /\ dm'.deploy = dm.deploy /\ dm'.acted = dm.acted
    BY <1>2 DEF NoState, TypeOK, Leases
  <2>1. BoxInv' BY <1>2, <2>0, BoxHeld
  <2>2. ASSUME NEW e \in Deploys \ {d}, Undisputed(e)' PROVE HostInv(e)'
    BY <2>0, <2>2, Untouched DEF Quiet
  <2>3. HostInv(d)' /\ ScriptInv(d)'
    BY DEF HostInv, ScriptInv, BeforeTransfer, InTransfer, AfterInstall
  <2> QED BY <2>1, <2>2, <2>3, Preserved
<1> QED BY <1>1, <1>2

LEMMA ArmRun == ASSUME RunInv, TypeOK, TypeOK', NEW d \in Deploys, Arm(d) PROVE RunInv'
<1> DEFINE r == ~marker /\ ~Quiet
<1>1. PICK clear \in BOOLEAN :
        \/ /\ dm' = [NoState EXCEPT !.deploy = d, !.phase = "pre-transfer", !.boot = boot,
                                    !.restorable = r, !.fresh = TRUE]
           /\ host' = [host EXCEPT ![d] = [Idle EXCEPT !.pc = "await", !.clear = clear, !.restorable = r]]
        \/ dm' = NoState /\ GoTo(d, Refused(clear))
        \/ UNCHANGED dm /\ GoTo(d, Refused(clear))
  BY DEF Arm
<1>2. /\ UNCHANGED <<timers, tree, firing>> /\ ~firing /\ host[d].pc = "idle"
      /\ \A e \in Deploys : e < d => host[e].pc # "idle"
  BY DEF Arm, site
<1>3. r \in BOOLEAN /\ (r => Whole)
  BY DEF RunInv, BoxInv
<1>a. \A x \in Deploys : x > d => host[x].pc = "idle"
  BY <1>2, ConstantsAssumption DEF RunInv, OrderInv
<1>o. Deploys \subseteq Nat
  BY ConstantsAssumption
<1> HIDE DEF r
<1>4. CASE /\ dm' = [NoState EXCEPT !.deploy = d, !.phase = "pre-transfer", !.boot = boot,
                                    !.restorable = r, !.fresh = TRUE]
           /\ host' = [host EXCEPT ![d] = [Idle EXCEPT !.pc = "await", !.clear = clear, !.restorable = r]]
  <2>1. dm'.deploy = d /\ dm'.phase = "pre-transfer" /\ dm'.restorable = r
    BY <1>4, NoStateType DEF Leases
  <2>2. host'[d].pc = "await" /\ host'[d].restorable = r /\ \A e \in Deploys \ {d} : host'[e] = host[e]
    BY <1>4, IdleType DEF Scripts, TypeOK
  <2>3. BoxInv'
    BY <1>2, <1>3, <2>1 DEF RunInv, BoxInv, Whole, Quiet
  <2>4. OrderInv'
    <3>1. \A x, e \in Deploys : e < x /\ host'[x].pc # "idle" => host'[e].pc # "idle"
      BY <1>2, <2>2 DEF RunInv, OrderInv
    <3>2. \A x \in Deploys : host'[x].pc = "idle" => dm'.deploy # x
      BY <2>1, <2>2
    <3>3. \A x, e \in Deploys : dm'.deploy = e /\ e < x => host'[x].pc \in Ends \cup {"idle"}
      BY <1>a, <1>o, <2>1, <2>2
    <3> QED BY <2>1, <3>1, <3>2, <3>3 DEF OrderInv
  <2>5. ScriptInv(d)'
    BY <2>2 DEF ScriptInv
  <2>6. HostInv(d)'
    BY <1>2, <1>3, <2>1, <2>2 DEF HostInv, BeforeTransfer, InTransfer, AfterInstall, Whole
  <2>7. \A e \in Deploys : Undisputed(e)' => e = d
    BY <2>1, NoneIsNoDeploy DEF Undisputed, Mine
  <2> QED BY <2>2, <2>3, <2>4, <2>5, <2>6, <2>7, Preserved
<1>5. CASE (dm' = NoState \/ UNCHANGED dm) /\ GoTo(d, Refused(clear))
  <2>1. Refused(clear) \in Ends /\ Refused(clear) \in Pcs
    BY DEF Refused, Pcs
  <2>2. host'[d].pc \in Ends /\ \A e \in Deploys \ {d} : host'[e] = host[e]
    BY <1>5, <2>1, GoToFrame
  <2>3. NobodyBack
    BY <2>2 DEF NobodyBack
  <2>4. OrderInv'
    <3>1. \A x, e \in Deploys : e < x /\ host'[x].pc # "idle" => host'[e].pc # "idle"
      BY <1>2, <2>2 DEF RunInv, OrderInv
    <3>2. \A x \in Deploys : host'[x].pc = "idle" => dm'.deploy # x
      BY <1>5, <2>2, NoneIsNoDeploy DEF RunInv, OrderInv, NoState
    <3>3. \A x, e \in Deploys : dm'.deploy = e /\ e < x => host'[x].pc \in Ends \cup {"idle"}
      BY <1>5, <2>2, NoneIsNoDeploy DEF RunInv, OrderInv, NoState
    <3>4. dm'.phase = "none" => dm'.deploy = None
      BY <1>5 DEF RunInv, OrderInv, NoState
    <3> QED BY <3>1, <3>2, <3>3, <3>4 DEF OrderInv
  <2> QED BY <1>2, <1>5, <2>2, <2>3, <2>4, Leaving
<1> QED BY <1>1, <1>4, <1>5

LEMMA AwaitRun == ASSUME RunInv, TypeOK, TypeOK', NEW d \in Deploys, Await(d) PROVE RunInv'
<1>0. host[d].pc = "await" /\ UNCHANGED <<timers, tree, firing>>
  BY DEF Await, At, site
<1>1. CASE UNCHANGED dm /\ host' = [host EXCEPT ![d].pc = "marker", ![d].phase = "pre", ![d].clear = FALSE]
  <2>1. /\ host'[d].pc = "marker" /\ host'[d].phase = "pre" /\ host'[d].restorable = host[d].restorable
        /\ \A e \in Deploys \ {d} : host'[e] = host[e]
    BY <1>1 DEF TypeOK, Scripts
  <2>2. OrderInv' /\ NobodyBack
    BY <1>0, <1>1, <2>1, OrderKept
  <2>3. ScriptInv(d)'
    BY <2>1 DEF ScriptInv
  <2>4. Undisputed(d)' => HostInv(d)'
    <3> SUFFICES ASSUME Undisputed(d)' PROVE HostInv(d)' OBVIOUS
    <3>1. HostInv(d)
      BY <1>0, <1>1, <2>2, StillUndisputed DEF RunInv
    <3> QED BY <1>0, <1>1, <2>1, <3>1 DEF HostInv, BeforeTransfer, InTransfer, AfterInstall, Whole
  <2>5. \A e \in Deploys \ {d} : Undisputed(e)' => HostInv(e)'
    BY <1>0, <1>1, <2>1, <2>2, Untouched DEF Quiet
  <2> QED BY <1>0, <1>1, <2>1, <2>2, <2>3, <2>4, <2>5, SameBox, Preserved
<1>2. CASE ~dm.ticked /\ dm' = NoState /\ GoTo(d, Refused(host[d].clear))
  <2>1. Refused(host[d].clear) \in Ends /\ Refused(host[d].clear) \in Pcs
    BY DEF Refused, Pcs
  <2>2. host'[d].pc \in Ends /\ \A e \in Deploys \ {d} : host'[e] = host[e]
    BY <1>2, <2>1, GoToFrame
  <2>3. OrderInv' /\ NobodyBack
    BY <1>0, <1>2, <2>2, OrderKept
  <2>4. ~firing
    BY <1>2 DEF RunInv, BoxInv
  <2> QED BY <1>0, <1>2, <2>2, <2>3, <2>4, Leaving
<1> QED BY <1>1, <1>2 DEF Await

(* A command that leaves the lease alone: sent over a box that is another's,   *)
(* it has changed nothing, or they have crossed.                              *)
LEMMA Command ==
  ASSUME RunInv, TypeOK, TypeOK', NEW d \in Deploys, UNCHANGED <<dm, firing>>,
         host[d].pc \notin Ends \cup {"idle"}, host'[d].pc # "idle",
         \A e \in Deploys \ {d} : host'[e] = host[e], ScriptInv(d)',
         UNCHANGED <<timers, tree>> \/ (Mine(d) /\ ~firing /\ BoxInv'),
         Undisputed(d) => HostInv(d)'
  PROVE  RunInv'
<1>1. OrderInv' /\ NobodyBack
  BY OrderKept
<1>2. BoxInv'
  BY SameBox
<1>3. Undisputed(d)' => HostInv(d)'
  <2> SUFFICES ASSUME Undisputed(d)' PROVE Undisputed(d) OBVIOUS
  <2> QED BY <1>1, StillUndisputed DEF RunInv
<1>4. ASSUME NEW e \in Deploys \ {d}, Undisputed(e)' PROVE HostInv(e)'
  <2>1. CASE UNCHANGED <<timers, tree>>
    BY <1>1, <1>4, <2>1, Untouched DEF Quiet
  <2>2. CASE Mine(d)
    BY <1>4, <2>2, NoneIsNoDeploy DEF Undisputed, Mine
  <2> QED BY <2>1, <2>2
<1> QED BY <1>1, <1>2, <1>3, <1>4, Preserved

(* What is known of a command whose step crossed nobody.                      *)
LEMMA Uncrossed ==
  ASSUME NEW d \in Deploys, NEW alone, Sent(d, alone), ~crossed'
  PROVE  UNCHANGED <<timers, marker, tree>> \/ (Mine(d) /\ alone)
BY DEF Sent, site

LEMMA MarkerRun ==
  ASSUME RunInv, TypeOK, TypeOK', ~crossed', NEW d \in Deploys, Marker(d) PROVE RunInv'
<1>1. /\ UNCHANGED <<timers, tree, dm, firing>> /\ host[d].pc = "marker"
      /\ GoTo(d, "quiesce")
  BY DEF Marker, At, watch
<1>2. /\ host'[d].pc = "quiesce" /\ host'[d].phase = host[d].phase /\ host'[d].restorable = host[d].restorable
      /\ \A e \in Deploys \ {d} : host'[e] = host[e]
  BY <1>1, GoToFrame DEF Pcs
<1>3. ScriptInv(d)'
  BY <1>1, <1>2 DEF RunInv, ScriptInv
<1>4. Undisputed(d) => HostInv(d)'
  BY <1>1, <1>2 DEF RunInv, HostInv, BeforeTransfer, InTransfer, AfterInstall, Whole
<1> QED BY <1>1, <1>2, <1>3, <1>4, Command

LEMMA QuiesceRun ==
  ASSUME RunInv, TypeOK, TypeOK', ~crossed', NEW d \in Deploys, Quiesce(d) PROVE RunInv'
<1>1. UNCHANGED <<tree, dm, firing>> /\ host[d].pc = "quiesce" /\ Sent(d, ~firing)
  BY DEF Quiesce, At, watch
<1>2. PICK p \in {"to-mixed", "gate", "gone"} :
        /\ GoTo(d, p)
        /\ \/ p = "to-mixed" /\ StopsAll
           \/ p # "to-mixed" /\ StopsSome /\ p = Leaves(d)
  BY DEF Quiesce, Leaves
<1>3. /\ host'[d].pc = p
      /\ p \notin Ends => host'[d].phase = host[d].phase /\ host'[d].restorable = host[d].restorable
      /\ \A e \in Deploys \ {d} : host'[e] = host[e]
  BY <1>2, GoToFrame DEF Pcs
<1>4. (Quiet' => Quiet') /\ (~Quiet' => ~Quiet) /\ (StopsAll => Quiet') /\ (Whole' <=> Whole)
  BY <1>1 DEF StopsAll, StopsSome, Quiet, Whole, TypeOK, Quiesce
<1>5. host[d].phase = "pre"
  BY <1>1 DEF RunInv, ScriptInv
<1>6. ScriptInv(d)'
  BY <1>2, <1>3, <1>5 DEF ScriptInv
<1>7. Undisputed(d) => HostInv(d)'
  <2> SUFFICES ASSUME Undisputed(d) PROVE HostInv(d)' OBVIOUS
  <2>1. dm.phase \notin {"mixed", "post-install"} /\ (host[d].restorable => Whole)
    BY <1>1 DEF RunInv, HostInv, BeforeTransfer
  <2>2. CASE p = "to-mixed"
    BY <1>1, <1>2, <1>3, <1>4, <2>1, <2>2 DEF HostInv, BeforeTransfer, InTransfer, AfterInstall
  <2>3. CASE p = "gate"
    BY <1>1, <1>2, <1>3, <1>4, <1>5, <2>1, <2>3 DEF HostInv, BeforeTransfer, InTransfer, AfterInstall, Leaves, Trapped
  <2>4. CASE p = "gone"
    BY <1>3, <2>4 DEF HostInv, BeforeTransfer, InTransfer, AfterInstall
  <2> QED BY <2>2, <2>3, <2>4
<1>8. UNCHANGED <<timers, tree>> \/ (Mine(d) /\ ~firing /\ BoxInv')
  <2> SUFFICES ASSUME Mine(d), ~firing PROVE BoxInv' BY <1>1, Uncrossed
  <2>1. dm.phase \notin {"mixed", "post-install"}
    BY <1>1 DEF RunInv, HostInv, BeforeTransfer, Undisputed
  <2> QED BY <1>1, <1>4, <2>1 DEF RunInv, BoxInv
<1> QED BY <1>1, <1>2, <1>3, <1>6, <1>7, <1>8, Command

LEMMA TransferRun ==
  ASSUME RunInv, TypeOK, TypeOK', ~crossed', NEW d \in Deploys,
         Transfer(d, "source", "stamp") \/ Transfer(d, "stamp", "install") \/ Transfer(d, "install", "to-post")
  PROVE  RunInv'
<1>0. PICK part \in Parts, next \in {"stamp", "install", "to-post"} :
        /\ Transfer(d, part, next)
        /\ \/ part = "source" /\ next = "stamp"
           \/ part = "stamp" /\ next = "install"
           \/ part = "install" /\ next = "to-post"
  OBVIOUS
<1>1. UNCHANGED <<timers, dm, firing>> /\ host[d].pc = part /\ Sent(d, ~firing)
  BY <1>0 DEF Transfer, At, watch
<1>2. /\ host'[d].pc = next
      /\ host'[d].phase = IF part = "install" THEN "post" ELSE host[d].phase
      /\ \A e \in Deploys \ {d} : host'[e] = host[e]
  BY <1>0 DEF Transfer, TypeOK, Scripts
<1>3. tree'[part] = d /\ \A p \in Parts \ {part} : tree'[p] = tree[p]
  BY <1>0 DEF Transfer, TypeOK
<1>4. ScriptInv(d)'
  BY <1>0, <1>1, <1>2 DEF RunInv, ScriptInv
<1>5. Undisputed(d) => dm.phase \notin {"pre-transfer", "post-install"} /\ (Quiet \/ AllOf(d)) /\ HostInv(d)
  BY <1>1 DEF RunInv, HostInv, InTransfer
<1>6. AllOf(d) => AllOf(d)'
  BY <1>3 DEF AllOf
<1>7. Undisputed(d) => HostInv(d)'
  <2> SUFFICES ASSUME Undisputed(d) PROVE HostInv(d)' OBVIOUS
  <2>1. Quiet' \/ AllOf(d)'
    BY <1>1, <1>5, <1>6 DEF Quiet
  <2>2. /\ next \in {"stamp", "install", "to-post"} => tree'["source"] = d
        /\ next \in {"install", "to-post"} => tree'["stamp"] = d
        /\ next = "to-post" => tree'["install"] = d
    BY <1>0, <1>1, <1>3, <1>5 DEF HostInv
  <2> QED BY <1>1, <1>2, <1>5, <2>1, <2>2 DEF HostInv, BeforeTransfer, InTransfer, AfterInstall
<1>8. UNCHANGED <<timers, tree>> \/ (Mine(d) /\ ~firing /\ BoxInv')
  <2> SUFFICES ASSUME Mine(d), ~firing PROVE BoxInv' BY <1>1, Uncrossed
  <2>1. Quiet' \/ AllOf(d)'
    BY <1>1, <1>5, <1>6 DEF Quiet, Undisputed
  <2>2. AllOf(d)' => Whole'
    BY DEF AllOf, Whole
  <2> QED BY <1>1, <1>5, <2>1, <2>2 DEF BoxInv, Undisputed, Mine
<1> QED BY <1>0, <1>1, <1>2, <1>4, <1>7, <1>8, Command

(* The timers are started, and the publishers stopped again, over the release *)
(* of the host that does so.                                                  *)
LEMMA RestoresRun ==
  ASSUME RunInv, TypeOK, TypeOK', ~crossed', NEW d \in Deploys,
         \/ Restores(d, "producers", {"producers"}, "others")
         \/ Restores(d, "others", {"publishers"}, "pause") \/ Restores(d, "others", {"publishers"}, "release")
         \/ Pause(d) \/ Restores(d, "resume", {"publishers"}, "release")
  PROVE  RunInv'
<1>1. PICK next \in {"others", "pause", "resume", "release"} :
        /\ GoTo(d, next) /\ host[d].pc \in {"producers", "others", "pause", "resume"}
        /\ Sent(d, ~firing) /\ UNCHANGED <<tree, dm, firing>>
        /\ \/ host[d].pc = "producers" /\ Starts({"producers"})
           \/ host[d].pc \in {"others", "resume"} /\ Starts({"publishers"})
           \/ /\ host[d].pc = "pause" /\ next # "release"
              /\ timers' = [timers EXCEPT !["publishers"] = IF @ = "on" THEN "stopped" ELSE @]
        /\ host[d].pc = "producers" => next = "others"
  BY DEF Restores, Pause, At, watch
<1>2. /\ host'[d].pc = next /\ host'[d].phase = host[d].phase
      /\ \A e \in Deploys \ {d} : host'[e] = host[e]
  BY <1>1, GoToFrame DEF Pcs
<1>3. ScriptInv(d)'
  BY <1>1, <1>2 DEF RunInv, ScriptInv
<1>4. Undisputed(d) => HostInv(d) /\ dm.phase \notin {"pre-transfer", "mixed"} /\ AllOf(d)
  BY <1>1 DEF RunInv, HostInv, AfterInstall
<1>5. /\ Undisputed(d) => timers'["producers"] = "on"
      /\ Undisputed(d) /\ next = "release" => AllOn'
  BY <1>1, <1>4 DEF HostInv, Starts, TypeOK, AllOn
<1>6. AllOf(d) => AllOf(d)' /\ Whole'
  BY <1>1 DEF AllOf, Whole
<1>7. Undisputed(d) => HostInv(d)'
  BY <1>1, <1>2, <1>4, <1>5, <1>6 DEF HostInv, BeforeTransfer, InTransfer, AfterInstall
<1>8. UNCHANGED <<timers, tree>> \/ (Mine(d) /\ ~firing /\ BoxInv')
  <2> SUFFICES ASSUME Mine(d), ~firing PROVE BoxInv' BY <1>1, Uncrossed
  <2> QED BY <1>1, <1>4, <1>6 DEF BoxInv, Undisputed, Mine
<1> QED BY <1>1, <1>2, <1>3, <1>7, <1>8, Command

LEMMA ReleaseRun ==
  ASSUME RunInv, TypeOK, TypeOK', NEW d \in Deploys, Release(d) PROVE RunInv'
<1>1. UNCHANGED <<timers, tree, dm, firing>> /\ host[d].pc = "release"
  BY DEF Release, At, watch
<1>2. host'[d].pc = "disarm" /\ \A e \in Deploys \ {d} : host'[e] = host[e]
  BY DEF Release, TypeOK, Scripts
<1>3. ScriptInv(d)'
  BY <1>2 DEF ScriptInv
<1>4. Undisputed(d) => HostInv(d)'
  BY <1>1, <1>2 DEF RunInv, HostInv, BeforeTransfer, InTransfer, AfterInstall, AllOf
<1> QED BY <1>1, <1>2, <1>3, <1>4, Command

(* The timers are started, or stopped, by a host that recovers the box.       *)
LEMMA RecoveryRun ==
  ASSUME RunInv, TypeOK, TypeOK', ~crossed', NEW d \in Deploys, Restore(d) \/ Unmark(d) \/ Requiesce(d)
  PROVE  RunInv'
<1>1. PICK p \in {"unmark", "settle", "requiesce", "hold", "gone"} : GoTo(d, p)
  BY DEF Restore, Unmark, Requiesce
<1>2. /\ host[d].pc \in Recovery /\ host'[d].pc = p
      /\ p \in Recovery => host'[d].phase = host[d].phase
      /\ \A e \in Deploys \ {d} : host'[e] = host[e]
  BY <1>1, GoToFrame DEF Restore, Unmark, Requiesce, At, Pcs
<1>3. UNCHANGED <<tree, dm, firing>>
  BY DEF Restore, Unmark, Requiesce, watch
<1>4. ScriptInv(d)'
  BY <1>1, <1>2 DEF ScriptInv
<1>5. Undisputed(d) => \/ host[d].phase = "post" /\ AllOf(d)
                       \/ host[d].phase = "pre" /\ Whole /\ dm.phase \notin {"mixed", "post-install"}
  BY <1>2 DEF RunInv, HostInv
<1>6. (AllOf(d) => AllOf(d)') /\ (Whole => Whole') /\ (AllOf(d) => Whole)
  BY <1>3 DEF AllOf, Whole
<1>7. Undisputed(d) => HostInv(d)'
  BY <1>1, <1>2, <1>3, <1>5, <1>6 DEF HostInv, BeforeTransfer, InTransfer, AfterInstall
<1>8. UNCHANGED <<timers, tree>> \/ (Mine(d) /\ ~firing /\ BoxInv')
  <2>1. UNCHANGED <<timers, tree>> \/ (Mine(d) /\ ~firing)
    BY Uncrossed DEF Restore, Unmark, Requiesce
  <2> SUFFICES ASSUME Mine(d), ~firing PROVE BoxInv' BY <2>1
  <2>2. dm.phase = "mixed" => AllOf(d)'
    BY <1>5, <1>6 DEF Undisputed
  <2>3. Whole'
    BY <1>5, <1>6 DEF Undisputed
  <2>4. dm.phase = "post-install" => AllOf(d)'
    BY <1>5, <1>6 DEF Undisputed
  <2> QED BY <1>3, <2>2, <2>3, <2>4 DEF BoxInv, Mine
<1> QED BY <1>1, <1>2, <1>3, <1>4, <1>7, <1>8, Command

(* The arm of a later phase is accepted over a quiet box that no dead-man has *)
(* begun to restore, or over a whole one.                                     *)
LEMMA AdvanceRun ==
  ASSUME RunInv, TypeOK, TypeOK', ~crossed', NEW d \in Deploys,
         Advance(d, "to-mixed", "mixed", "source") \/ Advance(d, "to-post", "post-install", "producers")
  PROVE  RunInv'
<1>0. UNCHANGED <<timers, tree, firing>> /\ dm \in Leases /\ host[d] \in Scripts
  BY DEF Advance, site, TypeOK
<1>1. CASE UNCHANGED dm /\ GoTo(d, "revoked")
  <2>1. host'[d].pc = "revoked" /\ \A e \in Deploys \ {d} : host'[e] = host[e]
    BY <1>1, GoToFrame DEF Pcs
  <2>2. host[d].pc \in {"to-mixed", "to-post"}
    BY DEF Advance
  <2>3. OrderInv' /\ NobodyBack
    BY <1>1, <2>1, <2>2, OrderKept
  <2> QED BY <1>0, <1>1, <2>1, <2>3, Leaving
<1>2. ASSUME UNCHANGED dm, host[d].pc \in {"to-mixed", "to-post"},
             \E fence \in {"none", "revoked"} :
               host' = [host EXCEPT ![d] = IF Trapped(d) THEN [@ EXCEPT !.pc = "gate", !.fence = fence]
                                                         ELSE [Idle EXCEPT !.pc = "gone"]]
      PROVE  RunInv'
  <2>1. /\ \A e \in Deploys \ {d} : host'[e] = host[e]
        /\ \/ host'[d].pc = "gone"
           \/ Trapped(d) /\ host'[d].pc = "gate" /\ host'[d].phase = host[d].phase
    BY <1>0, <1>2, IdleType DEF TypeOK, Scripts
  <2>2. ScriptInv(d)'
    BY <2>1 DEF ScriptInv
  <2>3. Undisputed(d) => HostInv(d)'
    <3> SUFFICES ASSUME Undisputed(d) PROVE HostInv(d)' OBVIOUS
    <3>1. HostInv(d) /\ ScriptInv(d)
      BY DEF RunInv
    <3>2. CASE host[d].pc = "to-mixed"
      BY <1>0, <1>2, <2>1, <3>1, <3>2 DEF HostInv, ScriptInv, Trapped, BeforeTransfer, InTransfer, AfterInstall, Whole
    <3>3. CASE host[d].pc = "to-post"
      <4>1. AllOf(d)' /\ host[d].phase = "post"
        BY <1>0, <3>1, <3>3 DEF HostInv, ScriptInv, AllOf
      <4> QED BY <2>1, <4>1 DEF HostInv, BeforeTransfer, InTransfer, AfterInstall
    <3> QED BY <1>2, <3>2, <3>3
  <2> QED BY <1>0, <1>2, <2>1, <2>2, <2>3, Command
<1>3. ASSUME Owns(d), ~firing, NEW phase \in {"mixed", "post-install"}, NEW next,
             dm' = [dm EXCEPT !.phase = phase, !.fresh = TRUE], ~(phase = "mixed" /\ dm.acted),
             host' = [host EXCEPT ![d].pc = next, ![d].phase = IF phase = "mixed" THEN "mixed" ELSE @],
             \/ host[d].pc = "to-mixed" /\ phase = "mixed" /\ next = "source"
             \/ host[d].pc = "to-post" /\ phase = "post-install" /\ next = "producers"
      PROVE  RunInv'
  <2>1. /\ dm'.deploy = d /\ dm.deploy = d /\ dm'.phase = phase /\ dm'.restorable = dm.restorable
    BY <1>0, <1>3 DEF Leases, Owns, Mine
  <2>2. /\ host'[d].pc = next /\ host'[d].phase = IF phase = "mixed" THEN "mixed" ELSE host[d].phase
        /\ \A e \in Deploys \ {d} : host'[e] = host[e]
    BY <1>0, <1>3 DEF TypeOK, Scripts
  <2>3. HostInv(d) /\ ScriptInv(d)
    BY <2>1 DEF RunInv, Undisputed, Mine
  <2>4. phase = "mixed" => Quiet
    <3>1. dm.phase # "none"
      BY <2>1, NoneIsNoDeploy DEF RunInv, OrderInv
    <3>2. phase = "mixed" => dm.phase = "pre-transfer"
      BY <1>0, <1>3, <2>3, <3>1 DEF HostInv, BeforeTransfer, Owns, Leases
    <3> QED BY <1>3, <2>3, <3>2 DEF HostInv
  <2>5. phase = "post-install" => AllOf(d)
    BY <1>3, <2>3 DEF HostInv, AllOf
  <2>6. BoxInv'
    BY <1>0, <1>3, <2>1, <2>4, <2>5 DEF RunInv, BoxInv, Whole, AllOf, Quiet
  <2>7. OrderInv'
    BY <1>3, <2>1, <2>2, OrderKept
  <2>8. ScriptInv(d)'
    BY <1>3, <2>2, <2>3 DEF ScriptInv
  <2>9. HostInv(d)'
    BY <1>0, <1>3, <2>1, <2>2, <2>4, <2>5 DEF HostInv, BeforeTransfer, InTransfer, AfterInstall, AllOf, Quiet
  <2>10. \A e \in Deploys : Undisputed(e)' => e = d
    BY <2>1, NoneIsNoDeploy DEF Undisputed, Mine
  <2> QED BY <2>2, <2>6, <2>7, <2>8, <2>9, <2>10, Preserved
<1>4. \A fence : fence \in {"revoked"} \cup (IF dm.deploy = None THEN {host[d].fence} ELSE {}) => fence \in {"none", "revoked"}
  BY <1>0 DEF Scripts
<1>5. CASE Advance(d, "to-mixed", "mixed", "source")
  BY <1>1, <1>2, <1>3, <1>4, <1>5 DEF Advance
<1>6. CASE Advance(d, "to-post", "post-install", "producers")
  BY <1>1, <1>2, <1>3, <1>4, <1>6 DEF Advance
<1> QED BY <1>5, <1>6

(* An own lease is taken down, or becomes an incident.                        *)
LEMMA DisarmRun ==
  ASSUME RunInv, TypeOK, NEW d \in Deploys, Disarm(d, "disarm", "gone") \/ Disarm(d, "settle", "gone") \/ Hold(d)
  PROVE  RunInv'
<1>1. /\ UNCHANGED <<timers, tree, firing>> /\ GoTo(d, "gone") /\ ~firing
      /\ host[d].pc \in {"disarm", "settle", "hold"}
      /\ UNCHANGED dm \/ dm' = NoState \/ dm' = [dm EXCEPT !.phase = "attention"]
  BY DEF Disarm, Hold, At, site, RaiseAttention
<1>2. host'[d].pc = "gone" /\ \A e \in Deploys \ {d} : host'[e] = host[e]
  BY <1>1, GoToFrame DEF Pcs
<1>3. dm' = NoState \/ (dm'.deploy = dm.deploy /\ (dm'.phase = "none" => dm.phase = "none"))
  BY <1>1 DEF TypeOK, Leases
<1>4. OrderInv' /\ NobodyBack
  BY <1>1, <1>2, <1>3, OrderKept
<1> QED BY <1>1, <1>2, <1>4, Leaving

(* A beat, and a script that leaves or turns to its recovery: nothing of the  *)
(* box changes, and of the lease only how fresh it is.                        *)
LEMMA Elsewhere ==
  ASSUME RunInv, TypeOK, NEW d \in Deploys, UNCHANGED <<timers, tree, firing>>,
         dm'.deploy = dm.deploy, dm'.phase = dm.phase, dm'.restorable = dm.restorable,
         dm'.acted = dm.acted, dm'.ticked = dm.ticked,
         host[d].pc \notin Ends \cup {"idle"}, host'[d].pc # "idle", \A e \in Deploys \ {d} : host'[e] = host[e],
         ScriptInv(d)', Undisputed(d) => HostInv(d)'
  PROVE  RunInv'
<1>1. OrderInv' /\ NobodyBack
  BY OrderKept
<1>2. Undisputed(d)' => HostInv(d)'
  <2> SUFFICES ASSUME Undisputed(d)' PROVE Undisputed(d) OBVIOUS
  <2> QED BY <1>1, StillUndisputed DEF RunInv
<1>3. \A e \in Deploys \ {d} : Undisputed(e)' => HostInv(e)'
  BY <1>1, Untouched DEF Quiet
<1> QED BY <1>1, <1>2, <1>3, SameBox, Preserved

LEMMA BeatRun == ASSUME RunInv, TypeOK, NEW d \in Deploys, Beat(d) PROVE RunInv'
<1>1. UNCHANGED <<timers, tree, firing>> /\ host[d].pc \in Steps
  BY DEF Beat, site
<1>2. /\ dm'.deploy = dm.deploy /\ dm'.phase = dm.phase /\ dm'.restorable = dm.restorable
      /\ dm'.acted = dm.acted /\ dm'.ticked = dm.ticked
  BY DEF Beat, Refreshes, TypeOK, Leases
<1>3. /\ host'[d].pc = host[d].pc /\ host'[d].phase = host[d].phase /\ host'[d].restorable = host[d].restorable
      /\ \A e \in Deploys \ {d} : host'[e] = host[e]
  BY DEF Beat, TypeOK, Scripts
<1>4. ScriptInv(d)'
  BY <1>3 DEF RunInv, ScriptInv
<1>5. Undisputed(d) => HostInv(d)'
  <2> SUFFICES ASSUME Undisputed(d) PROVE HostInv(d)' OBVIOUS
  <2>1. HostInv(d) BY DEF RunInv
  <2>2. (Quiet => Quiet') /\ (AllOn => AllOn') /\ (AllOf(d) => AllOf(d)') /\ (Whole => Whole')
    BY <1>1 DEF Quiet, AllOn, AllOf, Whole
  <2> QED BY <1>1, <1>2, <1>3, <2>1, <2>2 DEF HostInv, BeforeTransfer, InTransfer, AfterInstall
<1> QED BY <1>1, <1>2, <1>3, <1>4, <1>5, Elsewhere

(* Where a script may go when a command fails or the trap has asked.          *)
LEMMA LeavingRun == ASSUME RunInv, TypeOK, NEW d \in Deploys, Gate(d) \/ Fail(d) \/ Dies(d) PROVE RunInv'
<1>1. UNCHANGED <<timers, tree, firing>>
  BY DEF Gate, Fail, Dies, site, watch
<1>2. /\ dm'.deploy = dm.deploy /\ dm'.phase = dm.phase /\ dm'.restorable = dm.restorable
      /\ dm'.acted = dm.acted /\ dm'.ticked = dm.ticked
  BY DEF Gate, Fail, Dies, Refreshes, watch, TypeOK, Leases
<1>3. PICK p \in Ends \cup Recovery :
        /\ GoTo(d, p) /\ host[d].pc \notin Ends \cup {"idle"}
        /\ p \in Recovery => \/ host[d].pc \in Steps /\ Trapped(d)
                             \/ host[d].pc \in Recovery
  BY DEF Gate, Fail, Dies, Active, Leaves, Refused
<1>4. /\ host'[d].pc = p
      /\ p \in Recovery => host'[d].phase = host[d].phase /\ host'[d].restorable = host[d].restorable
      /\ \A e \in Deploys \ {d} : host'[e] = host[e]
  BY <1>3, GoToFrame DEF Pcs
<1>5. ScriptInv(d)'
  BY <1>4 DEF ScriptInv
<1>6. Undisputed(d) => HostInv(d)'
  <2> SUFFICES ASSUME Undisputed(d) PROVE HostInv(d)' OBVIOUS
  <2>1. HostInv(d) /\ ScriptInv(d)
    BY DEF RunInv
  <2>2. (AllOf(d) => AllOf(d)') /\ (Whole => Whole')
    BY <1>1 DEF AllOf, Whole
  <2>3. CASE p \in Ends
    BY <1>4, <2>3 DEF HostInv, BeforeTransfer, InTransfer, AfterInstall
  <2>4. CASE p \in Recovery /\ host[d].pc \in Recovery
    BY <1>2, <1>4, <2>1, <2>2, <2>4 DEF HostInv, BeforeTransfer, InTransfer, AfterInstall
  <2>5. CASE p \in Recovery /\ host[d].pc \in Steps /\ Trapped(d)
    <3>1. CASE host[d].pc \in {"marker", "quiesce", "to-mixed"}
      BY <1>2, <1>4, <2>1, <2>2, <2>5, <3>1 DEF HostInv, ScriptInv, Trapped, BeforeTransfer, InTransfer, AfterInstall
    <3>2. CASE host[d].pc \in {"source", "stamp", "install"}
      BY <2>1, <2>5, <3>2 DEF ScriptInv, Trapped
    <3>3. CASE host[d].pc \in {"to-post", "producers", "others", "pause", "resume", "release"}
      <4>1. AllOf(d)' /\ host[d].phase = "post"
        BY <2>1, <2>2, <3>3 DEF HostInv, ScriptInv, AfterInstall, AllOf
      <4> QED BY <1>4, <2>5, <4>1 DEF HostInv, BeforeTransfer, InTransfer, AfterInstall
    <3> QED BY <2>5, <3>1, <3>2, <3>3
  <2> QED BY <1>3, <2>3, <2>4, <2>5
<1> QED BY <1>1, <1>2, <1>3, <1>4, <1>5, <1>6, Elsewhere

(* The steps of the box change no script.                                     *)
LEMMA BoxStep ==
  ASSUME RunInv, TypeOK, UNCHANGED <<host, tree>>, BoxInv',
         dm' = NoState \/ (dm'.deploy = dm.deploy /\ (dm.acted => dm'.acted)),
         dm'.phase \in {dm.phase, "none", "attention"}, dm'.phase = "none" => dm' = NoState \/ dm.phase = "none",
         \A g \in Groups : timers[g] = "on" => timers'[g] = "on",
         (Quiet => Quiet') \/ (dm.phase \in {"pre-transfer", "post-install"} /\ dm'.acted)
  PROVE  RunInv'
<1>1. OrderInv'
  <2>1. \A x, e \in Deploys : e < x /\ host'[x].pc # "idle" => host'[e].pc # "idle"
    BY DEF RunInv, OrderInv
  <2>2. \A x \in Deploys : host'[x].pc = "idle" => dm'.deploy # x
    BY NoneIsNoDeploy DEF RunInv, OrderInv, NoState
  <2>3. \A x, e \in Deploys : dm'.deploy = e /\ e < x => host'[x].pc \in Ends \cup {"idle"}
    BY NoneIsNoDeploy DEF RunInv, OrderInv, NoState
  <2>4. dm'.phase = "none" => dm'.deploy = None
    BY DEF RunInv, OrderInv, NoState
  <2> QED BY <2>1, <2>2, <2>3, <2>4 DEF OrderInv
<1>2. NobodyBack
  BY DEF NobodyBack
<1>3. \A e \in Deploys : Undisputed(e)' => HostInv(e)'
  BY <1>2, Untouched
<1> QED BY <1>1, <1>3, SameScript DEF RunInv

(* The lease ends, or becomes an incident.                                    *)
LEMMA HeldRun ==
  ASSUME RunInv, TypeOK, UNCHANGED <<host, tree, timers>>, ~firing',
         dm' = NoState \/ dm' = [dm EXCEPT !.phase = "attention"]
  PROVE  RunInv'
<1>1. \/ dm' = NoState /\ dm'.phase = "none"
      \/ dm'.phase = "attention" /\ dm'.deploy = dm.deploy /\ dm'.acted = dm.acted
  BY DEF NoState, TypeOK, Leases
<1>2. BoxInv'
  BY <1>1, BoxHeld
<1> QED BY <1>1, <1>2, BoxStep DEF Quiet

LEMMA TickRun == ASSUME RunInv, TypeOK, Tick PROVE RunInv'
<1>0. UNCHANGED <<host, tree>> /\ ~firing /\ dm \in Leases
  BY DEF Tick, TypeOK
<1>1. ASSUME RaiseAttention \/ TearDown, UNCHANGED <<timers, firing>> PROVE RunInv'
  BY <1>0, <1>1, HeldRun DEF RaiseAttention, TearDown
<1>2. ASSUME dm'.deploy = dm.deploy, dm'.phase = dm.phase, dm'.restorable = dm.restorable, dm'.acted = dm.acted,
             dm.ticked => dm'.ticked, UNCHANGED <<timers, firing>>
      PROVE  RunInv'
  BY <1>0, <1>2, SameBox, BoxStep DEF Quiet
<1>3. ASSUME NEW seen, PerformRestore(seen), Whole, dm.phase \in {"pre-transfer", "post-install"} PROVE RunInv'
  <2>1. CASE Holds
    BY <1>1, <2>1 DEF Holds
  <2>2. ASSUME Restored(seen) \/ RestoreFails(seen) PROVE RunInv'
    <3>1. /\ dm'.deploy = dm.deploy /\ dm'.phase = dm.phase /\ dm'.restorable = dm.restorable
          /\ dm'.acted /\ dm'.ticked
      BY <1>0, <2>2 DEF Restored, RestoreFails, Leases
    <3>2. /\ \A g \in Groups : timers[g] = "on" => timers'[g] = "on"
          /\ firing' => AllOn'
      BY <1>0, <2>2 DEF Restored, RestoreFails, StartsAll, StartsSome, Starts, AllOn, TypeOK
    <3>3. BoxInv'
      BY <1>0, <1>3, <3>1, <3>2 DEF RunInv, BoxInv, Whole, AllOf
    <3> QED BY <1>0, <1>3, <3>1, <3>2, <3>3, BoxStep
  <2> QED BY <1>3, <2>1, <2>2 DEF PerformRestore
<1>4. ASSUME NEW seen, Fire(seen) PROVE RunInv'
  <2>1. CASE Holds
    BY <1>1, <2>1 DEF Holds
  <2>2. CASE dm.phase = "pre-transfer" /\ dm.restorable /\ PerformRestore(seen)
    BY <1>3, <2>2 DEF RunInv, BoxInv
  <2>3. CASE dm.phase = "post-install" /\ PerformRestore(seen)
    <3>1. Whole BY <2>3 DEF RunInv, BoxInv, AllOf, Whole
    <3> QED BY <1>3, <2>3, <3>1
  <2> QED BY <1>4, <2>1, <2>2, <2>3 DEF Fire, FirePreTransfer, FirePostInstall
<1>5. ASSUME NEW seen, dm' = [dm EXCEPT !.ticked = TRUE, !.seen = seen], UNCHANGED <<timers, firing>> PROVE RunInv'
  <2>1. /\ dm'.deploy = dm.deploy /\ dm'.phase = dm.phase /\ dm'.restorable = dm.restorable
        /\ dm'.acted = dm.acted /\ dm'.ticked
    BY <1>0, <1>5 DEF Leases
  <2> QED BY <1>2, <1>5, <2>1
<1>6. CASE UNCHANGED <<timers, dm, firing>>
  BY <1>2, <1>6
<1> QED BY <1>1, <1>4, <1>5, <1>6 DEF Tick

LEMMA SurroundingsRun == ASSUME RunInv, TypeOK, TickReleases \/ Lapse \/ Reboot \/ Clear PROVE RunInv'
<1>0. UNCHANGED <<host, tree>> /\ dm \in Leases
  BY DEF TypeOK, TickReleases, Lapse, Reboot, Clear, site
<1>1. CASE TickReleases
  BY <1>0, <1>1, HeldRun DEF TickReleases, TearDown, RaiseAttention
<1>2. CASE Clear
  BY <1>0, <1>2, HeldRun DEF Clear, site
<1>3. CASE Lapse
  <2>1. /\ dm'.deploy = dm.deploy /\ dm'.phase = dm.phase /\ dm'.restorable = dm.restorable
        /\ dm'.acted = dm.acted /\ dm'.ticked = dm.ticked /\ UNCHANGED <<timers, firing>>
    BY <1>0, <1>3 DEF Lapse, site, Leases
  <2> QED BY <1>0, <2>1, SameBox, BoxStep DEF Quiet
<1>4. CASE Reboot
  <2>1. /\ UNCHANGED dm /\ ~firing' /\ (Quiet <=> Quiet')
        /\ \A g \in Groups : timers[g] = "on" => timers'[g] = "on"
    BY <1>4 DEF Reboot, TypeOK, Quiet
  <2>2. BoxInv'
    BY <1>0, <2>1 DEF RunInv, BoxInv, Whole, AllOf
  <2> QED BY <1>0, <2>1, <2>2, BoxStep
<1> QED BY <1>1, <1>2, <1>3, <1>4

-----------------------------------------------------------------------------
LEMMA InitRun == Init => RunInv
<1> SUFFICES ASSUME Init PROVE RunInv OBVIOUS
<1>1. /\ Whole /\ dm.phase = "none" /\ dm.deploy = None /\ ~firing
      /\ \A d \in Deploys : host[d].pc = "idle"
  BY DEF Init, Whole, NoState, Idle
<1>2. BoxInv
  BY <1>1 DEF BoxInv
<1>3. OrderInv
  BY <1>1, NoneIsNoDeploy DEF OrderInv
<1>4. \A d \in Deploys : HostInv(d) /\ ScriptInv(d)
  BY <1>1 DEF HostInv, ScriptInv, BeforeTransfer, InTransfer, AfterInstall
<1> QED BY <1>2, <1>3, <1>4 DEF RunInv

(* Who has crossed has crossed for good.                                      *)
LEMMA CrossedStays == TypeOK /\ [Next]_vars /\ crossed => crossed'
<1> SUFFICES ASSUME TypeOK, [Next]_vars, crossed PROVE crossed' OBVIOUS
<1>1. ASSUME NEW d \in Deploys, Deploy(d) PROVE crossed'
  BY <1>1 DEF Deploy, Arm, Await, Marker, Quiesce, Advance, Transfer, Restores, Pause, Release, Disarm, Sent
<1>2. ASSUME NEW d \in Deploys, Recover(d) \/ Beat(d) \/ Fail(d) \/ Dies(d) PROVE crossed'
  BY <1>2 DEF Recover, Gate, Restore, Unmark, Requiesce, Disarm, Hold, Beat, Fail, Dies, Sent
<1>3. CASE Tick \/ TickReleases \/ Lapse \/ Reboot \/ Clear
  BY <1>3 DEF Tick, TickReleases, Lapse, Reboot, Clear
<1> QED BY <1>1, <1>2, <1>3 DEF Next, vars

LEMMA StepRun == RunInv /\ TypeOK /\ [Next]_vars /\ ~crossed' => RunInv'
<1> SUFFICES ASSUME RunInv, TypeOK, [Next]_vars, ~crossed' PROVE RunInv' OBVIOUS
<1>0. TypeOK' BY StepTypeOK
<1>1. CASE UNCHANGED vars
  <2>1. UNCHANGED <<timers, tree, firing, dm, host>>
    BY <1>1 DEF vars, site, watch
  <2> QED BY <2>1, SameBox, BoxStep DEF Quiet
<1>2. ASSUME NEW d \in Deploys, Deploy(d) PROVE RunInv'
  BY <1>0, <1>2, ArmRun, AwaitRun, MarkerRun, QuiesceRun, AdvanceRun, TransferRun, RestoresRun, ReleaseRun, DisarmRun
     DEF Deploy
<1>3. ASSUME NEW d \in Deploys, Recover(d) \/ Beat(d) \/ Fail(d) \/ Dies(d) PROVE RunInv'
  BY <1>0, <1>3, BeatRun, LeavingRun, RecoveryRun, DisarmRun DEF Recover
<1>4. CASE Tick \/ TickReleases \/ Lapse \/ Reboot \/ Clear
  BY <1>4, TickRun, SurroundingsRun
<1> QED BY <1>1, <1>2, <1>3, <1>4 DEF Next

(* The inductive invariant of the release the timers run over.                *)
IInv == TypeOK /\ (RunInv \/ crossed)

LEMMA StepIInv == IInv /\ [Next]_vars => IInv'
BY StepTypeOK, StepRun, CrossedStays DEF IInv

(* Producers never run over a half-synced tree, however many deploys compete  *)
(* for the box, stall, die on it or reboot it and however far a restore that  *)
(* fails has got, unless a host and a dead-man have worked on the box beside  *)
(* each other.                                                                *)
THEOREM TimersRunWhole == Spec => []WholeUnderTimers
<1>1. Init => IInv
  BY InitTypeOK, InitRun DEF IInv
<1>2. IInv => WholeUnderTimers
  BY DEF IInv, RunInv, BoxInv, WholeUnderTimers
<1> QED BY <1>1, <1>2, StepIInv, PTL DEF Spec

(* No other step goes from the release to the disarm.                         *)
LEMMA OnlyRelease ==
  ASSUME TypeOK, [Next]_vars, NEW d \in Deploys, host[d].pc = "release", host'[d].pc = "disarm"
  PROVE  Release(d)
<1>1. host' # host
  OBVIOUS
<1>2. PICK e \in Deploys : Deploy(e) \/ Recover(e) \/ Beat(e) \/ Fail(e) \/ Dies(e)
  BY <1>1 DEF Next, vars, Tick, TickReleases, Lapse, Reboot, Clear
<1>3. ASSUME NEW p \in Pcs, GoTo(e, p) PROVE host'[e].pc = p /\ \A x \in Deploys \ {e} : host'[x] = host[x]
  BY <1>3, GoToFrame
<1>4. \A x \in Deploys \ {e} : host'[x] = host[x]
  <2>1. CASE Deploy(e)
    BY <2>1 DEF Deploy, Arm, Await, Marker, Quiesce, Advance, Transfer, Restores, Pause, Release, Disarm, GoTo, TypeOK
  <2>2. CASE Recover(e) \/ Beat(e) \/ Fail(e) \/ Dies(e)
    BY <2>2 DEF Recover, Gate, Restore, Unmark, Requiesce, Hold, Disarm, Beat, Fail, Dies, GoTo, TypeOK
  <2> QED BY <1>2, <2>1, <2>2
<1>5. e = d
  BY <1>4
<1>6. CASE Deploy(d)
  BY <1>6 DEF Deploy, Arm, Await, Marker, Quiesce, Advance, Transfer, Restores, Pause, Disarm, At
<1>7. CASE Beat(d)
  BY <1>7 DEF Beat, TypeOK, Scripts
<1>8. CASE Recover(d)
  BY <1>8 DEF Recover, Gate, Restore, Unmark, Requiesce, Hold, Disarm, At
<1>9. CASE Fail(d) \/ Dies(d)
  <2>1. PICK p \in Ends \cup {"gate"} : GoTo(d, p)
    BY <1>9 DEF Fail, Dies, Leaves
  <2> QED BY <1>3, <1>5, <2>1 DEF Pcs
<1> QED BY <1>2, <1>5, <1>6, <1>7, <1>8, <1>9

(* A deploy that releases the marker as a success over a box nobody has taken *)
(* from it has its own release everywhere and every timer on, although the    *)
(* dead-man fires beside it, unless they crossed.                             *)
THEOREM SuccessShows == Spec => SuccessIsLit
<1>1. ASSUME IInv, [Next]_vars, NEW d \in Deploys, host[d].pc = "release", host'[d].pc = "disarm", Undisputed(d),
             ~crossed'
      PROVE  Lit' /\ \A p \in Parts : tree'[p] = d
  <2>1. Release(d)
    BY <1>1, OnlyRelease DEF IInv
  <2>2. HostInv(d)
    BY <1>1, CrossedStays DEF IInv, RunInv
  <2>3. AllOn /\ AllOf(d)
    BY <1>1, <2>2 DEF HostInv, AfterInstall, AllOf
  <2> QED BY <2>1, <2>3 DEF Release, Lit, AllOf, AllOn
<1>2. IInv /\ [Next]_vars
      => [\A d \in Deploys : host[d].pc = "release" /\ host'[d].pc = "disarm" /\ Undisputed(d)
            => crossed' \/ (Lit' /\ \A p \in Parts : tree'[p] = d)]_vars
  BY <1>1
<1>3. Init => IInv
  BY InitTypeOK, InitRun DEF IInv
<1> QED BY <1>2, <1>3, StepIInv, PTL DEF Spec, SuccessIsLit

-----------------------------------------------------------------------------
(* Who attends to the box.                                                     *)

Armed == dm.phase \notin {"none", "attention"}
Known == incident \/ Told

(* At work past the first tick of its lease.                                  *)
Running(d) == host[d].pc \in Steps \cup Recovery \cup {"disarm"}

(* The lease: without one the box is lit, or somebody has been told; an       *)
(* armed one has its trigger; and what the dead-man takes as the sign of a    *)
(* finished deploy, the marker seen and gone in one boot, means that the      *)
(* timers run.                                                                *)
LeaseInv ==
  /\ dm.phase = "none" => dm.deploy = None /\ (Lit \/ Known)
  /\ dm.phase # "none" => dm.deploy \in Deploys
  /\ dm.phase = "attention" => incident
  /\ Armed => triggers
  /\ dm.phase \in {"mixed", "post-install"} => dm.ticked
  /\ dm.boot <= boot
  /\ firing => AllOn /\ dm.ticked /\ Armed
  /\ Armed /\ ~Rebooted /\ dm.seen /\ ~marker => AllOn

(* What the holder of the lease has done to the box when it is at a command:  *)
(* it got past its first command because a tick had come, it removes the      *)
(* marker over running timers only, and the marker it has put up is there     *)
(* until then.                                                                *)
HolderInv(d) ==
  /\ Running(d) => dm.ticked
  /\ host[d].pc = "marker" => host[d].phase = "pre"
  /\ host[d].pc \in {"others", "pause", "resume", "release"} => timers["producers"] = "on"
  /\ host[d].pc \in {"unmark", "release"} => AllOn
  /\ host[d].pc \in {"disarm", "settle"} => Lit
  /\ host[d].pc \in Steps \ {"marker"} /\ ~Rebooted => marker
  /\ host[d].pc \in Recovery \ {"settle"} /\ host[d].phase = "post" /\ ~Rebooted => marker
  /\ host[d].pc \in (Steps \cup Recovery \cup {"await"}) \ {"settle"} /\ dm.seen /\ ~Rebooted => marker

(* Whoever waits for a first tick that has not come may roll back the lease   *)
(* of anybody: the box is then as it was found.                               *)
WatchInv ==
  /\ LeaseInv
  /\ \A d \in Deploys : host[d].pc = "await" /\ ~dm.ticked => Lit \/ Known \/ host[d].clear
  /\ \A d \in Deploys : Owns(d) => HolderInv(d)

(* The ways of a script that nobody relies on.                                *)
Stays(e) ==
  /\ host'[e].pc = "await" => host[e].pc = "await" /\ host'[e].clear = host[e].clear
  /\ host[e].pc = "told" => host'[e].pc = "told"

(* An operator who was told stays told.                                       *)
LEMMA TellsKept == ASSUME \A e \in Deploys : Stays(e) PROVE Told => Told'
BY DEF Told, Stays

LEMMA SameStays == ASSUME NEW e \in Deploys, host'[e] = host[e] PROVE Stays(e)
BY DEF Stays

(* A holder whose box and lease are the same.                                 *)
LEMMA SameHolder ==
  ASSUME NEW e \in Deploys, HolderInv(e), host'[e] = host[e], UNCHANGED <<timers, marker, boot>>,
         dm'.boot = dm.boot, dm'.seen = dm.seen, dm'.ticked = dm.ticked
  PROVE  HolderInv(e)'
BY DEF HolderInv, Running, Rebooted, Lit, AllOn

LEMMA NobodyOwns ==
  ASSUME dm'.deploy = None \/ dm'.phase = "attention" PROVE \A e \in Deploys : ~Owns(e)'
BY NoneIsNoDeploy DEF Owns, Mine

(* The box and its lease stay as they are.                                     *)
LEMMA ScriptMoves ==
  ASSUME WatchInv, UNCHANGED <<timers, marker, firing, incident, boot>>, Armed => triggers',
         dm'.deploy = dm.deploy, dm'.phase = dm.phase, dm'.boot = dm.boot, dm'.seen = dm.seen, dm'.ticked = dm.ticked,
         \A e \in Deploys : Stays(e),
         \A e \in Deploys : host'[e] = host[e] \/ (Owns(e) => HolderInv(e)')
  PROVE  WatchInv'
<1>1. Lit' = Lit /\ Rebooted' = Rebooted /\ Armed' = Armed /\ AllOn' = AllOn /\ (Known => Known')
  BY TellsKept DEF Lit, AllOn, Rebooted, Armed, Known
<1>2. LeaseInv'
  BY <1>1 DEF WatchInv, LeaseInv
<1>3. \A e \in Deploys : host'[e].pc = "await" /\ ~dm'.ticked => Lit' \/ Known' \/ host'[e].clear
  BY <1>1 DEF WatchInv, Stays
<1>4. ASSUME NEW e \in Deploys, Owns(e)' PROVE HolderInv(e)'
  <2>1. Owns(e)
    BY <1>4 DEF Owns, Mine
  <2> QED BY <2>1, SameHolder DEF WatchInv
<1> QED BY <1>2, <1>3, <1>4 DEF WatchInv

(* Who holds the lease is watched by an armed dead-man.                       *)
LEMMA HolderArmed == ASSUME WatchInv, NEW d \in Deploys, Owns(d) PROVE Armed /\ triggers /\ dm.deploy = d
BY NoneIsNoDeploy DEF WatchInv, LeaseInv, Armed, Owns, Mine

(* The holder of the lease, past its first tick, changes the box.              *)
LEMMA HolderMoves ==
  ASSUME WatchInv, NEW d \in Deploys, Owns(d), Running(d), firing => AllOn', UNCHANGED <<firing, incident, boot>>, triggers',
         dm'.deploy = dm.deploy, Armed', dm'.boot = dm.boot, dm'.seen = dm.seen, dm'.ticked = dm.ticked,
         \A e \in Deploys \ {d} : host'[e] = host[e],
         HolderInv(d)', ~Rebooted /\ dm.seen /\ ~marker' => AllOn'
  PROVE  WatchInv'
<1>1. dm.ticked /\ dm.deploy = d /\ Rebooted' = Rebooted
  BY HolderArmed DEF WatchInv, HolderInv, Rebooted
<1>2. LeaseInv'
  BY <1>1 DEF WatchInv, LeaseInv, Armed
<1>3. \A e \in Deploys : Owns(e)' => e = d
  BY <1>1, HolderArmed DEF Owns, Mine
<1> QED BY <1>1, <1>2, <1>3 DEF WatchInv

(* The lease is gone, or an incident holds it.                                 *)
LEMMA LeaseEnds ==
  ASSUME WatchInv, TypeOK, TypeOK', ~firing',
         \/ dm' = NoState /\ (Lit' \/ Known')
         \/ dm' = [dm EXCEPT !.phase = "attention"] /\ dm.phase # "none" /\ incident' /\ boot' = boot
  PROVE  WatchInv'
<1>0. dm \in Leases /\ boot' \in Nat /\ \A e \in Deploys : ~Owns(e)'
  BY NobodyOwns, ConstantsAssumption DEF TypeOK, NoState, Leases
<1>1. CASE dm' = NoState /\ (Lit' \/ Known')
  <2>1. dm'.phase = "none" /\ dm'.deploy = None /\ dm'.boot = 0
    BY <1>1 DEF NoState
  <2>2. LeaseInv'
    BY <1>0, <1>1, <2>1 DEF LeaseInv, Armed
  <2> QED BY <1>0, <1>1, <2>2 DEF WatchInv
<1>2. CASE dm' = [dm EXCEPT !.phase = "attention"] /\ dm.phase # "none" /\ incident' /\ boot' = boot
  <2>1. dm'.phase = "attention" /\ dm'.deploy = dm.deploy /\ dm'.boot = dm.boot
    BY <1>0, <1>2 DEF Leases
  <2>2. LeaseInv'
    BY <1>0, <1>2, <2>1 DEF WatchInv, LeaseInv, Armed
  <2> QED BY <1>0, <1>2, <2>2 DEF WatchInv, Known
<1> QED BY <1>1, <1>2

(* A lease is taken over an incident, or over one whose hosts are all gone:   *)
(* nobody else then waits for a first tick in the dark.                       *)
LEMMA ArmWatch == ASSUME TypeOK, WatchInv, NEW d \in Deploys, Arm(d) PROVE WatchInv'
<1>0. TypeOK' /\ host[d].pc = "idle" /\ ~firing /\ UNCHANGED <<timers, marker, firing, incident, boot>>
  BY ArmType DEF Arm, site
<1>1. PICK clear \in BOOLEAN :
        /\ clear => MayClear
        /\ \/ /\ MayArm(clear) /\ triggers' = TRUE
              /\ dm' = [NoState EXCEPT !.deploy = d, !.phase = "pre-transfer", !.boot = boot,
                                       !.restorable = ~marker /\ ~Quiet, !.fresh = TRUE]
              /\ host' = [host EXCEPT ![d] = [Idle EXCEPT !.pc = "await", !.clear = clear,
                                                          !.restorable = ~marker /\ ~Quiet]]
           \/ MayArm(clear) /\ dm' = NoState /\ RemoveTriggers /\ GoTo(d, Refused(clear))
           \/ ~MayArm(clear) /\ GoTo(d, Refused(clear)) /\ UNCHANGED <<dm, triggers>>
  BY DEF Arm
<1>2. MayArm(clear) /\ ~clear => Lit \/ Known
  BY NoneIsNoDeploy DEF MayArm, WatchInv, LeaseInv
<1>3. ASSUME GoTo(d, Refused(clear))
      PROVE  /\ \A e \in Deploys \ {d} : host'[e] = host[e]
             /\ \A e \in Deploys : Stays(e)
             /\ host'[d].pc = Refused(clear) /\ (clear => Told')
  <2>1. host'[d].pc = Refused(clear) /\ \A e \in Deploys \ {d} : host'[e] = host[e]
    BY <1>0, <1>3, GoToFrame DEF Refused, Pcs
  <2>2. Stays(d)
    BY <1>0, <2>1 DEF Stays, Refused
  <2>3. \A e \in Deploys : Stays(e)
    BY <2>1, <2>2, SameStays
  <2>4. clear => Told'
    BY <2>1 DEF Refused, Told
  <2> QED BY <2>1, <2>3, <2>4
<1>4. CASE ~MayArm(clear) /\ GoTo(d, Refused(clear)) /\ UNCHANGED <<dm, triggers>>
  <2>1. HolderInv(d)'
    BY <1>3, <1>4 DEF HolderInv, Running, Refused
  <2>2. Armed => triggers'
    BY <1>4 DEF WatchInv, LeaseInv
  <2> QED BY <1>0, <1>3, <1>4, <2>1, <2>2, ScriptMoves
<1>5. CASE MayArm(clear) /\ dm' = NoState /\ RemoveTriggers /\ GoTo(d, Refused(clear))
  <2>1. Lit' \/ Known'
    BY <1>0, <1>2, <1>3, <1>5, TellsKept DEF Lit, AllOn, Known
  <2> QED BY <1>0, <1>5, <2>1, LeaseEnds
<1>6. CASE /\ MayArm(clear) /\ triggers' = TRUE
           /\ dm' = [NoState EXCEPT !.deploy = d, !.phase = "pre-transfer", !.boot = boot,
                                    !.restorable = ~marker /\ ~Quiet, !.fresh = TRUE]
           /\ host' = [host EXCEPT ![d] = [Idle EXCEPT !.pc = "await", !.clear = clear,
                                                       !.restorable = ~marker /\ ~Quiet]]
  <2>1. /\ dm'.deploy = d /\ dm'.phase = "pre-transfer" /\ dm'.boot = boot /\ ~dm'.seen /\ ~dm'.ticked
    BY <1>6 DEF NoState
  <2>2. /\ host'[d].pc = "await" /\ host'[d].clear = clear
        /\ \A e \in Deploys \ {d} : host'[e] = host[e]
    BY <1>6 DEF TypeOK, Idle
  <2>3. Told => Told'
    BY <1>0, <2>2 DEF Told
  <2>4. boot \in Nat
    BY ConstantsAssumption DEF TypeOK
  <2>5. LeaseInv'
    BY <1>0, <1>6, <2>1, <2>4 DEF LeaseInv, Armed
  <2>6. ASSUME NEW e \in Deploys, host'[e].pc = "await" PROVE Lit' \/ Known' \/ host'[e].clear
    <3>1. CASE ~clear
      BY <1>0, <1>2, <1>6, <2>3, <3>1 DEF Lit, AllOn, Known
    <3>2. CASE e = d /\ clear
      BY <2>2, <3>2
    <3>3. CASE e # d /\ clear
      <4>1. Active(e) /\ MayClear
        BY <1>1, <2>2, <2>6, <3>3 DEF Active
      <4>2. dm.phase = "attention"
        BY <4>1 DEF MayClear
      <4> QED BY <1>0, <4>2 DEF WatchInv, LeaseInv, Known
    <3> QED BY <3>1, <3>2, <3>3
  <2>7. ASSUME NEW e \in Deploys, Owns(e)' PROVE HolderInv(e)'
    <3>1. e = d
      BY <2>1, <2>7 DEF Owns, Mine
    <3> QED BY <2>1, <2>2, <3>1 DEF HolderInv, Running
  <2> QED BY <2>5, <2>6, <2>7 DEF WatchInv
<1> QED BY <1>1, <1>4, <1>5, <1>6

(* The first tick, or the roll-back without it.                               *)
LEMMA AwaitWatch == ASSUME TypeOK, WatchInv, NEW d \in Deploys, Await(d) PROVE WatchInv'
<1>0. TypeOK' /\ host[d].pc = "await" /\ UNCHANGED <<timers, marker, firing, incident, boot>>
  BY AwaitType DEF Await, At, site
<1>1. CASE /\ dm.ticked /\ UNCHANGED <<dm, triggers>>
           /\ host' = [host EXCEPT ![d].pc = "marker", ![d].phase = "pre", ![d].clear = FALSE]
  <2>1. host'[d].pc = "marker" /\ host'[d].phase = "pre" /\ \A e \in Deploys \ {d} : host'[e] = host[e]
    BY <1>1 DEF TypeOK, Scripts
  <2>2. \A e \in Deploys : Stays(e)
    BY <1>0, <2>1, SameStays DEF Stays
  <2>3. Owns(d) => HolderInv(d)'
    BY <1>0, <1>1, <2>1 DEF WatchInv, HolderInv, Running, Rebooted
  <2>4. Armed => triggers'
    BY <1>1 DEF WatchInv, LeaseInv
  <2> QED BY <1>0, <1>1, <2>1, <2>2, <2>3, <2>4, ScriptMoves
<1>2. CASE ~dm.ticked /\ dm' = NoState /\ RemoveTriggers /\ GoTo(d, Refused(host[d].clear))
  <2>1. host'[d].pc = Refused(host[d].clear) /\ \A e \in Deploys \ {d} : host'[e] = host[e]
    BY <1>2, GoToFrame DEF Refused, Pcs
  <2>2. Lit \/ Known \/ host[d].clear
    BY <1>0, <1>2 DEF WatchInv
  <2>3. Told \/ host[d].clear => Told'
    BY <1>0, <2>1 DEF Told, Refused
  <2>4. Lit' \/ Known'
    BY <1>0, <2>2, <2>3 DEF Lit, AllOn, Known
  <2>5. ~firing'
    BY <1>0, <1>2 DEF WatchInv, LeaseInv
  <2> QED BY <1>0, <1>2, <2>4, <2>5, LeaseEnds
<1> QED BY <1>1, <1>2 DEF Await

(* A command to a box whose incident holds it: no lease is at stake.          *)
LEMMA IncidentMoves ==
  ASSUME WatchInv, dm.phase = "attention", UNCHANGED <<watch, boot>> PROVE WatchInv'
<1>1. UNCHANGED <<dm, triggers, firing, incident>> /\ incident /\ ~Armed /\ ~firing
  BY DEF watch, WatchInv, LeaseInv, Armed
<1>2. LeaseInv'
  BY <1>1 DEF WatchInv, LeaseInv, Armed
<1> QED BY <1>1, <1>2, NobodyOwns DEF WatchInv, Known

(* A command that leaves the lease alone: sent over a box that is another's,   *)
(* it has changed nothing, or they have crossed.                              *)
LEMMA CommandWatch ==
  ASSUME WatchInv, ~crossed', NEW d \in Deploys, NEW alone, Sent(d, alone), UNCHANGED <<watch, boot>>,
         alone /\ firing => UNCHANGED timers,
         \A e \in Deploys \ {d} : host'[e] = host[e], Stays(d),
         Owns(d) => Running(d) /\ HolderInv(d)' /\ (~Rebooted /\ dm.seen /\ ~marker' => AllOn')
  PROVE  WatchInv'
<1>1. UNCHANGED <<dm, triggers, firing, incident, boot>> /\ (Armed => triggers) /\ (Armed <=> Armed')
  BY DEF watch, WatchInv, LeaseInv, Armed
<1>2. CASE UNCHANGED <<timers, marker>>
  <2>1. \A e \in Deploys : Stays(e)
    BY SameStays
  <2> QED BY <1>1, <1>2, <2>1, ScriptMoves
<1>3. CASE Owns(d) /\ alone
  <2>1. Armed' /\ triggers'
    BY <1>1, <1>3, HolderArmed
  <2>2. firing => AllOn'
    BY <1>3 DEF WatchInv, LeaseInv, AllOn
  <2> QED BY <1>1, <1>3, <2>1, <2>2, HolderMoves
<1>4. CASE dm.phase = "attention"
  BY <1>4, IncidentMoves
<1> QED BY <1>2, <1>3, <1>4, Uncrossed DEF Owns, Mine

(* Marker to settle: each step's own precondition gives the next one's.        *)
LEMMA DeployCommandsWatch ==
  ASSUME TypeOK, WatchInv, ~crossed', NEW d \in Deploys,
         \/ Marker(d) \/ Quiesce(d) \/ Release(d) \/ Pause(d)
         \/ \E part \in Parts, next \in {"stamp", "install", "to-post"} : Transfer(d, part, next)
         \/ Restores(d, "producers", {"producers"}, "others")
         \/ Restores(d, "others", {"publishers"}, "pause") \/ Restores(d, "others", {"publishers"}, "release")
         \/ Restores(d, "resume", {"publishers"}, "release")
  PROVE  WatchInv'
<1>0. UNCHANGED <<watch, boot>> /\ host[d].pc \in Steps
  BY DEF Marker, Quiesce, Release, Transfer, Restores, Pause, At
<1>1. Rebooted' = Rebooted /\ UNCHANGED dm
  BY <1>0 DEF Rebooted, watch
<1>2. Owns(d) => Running(d) /\ HolderInv(d) /\ dm.ticked
  BY <1>0 DEF Running, HolderInv, WatchInv
<1>3. ASSUME host'[d].pc \notin {"await", "told"} PROVE Stays(d)
  BY <1>0, <1>3 DEF Stays
<1>4. CASE Marker(d)
  <2>1. host'[d].pc = "quiesce" /\ \A e \in Deploys \ {d} : host'[e] = host[e]
    BY <1>4, GoToFrame DEF Marker, Pcs
  <2>2. marker' /\ UNCHANGED timers /\ Sent(d, ~firing)
    BY <1>4 DEF Marker
  <2>3. Owns(d) => HolderInv(d)'
    BY <1>1, <1>2, <2>1, <2>2 DEF HolderInv, Running
  <2> QED BY <1>0, <1>2, <1>3, <2>1, <2>2, <2>3, CommandWatch
<1>5. CASE Quiesce(d)
  <2>1. PICK p \in {"to-mixed", "gate", "gone"} : GoTo(d, p)
    BY <1>5 DEF Quiesce, Leaves
  <2>2. /\ host'[d].pc = p /\ \A e \in Deploys \ {d} : host'[e] = host[e]
        /\ UNCHANGED marker /\ (Owns(d) => Rebooted \/ marker) /\ Sent(d, ~firing)
    BY <1>2, <1>5, <2>1, GoToFrame DEF Quiesce, At, Pcs, HolderInv
  <2>3. Owns(d) => HolderInv(d)'
    BY <1>1, <1>2, <2>2 DEF HolderInv, Running
  <2> QED BY <1>0, <1>2, <1>3, <2>2, <2>3, CommandWatch
<1>6. CASE Release(d)
  <2>1. host'[d].pc = "disarm" /\ \A e \in Deploys \ {d} : host'[e] = host[e]
    BY <1>6 DEF Release, TypeOK, Scripts
  <2>2. UNCHANGED timers /\ ~marker' /\ Sent(d, TRUE) /\ (Owns(d) => AllOn')
    BY <1>2, <1>6 DEF Release, At, HolderInv, AllOn
  <2>3. Owns(d) => HolderInv(d)'
    BY <1>1, <1>2, <2>1, <2>2 DEF HolderInv, Running, Lit, AllOn
  <2> QED BY <1>0, <1>2, <1>3, <2>1, <2>2, <2>3, CommandWatch
<1>7. ASSUME NEW part \in Parts, NEW next \in {"stamp", "install", "to-post"}, Transfer(d, part, next) PROVE WatchInv'
  <2>1. /\ host'[d].pc = next /\ \A e \in Deploys \ {d} : host'[e] = host[e]
        /\ UNCHANGED <<marker, timers>> /\ (Owns(d) => Rebooted \/ marker) /\ Sent(d, ~firing)
    BY <1>2, <1>7 DEF Transfer, At, TypeOK, Scripts, HolderInv
  <2>2. Owns(d) => HolderInv(d)'
    BY <1>1, <1>2, <2>1 DEF HolderInv, Running
  <2> QED BY <1>0, <1>2, <1>3, <2>1, <2>2, CommandWatch
<1>8. ASSUME NEW next \in {"others", "pause", "resume", "release"}, GoTo(d, next), UNCHANGED marker, Sent(d, ~firing),
             host[d].pc \in Steps \ {"marker"}, Owns(d) => timers'["producers"] = "on",
             Owns(d) /\ next = "release" => AllOn'
      PROVE  WatchInv'
  <2>1. /\ host'[d].pc = next /\ \A e \in Deploys \ {d} : host'[e] = host[e]
        /\ (Owns(d) => Rebooted \/ marker)
    BY <1>2, <1>8, GoToFrame DEF Pcs, HolderInv
  <2>2. Owns(d) => HolderInv(d)'
    BY <1>1, <1>2, <1>8, <2>1 DEF HolderInv, Running
  <2> QED BY <1>0, <1>2, <1>3, <1>8, <2>1, <2>2, CommandWatch
<1>9. CASE Restores(d, "producers", {"producers"}, "others")
  <2>1. timers'["producers"] = "on"
    BY <1>9 DEF Restores, Starts
  <2> QED BY <1>8, <1>9, <2>1 DEF Restores, At
<1>10. ASSUME NEW pc \in {"others", "resume"}, NEW next \in {"pause", "release"}, Restores(d, pc, {"publishers"}, next)
       PROVE  WatchInv'
  <2>1. Owns(d) => timers["producers"] = "on"
    BY <1>2, <1>10 DEF Restores, At, HolderInv
  <2>2. Owns(d) => AllOn' /\ timers'["producers"] = "on"
    BY <1>10, <2>1 DEF Restores, Starts, AllOn
  <2> QED BY <1>8, <1>10, <2>2 DEF Restores, At
<1>11. CASE Pause(d)
  <2>1. Owns(d) => timers'["producers"] = "on"
    BY <1>2, <1>11 DEF Pause, At, HolderInv, TypeOK
  <2> QED BY <1>8, <1>11, <2>1 DEF Pause, At
<1> QED BY <1>4, <1>5, <1>6, <1>7, <1>9, <1>10, <1>11

(* The arm of a later phase; a refusal.                                        *)
LEMMA AdvanceWatch ==
  ASSUME TypeOK, WatchInv, NEW d \in Deploys, NEW pc \in {"to-mixed", "to-post"},
         NEW phase \in {"mixed", "post-install"}, NEW next \in {"source", "producers"}, Advance(d, pc, phase, next)
  PROVE  WatchInv'
<1>0. host[d].pc = pc /\ UNCHANGED <<timers, marker, firing, incident, boot>>
  BY DEF Advance, site
<1>a. (Armed => triggers) /\ \A e \in Deploys \ {d} : host'[e] = host[e] => Stays(e)
  BY SameStays DEF WatchInv, LeaseInv
<1>1. CASE GoTo(d, "revoked") /\ UNCHANGED <<dm, triggers>>
  <2>1. host'[d].pc = "revoked" /\ \A e \in Deploys \ {d} : host'[e] = host[e]
    BY <1>1, GoToFrame DEF Pcs
  <2>2. Stays(d) /\ HolderInv(d)'
    BY <1>0, <2>1 DEF Stays, HolderInv, Running
  <2> QED BY <1>0, <1>1, <1>a, <2>1, <2>2, ScriptMoves
<1>2. CASE /\ Owns(d) /\ ~firing /\ dm' = [dm EXCEPT !.phase = phase, !.fresh = TRUE] /\ triggers' = TRUE
           /\ host' = [host EXCEPT ![d].pc = next, ![d].phase = IF phase = "mixed" THEN "mixed" ELSE @]
  <2>1. host'[d].pc = next /\ \A e \in Deploys \ {d} : host'[e] = host[e]
    BY <1>2 DEF TypeOK, Scripts
  <2>2. /\ dm'.deploy = dm.deploy /\ dm'.boot = dm.boot /\ dm'.seen = dm.seen /\ dm'.ticked = dm.ticked /\ Armed'
    BY <1>2 DEF TypeOK, Leases, Armed
  <2>3. Running(d) /\ HolderInv(d) /\ (Rebooted \/ marker) /\ dm.ticked
    BY <1>0, <1>2 DEF WatchInv, HolderInv, Running
  <2>4. Rebooted' = Rebooted
    BY <1>0, <2>2 DEF Rebooted
  <2>5. HolderInv(d)'
    BY <1>0, <2>1, <2>2, <2>3, <2>4 DEF HolderInv, Running
  <2> QED BY <1>0, <1>2, <2>1, <2>2, <2>3, <2>5, HolderMoves
<1>3. ASSUME ~Owns(d), UNCHANGED <<dm, triggers>>, NEW fence,
             host' = [host EXCEPT ![d] = IF Trapped(d) THEN [@ EXCEPT !.pc = "gate", !.fence = fence]
                                                       ELSE [Idle EXCEPT !.pc = "gone"]]
      PROVE  WatchInv'
  <2>1. host'[d].pc \in {"gate", "gone"} /\ \A e \in Deploys \ {d} : host'[e] = host[e]
    BY <1>3 DEF TypeOK, Scripts, Idle
  <2>2. Stays(d)
    BY <1>0, <2>1 DEF Stays
  <2> QED BY <1>0, <1>3, <1>a, <2>1, <2>2, ScriptMoves
<1> QED BY <1>1, <1>2, <1>3 DEF Advance

(* The ways to end a lease: disarmed over a lit box, held as an incident.     *)
LEMMA DisarmWatch ==
  ASSUME TypeOK, WatchInv, NEW d \in Deploys,
         Disarm(d, "disarm", "gone") \/ Disarm(d, "settle", "gone") \/ Hold(d)
  PROVE  WatchInv'
<1>0. /\ TypeOK' /\ GoTo(d, "gone") /\ ~firing /\ UNCHANGED <<timers, marker, firing, boot>>
      /\ host[d].pc \in {"disarm", "settle", "hold"}
  BY DeployTypeOK, HostTypeOK DEF Deploy, Recover, Disarm, Hold, At, site
<1>1. host'[d].pc = "gone" /\ \A e \in Deploys \ {d} : host'[e] = host[e]
  BY <1>0, GoToFrame DEF Pcs
<1>2. \A e \in Deploys : Stays(e)
  BY <1>0, <1>1, SameStays DEF Stays
<1>3. CASE UNCHANGED <<dm, triggers, incident>>
  <2>1. HolderInv(d)' /\ (Armed => triggers)
    BY <1>1 DEF HolderInv, Running, WatchInv, LeaseInv
  <2> QED BY <1>0, <1>1, <1>2, <1>3, <2>1, ScriptMoves
<1>4. CASE Owns(d) /\ dm' = NoState /\ host[d].pc # "hold"
  <2>1. Lit'
    BY <1>0, <1>4 DEF WatchInv, HolderInv, Lit, AllOn
  <2> QED BY <1>0, <1>4, <2>1, LeaseEnds
<1>5. CASE Owns(d) /\ RaiseAttention
  <2>1. dm.phase # "none"
    BY <1>5, HolderArmed DEF Armed
  <2> QED BY <1>0, <1>5, <2>1, LeaseEnds DEF RaiseAttention
<1> QED BY <1>0, <1>3, <1>4, <1>5 DEF Disarm, Hold, At

(* Beats, and scripts that fail or turn to their recovery.                    *)
LEMMA ScriptsWatch ==
  ASSUME TypeOK, WatchInv, NEW d \in Deploys, Beat(d) \/ Gate(d) \/ Fail(d) \/ Dies(d) PROVE WatchInv'
<1>0. UNCHANGED <<timers, marker, firing, incident, boot, triggers>>
  BY DEF Beat, Gate, Fail, Dies, site, watch
<1>1. /\ dm'.deploy = dm.deploy /\ dm'.phase = dm.phase /\ dm'.boot = dm.boot /\ dm'.seen = dm.seen
      /\ dm'.ticked = dm.ticked
  BY DEF Beat, Gate, Fail, Dies, Refreshes, watch, TypeOK, Leases
<1>2. Rebooted' = Rebooted /\ (Armed => triggers')
  BY <1>0, <1>1 DEF Rebooted, WatchInv, LeaseInv
<1>3. CASE Beat(d)
  <2>1. /\ host'[d].pc = host[d].pc /\ host'[d].phase = host[d].phase /\ host'[d].clear = host[d].clear
        /\ \A e \in Deploys \ {d} : host'[e] = host[e]
    BY <1>3 DEF Beat, TypeOK, Scripts
  <2>2. \A e \in Deploys : Stays(e)
    BY <2>1 DEF Stays
  <2>3. Owns(d) => HolderInv(d)'
    BY <1>0, <1>1, <1>2, <2>1 DEF WatchInv, HolderInv, Running, Lit, AllOn
  <2> QED BY <1>0, <1>1, <1>2, <2>1, <2>2, <2>3, ScriptMoves
<1>4. CASE Gate(d) \/ Fail(d) \/ Dies(d)
  <2>1. PICK p \in Ends \cup {"gate", "restore", "requiesce", "hold"} :
          /\ GoTo(d, p) /\ host[d].pc \notin {"idle", "told"}
          /\ p = "gate" => host[d].pc \in Steps
          /\ p = "restore" => host[d].pc = "gate"
          /\ p = "requiesce" => host[d].pc \in {"restore", "unmark"} /\ host[d].phase = "post"
          /\ p = "hold" => host[d].pc = "requiesce"
    BY <1>4 DEF Gate, Fail, Dies, Active, Leaves, Refused
  <2>2. /\ host'[d].pc = p /\ (p \notin Ends => host'[d].phase = host[d].phase)
        /\ \A e \in Deploys \ {d} : host'[e] = host[e]
    BY <2>1, GoToFrame DEF Pcs
  <2>3. \A e \in Deploys : Stays(e)
    BY <2>1, <2>2, SameStays DEF Stays
  <2>4. ASSUME Owns(d) PROVE HolderInv(d)'
    <3>1. HolderInv(d)
      BY <2>4 DEF WatchInv
    <3>2. CASE p = "gate"
      BY <1>0, <1>1, <1>2, <2>1, <2>2, <3>1, <3>2 DEF HolderInv, Running
    <3>3. CASE p \in {"restore", "hold", "requiesce"}
      BY <1>0, <1>1, <1>2, <2>1, <2>2, <3>1, <3>3 DEF HolderInv, Running
    <3>4. CASE p \in Ends
      BY <2>2, <3>4 DEF HolderInv, Running
    <3> QED BY <2>1, <3>2, <3>3, <3>4
  <2> QED BY <1>0, <1>1, <1>2, <2>2, <2>3, <2>4, ScriptMoves
<1> QED BY <1>3, <1>4

(* The commands of a recovery.                                                *)
LEMMA RecoveryWatch ==
  ASSUME TypeOK, WatchInv, ~crossed', NEW d \in Deploys, Restore(d) \/ Unmark(d) \/ Requiesce(d) PROVE WatchInv'
<1>0. UNCHANGED <<watch, boot>> /\ host[d].pc \in Recovery
  BY DEF Restore, Unmark, Requiesce, At
<1>1. Rebooted' = Rebooted /\ UNCHANGED dm
  BY <1>0 DEF Rebooted, watch
<1>2. Owns(d) => Running(d) /\ HolderInv(d) /\ dm.ticked
  BY <1>0 DEF Running, HolderInv, WatchInv
<1>3. PICK p \in {"unmark", "settle", "requiesce", "hold", "gone"} :
        /\ GoTo(d, p)
        /\ \/ /\ host[d].pc = "restore" /\ UNCHANGED marker /\ Sent(d, ~firing)
              /\ \/ p = "unmark" /\ AllOn'
                 \/ p = "requiesce" /\ host[d].phase = "post"
                 \/ p = "gone"
           \/ host[d].pc = "unmark" /\ p = "settle" /\ ~marker' /\ UNCHANGED timers /\ Sent(d, TRUE)
           \/ host[d].pc = "requiesce" /\ p = "hold" /\ UNCHANGED marker /\ Sent(d, ~firing)
  BY DEF Restore, Unmark, Requiesce, At, StartsAll, AllOn
<1>4. /\ host'[d].pc = p /\ (p \notin Ends => host'[d].phase = host[d].phase)
      /\ \A e \in Deploys \ {d} : host'[e] = host[e]
  BY <1>3, GoToFrame DEF Pcs
<1>5. Owns(d) => (~Rebooted /\ dm.seen /\ ~marker' => AllOn')
  <2>1. CASE host[d].pc = "unmark"
    BY <1>2, <1>3, <2>1 DEF HolderInv, AllOn
  <2>2. CASE host[d].pc \in {"restore", "requiesce"} /\ UNCHANGED marker
    BY <1>2, <2>2 DEF HolderInv
  <2> QED BY <1>3, <2>1, <2>2
<1>6. Owns(d) => HolderInv(d)'
  <2>1. CASE host[d].pc = "restore"
    BY <1>0, <1>1, <1>2, <1>3, <1>4, <2>1 DEF HolderInv, Running
  <2>2. CASE host[d].pc = "unmark"
    BY <1>0, <1>1, <1>2, <1>3, <1>4, <2>2 DEF HolderInv, Running, Lit, AllOn
  <2>3. CASE host[d].pc = "requiesce"
    BY <1>0, <1>1, <1>2, <1>3, <1>4, <2>3 DEF HolderInv, Running
  <2> QED BY <1>3, <2>1, <2>2, <2>3
<1>7. Stays(d)
  BY <1>0, <1>4 DEF Stays
<1>8. PICK alone \in BOOLEAN : Sent(d, alone) /\ (alone /\ firing => UNCHANGED timers)
  BY <1>3
<1> QED BY <1>0, <1>2, <1>4, <1>5, <1>6, <1>7, <1>8, CommandWatch

(* The lease survives a tick. *)
LEMMA TickKeeps ==
  ASSUME TypeOK, WatchInv, Armed, UNCHANGED <<host, marker, boot, triggers, incident>>,
         dm'.deploy = dm.deploy, dm'.phase = dm.phase, dm'.boot = dm.boot, dm'.ticked, dm'.seen = (dm.seen \/ marker),
         AllOn' \/ firing' = firing, \A g \in Groups : timers[g] = "on" => timers'[g] = "on"
  PROVE  WatchInv'
<1>1. Rebooted' = Rebooted /\ Armed' /\ (AllOn => AllOn')
  BY DEF Rebooted, Armed, AllOn
<1>2. LeaseInv'
  <2>1. ~marker' /\ dm'.seen => dm.seen /\ ~marker
    OBVIOUS
  <2>2. Armed' /\ ~Rebooted' /\ dm'.seen /\ ~marker' => AllOn'
    BY <1>1, <2>1 DEF WatchInv, LeaseInv
  <2>3. firing' => AllOn' /\ dm'.ticked /\ Armed'
    BY <1>1 DEF WatchInv, LeaseInv, Armed
  <2> QED BY <1>1, <2>2, <2>3 DEF WatchInv, LeaseInv, Armed
<1>3. ASSUME NEW e \in Deploys, Owns(e)' PROVE HolderInv(e)'
  <2>1. HolderInv(e)
    BY <1>3 DEF WatchInv, Owns, Mine
  <2> QED BY <1>1, <2>1 DEF HolderInv, Running, Lit, AllOn
<1> QED BY <1>2, <1>3 DEF WatchInv

(* One tick of the dead-man.                                                  *)
LEMMA TickWatch == ASSUME TypeOK, WatchInv, Tick PROVE WatchInv'
<1> DEFINE seen == dm.seen \/ marker
<1>0. TypeOK' /\ UNCHANGED <<host, marker, boot>> /\ ~firing /\ dm \in Leases
  BY BoxTypeOK DEF Tick, TypeOK
<1>1. ASSUME RaiseAttention, UNCHANGED firing, dm.phase # "none" PROVE WatchInv'
  BY <1>0, <1>1, LeaseEnds DEF RaiseAttention
<1>2. ASSUME dm.phase \in {"none", "attention"}, UNCHANGED <<timers, dm, firing, incident>> PROVE WatchInv'
  <2>1. \A e \in Deploys : Stays(e)
    BY <1>0, SameStays
  <2>2. ~Armed
    BY <1>2 DEF Armed
  <2> QED BY <1>0, <1>2, <2>1, <2>2, ScriptMoves
<1>3. ASSUME Armed, ~Rebooted, seen, ~marker, TearDown, UNCHANGED <<timers, firing>> PROVE WatchInv'
  <2>1. Lit'
    BY <1>0, <1>3 DEF WatchInv, LeaseInv, Lit, AllOn
  <2>2. CASE dm' = NoState
    BY <1>0, <1>3, <2>1, <2>2, LeaseEnds
  <2>3. CASE RaiseAttention
    BY <1>1, <1>3, <2>3 DEF Armed
  <2> QED BY <1>3, <2>2, <2>3 DEF TearDown
<1>4. ASSUME Armed, dm' = [dm EXCEPT !.ticked = TRUE, !.seen = seen], UNCHANGED <<timers, triggers, firing, incident>>
      PROVE  WatchInv'
  <2>1. /\ dm'.deploy = dm.deploy /\ dm'.phase = dm.phase /\ dm'.boot = dm.boot /\ dm'.ticked
        /\ dm'.seen = (dm.seen \/ marker)
    BY <1>0, <1>4 DEF Leases
  <2> QED BY <1>0, <1>4, <2>1, TickKeeps
<1>5. ASSUME Armed, PerformRestore(seen) PROVE WatchInv'
  <2>1. CASE Holds
    BY <1>1, <1>5, <2>1 DEF Holds, Armed
  <2>2. CASE Restored(seen)
    <3>1. /\ dm'.deploy = dm.deploy /\ dm'.phase = dm.phase /\ dm'.boot = dm.boot /\ dm'.ticked
          /\ dm'.seen = (dm.seen \/ marker) /\ UNCHANGED <<triggers, incident>>
          /\ AllOn' /\ \A g \in Groups : timers'[g] = "on"
      BY <1>0, <2>2 DEF Restored, StartsAll, AllOn, Leases
    <3> QED BY <1>0, <1>5, <3>1, TickKeeps
  <2>3. CASE RestoreFails(seen)
    <3>1. /\ dm'.deploy = dm.deploy /\ dm'.phase = dm.phase /\ dm'.boot = dm.boot /\ dm'.ticked
          /\ dm'.seen = (dm.seen \/ marker) /\ UNCHANGED <<firing, triggers, incident>>
          /\ \A g \in Groups : timers[g] = "on" => timers'[g] = "on"
      BY <1>0, <2>3 DEF RestoreFails, StartsSome, Starts, TypeOK, Leases
    <3> QED BY <1>0, <1>5, <3>1, TickKeeps
  <2> QED BY <1>5, <2>1, <2>2, <2>3 DEF PerformRestore
<1>6. ASSUME Armed, Fire(seen) PROVE WatchInv'
  <2>1. CASE Holds
    BY <1>1, <1>6, <2>1 DEF Holds, Armed
  <2>2. CASE PerformRestore(seen)
    BY <1>5, <1>6, <2>2
  <2> QED BY <1>6, <2>1, <2>2 DEF Fire, FirePreTransfer, FirePostInstall
<1> HIDE DEF seen
<1>7. \/ dm.phase \in {"none", "attention"} /\ UNCHANGED <<timers, dm, firing, incident>>
      \/ Armed /\ ~Rebooted /\ seen /\ ~marker /\ TearDown /\ UNCHANGED <<timers, firing>>
      \/ /\ Armed /\ dm' = [dm EXCEPT !.ticked = TRUE, !.seen = seen]
         /\ UNCHANGED <<timers, triggers, firing, incident>>
      \/ Armed /\ Fire(seen)
  BY DEF Tick, Armed, seen
<1> QED BY <1>2, <1>3, <1>4, <1>6, <1>7

(* The end of a tick that restored, and what nobody commands.                 *)
LEMMA SurroundingsWatch == ASSUME TypeOK, WatchInv, TickReleases \/ Lapse \/ Reboot \/ Clear PROVE WatchInv'
<1>0. TypeOK' /\ UNCHANGED host /\ dm \in Leases
  BY BoxTypeOK DEF TypeOK, TickReleases, Lapse, Reboot, Clear
<1>a. \A e \in Deploys : Stays(e)
  BY <1>0, SameStays
<1>1. CASE TickReleases
  <2>1. Lit' /\ dm.phase # "none" /\ ~firing'
    BY <1>1 DEF TickReleases, WatchInv, LeaseInv, Armed, Lit, AllOn
  <2>2. CASE dm' = NoState
    BY <1>0, <2>1, <2>2, LeaseEnds
  <2>3. CASE RaiseAttention
    BY <1>0, <1>1, <2>1, <2>3, LeaseEnds DEF RaiseAttention, TickReleases
  <2> QED BY <1>1, <2>2, <2>3 DEF TickReleases, TearDown
<1>2. CASE Lapse
  <2>1. /\ dm'.deploy = dm.deploy /\ dm'.phase = dm.phase /\ dm'.boot = dm.boot /\ dm'.seen = dm.seen
        /\ dm'.ticked = dm.ticked
    BY <1>0, <1>2 DEF Lapse, Leases
  <2>2. Armed => triggers'
    BY <1>2 DEF Lapse, WatchInv, LeaseInv
  <2> QED BY <1>0, <1>2, <1>a, <2>1, <2>2, ScriptMoves DEF Lapse, site
<1>3. CASE Reboot
  <2>0. boot \in Nat /\ dm.boot <= boot /\ dm.boot \in Nat /\ boot' = boot + 1
    BY <1>3, ConstantsAssumption DEF Reboot, TypeOK, Leases, WatchInv, LeaseInv
  <2>1. /\ Rebooted' /\ dm'.boot <= boot' /\ UNCHANGED <<dm, triggers, incident>>
        /\ (\A g \in Groups : timers[g] = "on" => timers'[g] = "on") /\ ~marker' /\ ~firing'
    BY <1>3, <2>0 DEF Reboot, Rebooted, TypeOK
  <2>2. (AllOn => AllOn') /\ (Lit => Lit') /\ (Known => Known')
    BY <1>0, <2>1 DEF Lit, AllOn, Known, Told
  <2>3. LeaseInv'
    BY <2>1, <2>2 DEF WatchInv, LeaseInv, Armed
  <2>4. ASSUME NEW e \in Deploys, Owns(e)' PROVE HolderInv(e)'
    <3>1. HolderInv(e)
      BY <2>1, <2>4 DEF WatchInv, Owns, Mine
    <3> QED BY <1>0, <2>1, <2>2, <3>1 DEF HolderInv, Running
  <2> QED BY <1>0, <2>1, <2>2, <2>3, <2>4 DEF WatchInv
<1>4. CASE Clear
  <2>1. Known'
    BY <1>4 DEF Clear, WatchInv, LeaseInv, Known
  <2> QED BY <1>0, <1>4, <2>1, LeaseEnds DEF Clear
<1> QED BY <1>1, <1>2, <1>3, <1>4

LEMMA InitWatch == Init => WatchInv
<1> SUFFICES ASSUME Init PROVE WatchInv OBVIOUS
<1>1. /\ Lit /\ dm.phase = "none" /\ dm.deploy = None /\ dm.boot = 0 /\ boot = 0 /\ ~firing
      /\ \A d \in Deploys : host[d].pc = "idle"
  BY DEF Init, Lit, AllOn, NoState, Idle
<1> QED BY <1>1, NoneIsNoDeploy DEF WatchInv, LeaseInv, Armed, Owns, Mine

LEMMA StepWatch == TypeOK /\ WatchInv /\ [Next]_vars /\ ~crossed' => WatchInv'
<1> SUFFICES ASSUME TypeOK, WatchInv, [Next]_vars, ~crossed' PROVE WatchInv'
  OBVIOUS
<1>1. CASE UNCHANGED vars
  <2>1. \A e \in Deploys : Stays(e)
    BY <1>1, SameStays DEF vars
  <2>2. Armed => triggers'
    BY <1>1 DEF vars, watch, WatchInv, LeaseInv
  <2> QED BY <1>1, <2>1, <2>2, ScriptMoves DEF vars, watch, site
<1>2. ASSUME NEW d \in Deploys, Deploy(d) PROVE WatchInv'
  <2>1. CASE Transfer(d, "source", "stamp") \/ Transfer(d, "stamp", "install") \/ Transfer(d, "install", "to-post")
    BY <2>1, DeployCommandsWatch
  <2>2. CASE Advance(d, "to-mixed", "mixed", "source") \/ Advance(d, "to-post", "post-install", "producers")
    BY <2>2, AdvanceWatch
  <2> QED BY <1>2, <2>1, <2>2, ArmWatch, AwaitWatch, DeployCommandsWatch, DisarmWatch DEF Deploy
<1>3. ASSUME NEW d \in Deploys, Recover(d) \/ Beat(d) \/ Fail(d) \/ Dies(d) PROVE WatchInv'
  BY <1>3, ScriptsWatch, RecoveryWatch, DisarmWatch DEF Recover
<1>4. CASE Tick \/ TickReleases \/ Lapse \/ Reboot \/ Clear
  BY <1>4, TickWatch, SurroundingsWatch
<1> QED BY <1>1, <1>2, <1>3, <1>4 DEF Next

(* The inductive invariant, until a host and a dead-man have crossed.         *)
(* Attended itself is not inductive: it does not say what the marker means,   *)
(* and a tick reads the end of a deploy from it.                              *)
THEOREM WatchKept == Spec => [](TypeOK /\ (WatchInv \/ crossed))
<1>1. Init => TypeOK /\ (WatchInv \/ crossed)
  BY InitTypeOK, InitWatch
<1>2. TypeOK /\ (WatchInv \/ crossed) /\ [Next]_vars => (TypeOK /\ (WatchInv \/ crossed))'
  BY StepTypeOK, StepWatch, CrossedStays
<1> QED BY <1>1, <1>2, PTL DEF Spec

(* A box that is dark is never forgotten: a trigger polls it, an incident is  *)
(* on file or the operator knows, although every deploy host were gone and    *)
(* however far a restore that failed has got, unless a host and a dead-man    *)
(* have crossed.                                                              *)
THEOREM AlwaysAttended == Spec => []Attended
<1>1. WatchInv \/ crossed => Attended
  BY DEF WatchInv, LeaseInv, Armed, Known, Attended
<1> QED BY <1>1, WatchKept, PTL
=============================================================================

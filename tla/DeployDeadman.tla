---------------------------- MODULE DeployDeadman ----------------------------
(* The dead-man a deploy leaves on the box (deploy_deadman.sh) against the     *)
(* deploy host that arms it (sync_to_box.sh).  The host stops the timers,      *)
(* transfers a release and starts them again; it proves every half minute that *)
(* it still reaches the box.  When it stops doing so, or the box reboots, a    *)
(* trigger on the box restores what can be restored and flags the rest.        *)
(* Elapsed time is abstract: a lease or a tick record may grow stale at any    *)
(* moment, whatever the host does.  A host may stall between any two commands, *)
(* and sends the next one without asking whether the box is still its own.     *)
EXTENDS Naturals

CONSTANTS
  Deploys,      \* deploy ids, each one run of sync_to_box.sh, numbered as they arm
  None,         \* no deploy; also the release on the box at first
  MaxAttempts,  \* DEADMAN_MAX_RESTORE_ATTEMPTS
  Reboots       \* bound: reboots of the box

ASSUME ConstantsAssumption ==
  /\ Deploys \subseteq Nat /\ None \notin Deploys
  /\ MaxAttempts \in Nat /\ Reboots \in Nat

VARIABLES
  timers,  \* the release's timers: on, enabled but stopped, off
  marker,  \* the maintenance marker in /run
  tree,    \* the release each part of the installation is of
  boot,    \* boot id of the box
  dm,      \* dead-man state directory
  triggers, \* the cron entry or the timer unit is there
  firing,  \* a tick that restored holds the lock and has yet to release the box
  incident, \* last-action tells of an incident
  host,    \* each deploy host
  crossed  \* history: a host and a dead-man have worked on the box beside each other

site == <<timers, marker, tree>>
watch == <<dm, triggers, firing, incident>>
vars == <<site, watch, boot, host, crossed>>

Parts == {"source", "stamp", "install"}
Whole == \A p, q \in Parts : tree[p] = tree[q]

(* The two publishing timers are held back longer than the producers.         *)
Groups == {"producers", "publishers"}
AllOn == \A g \in Groups : timers[g] = "on"
Quiet == \A g \in Groups : timers[g] = "off"
Lit == AllOn /\ ~marker

NoState == [deploy |-> None, phase |-> "none", boot |-> 0, restorable |-> FALSE, fresh |-> FALSE,
            ticked |-> FALSE, seen |-> FALSE, attempts |-> 0, acted |-> FALSE]

(* Mutant: any state answers, whose it is is not compared.                    *)
AnyState(d) == dm.deploy # None
Mine(d) == dm.deploy = d
Owns(d) == Mine(d) /\ dm.phase # "attention"

Idle == [pc |-> "idle", phase |-> "none", fence |-> "none", restorable |-> FALSE, clear |-> FALSE]

Init ==
  /\ timers = [g \in Groups |-> "on"] /\ marker = FALSE /\ tree = [p \in Parts |-> None]
  /\ boot = 0
  /\ dm = NoState /\ triggers = FALSE /\ firing = FALSE /\ incident = FALSE
  /\ host = [d \in Deploys |-> Idle] /\ crossed = FALSE

-----------------------------------------------------------------------------
(* The quiesce helper, which the host and the dead-man share.                 *)

StartsAll == timers' = [g \in Groups |-> "on"]
Starts(G) == timers' = [g \in Groups |-> IF g \in G THEN "on" ELSE timers[g]]

(* restore enables and starts what it was given, then asks each timer: it may *)
(* fail, or be cut off, with any of them started.                             *)
StartsSome == \E G \in SUBSET Groups : Starts(G)

StopsAll == timers' = [g \in Groups |-> "off"]
StopsSome == \E G \in SUBSET Groups : timers' = [g \in Groups |-> IF g \in G THEN "off" ELSE timers[g]]

-----------------------------------------------------------------------------
(* Box side: what the verbs of the payload leave behind.                      *)

(* Removal of a trigger may fail.                                             *)
RemoveTriggers == triggers' \in {FALSE, triggers}

RaiseAttention ==
  /\ incident' = TRUE /\ dm' = [dm EXCEPT !.phase = "attention"]
  /\ RemoveTriggers

(* Nothing stays but the record, unless a trigger does.                       *)
TearDown ==
  \/ incident' = FALSE /\ dm' = NoState /\ triggers' = FALSE
  \/ triggers /\ RaiseAttention

Restored(seen) ==
  /\ StartsAll /\ firing' = TRUE
  /\ dm' = [dm EXCEPT !.ticked = TRUE, !.seen = seen, !.acted = TRUE] /\ UNCHANGED <<triggers, incident>>

RestoreFails(seen) ==
  /\ ~AllOn /\ StartsSome
  /\ dm' = [dm EXCEPT !.ticked = TRUE, !.seen = seen, !.attempts = @ + 1, !.acted = TRUE]
  /\ UNCHANGED <<triggers, incident, firing>>

Holds == RaiseAttention /\ UNCHANGED <<timers, firing>>

(* perform_restore up to the release of the marker.                           *)
PerformRestore(seen) ==
  \/ dm.attempts >= MaxAttempts /\ Holds
  \/ dm.attempts < MaxAttempts /\ (Restored(seen) \/ RestoreFails(seen))

(* A file of a broken earlier transfer may or may not post-date               *)
(* build_info.json.  (The deploy that armed has written nothing yet.)         *)
ProbeTree == IF Whole THEN {"clean"} ELSE {"mixed", "clean"}

FirePreTransfer(seen) ==
  \/ ~dm.restorable /\ Holds
  \/ dm.restorable /\ "mixed" \in ProbeTree /\ Holds
  \/ dm.restorable /\ "clean" \in ProbeTree /\ PerformRestore(seen)

FirePostInstall(seen) ==
  \/ tree["stamp"] # dm.deploy /\ Holds
  \/ tree["stamp"] = dm.deploy /\ PerformRestore(seen)

(* Mutant: a half-synced box is restored like any other.                      *)
FireInAnyPhase(seen) ==
  \/ dm.phase = "post-install" /\ FirePostInstall(seen)
  \/ dm.phase # "post-install" /\ FirePreTransfer(seen)

(* Mutant: nothing is enabled over a half-synced tree, and nothing recorded.  *)
FireSilently(seen) ==
  \/ dm.phase = "pre-transfer" /\ FirePreTransfer(seen)
  \/ dm.phase = "mixed" /\ dm' = [dm EXCEPT !.seen = seen] /\ UNCHANGED <<timers, firing, triggers, incident>>
  \/ dm.phase = "post-install" /\ FirePostInstall(seen)

(* What is done in a phase once the lease is gone.                            *)
Fire(seen) ==
  \/ dm.phase = "pre-transfer" /\ FirePreTransfer(seen)
  \/ dm.phase = "mixed" /\ Holds
  \/ dm.phase = "post-install" /\ FirePostInstall(seen)

Rebooted == dm.boot # boot

(* tick: one poll of the box.  A restore continues in TickReleases.           *)
Tick ==
  /\ triggers /\ ~firing
  /\ LET seen == dm.seen \/ marker IN
     \/ /\ dm.phase \in {"none", "attention"}
        /\ RemoveTriggers /\ UNCHANGED <<timers, dm, firing, incident>>
     \/ /\ dm.phase \notin {"none", "attention"} /\ ~Rebooted /\ seen /\ ~marker
        /\ TearDown /\ UNCHANGED <<timers, firing>>
     \/ /\ dm.phase \notin {"none", "attention"} /\ ~Rebooted /\ ~(seen /\ ~marker) /\ dm.fresh
        /\ dm' = [dm EXCEPT !.ticked = TRUE, !.seen = seen]
        /\ UNCHANGED <<timers, triggers, firing, incident>>
     \/ /\ dm.phase \notin {"none", "attention"} /\ (Rebooted \/ (~(seen /\ ~marker) /\ ~dm.fresh))
        /\ Fire(seen)
  /\ UNCHANGED <<marker, tree, boot, host, crossed>>

TickReleases ==
  /\ firing /\ firing' = FALSE
  /\ marker' = FALSE /\ TearDown
  /\ UNCHANGED <<timers, tree, boot, host, crossed>>

-----------------------------------------------------------------------------
(* Host side: one action per command sent to the box.                         *)

Steps == {"marker", "quiesce", "to-mixed", "source", "stamp", "install", 
          "to-post", "producers", "others", "pause", "resume", "release"}
Recovery == {"gate", "restore", "unmark", "requiesce", "hold", "settle"}
Ends == {"gone", "told", "revoked"}
Active(d) == host[d].pc \in Steps \cup Recovery \cup {"await", "disarm"}

(* A recovery trap is set.                                                    *)
Trapped(d) == host[d].phase = "post" \/ (host[d].phase = "pre" /\ host[d].restorable)

(* Where an exit of the script leads.                                         *)
Leaves(d) == IF Trapped(d) THEN "gate" ELSE "gone"

(* At a command: a signal that waits for the trap goes first.                 *)
At(d, pc) == host[d].pc = pc /\ (pc \in Steps /\ Trapped(d) => host[d].fence # "revoked")

(* An ended script leaves nothing but how it ended.                           *)
GoTo(d, pc) == host' = [host EXCEPT ![d] = [(IF pc \in Ends THEN Idle ELSE @) EXCEPT !.pc = pc]]

(* An operator who took the box over is told that it failed.                  *)
Refused(clear) == IF clear THEN "told" ELSE "gone"

(* A command is sent whether or not the box is still the host's.  When it     *)
(* changes a box that is not, or one a tick is at work on, the two have       *)
(* crossed.                                                                   *)
Sent(d, alone) == crossed' = (crossed \/ (site' # site /\ ~(Mine(d) /\ alone)))

(* --clear-incident is given by an operator who has read an incident, or found *)
(* the lease of a host that is gone.                                          *)
MayClear ==
  \/ dm.phase = "attention"
  \/ dm.deploy # None /\ ~dm.fresh /\ \A d \in Deploys : ~Active(d)

(* arm_main: compare and swap against the incumbent.                          *)
MayArm(clear) == dm.deploy = None \/ (clear /\ (dm.phase = "attention" \/ ~dm.fresh))

(* The timer policy is captured and the dead-man armed, with nothing of the   *)
(* box changed between: a host found stranded needs the operator's word and   *)
(* is never restored before the transfer.  A box with some timers on and no   *)
(* marker is, by the runbook, put right by hand before it is deployed to.     *)
Arm(d) ==
  /\ host[d].pc = "idle" /\ ~firing
  /\ marker \/ Quiet \/ \A g \in Groups : timers[g] # "off"
  /\ \A e \in Deploys : e < d => host[e].pc # "idle"
  /\ \E clear \in BOOLEAN :
       /\ clear => MayClear
       /\ \/ /\ MayArm(clear) /\ triggers' = TRUE
             /\ LET restorable == ~marker /\ ~Quiet IN
                /\ dm' = [NoState EXCEPT !.deploy = d, !.phase = "pre-transfer", !.boot = boot,
                                         !.restorable = restorable, !.fresh = TRUE]
                /\ host' = [host EXCEPT ![d] = [Idle EXCEPT !.pc = "await", !.clear = clear, !.restorable = restorable]]
          \/ /\ MayArm(clear) /\ dm' = NoState /\ RemoveTriggers /\ GoTo(d, Refused(clear))
          \/ ~MayArm(clear) /\ GoTo(d, Refused(clear)) /\ UNCHANGED <<dm, triggers>>
  /\ UNCHANGED <<site, firing, incident, boot, crossed>>

(* The lock is released for the first tick; when none comes, arm_rollback     *)
(* removes whatever is there without it.                                      *)
Await(d) ==
  /\ At(d, "await")
  /\ \/ /\ dm.ticked /\ UNCHANGED <<dm, triggers>>
        /\ host' = [host EXCEPT ![d].pc = "marker", ![d].phase = "pre", ![d].clear = FALSE]
     \/ ~dm.ticked /\ dm' = NoState /\ RemoveTriggers /\ GoTo(d, Refused(host[d].clear))
  /\ UNCHANGED <<site, firing, incident, boot, crossed>>

Marker(d) ==
  /\ At(d, "marker") /\ marker' = TRUE /\ GoTo(d, "quiesce")
  /\ UNCHANGED <<timers, tree, watch, boot>> /\ Sent(d, ~firing)

Quiesce(d) ==
  /\ At(d, "quiesce")
  /\ (StopsAll /\ GoTo(d, "to-mixed")) \/ (StopsSome /\ GoTo(d, Leaves(d)))
  /\ UNCHANGED <<marker, tree, watch, boot>> /\ Sent(d, ~firing)

(* deadman_abort_if_revoked, which reads the fence and nothing else, and      *)
(* deadman_phase: the arm of a later phase, which asks neither for the tick   *)
(* nor for the timers.  A refusal is a revocation, but for an answer the      *)
(* payload did not give.  They have crossed when the transfer begins though   *)
(* the dead-man has begun to restore.                                         *)
Advance(d, pc, phase, next) ==
  /\ host[d].pc = pc
  /\ \/ /\ host[d].fence = "revoked" /\ GoTo(d, "revoked") /\ UNCHANGED <<dm, triggers, crossed>>
     \/ /\ host[d].fence # "revoked" /\ Owns(d) /\ ~firing
        /\ dm' = [dm EXCEPT !.phase = phase, !.fresh = TRUE]
        /\ triggers' = TRUE /\ crossed' = (crossed \/ (phase = "mixed" /\ dm.acted))
        /\ host' = [host EXCEPT ![d].pc = next, ![d].phase = IF phase = "mixed" THEN "mixed" ELSE @]
     \/ /\ host[d].fence # "revoked" /\ ~Owns(d) /\ ~firing /\ UNCHANGED <<dm, triggers, crossed>>
        /\ \E fence \in {"revoked"} \cup (IF dm.deploy = None THEN {host[d].fence} ELSE {}) :
             host' = [host EXCEPT ![d] = IF Trapped(d) THEN [@ EXCEPT !.pc = "gate", !.fence = fence]
                                                      ELSE [Idle EXCEPT !.pc = "gone"]]
  /\ UNCHANGED <<site, firing, incident, boot>>

(* The rsyncs, the release stamp and the installer, none behind a check.      *)
Transfer(d, part, next) ==
  /\ At(d, part) /\ tree' = [tree EXCEPT ![part] = d]
  /\ host' = [host EXCEPT ![d].pc = next, ![d].phase = IF part = "install" THEN "post" ELSE @]
  /\ UNCHANGED <<timers, marker, watch, boot>> /\ Sent(d, ~firing)

(* Producers first, the rest after the seed.                                  *)
Restores(d, pc, G, next) ==
  /\ At(d, pc) /\ Starts(G) /\ GoTo(d, next)
  /\ UNCHANGED <<marker, tree, watch, boot>> /\ Sent(d, ~firing)

(* The two publishing timers are stopped again for the analysis.              *)
Pause(d) ==
  /\ At(d, "pause") /\ GoTo(d, "resume")
  /\ timers' = [timers EXCEPT !["publishers"] = IF @ = "on" THEN "stopped" ELSE @]
  /\ UNCHANGED <<marker, tree, watch, boot>> /\ Sent(d, ~firing)

Release(d) ==
  /\ At(d, "release") /\ marker' = FALSE
  /\ host' = [host EXCEPT ![d].pc = "disarm", ![d].phase = "none"]
  /\ UNCHANGED <<timers, tree, watch, boot>> /\ Sent(d, TRUE)

(* disarm_main: another deploy's state, or an incident, is left alone.        *)
Disarm(d, pc, next) ==
  /\ At(d, pc) /\ ~firing /\ GoTo(d, next)
  /\ \/ Owns(d) /\ dm' = NoState /\ triggers' = FALSE
     \/ (~Owns(d) \/ triggers) /\ UNCHANGED <<dm, triggers>>
  /\ UNCHANGED <<site, firing, incident, boot, crossed>>

Deploy(d) ==
  \/ Arm(d) \/ Await(d) \/ Marker(d) \/ Quiesce(d)
  \/ Advance(d, "to-mixed", "mixed", "source")
  \/ Transfer(d, "source", "stamp") \/ Transfer(d, "stamp", "install") \/ Transfer(d, "install", "to-post")
  \/ Advance(d, "to-post", "post-install", "producers")
  \/ Restores(d, "producers", {"producers"}, "others")
  \/ Restores(d, "others", {"publishers"}, "pause") \/ Restores(d, "others", {"publishers"}, "release")
  \/ Pause(d) \/ Restores(d, "resume", {"publishers"}, "release")
  \/ Release(d) \/ Disarm(d, "disarm", "gone")

-----------------------------------------------------------------------------
(* Heartbeat and recovery.                                                    *)

(* beat_main as deadman_classify_beat reads it.  With the payload gone the    *)
(* remote shell answers, and 127 is not the only number it may answer.        *)
Verdict(d) ==
  IF dm.deploy = None THEN {"revoked", "unknown"} ELSE IF Owns(d) THEN {"alive"} ELSE {"revoked"}

Refreshes(d) == dm' = IF Owns(d) THEN [dm EXCEPT !.fresh = TRUE] ELSE dm

(* A box that has stopped ticking, or is out of reach for several beats, ends *)
(* the script like a failed command and spares the gate its beat: that fence  *)
(* is not kept apart.                                                         *)
Beat(d) ==
  /\ host[d].pc \in Steps /\ host[d].fence # "revoked" /\ ~firing
  /\ Refreshes(d)
  /\ \E verdict \in Verdict(d) : host' = [host EXCEPT ![d].fence = IF verdict = "revoked" THEN "revoked" ELSE @]
  /\ UNCHANGED <<site, triggers, firing, incident, boot, crossed>>

(* A command fails or the operator interrupts: the trap, where one is set.    *)
Fail(d) ==
  /\ \/ host[d].pc \in Steps /\ GoTo(d, Leaves(d))
     \/ host[d].pc = "await" /\ GoTo(d, Refused(host[d].clear))
     \/ host[d].pc \in {"settle", "hold"} /\ GoTo(d, "gone")
     \/ host[d].pc \in {"restore", "unmark"} /\ GoTo(d, IF host[d].phase = "post" THEN "requiesce" ELSE "gone")
     \/ host[d].pc = "requiesce" /\ GoTo(d, "hold")
     \/ host[d].pc = "disarm" /\ GoTo(d, "gone")
  /\ UNCHANGED <<site, watch, boot, crossed>>

(* The host disappears.                                                       *)
Dies(d) ==
  /\ Active(d) /\ GoTo(d, "gone")
  /\ UNCHANGED <<site, watch, boot, crossed>>

(* deadman_recovery_gate: one more beat unless the fence already speaks; a    *)
(* beat that does not get through counts as alive.                            *)
Gate(d) ==
  /\ host[d].pc = "gate"
  /\ \/ /\ host[d].fence = "none" /\ ~firing /\ Refreshes(d)
        /\ \E verdict \in Verdict(d) : GoTo(d, IF verdict = "revoked" THEN "revoked" ELSE "restore")
     \/ /\ host[d].fence = "none" /\ GoTo(d, "restore") /\ UNCHANGED dm
     \/ /\ host[d].fence = "revoked" /\ GoTo(d, "revoked") /\ UNCHANGED dm
  /\ UNCHANGED <<site, triggers, firing, incident, boot, crossed>>

Restore(d) ==
  /\ At(d, "restore")
  /\ \/ StartsAll /\ GoTo(d, "unmark")
     \/ ~AllOn /\ StartsSome /\ GoTo(d, IF host[d].phase = "post" THEN "requiesce" ELSE "gone")
  /\ UNCHANGED <<marker, tree, watch, boot>> /\ Sent(d, ~firing)

Unmark(d) ==
  /\ At(d, "unmark") /\ marker' = FALSE /\ GoTo(d, "settle")
  /\ UNCHANGED <<timers, tree, watch, boot>> /\ Sent(d, TRUE)

Requiesce(d) ==
  /\ At(d, "requiesce") /\ StopsAll /\ GoTo(d, "hold")
  /\ UNCHANGED <<marker, tree, watch, boot>> /\ Sent(d, ~firing)

(* Mutant: the dead-man is taken down, whatever the recovery left.            *)
HoldAsDisarm(d) == Disarm(d, "hold", "gone")

(* hold_main: the box stays quiesced on purpose.                              *)
Hold(d) ==
  /\ At(d, "hold") /\ ~firing /\ GoTo(d, "gone")
  /\ \/ Owns(d) /\ RaiseAttention
     \/ ~Owns(d) /\ UNCHANGED <<dm, incident, triggers>>
  /\ UNCHANGED <<site, firing, boot, crossed>>

Recover(d) == Gate(d) \/ Restore(d) \/ Unmark(d) \/ Disarm(d, "settle", "gone") \/ Requiesce(d) \/ Hold(d)

-----------------------------------------------------------------------------
(* Surroundings.                                                              *)

(* No heartbeat for the whole lease.                                          *)
Lapse ==
  /\ dm.fresh /\ dm' = [dm EXCEPT !.fresh = FALSE]
  /\ UNCHANGED <<site, triggers, firing, incident, boot, host, crossed>>

(* /run is empty after a boot, and a timer that is only stopped starts again. *)
(* A restore that is cut off has not counted its attempt.                     *)
Reboot ==
  /\ boot < Reboots /\ boot' = boot + 1
  /\ marker' = FALSE /\ firing' = FALSE
  /\ timers' = [g \in Groups |-> IF timers[g] = "stopped" THEN "on" ELSE timers[g]]
  /\ UNCHANGED <<tree, dm, triggers, incident, host, crossed>>

(* clear: an operator acknowledges an incident.  (The code takes an expired   *)
(* lease too: its operator then has the box, as after Arm with clear.)      *)
Clear ==
  /\ dm.phase = "attention" /\ ~firing
  /\ dm' = NoState /\ RemoveTriggers
  /\ UNCHANGED <<site, firing, incident, boot, host, crossed>>

Next ==
  \/ \E d \in Deploys : Deploy(d) \/ Recover(d) \/ Beat(d) \/ Fail(d) \/ Dies(d)
  \/ Tick \/ TickReleases \/ Lapse \/ Reboot \/ Clear

Spec == Init /\ [][Next]_vars

Deserted == \A d \in Deploys : ~Active(d)

(* The triggers poll every minute; nobody refreshes the lease of a host that  *)
(* is gone.                                                                   *)
FairSpec == Spec /\ WF_vars(Tick) /\ WF_vars(TickReleases) /\ WF_vars(Deserted /\ Lapse)

-----------------------------------------------------------------------------
Pcs == Steps \cup Recovery \cup Ends \cup {"idle", "await", "disarm"}

Leases == [deploy : Deploys \cup {None}, phase : {"none", "pre-transfer", "mixed", "post-install", "attention"},
           boot : 0..Reboots, restorable : BOOLEAN, fresh : BOOLEAN, ticked : BOOLEAN, seen : BOOLEAN,
           attempts : 0..MaxAttempts, acted : BOOLEAN]

Scripts == [pc : Pcs, phase : {"none", "pre", "mixed", "post"}, fence : {"none", "revoked"},
            restorable : BOOLEAN, clear : BOOLEAN]

(* The variables stay in their types.                                         *)
TypeOK ==
  /\ timers \in [Groups -> {"on", "stopped", "off"}] /\ marker \in BOOLEAN
  /\ tree \in [Parts -> Deploys \cup {None}]
  /\ boot \in 0..Reboots
  /\ dm \in Leases
  /\ triggers \in BOOLEAN /\ firing \in BOOLEAN /\ incident \in BOOLEAN
  /\ host \in [Deploys -> Scripts] /\ crossed \in BOOLEAN

(* Producers never run over a half-synced tree: neither the dead-man nor a    *)
(* recovery enables a timer between the first rsync and the verified install, *)
(* whoever died, rebooted or took over meanwhile, unless a host has crossed   *)
(* the dead-man.                                                              *)
WholeUnderTimers == ~Quiet => Whole \/ crossed

(* An operator took the box over with --clear-incident and was told it failed. *)
Told == \E d \in Deploys : host[d].pc = "told"

(* A box that is not lit has somebody who will act although every deploy host  *)
(* were to disappear at once: an armed dead-man with its trigger, an incident  *)
(* on file or an operator who knows of it; unless a host has crossed.          *)
Attended ==
  \/ Lit \/ incident \/ Told \/ crossed
  \/ dm.phase \notin {"none", "attention"} /\ triggers

(* The box is a deploy's, or has been nobody's since.                         *)
Undisputed(d) == Mine(d) \/ (dm.deploy = None /\ \A e \in Deploys : e > d => host[e].pc = "idle")

(* A deploy that reports success over a box nobody has taken from it has left  *)
(* a whole release of its own, all timers on and no marker, however the        *)
(* dead-man fired beside it, unless they crossed.                              *)
SuccessIsLit ==
  [][\A d \in Deploys : host[d].pc = "release" /\ host'[d].pc = "disarm" /\ Undisputed(d)
       => crossed' \/ (Lit' /\ \A p \in Parts : tree'[p] = d)]_vars

(* A box every deploy host has left is lit again or carries an incident,       *)
(* unless a host has crossed.                                                  *)
DarkEnds == Deserted /\ ~Lit ~> Lit \/ incident \/ Told \/ ~Deserted \/ crossed

(* The README's promise of the worst case, which knows no exception: a box     *)
(* whose deploy host is gone is not left without a timer for long.             *)
WorstCaseDark == Deserted /\ Quiet ~> ~Quiet \/ incident \/ Told \/ ~Deserted
=============================================================================

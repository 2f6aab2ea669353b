---------------------------- MODULE PagesPublisher ----------------------------
(* Publication of the website: the builders that write the data files, the     *)
(* publisher that copies them with the web app into a commit of the Pages      *)
(* branch (publish_forecaster_pages.sh), and the release of a new app          *)
(* (web_app_release.py), which exchanges the web root, runs a publisher of its *)
(* own and rolls back what it cannot verify.  They meet at two locks, at the   *)
(* counters beside them and at the branch, which others may push to as well.   *)
(*                                                                             *)
(* A build has a number; the data files are a payload and the manifest written *)
(* after it.  An app has the number of the release that brought it, its files  *)
(* are the index and the rest.  Waits have no length: a gate may time out at   *)
(* any moment, a lock that is held may be given up on.  The branch exists      *)
(* (a first publication is not modelled), history ceilings are not disabled,   *)
(* releases come one at a time (web-app-deploy.lock), and the release's checks *)
(* of the host before it changes anything are left out.                        *)
EXTENDS Naturals

CONSTANTS
  Ceiling,      \* PAGES_HISTORY_MAX_COMMITS
  MaxDeferrals, \* MAX_GATE_DEFERRALS
  Attempts,     \* SFO_PAGES_PUSH_ATTEMPTS
  MaxBuilds,    \* bound: later builds are not told apart from this one
  Releases,     \* bound: releases of the app
  MaxForeign,   \* bound: commits pushed from elsewhere
  MaxFaults     \* bound: kills, failed fetches and pushes

ASSUME ConstantsAssumption ==
  /\ Ceiling \in Nat \ {0} /\ MaxDeferrals \in Nat \ {0} /\ Attempts \in Nat \ {0}
  /\ MaxBuilds \in Nat \ {0}
  /\ Releases \in Nat /\ MaxForeign \in Nat /\ MaxFaults \in Nat

VARIABLES
  files,        \* the data files: the build of the payload and of the manifest
  active,       \* the app in the web root
  tip,          \* head of the branch
  public,       \* the commit GitHub Pages serves
  artifactLock, pagesLock,
  count,        \* pages-publish-count
  deferrals,    \* pages-gate-deferrals
  pub,          \* the publishers
  rel,          \* the release
  foreign, faults

host == <<files, active, artifactLock, pagesLock, count, deferrals>>
remote == <<tip, public>>
bounds == <<foreign, faults>>
vars == <<host, remote, pub, rel, bounds>>

(* The timer's cycle, which builds first, and the release's own publisher.     *)
Publishers == {"cycle", "direct"}

Files == [payload : Nat, manifest : Nat]
Content == [index : Nat, assets : Nat, payload : Nat, manifest : Nat, other : BOOLEAN]
Commit == [site : Content, depth : Nat]

NoSite == [index |-> 0, assets |-> 0, payload |-> 0, manifest |-> 0, other |-> FALSE]
NoPub == [pc |-> "idle", attempt |-> 1, fetched |-> [site |-> NoSite, depth |-> 0],
          root |-> "no", site |-> NoSite]
NoRelease == [pc |-> "idle", cand |-> 0, prev |-> 0, back |-> FALSE, status |-> "none",
              seen |-> [site |-> NoSite, depth |-> 0]]

Init ==
  /\ files = [payload |-> 1, manifest |-> 1]
  /\ active = 0
  /\ tip = [site |-> [NoSite EXCEPT !.payload = 1, !.manifest = 1], depth |-> 1]
  /\ public = tip
  /\ artifactLock = "free" /\ pagesLock = "free"
  /\ count = 1 /\ deferrals = 0
  /\ pub = [p \in Publishers |-> NoPub]
  /\ rel = NoRelease
  /\ foreign = 0 /\ faults = 0

Fault == faults < MaxFaults /\ faults' = faults + 1 /\ UNCHANGED foreign
NoFault == UNCHANGED bounds

-----------------------------------------------------------------------------
(* The builders. *)

Rebuilt == [files EXCEPT !.payload = IF @ < MaxBuilds THEN @ + 1 ELSE @]
Sealed == [files EXCEPT !.manifest = files.payload]

(* The cycle builds under the artifact lock and hands it to the publisher,     *)
(* which drops it before it does anything else.                                *)
Write ==
  /\ pub["cycle"].pc = "idle" /\ artifactLock = "free"
  /\ artifactLock' = "build" /\ files' = Rebuilt
  /\ pub' = [pub EXCEPT !["cycle"].pc = "build"]
  /\ UNCHANGED <<active, pagesLock, count, deferrals, remote, rel>> /\ NoFault

Seal ==
  /\ pub["cycle"].pc = "build"
  /\ files' = Sealed /\ artifactLock' = "free"
  /\ pub' = [pub EXCEPT !["cycle"].pc = "lock"]
  /\ UNCHANGED <<active, pagesLock, count, deferrals, remote, rel>> /\ NoFault

(* Promotion of a staged Strategy Lab artifact, with the manifest after it.    *)
Promote ==
  /\ artifactLock = "free" /\ files.payload < MaxBuilds
  /\ artifactLock' = "strategy" /\ files' = Rebuilt
  /\ UNCHANGED <<active, pagesLock, count, deferrals, remote, pub, rel>> /\ NoFault

Promoted ==
  /\ artifactLock = "strategy"
  /\ files' = Sealed /\ artifactLock' = "free"
  /\ UNCHANGED <<active, pagesLock, count, deferrals, remote, pub, rel>> /\ NoFault

PromotionDies ==
  /\ artifactLock = "strategy" /\ Fault
  /\ artifactLock' = "free"
  /\ UNCHANGED <<files, active, pagesLock, count, deferrals, remote, pub, rel>>

-----------------------------------------------------------------------------
(* A publisher. *)

(* What is left of a publisher that ends: the locks are free again, and the    *)
(* release learns its exit status.                                             *)
Ended(p, how) == [pub EXCEPT ![p] = [NoPub EXCEPT !.pc = IF p = "direct" THEN how ELSE "idle"]]
Freed(lock, p) == IF lock = p THEN "free" ELSE lock

Exit(p, how) ==
  /\ pub' = Ended(p, how)
  /\ pagesLock' = Freed(pagesLock, p) /\ artifactLock' = Freed(artifactLock, p)

\* Mutant: a publisher goes on although another one holds the lock.
PagesFreeOrPublishing == pagesLock # "release"

PagesFree == pagesLock = "free"

LockPages(p) ==
  /\ pub[p].pc = "lock" /\ PagesFree
  /\ pagesLock' = p
  /\ pub' = [pub EXCEPT ![p].pc = "fetch"]
  /\ UNCHANGED <<files, active, artifactLock, count, deferrals, remote, rel>> /\ NoFault

(* Another publisher is delivering: not a failure.                             *)
Defer(p) ==
  /\ pub[p].pc = "lock" /\ pagesLock # "free"
  /\ Exit(p, "ok")
  /\ UNCHANGED <<files, active, count, deferrals, remote, rel>> /\ NoFault

(* The first attempt takes a snapshot of the data, a later one lays the same   *)
(* snapshot over the tip it has fetched anew.                                  *)
Onward(p) == IF pub[p].attempt = 1 THEN "snapshot" ELSE "tree"

Fetch(p) ==
  /\ pub[p].pc = "fetch"
  /\ pub' = [pub EXCEPT ![p].fetched = tip, ![p].pc = "gate"]
  /\ UNCHANGED <<host, remote, rel>> /\ NoFault

(* Without the remote head the commit is a root of its own, pushed unforced.   *)
FetchFails(p) ==
  /\ pub[p].pc = "fetch" /\ Fault
  /\ pub' = [pub EXCEPT ![p].root = "unforced", ![p].pc = Onward(p)]
  /\ UNCHANGED <<host, remote, rel>>

(* The delivery gate has opened: onward on top of the fetched head, or over it *)
(* when the history has reached its ceiling.                                   *)
Proceed(p) ==
  pub' = [pub EXCEPT ![p].root = IF count >= Ceiling THEN "forced" ELSE "no",
                     ![p].pc = Onward(p)]

(* The public manifest is the one of the head that was fetched.                *)
Exposed(p) == public.site.manifest = pub[p].fetched.site.manifest

\* Mutant: the new root is counted when it is decided, not when it has landed.
GateOpensCounting(p) ==
  /\ pub[p].pc = "gate" /\ Exposed(p)
  /\ deferrals' = 0
  /\ count' = IF count >= Ceiling THEN 0 ELSE count
  /\ Proceed(p)
  /\ UNCHANGED <<files, active, artifactLock, pagesLock, remote, rel>> /\ NoFault

GateOpens(p) ==
  /\ pub[p].pc = "gate" /\ Exposed(p)
  /\ deferrals' = 0
  /\ Proceed(p)
  /\ UNCHANGED <<files, active, artifactLock, pagesLock, count, remote, rel>> /\ NoFault

Overdue == deferrals + 1 >= MaxDeferrals

\* Mutant: a skipped cycle is not counted.
GateMissesUncounted(p) ==
  /\ pub[p].pc = "gate"
  /\ IF Overdue
     THEN deferrals' = 0 /\ Proceed(p) /\ UNCHANGED <<artifactLock, pagesLock>>
     ELSE UNCHANGED deferrals /\ Exit(p, "ok")
  /\ UNCHANGED <<files, active, count, remote, rel>> /\ NoFault

(* It was not seen in time: this cycle is skipped, or published all the same.  *)
GateMisses(p) ==
  /\ pub[p].pc = "gate"
  /\ IF Overdue
     THEN deferrals' = 0 /\ Proceed(p) /\ UNCHANGED <<artifactLock, pagesLock>>
     ELSE deferrals' = deferrals + 1 /\ Exit(p, "ok")
  /\ UNCHANGED <<files, active, count, remote, rel>> /\ NoFault

\* Mutant: the builders' lock is dropped between validation and copy.
ValidateAndUnlock(p) ==
  /\ pub[p].pc = "snapshot" /\ artifactLock = "free" /\ files.payload = files.manifest
  /\ pub' = [pub EXCEPT ![p].pc = "copy"]
  /\ UNCHANGED <<host, remote, rel>> /\ NoFault

Validate(p) ==
  /\ pub[p].pc = "snapshot" /\ artifactLock = "free" /\ files.payload = files.manifest
  /\ artifactLock' = p
  /\ pub' = [pub EXCEPT ![p].pc = "copy"]
  /\ UNCHANGED <<files, active, pagesLock, count, deferrals, remote, rel>> /\ NoFault

(* The lock did not come free in time, or the files are not of one build.      *)
ValidateFails(p) ==
  /\ pub[p].pc = "snapshot" /\ (artifactLock # "free" \/ files.payload # files.manifest)
  /\ Exit(p, "failed")
  /\ UNCHANGED <<files, active, count, deferrals, remote, rel>> /\ NoFault

Copy(p) ==
  /\ pub[p].pc = "copy"
  /\ artifactLock' = Freed(artifactLock, p)
  /\ pub' = [pub EXCEPT ![p].site.payload = files.payload,
                        ![p].site.manifest = files.manifest, ![p].pc = "tree"]
  /\ UNCHANGED <<files, active, pagesLock, count, deferrals, remote, rel>> /\ NoFault

CopyIndex(p) ==
  /\ pub[p].pc = "tree"
  /\ pub' = [pub EXCEPT ![p].site.index = active, ![p].pc = "assets"]
  /\ UNCHANGED <<host, remote, rel>> /\ NoFault

CopyAssets(p) ==
  /\ pub[p].pc = "assets"
  /\ pub' = [pub EXCEPT ![p].site.assets = active, ![p].pc = "push"]
  /\ UNCHANGED <<host, remote, rel>> /\ NoFault

Unchanged(p) ==
  /\ pub[p].pc = "push" /\ pub[p].root = "no" /\ pub[p].site = pub[p].fetched.site
  /\ Exit(p, "ok")
  /\ UNCHANGED <<files, active, count, deferrals, remote, rel>> /\ NoFault

(* A refused push is tried again from the fetch, until the attempts or the     *)
(* time for them are used up.                                                  *)
Retry(p) ==
  \/ /\ pub[p].attempt < Attempts
     /\ pub' = [pub EXCEPT ![p].attempt = @ + 1, ![p].pc = "fetch"]
     /\ UNCHANGED <<artifactLock, pagesLock>>
  \/ Exit(p, "failed")

(* The branch takes a commit on top of its head, or over the head it leased.   *)
Accepts(p) == pub[p].root # "unforced" /\ tip = pub[p].fetched
Differs(p) == pub[p].root # "no" \/ pub[p].site # pub[p].fetched.site

Land(p) ==
  tip' = [site |-> pub[p].site, depth |-> IF pub[p].root = "forced" THEN 1 ELSE tip.depth + 1]

Push(p) ==
  /\ pub[p].pc = "push" /\ Differs(p) /\ Accepts(p)
  /\ Land(p)
  /\ pub' = [pub EXCEPT ![p].pc = "record"]
  /\ UNCHANGED <<host, public, rel>> /\ NoFault

PushRefused(p) ==
  /\ pub[p].pc = "push" /\ Differs(p) /\ ~Accepts(p)
  /\ Retry(p)
  /\ UNCHANGED <<files, active, count, deferrals, remote, rel>> /\ NoFault

(* The connection fails before the commit has landed, or after.                *)
PushFails(p) ==
  /\ pub[p].pc = "push" /\ Differs(p) /\ Fault
  /\ Retry(p)
  /\ (Accepts(p) /\ Land(p)) \/ UNCHANGED tip
  /\ UNCHANGED <<files, active, count, deferrals, public, rel>>

Record(p) ==
  /\ pub[p].pc = "record"
  /\ count' = IF pub[p].root = "forced" THEN 1 ELSE count + 1
  /\ Exit(p, "ok")
  /\ UNCHANGED <<files, active, deferrals, remote, rel>> /\ NoFault

(* A publisher at work is killed; a builder's lock goes with the cycle.        *)
Working(p) == pub[p].pc \notin {"idle", "ok", "failed"}

Dies(p) ==
  /\ Working(p) /\ Fault
  /\ pub' = Ended(p, "failed")
  /\ pagesLock' = Freed(pagesLock, p)
  /\ artifactLock' = IF pub[p].pc = "build" THEN "free" ELSE Freed(artifactLock, p)
  /\ UNCHANGED <<files, active, count, deferrals, remote, rel>>

Publish(p) ==
  \/ LockPages(p) \/ Defer(p) \/ Fetch(p) \/ GateOpens(p) \/ GateMisses(p)
  \/ Validate(p) \/ ValidateFails(p) \/ Copy(p) \/ CopyIndex(p) \/ CopyAssets(p)
  \/ Unchanged(p) \/ Push(p) \/ PushRefused(p) \/ Record(p)

-----------------------------------------------------------------------------
(* The remote. *)

(* A deployment of the head ends well; a superseded one is cancelled.          *)
Deploy ==
  /\ public # tip /\ public' = tip
  /\ UNCHANGED <<host, tip, pub, rel>> /\ NoFault

(* Somebody adds a commit that leaves the site's files alone.                  *)
ForeignPush ==
  /\ foreign < MaxForeign /\ foreign' = foreign + 1
  /\ tip' = [site |-> [tip.site EXCEPT !.other = TRUE], depth |-> tip.depth + 1]
  /\ UNCHANGED <<host, public, pub, rel, faults>>

-----------------------------------------------------------------------------
(* The release. *)

Target == IF rel.back THEN rel.prev ELSE rel.cand

Begin ==
  /\ rel.pc = "idle" /\ rel.cand < Releases
  /\ rel' = [NoRelease EXCEPT !.pc = "install", !.cand = rel.cand + 1, !.prev = active,
                              !.status = "not_installed"]
  /\ UNCHANGED <<host, remote, pub>> /\ NoFault

(* The exchange of web root and candidate, under the pages lock.               *)
Exchange ==
  /\ rel.pc = "install" /\ pagesLock = "free"
  /\ pagesLock' = "release" /\ active' = rel.cand
  /\ rel' = [rel EXCEPT !.pc = "installed"]
  /\ UNCHANGED <<files, artifactLock, count, deferrals, remote, pub>> /\ NoFault

NotInstalled ==
  /\ rel.pc = "install"
  /\ rel' = [rel EXCEPT !.pc = "idle"]
  /\ UNCHANGED <<host, remote, pub>> /\ NoFault

SaveResult ==
  /\ rel.pc = "installed"
  /\ pagesLock' = "free"
  /\ rel' = [rel EXCEPT !.pc = "publish", !.status = "installed_awaiting_publication"]
  /\ UNCHANGED <<files, active, artifactLock, count, deferrals, remote, pub>> /\ NoFault

StartPublisher ==
  /\ rel.pc = "publish"
  /\ pub' = [pub EXCEPT !["direct"].pc = "lock"]
  /\ rel' = [rel EXCEPT !.pc = "publishing"]
  /\ UNCHANGED <<host, remote>> /\ NoFault

Published ==
  /\ rel.pc = "publishing" /\ pub["direct"].pc = "ok"
  /\ pub' = [pub EXCEPT !["direct"] = NoPub]
  /\ rel' = [rel EXCEPT !.pc = "verify"]
  /\ UNCHANGED <<host, remote>> /\ NoFault

\* Mutant: the publisher's exit status stands for the branch.
OnBranchByStatus == TRUE

OnBranch == tip.site.index = Target /\ tip.site.assets = Target

(* branch_snapshot: the head carries the installed app and one build's data.   *)
VerifyBranch ==
  /\ rel.pc = "verify" /\ pagesLock = "free"
  /\ OnBranch /\ tip.site.payload = tip.site.manifest
  /\ pagesLock' = "release"
  /\ rel' = [rel EXCEPT !.pc = "verifying", !.seen = tip]
  /\ UNCHANGED <<files, active, artifactLock, count, deferrals, remote, pub>> /\ NoFault

(* verify_public: that very commit is deployed.                                *)
VerifyPublic ==
  /\ rel.pc = "verifying" /\ public = rel.seen
  /\ pagesLock' = "free"
  /\ rel' = [rel EXCEPT !.pc = "idle",
               !.status = IF rel.back THEN "rolled_back_public_verified" ELSE "public_verified"]
  /\ UNCHANGED <<files, active, artifactLock, count, deferrals, remote, pub>> /\ NoFault

Stopped == [pub EXCEPT !["direct"] = NoPub]
AllFreed == /\ pagesLock' = Freed(Freed(pagesLock, "release"), "direct")
            /\ artifactLock' = Freed(artifactLock, "direct")

(* A wait runs out, a check fails or, before the rollback, a signal arrives:   *)
(* the publisher it started is killed and what was installed is taken back; a  *)
(* rollback that fails is left to the operator.                                *)
ReleaseFails ==
  /\ rel.pc \in {"installed", "publish", "publishing", "verify", "verifying", "rollback"}
  /\ pub' = Stopped /\ AllFreed
  /\ rel' = IF rel.back THEN [rel EXCEPT !.pc = "idle", !.status = "rollback_needs_attention"]
            ELSE [rel EXCEPT !.pc = "rollback", !.back = TRUE]
  /\ UNCHANGED <<files, active, count, deferrals, remote>> /\ NoFault

Rollback ==
  /\ rel.pc = "rollback" /\ pagesLock = "free"
  /\ active' = rel.prev
  /\ rel' = [rel EXCEPT !.pc = "publish"]
  /\ UNCHANGED <<files, artifactLock, pagesLock, count, deferrals, remote, pub>> /\ NoFault

(* Killed outright, or by a second signal before it ignores them.              *)
ReleaseDies ==
  /\ rel.pc # "idle" /\ Fault
  /\ pub' = Stopped /\ AllFreed
  /\ rel' = [rel EXCEPT !.pc = "idle"]
  /\ UNCHANGED <<files, active, count, deferrals, remote>>

Release ==
  \/ Begin \/ Exchange \/ NotInstalled \/ SaveResult \/ StartPublisher \/ Published
  \/ VerifyBranch \/ VerifyPublic \/ ReleaseFails \/ Rollback

-----------------------------------------------------------------------------
Cycle == Write \/ Seal \/ Publish("cycle")

Next ==
  \/ Cycle \/ Publish("direct") \/ Release
  \/ Promote \/ Promoted
  \/ Deploy \/ ForeignPush
  \/ PromotionDies \/ ReleaseDies
  \/ \E p \in Publishers : FetchFails(p) \/ PushFails(p) \/ Dies(p)

Spec == Init /\ [][Next]_vars

(* The timers go on, every command ends and every wait has a limit.  Nothing   *)
(* is assumed of GitHub: a deployment may hang for ever.                       *)
FairSpec == Spec /\ WF_vars(Cycle) /\ WF_vars(Release) /\ WF_vars(Promoted)

-----------------------------------------------------------------------------
(* Properties. *)

Steps == {"idle", "build", "lock", "fetch", "gate", "snapshot", "copy", "tree", "assets",
          "push", "record", "ok", "failed"}
PubStates == [pc : Steps, attempt : 1..Attempts, fetched : Commit,
              root : {"no", "forced", "unforced"}, site : Content]
RelStates == [pc : {"idle", "install", "installed", "publish", "publishing", "verify",
                    "verifying", "rollback"},
              cand : 0..Releases, prev : 0..Releases, back : BOOLEAN,
              status : {"none", "not_installed", "installed_awaiting_publication",
                        "public_verified", "rolled_back_public_verified",
                        "rollback_needs_attention"},
              seen : Commit]

(* The variables stay in their types.                                          *)
TypeOK ==
  /\ files \in Files
  /\ active \in 0..Releases
  /\ tip \in Commit /\ public \in Commit
  /\ artifactLock \in {"free", "build", "strategy"} \cup Publishers
  /\ pagesLock \in {"free", "release"} \cup Publishers
  /\ count \in 0..Ceiling /\ deferrals \in Nat
  /\ pub \in [Publishers -> PubStates]
  /\ rel \in RelStates
  /\ foreign \in 0..MaxForeign /\ faults \in 0..MaxFaults

(* The branch never mixes two apps or two builds: what is copied in several    *)
(* steps is copied under the lock of whoever replaces it.                      *)
WholeSite == tip.site.index = tip.site.assets /\ tip.site.payload = tip.site.manifest

(* The data of the branch never goes back: a publisher that is refused and     *)
(* lays its first snapshot over a fresh head cannot have been overtaken.       *)
NeverOlder == [][tip'.site.manifest >= tip.site.manifest]_vars

(* What a release reports is so, and stays so until the next one: an app that  *)
(* was verified, or rolled back to, is in the web root, on the branch and      *)
(* public, whatever publishers were at work meanwhile.                         *)
Carries(commit, app) == commit.site.index = app /\ commit.site.assets = app
ReleaseHonest ==
  /\ rel.status = "public_verified" =>
        active = rel.cand /\ Carries(tip, rel.cand) /\ Carries(public, rel.cand)
  /\ rel.status = "rolled_back_public_verified" =>
        active = rel.prev /\ Carries(tip, rel.prev) /\ Carries(public, rel.prev)

(* The history of the branch is bounded by the ceiling, whatever push was      *)
(* refused or lost its answer, but for the commits nobody could count: those   *)
(* from elsewhere, and one for each kill, lost answer or publisher a release   *)
(* stopped, which are two at most.                                             *)
HistoryBounded == tip.depth <= Ceiling + foreign + faults + 2 * rel.cand

(* A head that never becomes public does not hold publication up for ever: a   *)
(* whole build that is not built over reaches the branch.                      *)
DataGetsOut ==
  \A v \in 1..MaxBuilds :
    files.manifest = v ~> tip.site.manifest >= v

=============================================================================

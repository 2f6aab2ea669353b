------------------------ MODULE PagesPublisher_proofs ------------------------
(***************************************************************************)
(* What PagesPublisher promises, for any ceiling, deferral limit, number of *)
(* attempts, builds, releases, foreign commits and faults.                  *)
(*                                                                         *)
(* Everything rests on who holds which lock at which step.  A publisher at  *)
(* work holds the pages lock, so the app it copies, the counter it read and *)
(* the data of the head stay what they were until it is done; one that      *)
(* copies data holds the builders' lock, so its data are of one build.      *)
(***************************************************************************)
EXTENDS PagesPublisher, Integers, TLAPS

-----------------------------------------------------------------------------
(* The inductive invariant. *)

(* The steps of a publisher under the pages lock.                           *)
Holding == {"fetch", "gate", "snapshot", "copy", "tree", "assets", "push", "record"}
(* The steps at which it is decided how the commit will be rooted.          *)
Rooted == {"snapshot", "copy", "tree", "assets", "push", "record"}
(* The steps of a release during which its target is in the web root.       *)
Installed == {"publish", "publishing", "verify", "verifying"}

LockInv ==
  /\ \A p \in Publishers : pub[p].pc \in Holding <=> pagesLock = p
  /\ \A p \in Publishers : pub[p].pc = "copy" <=> artifactLock = p
  /\ pub["cycle"].pc = "build" <=> artifactLock = "build"
  /\ pub["direct"].pc # "build"
  /\ pub["direct"].pc # "idle" => rel.pc = "publishing"
  /\ pagesLock = "release" <=> rel.pc \in {"installed", "verifying"}

(* A snapshot is of one build, and of the app of the web root once copied.  *)
SiteInv ==
  /\ tip.site.index = tip.site.assets /\ tip.site.payload = tip.site.manifest
  /\ \A p \in Publishers :
       /\ pub[p].site.payload = pub[p].site.manifest
       /\ pub[p].pc = "copy" => files.payload = files.manifest
       /\ pub[p].pc \in {"assets", "push", "record"} => pub[p].site.index = active
       /\ pub[p].pc \in {"push", "record"} => pub[p].site.assets = active

(* A publisher with a snapshot holds nothing older than the branch.         *)
HasSnapshot(p) ==
  \/ pub[p].pc \in {"tree", "assets", "push", "record"}
  \/ pub[p].pc \in {"fetch", "gate"} /\ pub[p].attempt # 1

AgeInv ==
  /\ files.manifest <= files.payload
  /\ tip.site.manifest <= files.manifest
  /\ \A p \in Publishers :
       /\ pub[p].pc \in {"idle", "build", "lock"} => pub[p].attempt = 1
       /\ HasSnapshot(p) => /\ tip.site.manifest <= pub[p].site.manifest
                            /\ pub[p].site.manifest <= files.manifest

RelInv ==
  /\ rel.pc \in {"install", "installed"} => ~rel.back
  /\ rel.pc = "rollback" => rel.back
  /\ rel.pc # "idle" => rel.cand > 0
  /\ rel.pc = "installed" => active = rel.cand
  /\ rel.pc \in Installed => active = Target
  /\ rel.pc = "verifying" => Carries(rel.seen, Target) /\ Carries(tip, Target)
  /\ rel.pc # "idle" => rel.status \notin {"public_verified", "rolled_back_public_verified"}
  /\ ReleaseHonest

(* The publishers a release has stopped: one before its rollback, one more  *)
(* when the rollback is given up.                                           *)
Stops == 2 * rel.cand - (IF rel.pc = "idle" THEN 0 ELSE IF rel.back THEN 1 ELSE 2)
Slack == foreign + faults + Stops

(* The depth of the branch is what the counter says, up to a commit that    *)
(* landed and is about to be recorded, and those nobody could count.        *)
DepthInv ==
  /\ count \in 1..Ceiling
  /\ \A p \in Publishers :
       /\ pub[p].pc \in Rooted /\ pub[p].root = "no" => count < Ceiling
       /\ pub[p].pc = "record" => pub[p].root \in {"no", "forced"}
       /\ pub[p].pc = "record" /\ pub[p].root = "no" => tip.depth <= count + 1 + Slack
       /\ pub[p].pc = "record" /\ pub[p].root = "forced" => tip.depth <= 1 + Slack
  /\ (\A p \in Publishers : pub[p].pc # "record") => tip.depth <= count + Slack

IInv == TypeOK /\ LockInv /\ SiteInv /\ AgeInv /\ RelInv /\ DepthInv

-----------------------------------------------------------------------------
(* Types. *)

(* The values that stand for nothing are of their types.                    *)
LEMMA NoneTypes == NoSite \in Content /\ NoPub \in PubStates /\ NoRelease \in RelStates
<1>1. NoSite \in Content
  BY DEF NoSite, Content
<1>2. [site |-> NoSite, depth |-> 0] \in Commit
  BY <1>1 DEF Commit
<1>3. 1 \in 1..Attempts /\ 0 \in 0..Releases
  BY ConstantsAssumption
<1>4. NoPub \in PubStates
  BY <1>1, <1>2, <1>3 DEF NoPub, PubStates, Steps
<1>5. NoRelease \in RelStates
  BY <1>2, <1>3 DEF NoRelease, RelStates
<1> QED
  BY <1>1, <1>4, <1>5

(* A publisher that has ended.                                              *)
LEMMA EndedType ==
  ASSUME pub \in [Publishers -> PubStates], NEW p \in Publishers, NEW how \in {"ok", "failed"}
  PROVE  Ended(p, how) \in [Publishers -> PubStates]
<1>1. \A s \in {"idle", "ok", "failed"} : [NoPub EXCEPT !.pc = s] \in PubStates
  BY NoneTypes DEF PubStates, Steps
<1>2. [NoPub EXCEPT !.pc = IF p = "direct" THEN how ELSE "idle"] \in PubStates
  BY <1>1
<1> QED
  BY <1>2 DEF Ended

(* A commit from elsewhere.                                                 *)
LEMMA OtherType ==
  ASSUME NEW c \in Commit
  PROVE  [site |-> [c.site EXCEPT !.other = TRUE], depth |-> c.depth + 1] \in Commit
<1>1. c.site \in Content /\ c.depth \in Nat
  BY DEF Commit
<1>2. [c.site EXCEPT !.other = TRUE] \in Content
  BY <1>1 DEF Content
<1> QED
  BY <1>1, <1>2 DEF Commit

(* A commit of a publisher.                                                 *)
LEMMA LandType ==
  ASSUME TypeOK, NEW p \in Publishers, Land(p)
  PROVE  tip' \in Commit
<1>1. pub[p].site \in Content /\ tip.depth \in Nat
  BY DEF TypeOK, PubStates, Commit
<1> QED
  BY <1>1 DEF Land, Commit

-----------------------------------------------------------------------------
(* The steps, one by one, for each part of the invariant. *)

(* Types.  The counter stays below the ceiling until a commit that is no new root lands. *)
LEMMA TypeStep == TypeOK /\ DepthInv /\ [Next]_vars => TypeOK'
<1> SUFFICES ASSUME TypeOK /\ DepthInv, [Next]_vars PROVE TypeOK'
  OBVIOUS
<1> USE ConstantsAssumption DEF host, remote, bounds, NoFault, TypeOK,
     RelStates, Commit, Content, Files, Publishers, DepthInv, Rooted
<1>1. CASE Write
  <2>1. pub' \in [Publishers -> PubStates]
    BY <1>1 DEF Write, PubStates, Steps
  <2> QED
    BY <1>1, <2>1 DEF Write, Rebuilt
<1>2. CASE Seal
  <2>1. pub' \in [Publishers -> PubStates]
    BY <1>2 DEF Seal, PubStates, Steps
  <2> QED
    BY <1>2, <2>1 DEF Seal, Sealed
<1>3. CASE Promote
  BY <1>3 DEF Promote, Rebuilt
<1>4. CASE Promoted
  BY <1>4 DEF Promoted, Sealed
<1>5. CASE PromotionDies
  BY <1>5 DEF PromotionDies, Fault
<1>6. ASSUME NEW p \in Publishers, LockPages(p) PROVE TypeOK'
  <2>1. pub' \in [Publishers -> PubStates]
    BY <1>6 DEF LockPages, PubStates, Steps
  <2> QED
    BY <1>6, <2>1 DEF LockPages, PagesFree
<1>7. ASSUME NEW p \in Publishers, Defer(p) PROVE TypeOK'
  <2>1. pub' \in [Publishers -> PubStates]
    BY <1>7, EndedType DEF Defer, Exit, PubStates, Steps
  <2> QED
    BY <1>7, <2>1 DEF Defer, Exit, Freed
<1>8. ASSUME NEW p \in Publishers, Fetch(p) PROVE TypeOK'
  <2>1. pub' \in [Publishers -> PubStates]
    BY <1>8 DEF Fetch, PubStates, Steps
  <2> QED
    BY <1>8, <2>1 DEF Fetch
<1>9. ASSUME NEW p \in Publishers, FetchFails(p) PROVE TypeOK'
  <2>1. pub' \in [Publishers -> PubStates]
    BY <1>9 DEF FetchFails, Onward, PubStates, Steps
  <2> QED
    BY <1>9, <2>1 DEF FetchFails, Fault, Onward
<1>10. ASSUME NEW p \in Publishers, GateOpens(p) PROVE TypeOK'
  <2>1. pub' \in [Publishers -> PubStates]
    BY <1>10 DEF GateOpens, Proceed, Onward, PubStates, Steps
  <2> QED
    BY <1>10, <2>1 DEF GateOpens, Proceed, Onward
<1>11. ASSUME NEW p \in Publishers, GateMisses(p) PROVE TypeOK'
  <2>1. pub' \in [Publishers -> PubStates]
    BY <1>11, EndedType DEF GateMisses, Proceed, Onward, Exit, PubStates,
       Steps
  <2> QED
    BY <1>11, <2>1 DEF GateMisses, Proceed, Onward, Exit, Freed
<1>12. ASSUME NEW p \in Publishers, Validate(p) PROVE TypeOK'
  <2>1. pub' \in [Publishers -> PubStates]
    BY <1>12 DEF Validate, PubStates, Steps
  <2> QED
    BY <1>12, <2>1 DEF Validate
<1>13. ASSUME NEW p \in Publishers, ValidateFails(p) PROVE TypeOK'
  <2>1. pub' \in [Publishers -> PubStates]
    BY <1>13, EndedType DEF ValidateFails, Exit, PubStates, Steps
  <2> QED
    BY <1>13, <2>1 DEF ValidateFails, Exit, Freed
<1>14. ASSUME NEW p \in Publishers, Copy(p) PROVE TypeOK'
  <2>1. pub' \in [Publishers -> PubStates]
    BY <1>14 DEF Copy, PubStates, Steps
  <2> QED
    BY <1>14, <2>1 DEF Copy, Freed
<1>15. ASSUME NEW p \in Publishers, CopyIndex(p) PROVE TypeOK'
  <2>1. pub' \in [Publishers -> PubStates]
    BY <1>15 DEF CopyIndex, PubStates, Steps
  <2> QED
    BY <1>15, <2>1 DEF CopyIndex
<1>16. ASSUME NEW p \in Publishers, CopyAssets(p) PROVE TypeOK'
  <2>1. pub' \in [Publishers -> PubStates]
    BY <1>16 DEF CopyAssets, PubStates, Steps
  <2> QED
    BY <1>16, <2>1 DEF CopyAssets
<1>17. ASSUME NEW p \in Publishers, Unchanged(p) PROVE TypeOK'
  <2>1. pub' \in [Publishers -> PubStates]
    BY <1>17, EndedType DEF Unchanged, Exit, PubStates, Steps
  <2> QED
    BY <1>17, <2>1 DEF Unchanged, Exit, Freed
<1>18. ASSUME NEW p \in Publishers, Push(p) PROVE TypeOK'
  <2>1. pub' \in [Publishers -> PubStates]
    BY <1>18 DEF Push, PubStates, Steps
  <2> QED
    BY <1>18, <2>1, LandType DEF Push
<1>19. ASSUME NEW p \in Publishers, PushRefused(p) PROVE TypeOK'
  <2>1. pub' \in [Publishers -> PubStates]
    BY <1>19, EndedType DEF PushRefused, Retry, Exit, PubStates, Steps
  <2> QED
    BY <1>19, <2>1 DEF PushRefused, Retry, Exit, Freed
<1>20. ASSUME NEW p \in Publishers, PushFails(p) PROVE TypeOK'
  <2>1. pub' \in [Publishers -> PubStates]
    BY <1>20, EndedType DEF PushFails, Retry, Exit, PubStates, Steps
  <2> QED
    BY <1>20, <2>1, LandType DEF PushFails, Fault, Retry, Exit, Freed
<1>21. ASSUME NEW p \in Publishers, Record(p) PROVE TypeOK'
  <2>1. pub' \in [Publishers -> PubStates]
    BY <1>21, EndedType DEF Record, Exit, PubStates, Steps
  <2> QED
    BY <1>21, <2>1 DEF Record, Exit, Freed
<1>22. ASSUME NEW p \in Publishers, Dies(p) PROVE TypeOK'
  <2>1. pub' \in [Publishers -> PubStates]
    BY <1>22, EndedType DEF Dies, Working, PubStates, Steps
  <2> QED
    BY <1>22, <2>1 DEF Dies, Fault, Freed
<1>23. CASE Deploy
  BY <1>23 DEF Deploy
<1>24. CASE ForeignPush
  <2>1. tip' \in Commit
    BY <1>24, OtherType DEF ForeignPush
  <2> QED
    BY <1>24, <2>1 DEF ForeignPush
<1>25. CASE Begin
  <2>1. rel.cand + 1 \in 0..Releases
    BY <1>25 DEF Begin
  <2>2. rel' \in RelStates
    BY <1>25, <2>1, NoneTypes DEF Begin
  <2> QED
    BY <1>25, <2>2 DEF Begin
<1>26. CASE Exchange
  BY <1>26 DEF Exchange
<1>27. CASE NotInstalled
  BY <1>27 DEF NotInstalled
<1>28. CASE SaveResult
  BY <1>28 DEF SaveResult
<1>29. CASE StartPublisher
  <2>1. pub' \in [Publishers -> PubStates]
    BY <1>29 DEF StartPublisher, PubStates, Steps
  <2> QED
    BY <1>29, <2>1 DEF StartPublisher
<1>30. CASE Published
  <2>1. pub' \in [Publishers -> PubStates]
    BY <1>30, NoneTypes DEF Published, PubStates, Steps
  <2> QED
    BY <1>30, <2>1 DEF Published
<1>31. CASE VerifyBranch
  BY <1>31 DEF VerifyBranch, OnBranch
<1>32. CASE VerifyPublic
  BY <1>32 DEF VerifyPublic
<1>33. CASE Rollback
  BY <1>33 DEF Rollback
<1>34. CASE ReleaseFails
  <2>1. pub' \in [Publishers -> PubStates]
    BY <1>34, NoneTypes DEF ReleaseFails, Stopped, PubStates, Steps
  <2> QED
    BY <1>34, <2>1 DEF ReleaseFails, Stopped, AllFreed, Freed
<1>35. CASE ReleaseDies
  <2>1. pub' \in [Publishers -> PubStates]
    BY <1>35, NoneTypes DEF ReleaseDies, Stopped, PubStates, Steps
  <2> QED
    BY <1>35, <2>1 DEF ReleaseDies, Fault, Stopped, AllFreed, Freed
<1>36. CASE UNCHANGED vars
  BY <1>36 DEF vars
<1> QED
  BY <1>1, <1>2, <1>3, <1>4, <1>5, <1>6, <1>7, <1>8, <1>9, <1>10, <1>11,
     <1>12, <1>13, <1>14, <1>15, <1>16, <1>17, <1>18, <1>19, <1>20, <1>21,
     <1>22, <1>23, <1>24, <1>25, <1>26, <1>27, <1>28, <1>29, <1>30, <1>31,
     <1>32, <1>33, <1>34, <1>35, <1>36 DEF Next, Cycle, Publish, Release

(* A publisher under way holds the pages lock, one that copies data the builders' lock. *)
LEMMA LockStep == TypeOK /\ LockInv /\ [Next]_vars => LockInv'
<1> SUFFICES ASSUME TypeOK /\ LockInv, [Next]_vars PROVE LockInv'
  OBVIOUS
<1> USE DEF host, remote, bounds, NoFault, LockInv, Holding, TypeOK,
     PubStates, RelStates, NoPub, NoRelease, Publishers
<1>1. CASE Write
  BY <1>1 DEF Write, Rebuilt
<1>2. CASE Seal
  BY <1>2 DEF Seal, Sealed
<1>3. CASE Promote
  BY <1>3 DEF Promote, Rebuilt
<1>4. CASE Promoted
  BY <1>4 DEF Promoted, Sealed
<1>5. CASE PromotionDies
  BY <1>5 DEF PromotionDies, Fault
<1>6. ASSUME NEW p \in Publishers, LockPages(p) PROVE LockInv'
  BY <1>6 DEF LockPages, PagesFree
<1>7. ASSUME NEW p \in Publishers, Defer(p) PROVE LockInv'
  BY <1>7 DEF Defer, Exit, Ended, Freed
<1>8. ASSUME NEW p \in Publishers, Fetch(p) PROVE LockInv'
  BY <1>8 DEF Fetch
<1>9. ASSUME NEW p \in Publishers, FetchFails(p) PROVE LockInv'
  BY <1>9 DEF FetchFails, Fault, Onward
<1>10. ASSUME NEW p \in Publishers, GateOpens(p) PROVE LockInv'
  BY <1>10 DEF GateOpens, Proceed, Onward
<1>11. ASSUME NEW p \in Publishers, GateMisses(p) PROVE LockInv'
  BY <1>11 DEF GateMisses, Proceed, Onward, Exit, Ended, Freed
<1>12. ASSUME NEW p \in Publishers, Validate(p) PROVE LockInv'
  BY <1>12 DEF Validate
<1>13. ASSUME NEW p \in Publishers, ValidateFails(p) PROVE LockInv'
  BY <1>13 DEF ValidateFails, Exit, Ended, Freed
<1>14. ASSUME NEW p \in Publishers, Copy(p) PROVE LockInv'
  BY <1>14 DEF Copy, Freed
<1>15. ASSUME NEW p \in Publishers, CopyIndex(p) PROVE LockInv'
  BY <1>15 DEF CopyIndex
<1>16. ASSUME NEW p \in Publishers, CopyAssets(p) PROVE LockInv'
  BY <1>16 DEF CopyAssets
<1>17. ASSUME NEW p \in Publishers, Unchanged(p) PROVE LockInv'
  BY <1>17 DEF Unchanged, Exit, Ended, Freed
<1>18. ASSUME NEW p \in Publishers, Push(p) PROVE LockInv'
  BY <1>18 DEF Push, Land, Accepts
<1>19. ASSUME NEW p \in Publishers, PushRefused(p) PROVE LockInv'
  BY <1>19 DEF PushRefused, Retry, Exit, Ended, Freed
<1>20. ASSUME NEW p \in Publishers, PushFails(p) PROVE LockInv'
  BY <1>20 DEF PushFails, Fault, Retry, Exit, Ended, Freed, Land, Accepts
<1>21. ASSUME NEW p \in Publishers, Record(p) PROVE LockInv'
  BY <1>21 DEF Record, Exit, Ended, Freed
<1>22. ASSUME NEW p \in Publishers, Dies(p) PROVE LockInv'
  BY <1>22 DEF Dies, Fault, Working, Ended, Freed
<1>23. CASE Deploy
  BY <1>23 DEF Deploy
<1>24. CASE ForeignPush
  BY <1>24 DEF ForeignPush
<1>25. CASE Begin
  BY <1>25 DEF Begin
<1>26. CASE Exchange
  BY <1>26 DEF Exchange
<1>27. CASE NotInstalled
  BY <1>27 DEF NotInstalled
<1>28. CASE SaveResult
  BY <1>28 DEF SaveResult
<1>29. CASE StartPublisher
  BY <1>29 DEF StartPublisher
<1>30. CASE Published
  BY <1>30 DEF Published
<1>31. CASE VerifyBranch
  BY <1>31 DEF VerifyBranch, OnBranch
<1>32. CASE VerifyPublic
  BY <1>32 DEF VerifyPublic
<1>33. CASE Rollback
  BY <1>33 DEF Rollback
<1>34. CASE ReleaseFails
  BY <1>34 DEF ReleaseFails, Stopped, AllFreed, Freed
<1>35. CASE ReleaseDies
  BY <1>35 DEF ReleaseDies, Fault, Stopped, AllFreed, Freed
<1>36. CASE UNCHANGED vars
  BY <1>36 DEF vars
<1> QED
  BY <1>1, <1>2, <1>3, <1>4, <1>5, <1>6, <1>7, <1>8, <1>9, <1>10, <1>11,
     <1>12, <1>13, <1>14, <1>15, <1>16, <1>17, <1>18, <1>19, <1>20, <1>21,
     <1>22, <1>23, <1>24, <1>25, <1>26, <1>27, <1>28, <1>29, <1>30, <1>31,
     <1>32, <1>33, <1>34, <1>35, <1>36 DEF Next, Cycle, Publish, Release

(* Neither the data nor the app changes under the lock of the publisher that copies it. *)
LEMMA SiteStep == TypeOK /\ LockInv /\ SiteInv /\ [Next]_vars => SiteInv'
<1> SUFFICES ASSUME TypeOK /\ LockInv /\ SiteInv, [Next]_vars PROVE SiteInv'
  OBVIOUS
<1> USE DEF host, remote, bounds, NoFault, LockInv, Holding, SiteInv, TypeOK,
     PubStates, Files, Commit, Content, NoPub, NoSite, Publishers
<1>1. CASE Write
  BY <1>1 DEF Write, Rebuilt
<1>2. CASE Seal
  BY <1>2 DEF Seal, Sealed
<1>3. CASE Promote
  BY <1>3 DEF Promote, Rebuilt
<1>4. CASE Promoted
  BY <1>4 DEF Promoted, Sealed
<1>5. CASE PromotionDies
  BY <1>5 DEF PromotionDies, Fault
<1>6. ASSUME NEW p \in Publishers, LockPages(p) PROVE SiteInv'
  BY <1>6 DEF LockPages, PagesFree
<1>7. ASSUME NEW p \in Publishers, Defer(p) PROVE SiteInv'
  BY <1>7 DEF Defer, Exit, Ended, Freed
<1>8. ASSUME NEW p \in Publishers, Fetch(p) PROVE SiteInv'
  BY <1>8 DEF Fetch
<1>9. ASSUME NEW p \in Publishers, FetchFails(p) PROVE SiteInv'
  BY <1>9 DEF FetchFails, Fault, Onward
<1>10. ASSUME NEW p \in Publishers, GateOpens(p) PROVE SiteInv'
  BY <1>10 DEF GateOpens, Proceed, Onward
<1>11. ASSUME NEW p \in Publishers, GateMisses(p) PROVE SiteInv'
  BY <1>11 DEF GateMisses, Proceed, Onward, Exit, Ended, Freed
<1>12. ASSUME NEW p \in Publishers, Validate(p) PROVE SiteInv'
  BY <1>12 DEF Validate
<1>13. ASSUME NEW p \in Publishers, ValidateFails(p) PROVE SiteInv'
  BY <1>13 DEF ValidateFails, Exit, Ended, Freed
<1>14. ASSUME NEW p \in Publishers, Copy(p) PROVE SiteInv'
  <2>1. /\ pub'[p].site.payload = files.payload
        /\ pub'[p].site.manifest = files.manifest
        /\ pub'[p].pc = "tree"
        /\ \A q \in Publishers \ {p} : pub'[q] = pub[q]
    BY <1>14 DEF Copy
  <2>2. UNCHANGED <<files, active, tip>> /\ pub[p].pc = "copy"
    BY <1>14 DEF Copy
  <2> QED
    BY <2>1, <2>2
<1>15. ASSUME NEW p \in Publishers, CopyIndex(p) PROVE SiteInv'
  BY <1>15 DEF CopyIndex
<1>16. ASSUME NEW p \in Publishers, CopyAssets(p) PROVE SiteInv'
  BY <1>16 DEF CopyAssets
<1>17. ASSUME NEW p \in Publishers, Unchanged(p) PROVE SiteInv'
  BY <1>17 DEF Unchanged, Exit, Ended, Freed
<1>18. ASSUME NEW p \in Publishers, Push(p) PROVE SiteInv'
  BY <1>18 DEF Push, Land, Accepts
<1>19. ASSUME NEW p \in Publishers, PushRefused(p) PROVE SiteInv'
  BY <1>19 DEF PushRefused, Retry, Exit, Ended, Freed
<1>20. ASSUME NEW p \in Publishers, PushFails(p) PROVE SiteInv'
  BY <1>20 DEF PushFails, Fault, Retry, Exit, Ended, Freed, Land, Accepts
<1>21. ASSUME NEW p \in Publishers, Record(p) PROVE SiteInv'
  BY <1>21 DEF Record, Exit, Ended, Freed
<1>22. ASSUME NEW p \in Publishers, Dies(p) PROVE SiteInv'
  BY <1>22 DEF Dies, Fault, Working, Ended, Freed
<1>23. CASE Deploy
  BY <1>23 DEF Deploy
<1>24. CASE ForeignPush
  BY <1>24 DEF ForeignPush
<1>25. CASE Begin
  BY <1>25 DEF Begin
<1>26. CASE Exchange
  BY <1>26 DEF Exchange
<1>27. CASE NotInstalled
  BY <1>27 DEF NotInstalled
<1>28. CASE SaveResult
  BY <1>28 DEF SaveResult
<1>29. CASE StartPublisher
  BY <1>29 DEF StartPublisher
<1>30. CASE Published
  BY <1>30 DEF Published
<1>31. CASE VerifyBranch
  BY <1>31 DEF VerifyBranch, OnBranch
<1>32. CASE VerifyPublic
  BY <1>32 DEF VerifyPublic
<1>33. CASE Rollback
  BY <1>33 DEF Rollback
<1>34. CASE ReleaseFails
  BY <1>34 DEF ReleaseFails, Stopped, AllFreed, Freed
<1>35. CASE ReleaseDies
  BY <1>35 DEF ReleaseDies, Fault, Stopped, AllFreed, Freed
<1>36. CASE UNCHANGED vars
  BY <1>36 DEF vars
<1> QED
  BY <1>1, <1>2, <1>3, <1>4, <1>5, <1>6, <1>7, <1>8, <1>9, <1>10, <1>11,
     <1>12, <1>13, <1>14, <1>15, <1>16, <1>17, <1>18, <1>19, <1>20, <1>21,
     <1>22, <1>23, <1>24, <1>25, <1>26, <1>27, <1>28, <1>29, <1>30, <1>31,
     <1>32, <1>33, <1>34, <1>35, <1>36 DEF Next, Cycle, Publish, Release

(* Nobody else publishes while a publisher holds its snapshot. *)
LEMMA AgeStep == TypeOK /\ LockInv /\ AgeInv /\ [Next]_vars => AgeInv'
<1> SUFFICES ASSUME TypeOK /\ LockInv /\ AgeInv, [Next]_vars PROVE AgeInv'
  OBVIOUS
<1> USE ConstantsAssumption DEF host, remote, bounds, NoFault, LockInv,
     Holding, AgeInv, HasSnapshot, TypeOK, PubStates, Files, Commit, Content,
     NoPub, NoSite, Publishers
<1>1. CASE Write
  BY <1>1 DEF Write, Rebuilt
<1>2. CASE Seal
  BY <1>2 DEF Seal, Sealed
<1>3. CASE Promote
  BY <1>3 DEF Promote, Rebuilt
<1>4. CASE Promoted
  BY <1>4 DEF Promoted, Sealed
<1>5. CASE PromotionDies
  BY <1>5 DEF PromotionDies, Fault
<1>6. ASSUME NEW p \in Publishers, LockPages(p) PROVE AgeInv'
  BY <1>6 DEF LockPages, PagesFree
<1>7. ASSUME NEW p \in Publishers, Defer(p) PROVE AgeInv'
  BY <1>7 DEF Defer, Exit, Ended, Freed
<1>8. ASSUME NEW p \in Publishers, Fetch(p) PROVE AgeInv'
  BY <1>8 DEF Fetch
<1>9. ASSUME NEW p \in Publishers, FetchFails(p) PROVE AgeInv'
  BY <1>9 DEF FetchFails, Fault, Onward
<1>10. ASSUME NEW p \in Publishers, GateOpens(p) PROVE AgeInv'
  BY <1>10 DEF GateOpens, Proceed, Onward
<1>11. ASSUME NEW p \in Publishers, GateMisses(p) PROVE AgeInv'
  BY <1>11 DEF GateMisses, Proceed, Onward, Exit, Ended, Freed
<1>12. ASSUME NEW p \in Publishers, Validate(p) PROVE AgeInv'
  BY <1>12 DEF Validate
<1>13. ASSUME NEW p \in Publishers, ValidateFails(p) PROVE AgeInv'
  BY <1>13 DEF ValidateFails, Exit, Ended, Freed
<1>14. ASSUME NEW p \in Publishers, Copy(p) PROVE AgeInv'
  <2>1. /\ pub'[p].site.payload = files.payload
        /\ pub'[p].site.manifest = files.manifest
        /\ pub'[p].pc = "tree"
        /\ \A q \in Publishers \ {p} : pub'[q] = pub[q]
    BY <1>14 DEF Copy
  <2>2. UNCHANGED <<files, active, tip>> /\ pub[p].pc = "copy"
    BY <1>14 DEF Copy
  <2> QED
    BY <2>1, <2>2
<1>15. ASSUME NEW p \in Publishers, CopyIndex(p) PROVE AgeInv'
  BY <1>15 DEF CopyIndex
<1>16. ASSUME NEW p \in Publishers, CopyAssets(p) PROVE AgeInv'
  BY <1>16 DEF CopyAssets
<1>17. ASSUME NEW p \in Publishers, Unchanged(p) PROVE AgeInv'
  BY <1>17 DEF Unchanged, Exit, Ended, Freed
<1>18. ASSUME NEW p \in Publishers, Push(p) PROVE AgeInv'
  BY <1>18 DEF Push, Land, Accepts
<1>19. ASSUME NEW p \in Publishers, PushRefused(p) PROVE AgeInv'
  BY <1>19 DEF PushRefused, Retry, Exit, Ended, Freed
<1>20. ASSUME NEW p \in Publishers, PushFails(p) PROVE AgeInv'
  BY <1>20 DEF PushFails, Fault, Retry, Exit, Ended, Freed, Land, Accepts
<1>21. ASSUME NEW p \in Publishers, Record(p) PROVE AgeInv'
  BY <1>21 DEF Record, Exit, Ended, Freed
<1>22. ASSUME NEW p \in Publishers, Dies(p) PROVE AgeInv'
  BY <1>22 DEF Dies, Fault, Working, Ended, Freed
<1>23. CASE Deploy
  BY <1>23 DEF Deploy
<1>24. CASE ForeignPush
  BY <1>24 DEF ForeignPush
<1>25. CASE Begin
  BY <1>25 DEF Begin
<1>26. CASE Exchange
  BY <1>26 DEF Exchange
<1>27. CASE NotInstalled
  BY <1>27 DEF NotInstalled
<1>28. CASE SaveResult
  BY <1>28 DEF SaveResult
<1>29. CASE StartPublisher
  BY <1>29 DEF StartPublisher
<1>30. CASE Published
  BY <1>30 DEF Published
<1>31. CASE VerifyBranch
  BY <1>31 DEF VerifyBranch, OnBranch
<1>32. CASE VerifyPublic
  BY <1>32 DEF VerifyPublic
<1>33. CASE Rollback
  BY <1>33 DEF Rollback
<1>34. CASE ReleaseFails
  BY <1>34 DEF ReleaseFails, Stopped, AllFreed, Freed
<1>35. CASE ReleaseDies
  BY <1>35 DEF ReleaseDies, Fault, Stopped, AllFreed, Freed
<1>36. CASE UNCHANGED vars
  BY <1>36 DEF vars
<1> QED
  BY <1>1, <1>2, <1>3, <1>4, <1>5, <1>6, <1>7, <1>8, <1>9, <1>10, <1>11,
     <1>12, <1>13, <1>14, <1>15, <1>16, <1>17, <1>18, <1>19, <1>20, <1>21,
     <1>22, <1>23, <1>24, <1>25, <1>26, <1>27, <1>28, <1>29, <1>30, <1>31,
     <1>32, <1>33, <1>34, <1>35, <1>36 DEF Next, Cycle, Publish, Release

(* Only a release under the pages lock changes the app of the web root. *)
LEMMA RelStep == TypeOK /\ LockInv /\ SiteInv /\ RelInv /\ [Next]_vars => RelInv'
<1> SUFFICES ASSUME TypeOK /\ LockInv /\ SiteInv /\ RelInv, [Next]_vars PROVE RelInv'
  OBVIOUS
<1> USE DEF host, remote, bounds, NoFault, LockInv, Holding, SiteInv, RelInv,
     Installed, Target, Carries, ReleaseHonest, TypeOK, PubStates, RelStates,
     Commit, Content, NoRelease, NoSite, Publishers
<1>1. CASE Write
  BY <1>1 DEF Write, Rebuilt
<1>2. CASE Seal
  BY <1>2 DEF Seal, Sealed
<1>3. CASE Promote
  BY <1>3 DEF Promote, Rebuilt
<1>4. CASE Promoted
  BY <1>4 DEF Promoted, Sealed
<1>5. CASE PromotionDies
  BY <1>5 DEF PromotionDies, Fault
<1>6. ASSUME NEW p \in Publishers, LockPages(p) PROVE RelInv'
  BY <1>6 DEF LockPages, PagesFree
<1>7. ASSUME NEW p \in Publishers, Defer(p) PROVE RelInv'
  BY <1>7 DEF Defer, Exit, Ended, Freed
<1>8. ASSUME NEW p \in Publishers, Fetch(p) PROVE RelInv'
  BY <1>8 DEF Fetch
<1>9. ASSUME NEW p \in Publishers, FetchFails(p) PROVE RelInv'
  BY <1>9 DEF FetchFails, Fault, Onward
<1>10. ASSUME NEW p \in Publishers, GateOpens(p) PROVE RelInv'
  BY <1>10 DEF GateOpens, Proceed, Onward
<1>11. ASSUME NEW p \in Publishers, GateMisses(p) PROVE RelInv'
  BY <1>11 DEF GateMisses, Proceed, Onward, Exit, Ended, Freed
<1>12. ASSUME NEW p \in Publishers, Validate(p) PROVE RelInv'
  BY <1>12 DEF Validate
<1>13. ASSUME NEW p \in Publishers, ValidateFails(p) PROVE RelInv'
  BY <1>13 DEF ValidateFails, Exit, Ended, Freed
<1>14. ASSUME NEW p \in Publishers, Copy(p) PROVE RelInv'
  BY <1>14 DEF Copy, Freed
<1>15. ASSUME NEW p \in Publishers, CopyIndex(p) PROVE RelInv'
  BY <1>15 DEF CopyIndex
<1>16. ASSUME NEW p \in Publishers, CopyAssets(p) PROVE RelInv'
  BY <1>16 DEF CopyAssets
<1>17. ASSUME NEW p \in Publishers, Unchanged(p) PROVE RelInv'
  BY <1>17 DEF Unchanged, Exit, Ended, Freed
<1>18. ASSUME NEW p \in Publishers, Push(p) PROVE RelInv'
  BY <1>18 DEF Push, Land, Accepts
<1>19. ASSUME NEW p \in Publishers, PushRefused(p) PROVE RelInv'
  BY <1>19 DEF PushRefused, Retry, Exit, Ended, Freed
<1>20. ASSUME NEW p \in Publishers, PushFails(p) PROVE RelInv'
  BY <1>20 DEF PushFails, Fault, Retry, Exit, Ended, Freed, Land, Accepts
<1>21. ASSUME NEW p \in Publishers, Record(p) PROVE RelInv'
  BY <1>21 DEF Record, Exit, Ended, Freed
<1>22. ASSUME NEW p \in Publishers, Dies(p) PROVE RelInv'
  BY <1>22 DEF Dies, Fault, Working, Ended, Freed
<1>23. CASE Deploy
  BY <1>23 DEF Deploy
<1>24. CASE ForeignPush
  BY <1>24 DEF ForeignPush
<1>25. CASE Begin
  BY <1>25 DEF Begin
<1>26. CASE Exchange
  BY <1>26 DEF Exchange
<1>27. CASE NotInstalled
  BY <1>27 DEF NotInstalled
<1>28. CASE SaveResult
  BY <1>28 DEF SaveResult
<1>29. CASE StartPublisher
  BY <1>29 DEF StartPublisher
<1>30. CASE Published
  BY <1>30 DEF Published
<1>31. CASE VerifyBranch
  BY <1>31 DEF VerifyBranch, OnBranch
<1>32. CASE VerifyPublic
  BY <1>32 DEF VerifyPublic
<1>33. CASE Rollback
  BY <1>33 DEF Rollback
<1>34. CASE ReleaseFails
  BY <1>34 DEF ReleaseFails, Stopped, AllFreed, Freed
<1>35. CASE ReleaseDies
  BY <1>35 DEF ReleaseDies, Fault, Stopped, AllFreed, Freed
<1>36. CASE UNCHANGED vars
  BY <1>36 DEF vars
<1> QED
  BY <1>1, <1>2, <1>3, <1>4, <1>5, <1>6, <1>7, <1>8, <1>9, <1>10, <1>11,
     <1>12, <1>13, <1>14, <1>15, <1>16, <1>17, <1>18, <1>19, <1>20, <1>21,
     <1>22, <1>23, <1>24, <1>25, <1>26, <1>27, <1>28, <1>29, <1>30, <1>31,
     <1>32, <1>33, <1>34, <1>35, <1>36 DEF Next, Cycle, Publish, Release

(* Every commit is counted, or stands for a fault, a foreign push or a stopped publisher. *)
LEMMA DepthStep == TypeOK /\ LockInv /\ RelInv /\ DepthInv /\ [Next]_vars => DepthInv'
<1> SUFFICES ASSUME TypeOK /\ LockInv /\ RelInv /\ DepthInv, [Next]_vars PROVE DepthInv'
  OBVIOUS
<1> USE ConstantsAssumption DEF host, remote, bounds, NoFault, LockInv,
     Holding, RelInv, Rooted, DepthInv, Slack, Stops, TypeOK, PubStates,
     RelStates, Commit, NoRelease, NoPub, Publishers
<1>1. CASE Write
  BY <1>1 DEF Write, Rebuilt
<1>2. CASE Seal
  BY <1>2 DEF Seal, Sealed
<1>3. CASE Promote
  BY <1>3 DEF Promote, Rebuilt
<1>4. CASE Promoted
  BY <1>4 DEF Promoted, Sealed
<1>5. CASE PromotionDies
  BY <1>5 DEF PromotionDies, Fault
<1>6. ASSUME NEW p \in Publishers, LockPages(p) PROVE DepthInv'
  BY <1>6 DEF LockPages, PagesFree
<1>7. ASSUME NEW p \in Publishers, Defer(p) PROVE DepthInv'
  BY <1>7 DEF Defer, Exit, Ended, Freed
<1>8. ASSUME NEW p \in Publishers, Fetch(p) PROVE DepthInv'
  BY <1>8 DEF Fetch
<1>9. ASSUME NEW p \in Publishers, FetchFails(p) PROVE DepthInv'
  BY <1>9 DEF FetchFails, Fault, Onward
<1>10. ASSUME NEW p \in Publishers, GateOpens(p) PROVE DepthInv'
  BY <1>10 DEF GateOpens, Proceed, Onward
<1>11. ASSUME NEW p \in Publishers, GateMisses(p) PROVE DepthInv'
  BY <1>11 DEF GateMisses, Proceed, Onward, Exit, Ended, Freed
<1>12. ASSUME NEW p \in Publishers, Validate(p) PROVE DepthInv'
  BY <1>12 DEF Validate
<1>13. ASSUME NEW p \in Publishers, ValidateFails(p) PROVE DepthInv'
  BY <1>13 DEF ValidateFails, Exit, Ended, Freed
<1>14. ASSUME NEW p \in Publishers, Copy(p) PROVE DepthInv'
  BY <1>14 DEF Copy, Freed
<1>15. ASSUME NEW p \in Publishers, CopyIndex(p) PROVE DepthInv'
  BY <1>15 DEF CopyIndex
<1>16. ASSUME NEW p \in Publishers, CopyAssets(p) PROVE DepthInv'
  BY <1>16 DEF CopyAssets
<1>17. ASSUME NEW p \in Publishers, Unchanged(p) PROVE DepthInv'
  BY <1>17 DEF Unchanged, Exit, Ended, Freed
<1>18. ASSUME NEW p \in Publishers, Push(p) PROVE DepthInv'
  <2>1. /\ pub'[p].pc = "record" /\ pub'[p].root = pub[p].root
        /\ \A q \in Publishers \ {p} : pub'[q] = pub[q]
    BY <1>18 DEF Push
  <2>2. tip'.depth = IF pub[p].root = "forced" THEN 1 ELSE tip.depth + 1
    BY <1>18 DEF Push, Land
  <2>3. pub[p].pc = "push" /\ pub[p].root \in {"no", "forced"}
    BY <1>18 DEF Push, Accepts
  <2>4. UNCHANGED <<count, rel, foreign, faults>>
    BY <1>18 DEF Push
  <2>5. \A q \in Publishers : pub[q].pc # "record"
    BY <2>3
  <2>6. Slack' = Slack /\ Slack \in Nat
    BY <2>4
  <2>7. tip.depth <= count + Slack /\ tip.depth \in Nat
    BY <2>5
  <2> QED
    BY <2>1, <2>2, <2>3, <2>4, <2>5, <2>6, <2>7
<1>19. ASSUME NEW p \in Publishers, PushRefused(p) PROVE DepthInv'
  BY <1>19 DEF PushRefused, Retry, Exit, Ended, Freed
<1>20. ASSUME NEW p \in Publishers, PushFails(p) PROVE DepthInv'
  BY <1>20 DEF PushFails, Fault, Retry, Exit, Ended, Freed, Land, Accepts
<1>21. ASSUME NEW p \in Publishers, Record(p) PROVE DepthInv'
  BY <1>21 DEF Record, Exit, Ended, Freed
<1>22. ASSUME NEW p \in Publishers, Dies(p) PROVE DepthInv'
  BY <1>22 DEF Dies, Fault, Working, Ended, Freed
<1>23. CASE Deploy
  BY <1>23 DEF Deploy
<1>24. CASE ForeignPush
  BY <1>24 DEF ForeignPush
<1>25. CASE Begin
  BY <1>25 DEF Begin
<1>26. CASE Exchange
  BY <1>26 DEF Exchange
<1>27. CASE NotInstalled
  BY <1>27 DEF NotInstalled
<1>28. CASE SaveResult
  BY <1>28 DEF SaveResult
<1>29. CASE StartPublisher
  BY <1>29 DEF StartPublisher
<1>30. CASE Published
  BY <1>30 DEF Published
<1>31. CASE VerifyBranch
  BY <1>31 DEF VerifyBranch, OnBranch
<1>32. CASE VerifyPublic
  BY <1>32 DEF VerifyPublic
<1>33. CASE Rollback
  BY <1>33 DEF Rollback
<1>34. CASE ReleaseFails
  BY <1>34 DEF ReleaseFails, Stopped, AllFreed, Freed
<1>35. CASE ReleaseDies
  BY <1>35 DEF ReleaseDies, Fault, Stopped, AllFreed, Freed
<1>36. CASE UNCHANGED vars
  BY <1>36 DEF vars
<1> QED
  BY <1>1, <1>2, <1>3, <1>4, <1>5, <1>6, <1>7, <1>8, <1>9, <1>10, <1>11,
     <1>12, <1>13, <1>14, <1>15, <1>16, <1>17, <1>18, <1>19, <1>20, <1>21,
     <1>22, <1>23, <1>24, <1>25, <1>26, <1>27, <1>28, <1>29, <1>30, <1>31,
     <1>32, <1>33, <1>34, <1>35, <1>36 DEF Next, Cycle, Publish, Release

-----------------------------------------------------------------------------
(* What follows. *)

LEMMA InitHolds == Init => IInv
<1> SUFFICES ASSUME Init PROVE IInv
  OBVIOUS
<1>1. files \in Files /\ tip \in Commit /\ public \in Commit
  BY NoneTypes DEF Init, Files, Commit, Content, NoSite
<1>2. TypeOK
  BY <1>1, NoneTypes, ConstantsAssumption DEF Init, TypeOK
<1>3. LockInv
  BY DEF Init, LockInv, Holding, NoPub, NoRelease, Publishers
<1>4. SiteInv /\ AgeInv
  <2>1. /\ tip.site.index = tip.site.assets /\ tip.site.payload = tip.site.manifest
        /\ tip.site.manifest = files.manifest /\ files.manifest = files.payload
    BY DEF Init, NoSite
  <2>2. files.manifest \in Nat
    BY DEF Init
  <2>3. \A p \in Publishers : /\ pub[p].pc = "idle" /\ pub[p].attempt = 1
                              /\ pub[p].site.payload = pub[p].site.manifest
    BY DEF Init, NoPub, NoSite
  <2> QED
    BY <2>1, <2>2, <2>3 DEF SiteInv, AgeInv, HasSnapshot
<1>5. RelInv
  BY DEF Init, RelInv, ReleaseHonest, Installed, NoRelease
<1>6. DepthInv
  BY ConstantsAssumption DEF Init, DepthInv, Rooted, Slack, Stops, NoPub, NoRelease
<1> QED
  BY <1>2, <1>3, <1>4, <1>5, <1>6 DEF IInv

(* The invariant holds, whoever publishes, is killed or is refused.         *)
THEOREM Inductive == Spec => []IInv
<1>1. IInv /\ [Next]_vars => IInv'
  BY TypeStep, LockStep, SiteStep, AgeStep, RelStep, DepthStep DEF IInv
<1> QED
  BY InitHolds, <1>1, PTL DEF Spec

(* The variables stay in their types; the counter of publications never     *)
(* passes the ceiling.                                                      *)
THEOREM TypeCorrect == Spec => []TypeOK
<1>1. IInv => TypeOK
  BY DEF IInv
<1> QED
  BY <1>1, Inductive, PTL

(* The branch never mixes two apps or two builds.                           *)
THEOREM SiteCorrect == Spec => []WholeSite
<1>1. IInv => WholeSite
  BY DEF IInv, SiteInv, WholeSite
<1> QED
  BY <1>1, Inductive, PTL

(* What a release reports is so, and stays so until the next one.           *)
THEOREM ReleaseCorrect == Spec => []ReleaseHonest
<1>1. IInv => ReleaseHonest
  BY DEF IInv, RelInv
<1> QED
  BY <1>1, Inductive, PTL

(* The history of the branch is bounded, whatever push was refused or lost  *)
(* its answer: the ceiling, and the commits nobody could count.             *)
THEOREM HistoryCorrect == Spec => []HistoryBounded
<1>1. IInv => HistoryBounded
  <2> SUFFICES ASSUME IInv PROVE HistoryBounded
    OBVIOUS
  <2> USE ConstantsAssumption DEF IInv, TypeOK, RelStates, Commit, DepthInv, Rooted, PubStates
  <2>1. Slack <= foreign + faults + 2 * rel.cand /\ Slack \in Int
    BY DEF Slack, Stops
  <2>2. CASE \A p \in Publishers : pub[p].pc # "record"
    BY <2>1, <2>2 DEF HistoryBounded
  <2>3. ASSUME NEW p \in Publishers, pub[p].pc = "record" PROVE HistoryBounded
    <3>1. pub[p].root = "no" => count + 1 <= Ceiling /\ tip.depth <= count + 1 + Slack
      BY <2>3
    <3>2. pub[p].root # "no" => 1 <= Ceiling /\ tip.depth <= 1 + Slack
      BY <2>3
    <3> QED
      BY <2>1, <3>1, <3>2 DEF HistoryBounded
  <2> QED
    BY <2>2, <2>3
<1> QED
  BY <1>1, Inductive, PTL

(* No push of a kept snapshot takes the data of the branch back.            *)
THEOREM AgeCorrect == Spec => NeverOlder
<1>1. IInv /\ [Next]_vars => [tip'.site.manifest >= tip.site.manifest]_vars
  <2> SUFFICES ASSUME IInv, Next PROVE tip'.site.manifest >= tip.site.manifest
    BY DEF vars, remote
  <2> USE DEF IInv, TypeOK, PubStates, Commit, Content, AgeInv, HasSnapshot
  <2>1. ASSUME NEW p \in Publishers, Land(p), pub[p].pc = "push"
        PROVE  tip'.site.manifest >= tip.site.manifest
    BY <2>1 DEF Land
  <2>2. CASE ForeignPush
    BY <2>2 DEF ForeignPush
  <2>3. tip' = tip => tip'.site.manifest >= tip.site.manifest
    OBVIOUS
  <2>4. ASSUME NEW p \in Publishers, Push(p) \/ PushFails(p)
        PROVE  tip'.site.manifest >= tip.site.manifest
    BY <2>1, <2>3, <2>4 DEF Push, PushFails
  <2>5. ASSUME NEW p \in Publishers, Publish(p), ~Push(p) PROVE tip' = tip
    BY <2>5 DEF Publish, LockPages, Defer, Fetch, GateOpens, GateMisses, Validate,
                ValidateFails, Copy, CopyIndex, CopyAssets, Unchanged, PushRefused, Record,
                host, remote
  <2>6. CASE Release
    BY <2>6 DEF Release, Begin, Exchange, NotInstalled, SaveResult, StartPublisher, Published,
                VerifyBranch, VerifyPublic, ReleaseFails, Rollback, host, remote
  <2>7. CASE Write \/ Seal \/ Promote \/ Promoted \/ Deploy \/ PromotionDies \/ ReleaseDies
    BY <2>7 DEF Write, Seal, Promote, Promoted, Deploy, PromotionDies, ReleaseDies, host, remote
  <2>8. ASSUME NEW p \in Publishers, FetchFails(p) \/ Dies(p) PROVE tip' = tip
    BY <2>8 DEF FetchFails, Dies, host, remote
  <2>9. "cycle" \in Publishers /\ "direct" \in Publishers
    BY DEF Publishers
  <2> QED
    BY <2>2, <2>3, <2>4, <2>5, <2>6, <2>7, <2>8, <2>9 DEF Next, Cycle
<1> QED
  BY <1>1, Inductive, PTL DEF NeverOlder, Spec

=============================================================================

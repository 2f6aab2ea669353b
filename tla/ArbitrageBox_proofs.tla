---------------------------- MODULE ArbitrageBox_proofs ----------------------------
(***************************************************************************)
(* Proofs about ArbitrageBox: trust only in whole boxes, nothing left      *)
(* behind, and the refinement of HeldStructure, for any number of legs,    *)
(* any size, any choice of legs without a bid and any number of tries.     *)
(***************************************************************************)
EXTENDS ArbitrageBox, TLAPS

(* A leg nothing was sold of has its full size. *)
WholeUnlessSold ==
    \A l \in Legs : leg[l].state \in {"open", "settled"} /\ ~leg[l].lots =>
        leg[l].held = Size

(* Only a placement that ended well has trusted legs. *)
TrustOnlyPlaced == scan.pc # "placed" => \A l \in Legs : leg[l].group # "box"

(* A booked leg has a group. *)
BookedHasGroup == \A l \in Legs : leg[l].state # "none" => leg[l].group # "none"

(* What a closer holds was an open leg of an untrusted group. *)
ReadsUntrusted ==
    \A c \in Closers : read[c] # NoRead =>
        /\ read[c].at \in Legs
        /\ read[c].row.state = "open"
        /\ read[c].row.group = "pending"

(* The scan holds a row exactly while it closes it. *)
ScanReads == read["scan"] # NoRead <=> scan.pc = "closing"

(* Containment has ended every leg before the one it is at. *)
ContainedSoFar ==
    /\ scan.pc \in {"contain", "closing"} =>
          \A l \in Legs : l < scan.at => leg[l].state # "open"
    /\ scan.pc = "contained" => \A l \in Legs : leg[l].state # "open"

(* While booking, the leg at hand exists. *)
BookingInRange == scan.pc = "book" => scan.at \in Legs

IInv ==
    /\ TypeOK
    /\ TrustedIsWhole
    /\ WholeUnlessSold
    /\ TrustOnlyPlaced
    /\ BookedHasGroup
    /\ ReadsUntrusted
    /\ ContainedSoFar
    /\ BookingInRange
    /\ ScanReads

-----------------------------------------------------------------------------
USE CountAssumption, SizeAssumption, TriesAssumption DEF Legs, Groups, Row, Closers

-----------------------------------------------------------------------------
(* What the program makes of a row is a row. *)

LEMMA NewRows == NoLeg \in Row /\ Booked \in Row
  BY DEF NoLeg, Booked

LEMMA Regrouped ==
    ASSUME NEW r \in Row, NEW g \in Groups
    PROVE  [r EXCEPT !.group = g] \in Row
  OBVIOUS

LEMMA Trusted ==
    ASSUME NEW r \in Row
    PROVE  [r EXCEPT !.group = "box"] \in Row
  OBVIOUS

LEMMA Restated ==
    ASSUME NEW r \in Row
    PROVE  [r EXCEPT !.state = "settled"] \in Row
  OBVIOUS

LEMMA ClosedTyped ==
    ASSUME NEW r \in Row, NEW sold \in 1..r.held
    PROVE  /\ ClosedLeg(r, sold) \in Row
           /\ ClosedLeg(r, sold).group = r.group
           /\ ClosedLeg(r, sold).state \in {r.state, "closed"}
           /\ ClosedLeg(r, sold).state # "closed" => ClosedLeg(r, sold).lots
  <1>1. CASE sold = r.held
    <2>1. \A h \in 0..Size : /\ [r EXCEPT !.state = "closed", !.held = h] \in Row
                            /\ [r EXCEPT !.state = "closed", !.held = h].group = r.group
                            /\ [r EXCEPT !.state = "closed", !.held = h].state = "closed"
      OBVIOUS
    <2>2. 0 \in 0..Size
      OBVIOUS
    <2>3. ClosedLeg(r, sold) = [r EXCEPT !.state = "closed", !.held = 0]
      BY <1>1 DEF ClosedLeg
    <2>4. QED
      BY <2>1, <2>2, <2>3
  <1>2. CASE sold # r.held
    <2>1. r.held - sold \in 0..Size
      OBVIOUS
    <2>2. \A h \in 0..Size : /\ [r EXCEPT !.held = h, !.lots = TRUE] \in Row
                            /\ [r EXCEPT !.held = h, !.lots = TRUE].group = r.group
                            /\ [r EXCEPT !.held = h, !.lots = TRUE].state = r.state
                            /\ [r EXCEPT !.held = h, !.lots = TRUE].lots
      OBVIOUS
    <2>3. ClosedLeg(r, sold) = [r EXCEPT !.held = r.held - sold, !.lots = TRUE]
      BY <1>2 DEF ClosedLeg
    <2>4. QED
      BY <2>1, <2>2, <2>3
  <1>3. QED
    BY <1>1, <1>2

LEMMA PlacementTyped ==
    ASSUME NEW pc \in Stages, NEW n \in 1..(Count + 1)
    PROVE  [pc |-> pc, at |-> n, tries |-> 0] \in Placement
  <1>1. \A t \in 0..MaxTries : [pc |-> pc, at |-> n, tries |-> t] \in Placement
    BY DEF Placement
  <1>2. 0 \in 0..MaxTries
    OBVIOUS
  <1>3. QED
    BY <1>1, <1>2

-----------------------------------------------------------------------------
(* Each action preserves the invariant. *)

LEMMA BookInv == IInv /\ Book => IInv'
  <1> SUFFICES ASSUME IInv /\ Book PROVE IInv'
    OBVIOUS
  <1> USE DEF IInv, Book, Booked, ScanGoes
  <1>1. TypeOK'
    <2>1. leg' \in [Legs -> Row]
      BY NewRows DEF TypeOK
    <2>2. scan.at \in 1..Count /\ scan.at + 1 \in 1..(Count + 1)
      BY DEF BookingInRange
    <2>3. scan' \in Placement
      BY <2>2, PlacementTyped DEF Stages
    <2>4. QED
      BY <2>1, <2>3 DEF TypeOK
  <1>2. TrustedIsWhole'
    BY DEF TypeOK, Placement, Stages, TrustedIsWhole, TrustOnlyPlaced, BookingInRange
  <1>3. WholeUnlessSold'
    BY DEF TypeOK, Placement, Stages, WholeUnlessSold
  <1>4. TrustOnlyPlaced'
    BY DEF TypeOK, Placement, Stages, TrustOnlyPlaced
  <1>5. BookedHasGroup'
    BY DEF TypeOK, Placement, Stages, BookedHasGroup
  <1>6. ReadsUntrusted'
    BY DEF TypeOK, Placement, Stages, ReadsUntrusted
  <1>7. ContainedSoFar'
    BY DEF TypeOK, Placement, Stages, ContainedSoFar
  <1>8. BookingInRange'
    BY DEF TypeOK, Placement, Stages, BookingInRange
  <1>9. ScanReads'
    BY DEF TypeOK, Placement, Stages, ReadsUntrusted, ScanReads, NoRead
  <1> QED
    BY <1>1, <1>2, <1>3, <1>4, <1>5, <1>6, <1>7, <1>8, <1>9

LEMMA BookRefusedInv == IInv /\ BookRefused => IInv'
  <1> SUFFICES ASSUME IInv /\ BookRefused PROVE IInv'
    OBVIOUS
  <1> USE DEF IInv, BookRefused, ScanGoes
  <1>1. TypeOK'
    <2>1. 1 \in 1..(Count + 1)
      BY DEF TypeOK, Placement
    <2>2. scan' \in Placement
      BY <2>1, PlacementTyped DEF Stages
    <2>3. QED
      BY <2>2 DEF TypeOK
  <1>2. TrustedIsWhole'
    BY DEF TypeOK, Placement, Stages, TrustedIsWhole
  <1>3. WholeUnlessSold'
    BY DEF TypeOK, Placement, Stages, WholeUnlessSold
  <1>4. TrustOnlyPlaced'
    BY DEF TypeOK, Placement, Stages, TrustOnlyPlaced
  <1>5. BookedHasGroup'
    BY DEF TypeOK, Placement, Stages, BookedHasGroup
  <1>6. ReadsUntrusted'
    BY DEF TypeOK, Placement, Stages, ReadsUntrusted
  <1>7. ContainedSoFar'
    BY DEF TypeOK, Placement, Stages, ContainedSoFar
  <1>8. BookingInRange'
    BY DEF TypeOK, Placement, Stages, BookingInRange
  <1>9. ScanReads'
    BY DEF TypeOK, Placement, Stages, ReadsUntrusted, ScanReads, NoRead
  <1> QED
    BY <1>1, <1>2, <1>3, <1>4, <1>5, <1>6, <1>7, <1>8, <1>9

LEMMA PromoteInv == IInv /\ Promote => IInv'
  <1> SUFFICES ASSUME IInv /\ Promote PROVE IInv'
    OBVIOUS
  <1> USE DEF IInv, Promote, Complete, ScanGoes
  <1>1. TypeOK'
    <2>1. \A l \in Legs : [leg[l] EXCEPT !.group = "box"] \in Row
      BY Trusted DEF TypeOK
    <2>2. leg' \in [Legs -> Row]
      BY <2>1
    <2>3. 1 \in 1..(Count + 1)
      OBVIOUS
    <2>4. scan' \in Placement
      BY <2>3, PlacementTyped DEF Stages
    <2>5. QED
      BY <2>2, <2>4 DEF TypeOK
  <1>2. TrustedIsWhole'
    BY DEF TypeOK, Placement, Stages, TrustedIsWhole, WholeUnlessSold
  <1>3. WholeUnlessSold'
    BY DEF TypeOK, Placement, Stages, WholeUnlessSold
  <1>4. TrustOnlyPlaced'
    BY DEF TypeOK, Placement, Stages, TrustOnlyPlaced
  <1>5. BookedHasGroup'
    BY DEF TypeOK, Placement, Stages, BookedHasGroup
  <1>6. ReadsUntrusted'
    BY DEF TypeOK, Placement, Stages, ReadsUntrusted
  <1>7. ContainedSoFar'
    BY DEF TypeOK, Placement, Stages, ContainedSoFar
  <1>8. BookingInRange'
    BY DEF TypeOK, Placement, Stages, BookingInRange
  <1>9. ScanReads'
    BY DEF TypeOK, Placement, Stages, ReadsUntrusted, ScanReads, NoRead
  <1> QED
    BY <1>1, <1>2, <1>3, <1>4, <1>5, <1>6, <1>7, <1>8, <1>9

LEMMA PromoteRefusedInv == IInv /\ PromoteRefused => IInv'
  <1> SUFFICES ASSUME IInv /\ PromoteRefused PROVE IInv'
    OBVIOUS
  <1> USE DEF IInv, PromoteRefused, ScanGoes
  <1>1. TypeOK'
    <2>1. 1 \in 1..(Count + 1)
      BY DEF TypeOK, Placement
    <2>2. scan' \in Placement
      BY <2>1, PlacementTyped DEF Stages
    <2>3. QED
      BY <2>2 DEF TypeOK
  <1>2. TrustedIsWhole'
    BY DEF TypeOK, Placement, Stages, TrustedIsWhole
  <1>3. WholeUnlessSold'
    BY DEF TypeOK, Placement, Stages, WholeUnlessSold
  <1>4. TrustOnlyPlaced'
    BY DEF TypeOK, Placement, Stages, TrustOnlyPlaced
  <1>5. BookedHasGroup'
    BY DEF TypeOK, Placement, Stages, BookedHasGroup
  <1>6. ReadsUntrusted'
    BY DEF TypeOK, Placement, Stages, ReadsUntrusted
  <1>7. ContainedSoFar'
    BY DEF TypeOK, Placement, Stages, ContainedSoFar
  <1>8. BookingInRange'
    BY DEF TypeOK, Placement, Stages, BookingInRange
  <1>9. ScanReads'
    BY DEF TypeOK, Placement, Stages, ReadsUntrusted, ScanReads, NoRead
  <1> QED
    BY <1>1, <1>2, <1>3, <1>4, <1>5, <1>6, <1>7, <1>8, <1>9

LEMMA NextLegInv == IInv /\ NextLeg => IInv'
  <1> SUFFICES ASSUME IInv /\ NextLeg PROVE IInv'
    OBVIOUS
  <1> USE DEF IInv, NextLeg, Contained, ScanGoes
  <1>1. TypeOK'
    <2>1. scan.at + 1 \in 1..(Count + 1)
      BY DEF TypeOK, Placement
    <2>2. scan' \in Placement
      BY <2>1, PlacementTyped DEF Stages
    <2>3. QED
      BY <2>2 DEF TypeOK
  <1>2. TrustedIsWhole'
    BY DEF TypeOK, Placement, Stages, TrustedIsWhole
  <1>3. WholeUnlessSold'
    BY DEF TypeOK, Placement, Stages, WholeUnlessSold
  <1>4. TrustOnlyPlaced'
    BY DEF TypeOK, Placement, Stages, TrustOnlyPlaced
  <1>5. BookedHasGroup'
    BY DEF TypeOK, Placement, Stages, BookedHasGroup
  <1>6. ReadsUntrusted'
    BY DEF TypeOK, Placement, Stages, ReadsUntrusted
  <1>7. ContainedSoFar'
    BY DEF TypeOK, Placement, Stages, ContainedSoFar
  <1>8. BookingInRange'
    BY DEF TypeOK, Placement, Stages, BookingInRange
  <1>9. ScanReads'
    BY DEF TypeOK, Placement, Stages, ReadsUntrusted, ScanReads, NoRead
  <1> QED
    BY <1>1, <1>2, <1>3, <1>4, <1>5, <1>6, <1>7, <1>8, <1>9

LEMMA ContainmentDoneInv == IInv /\ ContainmentDone => IInv'
  <1> SUFFICES ASSUME IInv /\ ContainmentDone PROVE IInv'
    OBVIOUS
  <1> USE DEF IInv, ContainmentDone, Degraded, ScanGoes
  <1>1. TypeOK'
    <2>1. leg' \in [Legs -> Row]
      BY Regrouped DEF TypeOK
    <2>2. 1 \in 1..(Count + 1)
      OBVIOUS
    <2>3. scan' \in Placement
      BY <2>2, PlacementTyped DEF Stages
    <2>4. QED
      BY <2>1, <2>3 DEF TypeOK
  <1>2. TrustedIsWhole'
    BY DEF TypeOK, Placement, Stages, TrustedIsWhole
  <1>3. WholeUnlessSold'
    BY DEF TypeOK, Placement, Stages, WholeUnlessSold
  <1>4. TrustOnlyPlaced'
    BY DEF TypeOK, Placement, Stages, TrustOnlyPlaced
  <1>5. BookedHasGroup'
    BY DEF TypeOK, Placement, Stages, BookedHasGroup
  <1>6. ReadsUntrusted'
    BY DEF TypeOK, Placement, Stages, ReadsUntrusted
  <1>7. ContainedSoFar'
    BY DEF TypeOK, Placement, Stages, ContainedSoFar
  <1>8. BookingInRange'
    BY DEF TypeOK, Placement, Stages, BookingInRange
  <1>9. ScanReads'
    BY DEF TypeOK, Placement, Stages, ReadsUntrusted, ScanReads, NoRead
  <1> QED
    BY <1>1, <1>2, <1>3, <1>4, <1>5, <1>6, <1>7, <1>8, <1>9

LEMMA ContainmentFailsInv == IInv /\ ContainmentFails => IInv'
  <1> SUFFICES ASSUME IInv /\ ContainmentFails PROVE IInv'
    OBVIOUS
  <1> USE DEF IInv, ContainmentFails, Degraded, ScanGoes
  <1>1. TypeOK'
    <2>1. leg' \in [Legs -> Row]
      BY Regrouped DEF TypeOK
    <2>2. 1 \in 1..(Count + 1)
      OBVIOUS
    <2>3. scan' \in Placement
      BY <2>2, PlacementTyped DEF Stages
    <2>4. QED
      BY <2>1, <2>3 DEF TypeOK
  <1>2. TrustedIsWhole'
    BY DEF TypeOK, Placement, Stages, TrustedIsWhole
  <1>3. WholeUnlessSold'
    BY DEF TypeOK, Placement, Stages, WholeUnlessSold
  <1>4. TrustOnlyPlaced'
    BY DEF TypeOK, Placement, Stages, TrustOnlyPlaced
  <1>5. BookedHasGroup'
    BY DEF TypeOK, Placement, Stages, BookedHasGroup
  <1>6. ReadsUntrusted'
    BY DEF TypeOK, Placement, Stages, ReadsUntrusted
  <1>7. ContainedSoFar'
    BY DEF TypeOK, Placement, Stages, ContainedSoFar
  <1>8. BookingInRange'
    BY DEF TypeOK, Placement, Stages, BookingInRange
  <1>9. ScanReads'
    BY DEF TypeOK, Placement, Stages, ReadsUntrusted, ScanReads, NoRead
  <1> QED
    BY <1>1, <1>2, <1>3, <1>4, <1>5, <1>6, <1>7, <1>8, <1>9

LEMMA ContainReadInv == IInv /\ ContainRead => IInv'
  <1> SUFFICES ASSUME IInv /\ ContainRead PROVE IInv'
    OBVIOUS
  <1> USE DEF IInv, ContainRead, Contained, NoRead
  <1>1. TypeOK'
    <2>1. scan' \in Placement
      <3>1. scan.tries + 1 \in 0..MaxTries
        BY DEF TypeOK, Placement
      <3>2. \A t \in 0..MaxTries : [scan EXCEPT !.pc = "closing", !.tries = t] \in Placement
        BY DEF TypeOK, Placement, Stages
      <3>3. QED
        BY <3>1, <3>2
    <2>2. read' \in [Closers -> [at : 0..Count, row : Row]]
      <3>1. [at |-> scan.at, row |-> leg[scan.at]] \in [at : 0..Count, row : Row]
        BY DEF TypeOK, Placement
      <3>2. QED
        BY <3>1 DEF TypeOK
    <2>3. QED
      BY <2>1, <2>2 DEF TypeOK
  <1>2. TrustedIsWhole'
    BY DEF TypeOK, Placement, Stages, TrustedIsWhole
  <1>3. WholeUnlessSold'
    BY DEF TypeOK, Placement, Stages, WholeUnlessSold
  <1>4. TrustOnlyPlaced'
    BY DEF TypeOK, Placement, Stages, TrustOnlyPlaced
  <1>5. BookedHasGroup'
    BY DEF TypeOK, Placement, Stages, BookedHasGroup
  <1>6. ReadsUntrusted'
    <2>1. /\ leg[scan.at].state = "open"
          /\ leg[scan.at].group = "pending"
      BY DEF TypeOK, Placement, Stages, TrustOnlyPlaced, BookedHasGroup
    <2>2. QED
      BY <2>1 DEF TypeOK, Placement, ReadsUntrusted
  <1>7. ContainedSoFar'
    BY DEF TypeOK, Placement, Stages, ContainedSoFar
  <1>8. BookingInRange'
    BY DEF TypeOK, Placement, Stages, BookingInRange
  <1>9. ScanReads'
    BY DEF TypeOK, Placement, Stages, ReadsUntrusted, ScanReads, NoRead
  <1> QED
    BY <1>1, <1>2, <1>3, <1>4, <1>5, <1>6, <1>7, <1>8, <1>9

LEMMA CrashInv == IInv /\ Crash => IInv'
  <1> SUFFICES ASSUME IInv /\ Crash PROVE IInv'
    OBVIOUS
  <1> USE DEF IInv, Crash, ScanGoes, NoRead
  <1>1. TypeOK'
    <2>1. read' \in [Closers -> [at : 0..Count, row : Row]]
      BY NewRows DEF TypeOK
    <2>2. 1 \in 1..(Count + 1)
      OBVIOUS
    <2>3. scan' \in Placement
      BY <2>2, PlacementTyped DEF Stages
    <2>4. QED
      BY <2>1, <2>3 DEF TypeOK
  <1>2. TrustedIsWhole'
    BY DEF TypeOK, Placement, Stages, TrustedIsWhole
  <1>3. WholeUnlessSold'
    BY DEF TypeOK, Placement, Stages, WholeUnlessSold
  <1>4. TrustOnlyPlaced'
    BY DEF TypeOK, Placement, Stages, TrustOnlyPlaced
  <1>5. BookedHasGroup'
    BY DEF TypeOK, Placement, Stages, BookedHasGroup
  <1>6. ReadsUntrusted'
    BY DEF TypeOK, Placement, Stages, ReadsUntrusted
  <1>7. ContainedSoFar'
    BY DEF TypeOK, Placement, Stages, ContainedSoFar
  <1>8. BookingInRange'
    BY DEF TypeOK, Placement, Stages, BookingInRange
  <1>9. ScanReads'
    BY DEF TypeOK, Placement, Stages, ReadsUntrusted, ScanReads, NoRead
  <1> QED
    BY <1>1, <1>2, <1>3, <1>4, <1>5, <1>6, <1>7, <1>8, <1>9

LEMMA ListInv == IInv /\ List => IInv'
  <1> SUFFICES ASSUME IInv /\ List PROVE IInv'
    OBVIOUS
  <1> USE DEF IInv, List, NoRead
  <1>1. TypeOK'
    BY DEF TypeOK
  <1>2. TrustedIsWhole'
    BY DEF TypeOK, Placement, Stages, TrustedIsWhole
  <1>3. WholeUnlessSold'
    BY DEF TypeOK, Placement, Stages, WholeUnlessSold
  <1>4. TrustOnlyPlaced'
    BY DEF TypeOK, Placement, Stages, TrustOnlyPlaced
  <1>5. BookedHasGroup'
    BY DEF TypeOK, Placement, Stages, BookedHasGroup
  <1>6. ReadsUntrusted'
    BY DEF TypeOK, Placement, Stages, ReadsUntrusted
  <1>7. ContainedSoFar'
    BY DEF TypeOK, Placement, Stages, ContainedSoFar
  <1>8. BookingInRange'
    BY DEF TypeOK, Placement, Stages, BookingInRange
  <1>9. ScanReads'
    BY DEF TypeOK, Placement, Stages, ReadsUntrusted, ScanReads, NoRead
  <1> QED
    BY <1>1, <1>2, <1>3, <1>4, <1>5, <1>6, <1>7, <1>8, <1>9

LEMMA SettleInv == IInv /\ Settle => IInv'
  <1> SUFFICES ASSUME IInv /\ Settle PROVE IInv'
    OBVIOUS
  <1> USE DEF IInv, Settle
  <1>1. TypeOK'
    <2>1. leg' \in [Legs -> Row]
      BY Restated DEF TypeOK
    <2>2. QED
      BY <2>1 DEF TypeOK
  <1>2. TrustedIsWhole'
    BY DEF TypeOK, Placement, Stages, TrustedIsWhole
  <1>3. WholeUnlessSold'
    BY DEF TypeOK, Placement, Stages, WholeUnlessSold
  <1>4. TrustOnlyPlaced'
    BY DEF TypeOK, Placement, Stages, TrustOnlyPlaced
  <1>5. BookedHasGroup'
    BY DEF TypeOK, Placement, Stages, BookedHasGroup
  <1>6. ReadsUntrusted'
    BY DEF TypeOK, Placement, Stages, ReadsUntrusted
  <1>7. ContainedSoFar'
    BY DEF TypeOK, Placement, Stages, ContainedSoFar
  <1>8. BookingInRange'
    BY DEF TypeOK, Placement, Stages, BookingInRange
  <1>9. ScanReads'
    BY DEF TypeOK, Placement, Stages, ReadsUntrusted, ScanReads, NoRead
  <1> QED
    BY <1>1, <1>2, <1>3, <1>4, <1>5, <1>6, <1>7, <1>8, <1>9

LEMMA MonitorReadInv ==
    ASSUME IInv, NEW l \in Legs, MonitorRead(l)
    PROVE  IInv'
  <1> USE DEF IInv, MonitorRead, Manages, NoRead
  <1>1. TypeOK'
    BY DEF TypeOK
  <1>2. TrustedIsWhole'
    BY DEF TypeOK, Placement, Stages, TrustedIsWhole
  <1>3. WholeUnlessSold'
    BY DEF TypeOK, Placement, Stages, WholeUnlessSold
  <1>4. TrustOnlyPlaced'
    BY DEF TypeOK, Placement, Stages, TrustOnlyPlaced
  <1>5. BookedHasGroup'
    BY DEF TypeOK, Placement, Stages, BookedHasGroup
  <1>6. ReadsUntrusted'
    BY DEF TypeOK, Placement, Stages, ReadsUntrusted
  <1>7. ContainedSoFar'
    BY DEF TypeOK, Placement, Stages, ContainedSoFar
  <1>8. BookingInRange'
    BY DEF TypeOK, Placement, Stages, BookingInRange
  <1>9. ScanReads'
    BY DEF TypeOK, Placement, Stages, ReadsUntrusted, ScanReads, NoRead
  <1> QED
    BY <1>1, <1>2, <1>3, <1>4, <1>5, <1>6, <1>7, <1>8, <1>9

LEMMA CloseRefusedInv ==
    ASSUME IInv, NEW c \in Closers, CloseRefused(c)
    PROVE  IInv'
  <1> USE DEF IInv, CloseRefused, AfterClose, NoRead
  <1>1. TypeOK'
    <2>1. read' \in [Closers -> [at : 0..Count, row : Row]]
      BY NewRows DEF TypeOK
    <2>2. scan' \in Placement
      BY DEF TypeOK, Placement, Stages
    <2>3. QED
      BY <2>1, <2>2 DEF TypeOK
  <1>2. TrustedIsWhole'
    BY DEF TypeOK, Placement, Stages, TrustedIsWhole
  <1>3. WholeUnlessSold'
    BY DEF TypeOK, Placement, Stages, WholeUnlessSold
  <1>4. TrustOnlyPlaced'
    BY DEF TypeOK, Placement, Stages, TrustOnlyPlaced, ScanReads
  <1>5. BookedHasGroup'
    BY DEF TypeOK, Placement, Stages, BookedHasGroup
  <1>6. ReadsUntrusted'
    BY DEF TypeOK, Placement, Stages, ReadsUntrusted
  <1>7. ContainedSoFar'
    BY DEF TypeOK, Placement, Stages, ContainedSoFar, ScanReads
  <1>8. BookingInRange'
    BY DEF TypeOK, Placement, Stages, BookingInRange, ScanReads
  <1>9. ScanReads'
    BY DEF TypeOK, Placement, Stages, ReadsUntrusted, ScanReads, NoRead
  <1> QED
    BY <1>1, <1>2, <1>3, <1>4, <1>5, <1>6, <1>7, <1>8, <1>9

(* What a guarded close finds: the leg is open, untrusted, and as it was read. *)
LEMMA CloseFinds ==
    ASSUME IInv, NEW c \in Closers, NEW sold \in 1..Size, Close(c, sold)
    PROVE  /\ read[c].at \in Legs
           /\ leg[read[c].at].state = "open"
           /\ leg[read[c].at].group = "pending"
           /\ sold \in 1..leg[read[c].at].held
           /\ \A l \in Legs : leg[l].group # "box"
  <1>1. /\ read[c].at \in Legs
        /\ leg[read[c].at].state = "open"
        /\ leg[read[c].at].group = "pending"
        /\ sold \in 1..leg[read[c].at].held
    BY DEF IInv, ReadsUntrusted, Close, Unchanged
  <1>2. QED
    BY <1>1 DEF IInv, TrustedIsWhole

LEMMA CloseInv ==
    ASSUME IInv, NEW c \in Closers, NEW sold \in 1..Size, Close(c, sold)
    PROVE  IInv'
  <1> DEFINE a == read[c].at
             now == ClosedLeg(leg[a], sold)
  <1>a. /\ a \in Legs
        /\ leg[a].state = "open"
        /\ leg[a].group = "pending"
        /\ leg[a] \in Row
        /\ sold \in 1..leg[a].held
        /\ \A l \in Legs : leg[l].group # "box"
    BY CloseFinds DEF IInv, TypeOK
  <1>b. /\ now \in Row
        /\ now.group = "pending"
        /\ now.state \in {"open", "closed"}
        /\ now.state # "closed" => now.lots
    BY <1>a, ClosedTyped
  <1>c. leg' = [leg EXCEPT ![a] = now]
    BY <1>a DEF Close, IInv, TypeOK
  <1>d. /\ read' = [read EXCEPT ![c] = NoRead]
        /\ look' = look
        /\ scan' = IF c = "scan" THEN [scan EXCEPT !.pc = "contain"] ELSE scan
    BY DEF Close, AfterClose
  <1>e. c = "scan" => scan.pc = "closing"
    BY DEF IInv, ScanReads, Close
  <1>f. read' = [read EXCEPT ![c] = NoRead]
    BY <1>d
  <1> HIDE DEF a, now
  <1> USE DEF IInv, NoRead
  <1>1. TypeOK'
    <2>1. leg' \in [Legs -> Row]
      BY <1>a, <1>b, <1>c DEF TypeOK
    <2>2. read' \in [Closers -> [at : 0..Count, row : Row]]
      BY <1>d, NewRows DEF TypeOK
    <2>3. QED
      BY <2>1, <2>2, <1>d DEF TypeOK, Placement, Stages
  <1>2. TrustedIsWhole'
    BY <1>a, <1>b, <1>c, <1>d DEF TypeOK, TrustedIsWhole
  <1>3. WholeUnlessSold'
    BY <1>a, <1>b, <1>c, <1>d DEF TypeOK, WholeUnlessSold
  <1>4. TrustOnlyPlaced'
    BY <1>a, <1>b, <1>c, <1>d DEF TypeOK, TrustOnlyPlaced
  <1>5. BookedHasGroup'
    BY <1>a, <1>b, <1>c, <1>d DEF TypeOK, BookedHasGroup
  <1>6. ReadsUntrusted'
    BY <1>a, <1>b, <1>c, <1>d DEF TypeOK, ReadsUntrusted
  <1>7. ContainedSoFar'
    BY <1>a, <1>b, <1>c, <1>d, <1>e DEF TypeOK, ContainedSoFar
  <1>8. BookingInRange'
    BY <1>a, <1>b, <1>c, <1>d DEF TypeOK, BookingInRange
  <1>9. ScanReads'
    BY <1>d, <1>e, <1>f DEF TypeOK, ReadsUntrusted, ScanReads
  <1> QED
    BY <1>1, <1>2, <1>3, <1>4, <1>5, <1>6, <1>7, <1>8, <1>9

LEMMA StutterInv == IInv /\ UNCHANGED vars => IInv'
  BY DEF IInv, vars, TypeOK, TrustedIsWhole, WholeUnlessSold, TrustOnlyPlaced,
         BookedHasGroup, ReadsUntrusted, ContainedSoFar, BookingInRange, ScanReads

(* The steps of the specification, one by one. *)
LEMMA StepCases ==
    ASSUME NEW ACTION P, [Next]_vars,
           Book => P, BookRefused => P, Promote => P, PromoteRefused => P, NextLeg => P,
           ContainmentDone => P, ContainmentFails => P, ContainRead => P, Crash => P,
           List => P, Settle => P, UNCHANGED vars => P,
           \A l \in Legs : MonitorRead(l) => P,
           \A c \in Closers : CloseRefused(c) => P,
           \A c \in Closers, sold \in 1..Size : Close(c, sold) => P
    PROVE  P
  BY DEF Next, Scan, Monitor

(* The invariant holds always: it is inductive. *)
THEOREM Inductive == Spec => []IInv
  <1>1. Init => IInv
    BY NewRows DEF Init, IInv, TypeOK, Placement, Stages, TrustedIsWhole, WholeUnlessSold, TrustOnlyPlaced,
         BookedHasGroup, ReadsUntrusted, ContainedSoFar, BookingInRange, ScanReads,
         NoLeg, NoRead
  <1>2. IInv /\ [Next]_vars => IInv'
    <2> SUFFICES ASSUME IInv, [Next]_vars PROVE IInv'
      OBVIOUS
    <2>1. \A l \in Legs : MonitorRead(l) => IInv'
      BY MonitorReadInv
    <2>2. \A c \in Closers : CloseRefused(c) => IInv'
      BY CloseRefusedInv
    <2>3. \A c \in Closers, sold \in 1..Size : Close(c, sold) => IInv'
      BY CloseInv
    <2>4. QED
      BY <2>1, <2>2, <2>3, StepCases, BookInv, BookRefusedInv, PromoteInv,
         PromoteRefusedInv, NextLegInv, ContainmentDoneInv, ContainmentFailsInv,
         ContainReadInv, CrashInv, ListInv, SettleInv, StutterInv
  <1>3. QED
    BY <1>1, <1>2, PTL DEF Spec

(* Rows, the scan, the monitor's list and what closers read keep their types. *)
THEOREM TypeCorrect == Spec => []TypeOK
  BY Inductive, PTL DEF IInv

(* The monitor never holds a leg of a box that is not whole. *)
THEOREM TrustedBoxesWhole == Spec => []TrustedIsWhole
  BY Inductive, PTL DEF IInv

(* Placement gives up with no leg open, or leaves it to the monitor. *)
THEOREM LegsAccountedFor == Spec => []NothingLeftBehind
  <1>1. IInv => NothingLeftBehind
    BY DEF IInv, NothingLeftBehind, ContainedSoFar, TrustOnlyPlaced, BookedHasGroup,
           TypeOK, Manages
  <1>2. QED
    BY <1>1, Inductive, PTL

-----------------------------------------------------------------------------
(* The refinement of HeldStructure. *)

LEMMA HeldTyped == IInv => HeldNow \in [Legs -> 0..Size]
  BY DEF IInv, TypeOK, HeldNow

(* A step before and after which no leg is trusted. *)
LEMMA UntrustedStep ==
    ASSUME IInv', ~TrustedNow, ~TrustedNow'
    PROVE  Structure!Manage
  <1>1. HeldNow' \in [Legs -> 0..Size]
    BY DEF IInv, TypeOK, HeldNow
  <1>2. TrustedNow' = TrustedNow
    BY DEF TrustedNow
  <1>3. QED
    BY <1>1, <1>2 DEF Structure!Manage

LEMMA PromoteTrusts ==
    ASSUME IInv, Promote
    PROVE  Structure!Trust
  <1>1. ~TrustedNow
    BY DEF TrustedNow, Promote, Complete
  <1>2. HeldNow = Structure!Whole
    BY DEF IInv, TypeOK, WholeUnlessSold, HeldNow, Structure!Whole, Promote, Complete
  <1>3. TrustedNow'
    <2>1. 1 \in Legs
      OBVIOUS
    <2>2. leg[1] \in Row /\ leg[1].state = "open"
      BY <2>1 DEF IInv, TypeOK, Promote, Complete
    <2>3. leg'[1] = [leg[1] EXCEPT !.group = "box"]
      BY <2>1 DEF Promote
    <2>4. leg'[1].state = "open" /\ leg'[1].group = "box"
      BY <2>2, <2>3
    <2>5. QED
      BY <2>1, <2>4 DEF TrustedNow
  <1>4. HeldNow' = HeldNow
    BY DEF IInv, TypeOK, HeldNow, Promote, Complete
  <1>5. QED
    BY <1>1, <1>2, <1>3, <1>4 DEF Structure!Trust

LEMMA SettleSettles ==
    ASSUME IInv, IInv', Settle
    PROVE  Structure!SettleWhole \/ Structure!Manage
  <1>1. ~TrustedNow' /\ HeldNow' = Structure!None
    BY DEF IInv, TypeOK, TrustedNow, HeldNow, Structure!None, Settle
  <1>2. CASE TrustedNow
    BY <1>1, <1>2 DEF Structure!SettleWhole
  <1>3. CASE ~TrustedNow
    BY <1>1, <1>3, UntrustedStep
  <1>4. QED
    BY <1>2, <1>3

LEMMA SettleUntrusts ==
    ASSUME IInv, IInv', Settle
    PROVE  [Structure!Next]_<<HeldNow, TrustedNow>>
  BY SettleSettles DEF Structure!Next

(* Closing a leg, which its guard lets happen only to an untrusted one. *)
LEMMA CloseManages ==
    ASSUME IInv, IInv', NEW c \in Closers, NEW sold \in 1..Size, Close(c, sold)
    PROVE  Structure!Manage
  <1>1. \A l \in Legs : leg[l].group # "box"
    BY CloseFinds
  <1>2. \A l \in Legs : leg'[l].group # "box"
    <2> DEFINE a == read[c].at
               now == ClosedLeg(leg[a], sold)
    <2>1. a \in Legs /\ leg[a] \in Row /\ sold \in 1..leg[a].held
      BY CloseFinds DEF IInv, TypeOK
    <2>2. now.group = leg[a].group
      BY <2>1, ClosedTyped
    <2>3. leg' = [leg EXCEPT ![a] = now]
      BY <2>1 DEF Close, IInv, TypeOK
    <2> HIDE DEF now
    <2>4. QED
      BY <1>1, <2>1, <2>2, <2>3 DEF IInv, TypeOK
  <1>3. QED
    BY <1>1, <1>2, UntrustedStep DEF TrustedNow

(* Booking and containment: no leg is trusted before or after. *)
LEMMA ScanManages ==
    ASSUME IInv, IInv', Book \/ ContainmentDone \/ ContainmentFails
    PROVE  Structure!Manage
  <1>1. \A l \in Legs : leg[l].group # "box"
    BY DEF IInv, TrustOnlyPlaced, Book, ContainmentDone, ContainmentFails
  <1>2. scan'.pc # "placed"
    BY DEF Book, ContainmentDone, ContainmentFails, ScanGoes
  <1>3. \A l \in Legs : leg'[l].group # "box"
    BY <1>2 DEF IInv, TrustOnlyPlaced
  <1>4. QED
    BY <1>1, <1>3, UntrustedStep DEF TrustedNow

LEMMA SameLegs ==
    ASSUME UNCHANGED leg
    PROVE  UNCHANGED <<HeldNow, TrustedNow>>
  BY DEF HeldNow, TrustedNow

(* A step of the structure, or none. *)
Simulated == [Structure!Next]_<<HeldNow, TrustedNow>>

LEMMA RefinesStep ==
    ASSUME IInv, IInv', [Next]_vars
    PROVE  Simulated
  <1>1. UNCHANGED leg => Simulated
    BY SameLegs DEF Simulated
  <1>2. /\ BookRefused => Simulated
        /\ PromoteRefused => Simulated
        /\ NextLeg => Simulated
        /\ ContainRead => Simulated
        /\ Crash => Simulated
        /\ List => Simulated
    BY <1>1
       DEF BookRefused, PromoteRefused, NextLeg, ContainRead, Crash, List
  <1>3. /\ UNCHANGED vars => Simulated
        /\ \A l \in Legs : MonitorRead(l) => Simulated
        /\ \A c \in Closers : CloseRefused(c) => Simulated
    BY <1>1 DEF vars, MonitorRead, CloseRefused
  <1>4. /\ Book => Simulated
        /\ ContainmentDone => Simulated
        /\ ContainmentFails => Simulated
    BY ScanManages DEF Simulated, Structure!Next
  <1>5. Promote => Simulated
    BY PromoteTrusts DEF Simulated, Structure!Next
  <1>6. Settle => Simulated
    BY SettleUntrusts DEF Simulated
  <1>7. \A c \in Closers, sold \in 1..Size : Close(c, sold) => Simulated
    BY CloseManages DEF Simulated, Structure!Next
  <1>8. QED
    BY <1>2, <1>3, <1>4, <1>5, <1>6, <1>7, StepCases

(* Every behaviour of the rows is one of a structure that is trusted only    *)
(* whole and then held leg for leg to settlement.                            *)
THEOREM Refines == Spec => HeldToSettlement
  <1>1. Init => Structure!Init
    BY DEF Init, NoLeg, Structure!Init, Structure!None, HeldNow, TrustedNow
  <1>2. IInv /\ IInv' /\ [Next]_vars => [Structure!Next]_<<HeldNow, TrustedNow>>
    BY RefinesStep DEF Simulated
  <1>3. QED
    BY <1>1, <1>2, Inductive, PTL DEF Spec, HeldToSettlement, Structure!Spec

=============================================================================

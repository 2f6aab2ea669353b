------------------------------- MODULE ArbitrageBox -------------------------------
(***************************************************************************)
(* One arbitrage portfolio: the scan books its legs one transaction at a   *)
(* time as a degraded group, promotes the complete box to a guaranteed     *)
(* group in one statement, and otherwise closes what it booked.  The paper *)
(* monitor, another process, closes legs of groups it does not trust, in   *)
(* whole or in part, from rows it read some time before; settlement ends   *)
(* every open leg of the date at once.                                     *)
(*                                                                         *)
(* Every leg is an immediate fill (place_arbitrage gives no resting        *)
(* status).  The operator's paper-close command, which closes any order on *)
(* demand, and the money of the legs (module PaperBook) are left out.      *)
(***************************************************************************)
EXTENDS Integers

CONSTANTS
    Count,      \* how many legs the opportunity has
    Size,       \* contracts of each leg
    HasBid,     \* whether a leg has a bid it can be closed at again
    MaxTries    \* how often containment tries a leg: 5 in the code

ASSUME CountAssumption == Count \in Nat \ {0}
ASSUME SizeAssumption == Size \in Nat \ {0}
ASSUME TriesAssumption == MaxTries \in Nat \ {0}

Legs == 1..Count

VARIABLES
    leg,    \* the row of each leg
    scan,   \* place_arbitrage: where it is
    look,   \* the monitor's listing of open rows: the group of each leg in it
    read    \* the row a closer read inside close_paper_order, by closer

vars == <<leg, scan, look, read>>

-----------------------------------------------------------------------------
Groups == {"none", "pending", "box"}

Row == [state : {"none", "open", "closed", "settled"}, group : Groups,
        held : 0..Size, lots : BOOLEAN]

Stages == {"book", "promote", "contain", "closing", "placed", "contained", "fatal", "dead"}

Placement == [pc : Stages, at : 1..(Count + 1), tries : 0..MaxTries]

NoLeg == [state |-> "none", group |-> "none", held |-> 0, lots |-> FALSE]

Booked == [state |-> "open", group |-> "pending", held |-> Size, lots |-> FALSE]

NoRead == [at |-> 0, row |-> NoLeg]

Closers == {"scan", "monitor"}

Init ==
    /\ leg = [l \in Legs |-> NoLeg]
    /\ scan = [pc |-> "book", at |-> 1, tries |-> 0]
    /\ look = [l \in Legs |-> "none"]
    /\ read = [c \in Closers |-> NoRead]

ScanGoes(pc, at) == scan' = [pc |-> pc, at |-> at, tries |-> 0]

-----------------------------------------------------------------------------
(* place_arbitrage *)

Book ==
    /\ scan.pc = "book"
    /\ leg' = [leg EXCEPT ![scan.at] = Booked]
    /\ IF scan.at = Count THEN ScanGoes("promote", 1) ELSE ScanGoes("book", scan.at + 1)
    /\ UNCHANGED <<look, read>>

(* The guard index refuses the leg, or the database raises: what was booked *)
(* is to be contained.                                                      *)
BookRefused ==
    /\ scan.pc = "book"
    /\ ScanGoes("contain", 1)
    /\ UNCHANGED <<leg, look, read>>

Complete ==
    \A l \in Legs : /\ leg[l].group = "pending"
                    /\ leg[l].state = "open"
                    /\ ~leg[l].lots

Promote ==
    /\ scan.pc = "promote"
    /\ Complete
    /\ leg' = [l \in Legs |-> [leg[l] EXCEPT !.group = "box"]]
    /\ ScanGoes("placed", 1)
    /\ UNCHANGED <<look, read>>

(* A leg changed before promotion, or the database raises. *)
PromoteRefused ==
    /\ scan.pc = "promote"
    /\ ScanGoes("contain", 1)
    /\ UNCHANGED <<leg, look, read>>

-----------------------------------------------------------------------------
(* _compensate_partial_arbitrage *)

\* Mutant: a leg that was sold in part counts as closed.
ContainedInPart(l) == leg[l].state # "open" \/ leg[l].lots

Contained(l) == leg[l].state # "open"

(* The leg is done with: the next one that was booked, or the end. *)
NextLeg ==
    /\ scan.pc = "contain"
    /\ scan.at <= Count
    /\ Contained(scan.at)
    /\ ScanGoes("contain", scan.at + 1)
    /\ UNCHANGED <<leg, look, read>>

(* mark_arbitrage_group_degraded renames the group of every booked leg.     *)
Degraded == [l \in Legs |-> IF leg[l].state = "none" THEN leg[l]
                            ELSE [leg[l] EXCEPT !.group = "pending"]]

ContainmentDone ==
    /\ scan.pc = "contain"
    /\ scan.at > Count
    /\ leg' = Degraded
    /\ ScanGoes("contained", 1)
    /\ UNCHANGED <<look, read>>

(* No bid to sell into, or no try left: ArbitrageContainmentError. *)
ContainmentFails ==
    /\ scan.pc = "contain"
    /\ scan.at <= Count
    /\ ~Contained(scan.at)
    /\ ~HasBid[scan.at] \/ scan.tries = MaxTries
    /\ leg' = Degraded
    /\ ScanGoes("fatal", 1)
    /\ UNCHANGED <<look, read>>

ContainRead ==
    /\ scan.pc = "contain"
    /\ scan.at <= Count
    /\ ~Contained(scan.at)
    /\ HasBid[scan.at]
    /\ scan.tries < MaxTries
    /\ scan' = [scan EXCEPT !.pc = "closing", !.tries = @ + 1]
    /\ read' = [read EXCEPT !["scan"] = [at |-> scan.at, row |-> leg[scan.at]]]
    /\ UNCHANGED <<leg, look>>

(* The scan process dies, or the database raises inside containment, which   *)
(* catches only refused closes; what was committed stays.                   *)
Crash ==
    /\ scan.pc \in {"book", "promote", "contain", "closing"}
    /\ ScanGoes("dead", 1)
    /\ read' = [read EXCEPT !["scan"] = NoRead]
    /\ UNCHANGED <<leg, look>>

-----------------------------------------------------------------------------
(* The monitor. *)

(* open_paper_orders: the rows the pass will act upon. *)
List ==
    /\ read["monitor"] = NoRead
    /\ look' = [l \in Legs |-> IF leg[l].state = "open" THEN leg[l].group ELSE "none"]
    /\ UNCHANGED <<leg, scan, read>>

(* A guaranteed leg is held to settlement; any other may meet an exit rule. *)
Manages(group) == group = "pending"

(* close_paper_order reads the row again and compares its group. *)
MonitorRead(l) ==
    /\ read["monitor"] = NoRead
    /\ Manages(look[l])
    /\ leg[l].state = "open"
    /\ leg[l].group = look[l]
    /\ read' = [read EXCEPT !["monitor"] = [at |-> l, row |-> leg[l]]]
    /\ UNCHANGED <<leg, scan, look>>

-----------------------------------------------------------------------------
(* The guarded UPDATE of close_paper_order: sold contracts of the row read. *)

\* Mutant: the group is not part of the guard.
UnchangedButGroup(c) ==
    LET now == leg[read[c].at] IN
    /\ now.state = read[c].row.state
    /\ now.held = read[c].row.held

Unchanged(c) ==
    LET now == leg[read[c].at] IN
    /\ now.state = read[c].row.state
    /\ now.held = read[c].row.held
    /\ now.group = read[c].row.group

ClosedLeg(row, sold) ==
    IF sold = row.held THEN [row EXCEPT !.state = "closed", !.held = 0]
    ELSE [row EXCEPT !.held = @ - sold, !.lots = TRUE]

AfterClose(c) == IF c = "scan" THEN scan' = [scan EXCEPT !.pc = "contain"]
                 ELSE UNCHANGED scan

(* The monitor sells what the bid shows, containment the whole row. *)
Close(c, sold) ==
    /\ read[c] # NoRead
    /\ sold \in 1..read[c].row.held
    /\ c = "scan" => sold = read[c].row.held
    /\ Unchanged(c)
    /\ leg' = [leg EXCEPT ![read[c].at] = ClosedLeg(@, sold)]
    /\ read' = [read EXCEPT ![c] = NoRead]
    /\ AfterClose(c)
    /\ UNCHANGED look

CloseRefused(c) ==
    /\ read[c] # NoRead
    /\ ~Unchanged(c)
    /\ read' = [read EXCEPT ![c] = NoRead]
    /\ AfterClose(c)
    /\ UNCHANGED <<leg, look>>

-----------------------------------------------------------------------------
(* Settlement of the target date: every open leg at once. *)
Settle ==
    /\ \E l \in Legs : leg[l].state = "open"
    /\ leg' = [l \in Legs |-> IF leg[l].state = "open"
                              THEN [leg[l] EXCEPT !.state = "settled"] ELSE leg[l]]
    /\ UNCHANGED <<scan, look, read>>

-----------------------------------------------------------------------------
Scan ==
    \/ Book \/ BookRefused \/ Promote \/ PromoteRefused
    \/ NextLeg \/ ContainmentDone \/ ContainmentFails \/ ContainRead
    \/ \E sold \in 1..Size : Close("scan", sold)
    \/ CloseRefused("scan")

Monitor ==
    \/ List
    \/ \E l \in Legs : MonitorRead(l)
    \/ \E sold \in 1..Size : Close("monitor", sold)
    \/ CloseRefused("monitor")

Next == Scan \/ Crash \/ Monitor \/ Settle

Spec == Init /\ [][Next]_vars

-----------------------------------------------------------------------------
(* Properties *)

TypeOK ==
    /\ leg \in [Legs -> Row]
    /\ scan \in Placement
    /\ look \in [Legs -> Groups]
    /\ read \in [Closers -> [at : 0..Count, row : Row]]

(* A leg trusted as guaranteed stands in a box that is whole: every leg is   *)
(* trusted, unsold, and open or settled with the others.  The monitor holds  *)
(* such a leg whatever its price does, so an incomplete box would be naked   *)
(* risk nobody manages.                                                      *)
TrustedIsWhole ==
    \A l \in Legs : leg[l].group = "box" =>
        \A k \in Legs : /\ leg[k].group = "box"
                        /\ leg[k].held = Size
                        /\ leg[k].state = leg[l].state
                        /\ leg[k].state \in {"open", "settled"}

(* When placement gives up and returns normally, or raises what made it give *)
(* up, none of the legs it booked is open any more; an open leg is left only *)
(* by the fatal containment error or by the death of the process, and then   *)
(* the monitor manages it.                                                   *)
NothingLeftBehind ==
    /\ scan.pc = "contained" => \A l \in Legs : leg[l].state # "open"
    /\ \A l \in Legs : leg[l].state = "open" /\ scan.pc \in {"fatal", "dead"} =>
          Manages(leg[l].group)

HeldNow == [l \in Legs |-> IF leg[l].state = "open" THEN leg[l].held ELSE 0]

TrustedNow == \E l \in Legs : leg[l].state = "open" /\ leg[l].group = "box"

Structure == INSTANCE HeldStructure WITH held <- HeldNow, trusted <- TrustedNow

(* The rows implement a structure that is trusted only whole and then held   *)
(* leg for leg to settlement, however monitor, scan and containment mix.     *)
HeldToSettlement == Structure!Spec

=============================================================================

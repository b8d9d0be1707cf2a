------------------------------ MODULE DmaMirror ------------------------------
(***************************************************************************)
(* What the DMA mirror promises (spec 4.4, 8.1): from the moment the       *)
(* device attaches until its listener is unregistered, the IOMMU holds     *)
(* exactly the mappings of the RAM slots of the current flat view, updated *)
(* at once with every topology change.  After the listener goes the       *)
(* mappings are frozen, and closing the container drops them.  The         *)
(* process may abort at any point.                                         *)
(***************************************************************************)
EXTENDS MemoryView

VARIABLES view, mirror, stage

Stages == {"off", "on", "frozen", "closed", "aborted"}

Init ==
    /\ view \in Views
    /\ mirror = {}
    /\ stage = "off"

Attach ==
    /\ stage = "off"
    /\ stage' = "on"
    /\ mirror' = RamMaps(view)
    /\ UNCHANGED view

Commit(V) ==
    /\ stage # "aborted"
    /\ view' = V
    /\ mirror' = IF stage = "on" THEN RamMaps(V) ELSE mirror
    /\ UNCHANGED stage

Freeze ==
    /\ stage = "on"
    /\ stage' = "frozen"
    /\ UNCHANGED <<view, mirror>>

Close ==
    /\ stage = "frozen"
    /\ stage' = "closed"
    /\ mirror' = {}
    /\ UNCHANGED view

Abort ==
    /\ stage # "aborted"
    /\ stage' = "aborted"
    /\ UNCHANGED <<view, mirror>>

Next ==
    \/ Attach \/ Freeze \/ Close \/ Abort
    \/ \E V \in Views : Commit(V)

Spec == Init /\ [][Next]_<<view, mirror, stage>>

=============================================================================

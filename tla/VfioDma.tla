------------------------------- MODULE VfioDma -------------------------------
(***************************************************************************)
(* The DMA mirror of src/mvisor/devices/vfio/vfio_pci.cc: SetupDmaMaps     *)
(* (map every RAM slot of the flat view, then register a memory listener), *)
(* the listener calling MapDmaPages and UnmapDmaPages for RAM slots, and   *)
(* the part of Disconnect that drops the listener and the container.       *)
(*                                                                         *)
(* The memory manager commits a new flat view and then calls the listener  *)
(* once per removed slot (unmap) and once per added slot (map), all unmaps *)
(* of a transition first (spec 4.4); it serialises transitions.  The       *)
(* IOMMU is the kernel's set of type1 mappings of the container.           *)
(***************************************************************************)
EXTENDS MemoryView

CONSTANTS
    MaxCommits,                   \* bound on the topology transitions
    TopologyChangesDuringConnect  \* may the flat view change between the
                                  \* mapping pass and the listener registration?

ASSUME DmaAssumption ==
    MaxCommits \in Nat /\ TopologyChangesDuringConnect \in BOOLEAN

VARIABLES
    phase,     \* progress of Connect (SetupDmaMaps) and Disconnect
    view,      \* the memory manager's flat view
    iommu,     \* the container's DMA mappings (kernel)
    toUnmap,   \* removed slots whose unmap call the listener has not had yet
    toMap,     \* added slots whose map call the listener has not had yet
    prior,     \* history: the flat view before the transition in flight
    commits    \* transitions so far (bounded)

vars == <<phase, view, iommu, toUnmap, toMap, prior, commits>>

Phases == {"idle", "scanned", "synced", "unhooked", "closed", "panicked"}

\* No listener call of a transition is outstanding.
Quiescent == toUnmap = {} /\ toMap = {}

Init ==
    /\ phase = "idle"
    /\ view \in Views
    /\ iommu = {}
    /\ toUnmap = {} /\ toMap = {}
    /\ prior = view
    /\ commits = 0

-----------------------------------------------------------------------------
(* The container's type1 IOMMU.  MAP_DMA fails on an IOVA range that       *)
(* overlaps an existing mapping.  UNMAP_DMA removes the mappings inside    *)
(* the range and fails, removing nothing, if it would split one.           *)

MapsOverlap(m, d) == m.iova < d.iova + d.size /\ d.iova < m.iova + m.size

Inside(m, s) == s.begin <= m.iova /\ m.iova + m.size <= s.end

\* UnmapDmaPages(slot): VFIO_IOMMU_UNMAP_DMA of [begin, end); its result
\* is ignored.
UnmapDmaPages(s) ==
    iommu' = IF \E m \in iommu : MapsOverlap(m, DmaMap(s)) /\ ~Inside(m, s)
             THEN iommu
             ELSE {m \in iommu : ~Inside(m, s)}

\* MapDmaPages(slot): VFIO_IOMMU_MAP_DMA, MV_PANIC if it fails.
MapDmaPages(s) ==
    IF \E m \in iommu : MapsOverlap(m, DmaMap(s))
    THEN /\ phase' = "panicked"
         /\ UNCHANGED iommu
    ELSE /\ iommu' = iommu \cup {DmaMap(s)}
         /\ UNCHANGED phase

-----------------------------------------------------------------------------
(* The memory manager (spec 4.4 and 6).                                    *)

\* Mutant: a memory manager that may deliver maps before unmaps.
UnmapsDeliveredAny == TRUE

\* The unmaps of the transition have all been delivered.
UnmapsDelivered == toUnmap = {}

\* A topology transition to the flat view V.  The listener, if registered,
\* is then owed one call per removed and per added slot.
Commit(V) ==
    /\ phase # "panicked" /\ Quiescent
    /\ V # view /\ commits < MaxCommits
    /\ phase = "scanned" => TopologyChangesDuringConnect
    /\ view' = V /\ prior' = view /\ commits' = commits + 1
    /\ IF phase = "synced"
       THEN toUnmap' = view \ V /\ toMap' = V \ view
       ELSE UNCHANGED <<toUnmap, toMap>>
    /\ UNCHANGED <<phase, iommu>>

-----------------------------------------------------------------------------
(* The device's operations.                                                *)

\* SetupDmaMaps, first loop: MapDmaPages for every RAM slot of the flat
\* view.  The IOMMU is empty and the slots disjoint, so no map fails.
SetupDmaMapsScan ==
    /\ phase = "idle"
    /\ phase' = "scanned"
    /\ iommu' = iommu \cup RamMaps(view)
    /\ UNCHANGED <<view, toUnmap, toMap, prior, commits>>

\* SetupDmaMaps, then: RegisterMemoryListener.
SetupDmaMapsRegister ==
    /\ phase = "scanned"
    /\ phase' = "synced"
    /\ UNCHANGED <<view, iommu, toUnmap, toMap, prior, commits>>

\* The listener called with (slot, unmap = true).
ListenerUnmap(s) ==
    /\ phase = "synced" /\ s \in toUnmap
    /\ toUnmap' = toUnmap \ {s}
    /\ IF s.ram THEN UnmapDmaPages(s) ELSE UNCHANGED iommu
    /\ UNCHANGED <<phase, view, toMap, prior, commits>>

\* Mutant: a listener without the kMemoryTypeRam filter on maps.
ListenerMapAll(s) ==
    /\ phase = "synced" /\ s \in toMap /\ UnmapsDelivered
    /\ MapDmaPages(s)
    /\ toMap' = IF phase' = "panicked" THEN toMap ELSE toMap \ {s}
    /\ UNCHANGED <<view, toUnmap, prior, commits>>

\* The listener called with (slot, unmap = false).  A panic ends the
\* process inside the call.
ListenerMap(s) ==
    /\ phase = "synced" /\ s \in toMap /\ UnmapsDelivered
    /\ IF s.ram THEN MapDmaPages(s) ELSE UNCHANGED <<phase, iommu>>
    /\ toMap' = IF phase' = "panicked" THEN toMap ELSE toMap \ {s}
    /\ UNCHANGED <<view, toUnmap, prior, commits>>

\* Disconnect: UnregisterMemoryListener, between two transitions.
DisconnectListener ==
    /\ phase = "synced" /\ Quiescent
    /\ phase' = "unhooked"
    /\ UNCHANGED <<view, iommu, toUnmap, toMap, prior, commits>>

\* Disconnect: safe_close(&container_fd_); the kernel drops the mappings.
DisconnectContainer ==
    /\ phase = "unhooked"
    /\ phase' = "closed"
    /\ iommu' = {}
    /\ UNCHANGED <<view, toUnmap, toMap, prior, commits>>

\* The device is gone or the process has aborted.
Terminated ==
    /\ phase \in {"closed", "panicked"}
    /\ UNCHANGED vars

Next ==
    \/ SetupDmaMapsScan \/ SetupDmaMapsRegister
    \/ DisconnectListener \/ DisconnectContainer
    \/ \E V \in Views : Commit(V)
    \/ \E s \in Slots : ListenerUnmap(s) \/ ListenerMap(s)
    \/ Terminated

Spec == Init /\ [][Next]_vars

-----------------------------------------------------------------------------
(* Properties.                                                             *)

\* The vfio_iommu_type1_dma_map records the container can hold.
DmaMaps == [iova: 0 .. IovaLimit, size: 0 .. IovaLimit, vaddr: Hvas]

\* Type invariant: the flat views are views of disjoint slots, and the
\* container holds only mappings of slots.
TypeOK ==
    /\ phase \in Phases
    /\ view \in Views /\ prior \in Views
    /\ iommu \subseteq DmaMaps
    /\ toUnmap \subseteq Slots /\ toMap \subseteq Slots
    /\ commits \in 0 .. MaxCommits

\* DMA equality (spec 8.1): whenever the listener is registered and no
\* call of a transition is outstanding, the container's mappings are
\* exactly those of the RAM slots of the flat view.
DmaMirrorEqual ==
    phase = "synced" /\ Quiescent => iommu = RamMaps(view)

\* No VFIO_IOMMU_MAP_DMA of the listener fails: a slot is never mapped
\* over an IOVA range that is still mapped, so MapDmaPages never panics.
NoDmaMapFailure == phase # "panicked"

\* The refinement mapping to the abstract mirror.  While a transition is
\* in flight the abstract state is the one before it; the abstract
\* transition happens with the listener's last call.
AbsStage ==
    CASE phase = "idle" -> "off"
      [] phase \in {"scanned", "synced"} -> "on"
      [] phase = "unhooked" -> "frozen"
      [] phase = "closed" -> "closed"
      [] phase = "panicked" -> "aborted"

AbsView == IF Quiescent THEN view ELSE prior

AbsMirror == IF Quiescent THEN iommu ELSE RamMaps(prior)

Mirror == INSTANCE DmaMirror WITH view <- AbsView, mirror <- AbsMirror, stage <- AbsStage

\* The code implements the mirror's contract: every behaviour of
\* SetupDmaMaps, the listener and Disconnect, under the memory manager's
\* transitions, is a behaviour of DmaMirror.
MirrorRefined == Mirror!Spec

=============================================================================

----------------------------- MODULE MemoryView -----------------------------
(***************************************************************************)
(* The memory manager's flat view of guest physical memory, as the VFIO    *)
(* DMA mirror of src/mvisor/devices/vfio/vfio_pci.cc sees it: a set of     *)
(* disjoint slots [begin, end) backed at a host virtual address, each of   *)
(* a RAM or a non-RAM region, and the IOMMU mapping that MapDmaPages       *)
(* makes of a slot.                                                        *)
(***************************************************************************)
EXTENDS Integers

CONSTANTS
    Hvas,        \* host virtual addresses a slot may be backed at
    IovaLimit    \* guest physical addresses are 0 .. IovaLimit - 1

ASSUME MemoryViewAssumption == IovaLimit \in Nat

\* A MemorySlot: its guest physical range, its backing and whether its
\* region's type is kMemoryTypeRam.
Slots == {s \in [begin: 0 .. IovaLimit, end: 0 .. IovaLimit, hva: Hvas, ram: BOOLEAN] :
            s.begin < s.end}

SlotsOverlap(a, b) == a.begin < b.end /\ b.begin < a.end

\* The flat views GetMemoryFlatView can return: sets of disjoint slots.
Views == {V \in SUBSET Slots : \A a, b \in V : a # b => ~SlotsOverlap(a, b)}

\* The vfio_iommu_type1_dma_map MapDmaPages issues for a slot.
DmaMap(s) == [iova |-> s.begin, size |-> s.end - s.begin, vaddr |-> s.hva]

\* The IOMMU mappings the spec's contract (4.4) asks for a flat view: one
\* per RAM slot and no other.
RamMaps(V) == {DmaMap(s) : s \in {x \in V : x.ram}}

=============================================================================

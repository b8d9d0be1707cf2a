------------------------------ MODULE VfioBar ------------------------------
(***************************************************************************)
(* The BAR mapper of src/mvisor/devices/vfio/vfio_pci.cc: ActivatePciBar,  *)
(* DeactivatePciBar, MapBarRegion and UnmapBarRegion, called by the base   *)
(* PciDevice when the guest enables or disables decoding of a BAR or       *)
(* moves it.  A BAR whose region has the MMAP flag is mmap'ed from the     *)
(* device fd, whole or as its sparse areas, and published to the guest as  *)
(* RAM (sparse: one MMIO window with RAM sub-ranges); any other BAR is a   *)
(* plain MMIO trap of the base PciDevice.                                  *)
(*                                                                         *)
(* State: the guest address of each BAR, whether the base has it active,   *)
(* the host mappings of each of its windows, and the bag of I/O resources  *)
(* the device has registered, each tagged with the BAR and window whose    *)
(* mapping backs it.                                                       *)
(***************************************************************************)
EXTENDS Integers

CONSTANTS
    Bars,            \* BAR indexes (regions_[i] for i < VFIO_PCI_ROM_REGION_INDEX)
    Addrs,           \* guest addresses the guest may program a BAR to
    AreaOffsets,     \* offsets of sparse mmap areas the device may report
    RegionStride,    \* VFIO_PCI_INDEX_TO_OFFSET(i) = i * RegionStride
    MmapMayFail,     \* may mmap of a device region fail?
    MaxActivations   \* bound on the ActivatePciBar calls of a behaviour

ASSUME BarAssumption ==
    /\ Bars \subseteq Nat /\ Addrs \subseteq Nat /\ AreaOffsets \subseteq Nat
    /\ RegionStride \in Nat /\ MmapMayFail \in BOOLEAN /\ MaxActivations \in Nat

\* The window index of a region mapped whole (bar.host_memory); the sparse
\* areas are indexed by their offset (area.mmap).
Whole == -1
Windows == AreaOffsets \cup {Whole}

\* regions_[i]: the MMAP flag and the sparse areas found by the capability
\* walk of SetupVfioDevice.  A region without MMAP is never mapped, so its
\* areas play no part.
Regions == {[mmap |-> FALSE, areas |-> {}]} \cup [mmap: {TRUE}, areas: SUBSET AreaOffsets]

\* region.offset: the host file offset of the region of BAR i.
RegionOffset(i) == i * RegionStride

\* The state of one host mapping: none, a live mmap, or MAP_FAILED stored.
MapStates == {"none", "live", "failed"}

\* Every base address an AddIoResource or RemoveIoResource of this code can
\* name: a BAR address, a BAR address plus an area offset, and a region's
\* host offset plus an area offset.
Bases == Addrs \cup {a + o : a \in Addrs, o \in AreaOffsets}
               \cup {RegionOffset(i) + o : i \in Bars, o \in AreaOffsets}

\* An entry of io_resources_: its type and base, and the BAR and window it
\* was registered for.
Recs == [type: {"ram", "mmio"}, base: Bases, bar: Bars, win: Windows]

VARIABLES
    region,       \* regions_[i], fixed at attach
    address,      \* pci_bars_[i].address
    active,       \* the base PciDevice has BAR i active
    maps,         \* maps[i][w]: host mapping of window w of BAR i
    res,          \* io_resources_ as a bag: res[r] entries equal to r
    activations,  \* ActivatePciBar calls so far (bounded)
    panicked      \* an MV_PANIC has aborted the process

vars == <<region, address, active, maps, res, activations, panicked>>

\* Distinct guest addresses for the BARs, as the guest's allocator gives.
Placements == {f \in [Bars -> Addrs] : \A i, j \in Bars : i # j => f[i] # f[j]}

Init ==
    /\ region \in [Bars -> Regions]
    /\ address \in Placements
    /\ active = [i \in Bars |-> FALSE]
    /\ maps = [i \in Bars |-> [w \in Windows |-> "none"]]
    /\ res = [r \in Recs |-> 0]
    /\ activations = 0
    /\ panicked = FALSE

-----------------------------------------------------------------------------
(* Device::AddIoResource and Device::RemoveIoResource (base class).  Add   *)
(* appends an entry; Remove drops the first entry with the given type and  *)
(* base and does nothing when there is none.                               *)

\* Add one entry for each record of S (distinct records).
AddIoResources(b, S) == [r \in Recs |-> IF r \in S THEN b[r] + 1 ELSE b[r]]

\* Is there an entry of type t at base?
IoResourceFound(b, t, base) == \E r \in Recs : r.type = t /\ r.base = base /\ b[r] > 0

\* The entry a RemoveIoResource(t, base) drops.
Victim(b, t, base) == CHOOSE r \in Recs : r.type = t /\ r.base = base /\ b[r] > 0

\* Mutant: a RemoveIoResource that drops an entry without finding one.
RemoveIoResourcesUnchecked(b, t, B) ==
    [r \in Recs |-> IF r.type = t /\ r.base \in B
                        /\ r = CHOOSE x \in Recs : x.type = t /\ x.base = r.base
                    THEN b[r] - 1 ELSE b[r]]

\* RemoveIoResource(t, base) for each base of B (distinct bases).
RemoveIoResources(b, t, B) ==
    [r \in Recs |-> IF r.type = t /\ r.base \in B /\ IoResourceFound(b, t, r.base)
                        /\ r = Victim(b, t, r.base)
                    THEN b[r] - 1 ELSE b[r]]

\* The windows MapBarRegion maps for BAR i.
RegionWindows(i) == IF region[i].areas = {} THEN {Whole} ELSE region[i].areas

\* The outcomes of one mmap of a device region.
MmapOutcomes == IF MmapMayFail THEN {"live", "failed"} ELSE {"live"}

-----------------------------------------------------------------------------
(* MapBarRegion(i).  Whole region: mmap, then AddIoResource(Ram,           *)
(* bar.address) with whatever mmap returned.  Sparse: AddIoResource(Mmio,  *)
(* bar.address), then for each area mmap it, MV_PANIC on MAP_FAILED, and   *)
(* AddIoResource(Ram, bar.address + area.offset).                          *)
MapBarRegion(i) ==
    IF region[i].areas = {}
    THEN \E m \in MmapOutcomes :
           /\ maps' = [maps EXCEPT ![i][Whole] = m]
           /\ res' = AddIoResources(res,
                        {[type |-> "ram", base |-> address[i], bar |-> i, win |-> Whole]})
           /\ UNCHANGED panicked
    ELSE \/ /\ maps' = [maps EXCEPT ![i] = [w \in Windows |->
                          IF w \in region[i].areas THEN "live" ELSE @[w]]]
            /\ res' = AddIoResources(res,
                        {[type |-> "mmio", base |-> address[i], bar |-> i, win |-> Whole]}
                        \cup {[type |-> "ram", base |-> address[i] + o, bar |-> i, win |-> o]
                               : o \in region[i].areas})
            /\ UNCHANGED panicked
         \/ /\ MmapMayFail
            /\ panicked' = TRUE
            /\ UNCHANGED <<maps, res>>

\* Mutant: UnmapBarRegion that unregisters the resources but never munmaps.
UnmapBarRegionNoMunmap(i) ==
    IF region[i].areas = {}
    THEN /\ res' = RemoveIoResources(res, "ram", {address[i]})
         /\ UNCHANGED maps
    ELSE /\ res' = RemoveIoResources(
                     RemoveIoResources(res, "ram", {RegionOffset(i) + o : o \in region[i].areas}),
                     "mmio", {address[i]})
         /\ UNCHANGED maps

\* Mutant: the whole-region branch removing at the region's host offset.
UnmapBarRegionWrongBase(i) ==
    IF region[i].areas = {}
    THEN /\ res' = RemoveIoResources(res, "ram", {RegionOffset(i)})
         /\ maps' = [maps EXCEPT ![i][Whole] = "none"]
    ELSE /\ res' = RemoveIoResources(
                     RemoveIoResources(res, "ram", {RegionOffset(i) + o : o \in region[i].areas}),
                     "mmio", {address[i]})
         /\ maps' = [maps EXCEPT ![i] = [w \in Windows |->
                       IF w \in region[i].areas THEN "none" ELSE @[w]]]

(* UnmapBarRegion(i).  Whole region: RemoveIoResource(Ram, bar.address),   *)
(* munmap.  Sparse: for each area RemoveIoResource(Ram, region.offset +    *)
(* area.offset) and munmap(area.mmap); then RemoveIoResource(Mmio,         *)
(* bar.address).                                                           *)
UnmapBarRegion(i) ==
    IF region[i].areas = {}
    THEN /\ res' = RemoveIoResources(res, "ram", {address[i]})
         /\ maps' = [maps EXCEPT ![i][Whole] = "none"]
    ELSE /\ res' = RemoveIoResources(
                     RemoveIoResources(res, "ram", {RegionOffset(i) + o : o \in region[i].areas}),
                     "mmio", {address[i]})
         /\ maps' = [maps EXCEPT ![i] = [w \in Windows |->
                       IF w \in region[i].areas THEN "none" ELSE @[w]]]

\* PciDevice::ActivatePciBar / DeactivatePciBar for a BAR without MMAP:
\* an MMIO trap at the BAR address.
PciBaseActivate(i) ==
    /\ res' = AddIoResources(res,
                {[type |-> "mmio", base |-> address[i], bar |-> i, win |-> Whole]})
    /\ UNCHANGED <<maps, panicked>>

PciBaseDeactivate(i) ==
    /\ res' = RemoveIoResources(res, "mmio", {address[i]})
    /\ UNCHANGED maps

-----------------------------------------------------------------------------
(* The operations, called by the base PciDevice on the vCPU thread.        *)

\* ActivatePciBar(i): dispatch on VFIO_REGION_INFO_FLAG_MMAP.
ActivatePciBar(i) ==
    /\ ~panicked /\ ~active[i]
    /\ activations < MaxActivations
    /\ active' = [active EXCEPT ![i] = TRUE]
    /\ activations' = activations + 1
    /\ IF region[i].mmap THEN MapBarRegion(i) ELSE PciBaseActivate(i)
    /\ UNCHANGED <<region, address>>

\* Mutant: a VfioPci without its DeactivatePciBar override.
DeactivatePciBarBaseOnly(i) ==
    /\ ~panicked /\ active[i]
    /\ active' = [active EXCEPT ![i] = FALSE]
    /\ PciBaseDeactivate(i)
    /\ UNCHANGED <<region, address, activations, panicked>>

\* DeactivatePciBar(i): dispatch on VFIO_REGION_INFO_FLAG_MMAP.
DeactivatePciBar(i) ==
    /\ ~panicked /\ active[i]
    /\ active' = [active EXCEPT ![i] = FALSE]
    /\ IF region[i].mmap THEN UnmapBarRegion(i) ELSE PciBaseDeactivate(i)
    /\ UNCHANGED <<region, address, activations, panicked>>

\* The guest moves a BAR that is not decoding to a free address.
GuestProgramBar(i, a) ==
    /\ ~panicked /\ ~active[i]
    /\ \A j \in Bars : address[j] # a
    /\ address' = [address EXCEPT ![i] = a]
    /\ UNCHANGED <<region, active, maps, res, activations, panicked>>

\* The process has aborted: nothing more happens.
Terminated ==
    /\ panicked
    /\ UNCHANGED vars

Next ==
    \/ \E i \in Bars : ActivatePciBar(i) \/ DeactivatePciBar(i)
    \/ \E i \in Bars, a \in Addrs : GuestProgramBar(i, a)
    \/ Terminated

Spec == Init /\ [][Next]_vars

-----------------------------------------------------------------------------
(* Properties.                                                             *)

\* Type invariant; io_resources_ never holds a negative number of entries.
TypeOK ==
    /\ region \in [Bars -> Regions]
    /\ address \in [Bars -> Addrs]
    /\ active \in [Bars -> BOOLEAN]
    /\ maps \in [Bars -> [Windows -> MapStates]]
    /\ res \in [Recs -> Nat]
    /\ activations \in 0 .. MaxActivations
    /\ panicked \in BOOLEAN

\* The entries ActivatePciBar(i) registers at BAR i's current address.
Expected(i) ==
    IF ~region[i].mmap
    THEN {[type |-> "mmio", base |-> address[i], bar |-> i, win |-> Whole]}
    ELSE IF region[i].areas = {}
    THEN {[type |-> "ram", base |-> address[i], bar |-> i, win |-> Whole]}
    ELSE {[type |-> "mmio", base |-> address[i], bar |-> i, win |-> Whole]}
         \cup {[type |-> "ram", base |-> address[i] + o, bar |-> i, win |-> o]
                : o \in region[i].areas}

\* Activation and deactivation keep io_resources_ in step with the BARs
\* (spec 8.5, idempotent activation): the device has registered exactly
\* once each resource ActivatePciBar adds for an active BAR at its current
\* address, and nothing for an inactive BAR, whatever sequence of
\* activations, deactivations and moves the guest has made (until an
\* MV_PANIC ends the process).
BarResourcesMatch ==
    ~panicked => \A r \in Recs : res[r] = IF active[r.bar] /\ r \in Expected(r.bar) THEN 1 ELSE 0

\* Every RAM resource the guest can reach through KVM is backed by a live
\* mmap of the device: no guest RAM window points at memory that
\* UnmapBarRegion has munmap'ed, or at MAP_FAILED.
RamBackedByLiveMapping ==
    ~panicked => \A r \in Recs : r.type = "ram" /\ res[r] > 0 => maps[r.bar][r.win] = "live"

\* The host mappings follow activation: a BAR with MMAP has a mapping of
\* each of its windows (whole or sparse) exactly while it is active, and
\* DeactivatePciBar leaves no mapping behind.
MappingsFollowActivation ==
    ~panicked => \A i \in Bars, w \in Windows :
        maps[i][w] # "none" <=> active[i] /\ region[i].mmap /\ w \in RegionWindows(i)

=============================================================================

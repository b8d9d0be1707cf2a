# Verification project for mvisor-x

TLA+ models of the source under `src/`, TLC runs on small instances, and
TLAPS proofs for every value of the constants. Module names follow the C++
classes. Definitions are translated from the code. `PROJECT.json` "map"
gives the lines each definition stands for.

## 1. Inventory

The repository holds three source files. `spec.md` describes only the
first of them.

### 1.1 VFIO PCI pass-through (`src/mvisor/devices/vfio/vfio_pci.cc`)

A `VfioPci` device presents a host VFIO device (physical or mediated) to the
guest.

| Component | State it keeps | Operations |
|---|---|---|
| Attach/detach orchestrator | `group_fd_`, `container_fd_`, `device_fd_`, `group_id_`, `device_info_`, `memory_listener_` | `Connect` (SetupVfioGroup, SetupVfioContainer, SetupVfioDevice, SetupPciConfiguration, SetupPciInterrupts, SetupGfxPlane, SetupDmaMaps), `Disconnect`, `Reset` |
| Region table | `regions_[]`: flags, offset, size, sparse `mmap_areas`, type/subtype | built once in SetupVfioDevice (argsz grow-and-retry, capability walk) |
| Config-space proxy | `pci_header_` (guest-visible copy), `msi_config_` | SetupPciConfiguration (read, rewrite, write back), `ReadPciConfigSpace` (re-read from the device), `WritePciConfigSpace` (pass-through, base update, MSI refresh) |
| MSI router | `interrupts_[v].event_fd`, `msi_config_.enabled`; in the kernel, the trigger bound by SET_IRQS | SetupPciInterrupts (eventfd + StartPolling), the reactor callback (read, SignalMsi), `UpdateMsiRoutes` |
| BAR mapper | `pci_bars_[i].host_memory`, `area.mmap`, the I/O resources registered | `ActivatePciBar`/`DeactivatePciBar`, `MapBarRegion`/`UnmapBarRegion` |
| DMA mirror | the container's IOMMU mappings (kernel), the listener | SetupDmaMaps, the memory listener, `MapDmaPages`/`UnmapDmaPages` |
| Region pass-through | none | `ReadRegion`/`WriteRegion`, `Read`/`Write` (pread/pwrite) |

How the parts interact. The device manager calls Connect, Disconnect and
Reset. The vCPU threads call the config-space and BAR operations. The base
`PciDevice` calls ActivatePciBar and DeactivatePciBar when the guest programs
a BAR. The I/O reactor thread runs the eventfd callback. The memory manager
calls the listener. The kernel signals the eventfd that SET_IRQS bound as the
MSI trigger.

What is hard:
- the reactor callback races the vCPU's MSI enable and disable;
- Disconnect races the reactor and the kernel;
- the guest-visible header is refreshed from the device on every read;
- the memory listener is registered only after the initial mapping pass;
- UnmapBarRegion removes resources at different addresses from the ones
  MapBarRegion added them at.

What makes each part correct (spec section 8 and the code's comments):
- MSI wiring: VFIO's trigger follows the guest's enable bit.
- Descriptor discipline after Disconnect.
- Header sanity.
- No lost and no invented interrupts.
- DMA equality between the IOMMU mappings and the RAM slots.
- BAR activation is idempotent, and deactivation removes exactly what
  activation added.

### 1.2 Sweet display encoder (`src/sweet-server/display_encoder.cc`)

Client threads call `Start`, `Stop`, `Render` and `ForceKeyframe`. They share
`encode_mutex_`, `encode_cv_`, `encode_slices_`, `started_`,
`output_callback_` and `force_keyframe_` with one encode thread
(`EncodeProcess`). The encode thread waits up to 1 s for slices, takes them,
releases the lock, and then draws and encodes (`Encode` reads and clears
`force_keyframe_` without the lock). It then re-takes the lock to call the
output callback. The destructor sets `destroyed_` and joins the thread.

What makes it correct:
- a client's first frame is a key frame;
- a stopped encoder does not spin;
- the thread ends after destruction;
- every slice lies on the screen, aligned as the encoder requires
  (`CreateEncodeSlice`).

### 1.3 UDP redirect (`src/networks/uip/redirect_udp.cc`)

`RedirectUdpSocket` owns a non-blocking UDP socket. The socket is polled
edge-triggered. It also has a retry timer (`wait_timer_`) for when no packet
buffer is free. `StartReading` drains the socket. `OnPacketFromGuest` sends.
`active()` times the socket out. The destructor stops polling and removes the
timer.

What makes it correct:
- no timer or callback outlives the socket;
- every datagram is eventually delivered once buffers are free.

The hazards, each at its line, are listed under "hazards" in
`PROJECT.json`.

## 2. Plan

Modules in order of importance. The first five are done.

1. **VfioPci** (done): Connect with each setup check, the config-space proxy,
   the MSI router, the reactor and the kernel, and Disconnect in four steps.
   Proofs are in **VfioPciProofs**.
2. **VfioBar** (done): the BAR mapper over regions without MMAP, whole
   regions and sparse regions, with the registered I/O resources and the
   host mmaps. Proofs are in **VfioBarProofs**. Section 4.
3. **VfioDma** (done): the DMA mirror against a memory manager that commits
   flat views and calls the listener per removed and added slot. It refines
   the abstract mirror **DmaMirror**. Proofs are in **VfioDmaProofs**.
   Section 5.
4. **DisplayEncoder** (done): client threads against the encode thread and
   the destructor. Section 7.
5. **RedirectUdp** (done): reactor edge events, the retry timer, the packet
   pool and the destructor. Section 6.
6. **VfioDevice**: composes VfioPci, VfioBar and VfioDma under one Connect,
   Disconnect and Reset.
   - An abstract MSI specification (Disabled/Enabled with a set of pending
     interrupts) that VfioPci refines.

Still open: CreateEncodeSlice as an operator checked over small
rectangles (hazard at display_encoder.cc:295), and a property that each
ForceKeyframe is followed by a keyframe (hazard at line 444).

## 3. What is modelled now: VfioPci

State:

| Variable | Code |
|---|---|
| `phase` | progress of Connect/Disconnect: `init`, `attached`, `unhooked` (listener gone), `unpolled` (StopPolling done), `irqs_closed` (eventfd closed), `detached`, `panicked` (an MV_PANIC/MV_ASSERT aborted the process) |
| `hw` | what the host reports at attach: group viability, container checks, device checks, config capabilities, and whether BAR 0's region has a nonzero size |
| `dev`, `hdr` | the device's config space and `pci_header_`, abstracted to irq pin, multi-function bit, header layout, class code, BAR 0 type and the MSI enable bit |
| `msiEnabled` | `msi_config_.enabled` |
| `open`, `polled`, `listener` | the four descriptors, the reactor registration of the eventfd, `memory_listener_` |
| `trigger` | the kernel's MSI trigger binding (SET_IRQS with the eventfd or -1) |
| `counter`, `raised`, `signalled` | the eventfd counter, the interrupts raised, and the SignalMsi calls |

Actions:

| Action | Code |
|---|---|
| `ConnectOk`, `ConnectPanic` | Connect. It is one step: it runs before the guest, and no eventfd exists until its end. |
| `GuestWriteConfig(off, len, en)` | WritePciConfigSpace over aligned accesses of 1, 2 or 4 bytes in the first 8 bytes of the MSI capability. UpdateMsiRoutes runs when the range overlaps the control byte. |
| `GuestReadConfig(f)` | ReadPciConfigSpace |
| `DeviceInterrupt` | The kernel signalling the bound trigger while the device fd is open. It is the environment, and has no fairness. |
| `ReactorDrain` | The callback: one read of an `eventfd(0, 0)` returns and clears the counter, then SignalMsi. |
| `DisconnectListener`, `DisconnectStopPolling`, `DisconnectCloseEvent`, `DisconnectFds` | The four calls of Disconnect, in the code's order (lines 61-74). The reactor and the kernel can run between them. DescriptorDiscipline's `polled => open["event"]` is what a swap of StopPolling and safe_close (the mutant `DisconnectCloseFirst`) breaks. |

Fairness: `WF_vars(ReactorDrain)` only. The reactor thread loops on epoll and
serves every ready descriptor. The guest, the device and the device manager
are not obliged to act. No run checks a liveness property of VfioPci: the
only one the model offers, that a pending interrupt is drained, is the
fairness condition itself, since the callback reads the eventfd
unconditionally (lines 479-484).

`Sanitize(h, sized)` follows the BAR loop of SetupPciConfiguration: BAR 0
loses its 64-bit type only when its region has a nonzero size (line 108).
Init lets a BAR of size 0 only be the hardwired zero of an unimplemented
BAR, a 32-bit memory BAR, since that is what such a BAR reads as.

Out of this model:
- Reset: it needs `PciDevice::Reset`, which is not under `src/`.
- The BAR and DMA state, which are in modules 2 and 3 of the plan.
- Concurrent config writes from two vCPUs to the same MSI control register. A
  guest driver serialises them, so writes are atomic steps.

### Runs (all from `MCVfioPci`/`MCVfioPciProofs`)

| Run | Checks | Result |
|---|---|---|
| vfio_msi_wiring | MsiWiring, DescriptorDiscipline, NoSpuriousMsi, GuestHeaderSane, with a device that keeps read-only writes | pass, 4232 states |
| vfio_header_device_ignores | GuestHeaderSane with a device that drops them | violation |
| vfio_msi_after_disable | MsiOnlyWhenEnabled | violation |

`VfioPciIrqCoalesce.cfg` (IrqAccounting, a violation) is kept beside the
runs. It reproduces the coalescing of interrupts described below, and is run
by hand with `tlc -config VfioPciIrqCoalesce.cfg MCVfioPci`.

Bounds:
- `MaxIrqs = 2` (3 for IInv). That is enough for one interrupt before and
  one after an enable/disable, and for two to be pending at once.
- Config accesses cover every aligned offset and width around the control
  byte, including the 4-byte write at the capability start.
- Init enumerates every host device: 2^4 check outcomes and BAR sizes ×
  4 capability sets × 48 headers, less the unsized 64-bit or I/O BARs.

TypeOK is not a property of the run: it is proved (`TypeCorrect`), and no
plausible slip in the callbacks takes a variable out of its type, since
an eventfd counter cannot go below zero.

What the violations show (details under "findings" in `PROJECT.json`):
- The header the guest reads is sanitised only if the device stores writes to
  read-only fields (`ReadPciConfigSpace` re-reads from the device).
- An interrupt pending when the guest disables MSI is still forwarded by the
  reactor.
- Interrupts are coalesced, because the eventfd is not a semaphore.

### Proofs (`VfioPciProofs`, checked by `tlapm`)

- `TypeCorrect`: `Spec => []TypeOK`.
- `NoSpurious`: `Spec => []NoSpuriousMsi`.
- `WiringCorrect`: `Spec => [](MsiWiring /\ DescriptorDiscipline)`.
- `DisciplineCorrect`: `Spec => []DescriptorDiscipline`, a corollary of
  `WiringCorrect` stated on its own.
- `HeaderCorrect`: `DeviceStoresRoWrites => (Spec => []GuestHeaderSane)`.

The proofs hold for every `MaxIrqs \in Nat` and both kinds of device.

TypeOK alone is not inductive, because `DeviceInterrupt` increments `counter`.
It is proved together with `signalled + counter <= raised`.

MsiWiring is proved through `IInv`, which TLC checks on `MCVfioPciProofs` with
`VfioPciIInv.cfg`. For each phase, IInv says:
- which descriptors are open;
- whether the eventfd is polled and the listener registered;
- that in `init` the enable bit and `msi_config_.enabled` are clear;
- that while attached, the trigger and `msi_config_.enabled` equal the
  device's enable bit.

Lemmas on the header operators (`SanitizeType`, `DeviceWriteType`,
`SetEnableType`, `CopyFieldType`) carry the record reasoning.

GuestHeaderSane is proved through `HInv`. HInv says that while attached,
both the device's header and the guest's copy are sane: interrupt pin 0,
no multi-function bit, the display class, and BAR 0 not 64-bit memory.
GuestHeaderSane alone is not inductive. A guest write to a read-only
field copies the field from the device's header, so the device's own
header must be sane as well. That is where the hypothesis comes in: the
device must store writes to read-only fields, so sanitising them at
Connect makes them stay sane. The run `vfio_header_device_ignores` shows
the property fails without it, which is why it is the theorem's
hypothesis and not an assumption on the constants. `VfioPciHInv.cfg`
checks HInv on `MCVfioPciProofs` (3272 states) before the proof.

The lemmas `SanitizeSane`, `SetEnableSane` and `CopyFieldSane` show that
each header operator keeps a header sane. `CopyFieldSane` proves this one
field at a time.

What is left to TLC:
- the violation runs.

## 4. What is modelled now: VfioBar

The base `PciDevice` calls `ActivatePciBar(i)` and `DeactivatePciBar(i)`
when the guest enables or disables decoding of BAR i or moves it. VfioPci
overrides both and dispatches on the region's MMAP flag.

State:

| Variable | Code |
|---|---|
| `region` | `regions_[i]`: the MMAP flag and the sparse areas found in SetupVfioDevice; fixed after attach |
| `address` | `pci_bars_[i].address`, which the guest programs |
| `active` | whether the base PciDevice has BAR i active (its bookkeeping is not under `src/`; modelled from the spec) |
| `maps` | for each BAR and window (the whole region, or a sparse area), no mapping, a live mmap, or MAP_FAILED stored in `bar.host_memory` |
| `res` | `io_resources_` as a bag of entries. An entry has a type (RAM or MMIO) and a base address. It is also tagged with the BAR and window whose mapping backs it. |
| `activations`, `panicked` | the bound on activations, and an MV_PANIC that ends the process |

Actions:

| Action | Code |
|---|---|
| `ActivatePciBar(i)` | ActivatePciBar, then MapBarRegion (whole: mmap and AddIoResource(Ram, bar.address) whatever mmap returned; sparse: AddIoResource(Mmio), then for each area mmap, MV_PANIC on failure, AddIoResource(Ram, bar.address + area.offset)). Without MMAP: the base's MMIO trap. |
| `DeactivatePciBar(i)` | DeactivatePciBar, then UnmapBarRegion (whole: RemoveIoResource(Ram, bar.address), munmap; sparse: for each area RemoveIoResource(Ram, region.offset + area.offset), munmap; then RemoveIoResource(Mmio, bar.address)). Without MMAP: the base removes its trap. |
| `GuestProgramBar(i, a)` | the guest moves a BAR that is not decoding to a free address |

`RemoveIoResource` (in `Device`, not under `src/`) is modelled from the spec.
It drops the first entry with the given type and base, and does nothing if
there is none. Each call is one step on the vCPU thread. Nothing else touches
these fields, so the model has no other interleaving.

Bounds (`MCVfioBar`):
- two BARs;
- three guest addresses, so that an inactive BAR can always be moved;
- sparse area offsets {0, 8};
- region host offsets `i * 64`, below every guest address, as
  `VFIO_PCI_INDEX_TO_OFFSET(i) = i << 40` lies apart from real BAR addresses;
- three activations, enough for Activate; Deactivate; Activate of one BAR
  while the other is active.

Init enumerates every region kind for each BAR: no MMAP, whole, and each set
of sparse areas.

### Runs

| Run | Checks | Result |
|---|---|---|
| vfio_bar_sparse_mappings | TypeOK, MappingsFollowActivation with sparse areas and failing mmaps | pass |
| vfio_bar_sparse_unmap | RamBackedByLiveMapping with sparse areas | violation |

Two more configurations are kept beside the runs and run by hand:
- `VfioBarWhole.cfg` checks RamBackedByLiveMapping, BarResourcesMatch and
  MappingsFollowActivation on regions without sparse areas, with mmap
  succeeding, and passes. `WholeResourcesCorrect` and `MappingsCorrect`
  below prove these properties for every instance.
- `VfioBarMmapFailed.cfg` checks RamBackedByLiveMapping with failing
  whole-region mmaps, and is violated.

What the violations show:
- Line 410 removes each sparse RAM window at `region.offset + area.offset`,
  but line 396 added it at `bar.address + area.offset`. After
  DeactivatePciBar, the RAM windows stay registered over memory that has
  been munmap'ed. Two steps reach this: Activate, then Deactivate.
- For the same reason, a second activation registers every window twice.
  Spec 8.5, idempotent activation, fails for sparse BARs.
  `VfioBarSparseMatch.cfg`, run by hand on `MCVfioBar`, finds
  BarResourcesMatch violated by the same two steps.
- Line 386 registers a failed whole-region mmap (MAP_FAILED) as guest RAM.
  The sparse branch panics on the same failure.

### Proofs (`VfioBarProofs`)

The inductive invariants `RInv` and `MInv` are checked by TLC on
`MCVfioBarProofs` with `VfioBarInv.cfg` before they are proved.

- `TypeCorrect`: `Spec => []TypeOK`. The lemma `RemoveType` shows that
  `RemoveIoResources` decrements only an entry it found, so counts stay in
  `Nat`. This needs no strengthening.
- `MappingsCorrect`: `Spec => []MappingsFollowActivation`, for every
  instance, sparse areas and mmap failures included. It is inductive with
  TypeOK (`MInv`). Each step changes the mappings of one BAR, from all-none
  to its windows or back. The lemma `OneBar` lifts the per-BAR fact to all
  BARs.
- `WholeResourcesCorrect`: under `AreaOffsets = {}`,
  `Spec => []BarResourcesMatch`. The strengthening `RInv` adds that the BARs
  sit at distinct addresses (`Placements`). With that fact, the entry of an
  active BAR is the only entry at its address (`OnlyEntryAt`). So the
  RemoveIoResource of a deactivation removes exactly that entry
  (`RemoveOwnEntry`). Without sparse areas, RemoveIoResource is called at
  the address it was added at. For sparse BARs the property is false (the
  run above).

## 5. What is modelled now: VfioDma

`SetupDmaMaps`, the last step of Connect, does two things:
- it maps every RAM slot of the memory manager's flat view into the VFIO
  container (`MapDmaPages`, VFIO_IOMMU_MAP_DMA, MV_PANIC on failure);
- it then registers a memory listener.

The memory manager calls the listener with `(slot, unmap)` for every slot a
topology transition removes or adds. The listener forwards RAM slots to
`UnmapDmaPages`, whose ioctl result is ignored, or to `MapDmaPages`.
Disconnect unregisters the listener and closes the container, and the
kernel then drops the mappings.

The memory manager is not under `src/`. Its behaviour is modelled from spec
4.4:
- a transition commits a new flat view;
- it then owes the listener one call per removed slot and one per added
  slot, all unmaps first;
- transitions are serialised.

### Modules

- **MemoryView**: slots `[begin, end)` with a host address and a RAM flag,
  views of pairwise disjoint slots, and the mapping `DmaMap(s)` that
  `MapDmaPages` builds. `RamMaps(V)` is what spec 4.4 asks the container to
  hold.
- **DmaMirror**: the contract. The mirror is `RamMaps(view)` from Attach to
  Freeze and is updated at once with every Commit. It is frozen after
  Freeze (the listener is gone) and empty after Close. Abort can happen at
  any time.
- **VfioDma**: the code.

VfioDma's state:

| Variable | Code |
|---|---|
| `phase` | idle, scanned (first loop of SetupDmaMaps done), synced (listener registered), unhooked, closed, panicked |
| `view` | the flat view |
| `iommu` | the container's type1 mappings. MAP_DMA fails on an overlapping IOVA range; its other failures (pinning, the locked-memory limit), which reach the same MV_PANIC at line 177, are not modelled. UNMAP_DMA removes the mappings inside its range, and removes nothing if it would split one. |
| `toUnmap`, `toMap` | the listener calls still owed for the transition in flight |
| `prior` | history variable: the view before that transition |

### Refinement

The abstract view and mirror are those before the transition while listener
calls are outstanding. The listener's last call of a transition is the
abstract Commit. A Commit while the listener is registered is an abstract
stutter.

The stage maps as follows:

| Code phase | Abstract stage |
|---|---|
| idle | off |
| scanned, synced | on |
| unhooked | frozen |
| closed | closed |
| panicked | aborted |

`MirrorRefined == Mirror!Spec` is proved (`Implements`) and not checked by
a run: every step it could catch going wrong, DmaMirrorEqual and
NoDmaMapFailure catch first.

### Bounds

`MCVfioDma` has:
- addresses 0..2, which gives 3 slot ranges;
- two host addresses;
- a RAM flag per slot;
- two transitions.

These are enough for a transition that replaces a RAM slot by an
overlapping one (where the order of unmap and map matters) and for one that
changes a slot's RAM type.

### Runs

| Run | Checks | Result |
|---|---|---|
| vfio_dma_sync | DmaMirrorEqual, NoDmaMapFailure with the view fixed during Connect | pass (22631 states) |
| vfio_dma_connect_window | DmaMirrorEqual with transitions allowed between the two parts of SetupDmaMaps | violation |

The violation is three steps long: Scan, Commit, Register. A transition
committed after the mapping loop and before `RegisterMemoryListener` is
never delivered. The container keeps the old view's mappings until
Disconnect. Whether this can happen depends on the memory manager's locking,
which is not under `src/`. Spec 4.4 does not say that the view is fixed
during Connect.

### Proofs (`VfioDmaProofs`)

The inductive invariant `DInv` is checked by TLC on `MCVfioDmaProofs` with
`VfioDmaInv.cfg` (22631 states) before it is proved.

All theorems except `TypeCorrect` assume `~TopologyChangesDuringConnect`,
i.e. the view is fixed during Connect.

The inductive invariant `DInv` says the following:
- Outside a transition, the container holds `RamMaps(view)`.
- During a transition it holds `RamMaps(Mirrored)`. Mirrored is the set of
  slots kept by the transition, plus the removed slots whose unmap is
  outstanding, plus the added slots whose map has been delivered.
- The outstanding sets are within the removed and added slots.
- While an unmap is outstanding, no map has been delivered.

Each listener call preserves it:
- **Unmap.** Mirrored lies inside the old view, so its slots are disjoint.
  The lemma `UnmapOwn` then shows the unmap splits nothing and removes
  exactly the slot's own mapping.
- **Map.** Mirrored lies inside the new view. The lemma `MapNew` shows the
  new slot's mapping overlaps nothing, so MAP_DMA does not fail.

Theorems:
- `TypeCorrect`: `Spec => []TypeOK`.
- `DmaEqual`: `Spec => []DmaMirrorEqual`.
- `NoMapFailure`: `Spec => []NoDmaMapFailure`.
- `Implements`: `Spec => MirrorRefined`. It rests on two lemmas:
  - initial states map to initial states;
  - every step with DInv before and after maps to an abstract step or a
    stutter (`NextRefines`, `ListenerRefines`).

All four hold for every address range, host-address set and bound on
transitions.

## 6. What is modelled now: RedirectUdp

`RedirectUdp` models one `RedirectUdpSocket` on the reactor thread. Every
callback is one step, because the reactor runs callbacks one at a time.

| Variable | Code |
|---|---|
| `fd` | `fd_`: "unopened" before InitializeRedirect; "open" after a successful connect; "closed" after a failed connect or the destructor |
| `polled`, `event` | StartPolling with EPOLLIN \| EPOLLET; an edge the reactor has not dispatched |
| `queue` | datagrams waiting in the host socket |
| `free`, `held` | packets in the pool; packets handed to the guest by OnDataFromHost |
| `waitTimer`, `timers` | `wait_timer_`; the retry timers registered with the reactor |
| `idle` | `time(nullptr) - active_time_ >= REDIRECT_TIMEOUT_SECONDS` |
| `sent`, `destroyed` | datagrams the peer has sent (bounded); the destructor has run |

How the actions correspond to the code:
- **StartReading** is one operator, called by the read callback
  (`ReactorRead`) and by the timer callback (`TimerFire`). It reads as many
  datagrams as there are and as the pool has packets for. It then either:
  - finds the socket empty, and returns; or
  - runs out of packets, and stores a new 10 ms timer in `wait_timer_`,
    whatever `wait_timer_` held before.
- **InitializeRedirect** either connects and polls, or closes the socket.
  The redirect rules only choose the address, so they are left out.
- **OnPacketFromGuest** refreshes the activity time only if the send
  succeeds.
- **Destroy** models the destructor. The owner runs it only once `active()`
  is false. It stops polling, closes the socket and removes the timer held
  in `wait_timer_`.
- **HostDatagram**, **GuestConsume** and **Tick** are the environment: the
  peer sending, the guest releasing a packet, and time passing.

Fairness:
- `WF` on ReactorRead and on each TimerFire: the reactor dispatches pending
  edges and due timers.
- `WF` on GuestConsume: the guest returns the packets it was handed.
- No fairness for the owner or the peer.

Bounds (`MCRedirectUdp`):
- two timer handles;
- pools of 1 and 2 packets;
- 2 or 3 datagrams.

These bounds let a read stop on an empty pool with datagrams still queued,
and let a second edge arrive while a timer is pending.

| Run | Checks | Result |
|---|---|---|
| udp_live | DatagramsRead, ReadUntilBlocked | pass (165 states) |
| udp_timer | NoTimerAfterDestroy | violation, 8 steps |

What the runs show:
- **ReadUntilBlocked** holds. This action property says that every step
  giving packets to the guest leaves one of two states:
  - the host socket is empty; or
  - the pool is empty and the new retry timer is registered.
  This is the edge-triggered contract: nothing else will call
  StartReading. The mutant `StartReadingOne` reads one datagram per edge,
  as a level-triggered loop might, and breaks it.
- **DatagramsRead** holds. After an allocation failure, EPOLLET gives no new
  edge for the datagrams left behind. The retry timer is what reads them.
  A timer callback that only clears `wait_timer_` and does not read
  (the mutant `TimerFireNoRead`) leaves them unread for good.
- **NoTimerAfterDestroy** is violated, and the trace is eight steps long:
  1. InitializeRedirect opens the socket.
  2. A datagram arrives.
  3. The read runs the pool dry and adds timer 1.
  4. A second datagram arrives.
  5. The new edge calls StartReading, which fails again and stores timer 2
     over timer 1 in `wait_timer_`.
  6. The socket idles.
  7. The destructor removes only timer 2.
  8. Timer 1 stays registered, and its lambda captures the deleted `this`.

Proof (`RedirectUdpProofs`): `TypeCorrect`, `Spec => []TypeOK`, for every
pool size, datagram bound and handle set. TypeOK is not inductive: a
GuestConsume could push `free` past the pool size. The strengthening
`IInv` adds two facts:
- `free + held = PoolSize`: packets are conserved;
- `queue <= sent`.

The lemma `StartReadingInv` shows that StartReading keeps both facts, for
any timers it is called with. Both callbacks use that lemma.

`ReadsUntilBlocked` proves `Spec => ReadUntilBlocked`, the action property
`[][DrainedOrRetry]_vars`, from IInv. The lemma `StartReadingDrains` holds
the argument. `Readable` is the smaller of `queue` and `free`, so a read
either empties the socket or takes the whole pool. In the second case,
StartReading registers the timer. Only the two read callbacks increase
`held`, and the lemma covers both.

## 7. What is modelled now: DisplayEncoder

`DisplayEncoder` models these threads of one `SweetDisplayEncoder`:
- client threads calling Start, Stop, Render and ForceKeyframe;
- the encode thread running EncodeProcess;
- the destructor.

The display header is not in the repository. `destroyed_` and
`force_keyframe_` are therefore plain fields, read and written without the
mutex, as the code does. Their accesses are separate, interleaved steps.

| Variable | Code |
|---|---|
| `started`, `client` | `started_`; `output_callback_` as the number of the Start that installed it, or 0 for null |
| `slices` | `encode_slices_` is not empty |
| `forceKey`, `destroyed` | `force_keyframe_`, `destroyed_` |
| `lock` | `encode_mutex_` |
| `pc` | the encode thread's place in EncodeProcess |
| `frameKey` | Encode chose X264_TYPE_KEYFRAME |
| `firstFrame[s]` | the type of the first frame client `s` received |
| `dtor` | the destructor's place: set, notified, joined |

The encode thread's loop is split at every point where another thread can
act:
- `EncoderLock` takes the mutex.
- `wait_for` is three actions:
  - `EncoderCheck` tests the predicate;
  - `EncoderBlock` releases the mutex and sleeps;
  - `EncoderWake` reacquires the mutex after a notify or after the
    timeout (`EncoderTimeout`). It returns if the predicate holds or the
    time is up, and waits again otherwise.
- `EncoderBody` is the destroyed_ break, the started_ continue, or taking
  the slices. DrawSlices touches only pixels.
- `EncoderReadForce` and `EncoderClearForce` are Encode's unlocked read and
  clear of `force_keyframe_`.
- `EncoderDeliver` relocks, calls the callback, sleeps, and unlocks.
  x264 may choose a keyframe even for X264_TYPE_AUTO (`FrameKinds`).

The client calls hold the mutex for their whole body, so each is one step:
- Start sets `started_` and `force_keyframe_`, installs the callback and
  queues a full-screen slice. It does **not** notify.
- Render queues a slice per converted partial while started, and notifies if
  the queue is not empty. Whether RenderPartial or ConvertPartial fails is a
  choice.
- ForceKeyframe sets the flag and notifies without the mutex.
- The destructor sets `destroyed_`, notifies and joins, without the mutex.

Fairness:
- `WF` on the encode thread's steps. It is a dedicated thread that never
  blocks except in wait_for.
- `WF` on `EncoderTimeout`, since wait_for's 1 s timeout does expire.
- `WF` on the destructor's notify and join.
- None for clients.

Bounds: `MaxStarts = 2`, which gives two clients in turn. That is the least
that shows a frame reaching the wrong client. The stopped-spin run uses 1.

| Run | Checks | Result |
|---|---|---|
| encoder_live | WaitsOnlyWhenIdle, DestructorReturns, SlicesEncoded | pass (2350 states) |
| encoder_first_frame | FirstFrameIsKey | violation, 15 steps |
| encoder_stopped_spin | StoppedEncoderWaits | violation |

What the runs show:
- **WaitsOnlyWhenIdle** holds. When the encode thread is about to block in
  wait_for, it holds `encode_mutex_`, and `encode_slices_` has been empty
  since its predicate test. Render takes the mutex, so it cannot fall
  between the test and the block, and its notify is never lost. Only the
  unlocked notifies of ForceKeyframe and the destructor can be lost. A
  Render without the mutex (the mutant `RenderUnlocked`) breaks it.
- **DestructorReturns** holds. The notify can fall between the encode
  thread's predicate check and its wait, and be lost. The timeout then
  makes the thread see `destroyed_`. A destructor that did not set the flag
  (the mutant) never returns from join.
- **SlicesEncoded** holds. Start queues its slice without a notify; the
  timeout is what makes the encode thread pick it up.
- **FirstFrameIsKey** is violated, in this order:
  1. Client 1 is running.
  2. Encode reads `force_keyframe_` as false and releases the mutex.
  3. A second Start installs client 2 and sets the flag.
  4. The encode thread relocks and delivers its non-key frame to client 2.
  Client 2's first frame is a delta frame it cannot decode.
- **StoppedEncoderWaits** is violated: after Start then Stop, the queued
  slice keeps wait_for's predicate true. `if (!started_) continue` never
  clears it, so the thread loops forever without blocking.

Proof (`DisplayEncoderProofs`): `TypeCorrect`, `Spec => []TypeOK`, for every
`MaxStarts`. The type invariant is inductive as it stands. The proof splits
it into the Boolean flags and the rest, because the SMT backend does not
handle the mixture in one obligation.

`IdleWaitCorrect` proves `Spec => []WaitsOnlyWhenIdle`. WaitsOnlyWhenIdle
alone is not inductive: nothing in it stops Start or Render from adding a
slice while the thread is at `towait`. The strengthening `EInv` adds
`LockHeld`: the mutex is held by the encode thread exactly at `check`,
`towait` and `body`. Start and Render need the mutex free, so they cannot
run in those places. `DisplayEncoderInv.cfg` checks EInv on
`MCDisplayEncoderProofs` (2350 states) before the proof.

## 8. Limits

What is only model-checked:
- Liveness: DatagramsRead, DestructorReturns, SlicesEncoded.
  TLAPS does not prove liveness under fairness or ENABLED.
- RamBackedByLiveMapping, which a run violates.

Every invariant and action property of a passing run is also proved by a
theorem.

What is not modelled:
- The pixel arithmetic of the encoder: RenderPartial, ConvertPartial,
  CreateEncodeSlice, DrawSlices and Screendump. Their data is abstracted to
  "the slice queue is empty or not", and nothing in the thread protocol
  depends on the geometry.
- The region table and pass-through I/O of VfioPci, and SetupGfxPlane.
  These are single ioctls or pread/pwrite calls with no state of their own.
- recv errors other than an empty socket, and the contents of packets
  (redirect_udp.cc:112 and :134).

------------------------------ MODULE VfioPci ------------------------------
(***************************************************************************)
(* The VFIO pass-through device of src/mvisor/devices/vfio/vfio_pci.cc:    *)
(* attach (Connect), the guest-visible config-space proxy, the MSI router  *)
(* and detach (Disconnect).  Three threads act on it:                      *)
(*   - the vCPU, which issues guest config-space reads and writes;         *)
(*   - the I/O reactor, which runs the eventfd callback of                 *)
(*     SetupPciInterrupts (drain the counter, SignalMsi);                  *)
(*   - the kernel, which signals the eventfd bound as the VFIO MSI         *)
(*     trigger whenever the device raises an interrupt.                    *)
(* The device manager calls Connect and Disconnect.  Data is abstracted    *)
(* to the config-space fields the code rewrites and the MSI enable bit.    *)
(***************************************************************************)
EXTENDS Naturals

CONSTANTS
    MaxIrqs,              \* bound on the interrupts the device raises
    DeviceStoresRoWrites  \* does the device keep writes to its read-only
                          \* config fields (irq pin, header type, class, BAR type)?

ASSUME MaxIrqsAssumption == MaxIrqs \in Nat
ASSUME DeviceAssumption == DeviceStoresRoWrites \in BOOLEAN

\* The descriptors the device owns: group_fd_, container_fd_, device_fd_
\* and the eventfd of the single MSI vector.
Fds == {"group", "container", "device", "event"}

\* Capabilities of the device's config-space capability list that the walk
\* of SetupPciConfiguration acts on (64-bit MSI, MSI-X).
Caps == {"msi64", "msix"}

\* The config header, abstracted to the fields SetupPciConfiguration rewrites
\* or checks and to the enable bit of the MSI control register.  bridge is a
\* header_type other than PCI_HEADER_TYPE_NORMAL; display is class_code =
\* 0x030200; bar0 is the type of BAR 0.
Header == [irq_pin: {0, 1}, multi_fn: BOOLEAN, bridge: BOOLEAN,
           display: BOOLEAN, bar0: {"io", "mem32", "mem64"},
           msi_enable: BOOLEAN]
Fields == {"irq_pin", "multi_fn", "bridge", "display", "bar0", "msi_enable"}

\* Byte offsets relative to msi_config_.offset at which the guest accesses
\* config space, with their lengths (naturally aligned, at most 4 bytes as
\* WritePciConfigSpace asserts).  Byte 2 (PCI_MSI_FLAGS) holds the enable bit.
MsiCtlByte == 2
Accesses == {a \in (0 .. 7) \X {1, 2, 4} : a[1] % a[2] = 0}

\* What the host reports at attach: group viability, the container and
\* device checks, the capabilities of the config space, and whether the
\* region of BAR 0 has a nonzero size (regions_[0].size).
HwFacts == [viable: BOOLEAN, container_ok: BOOLEAN, device_ok: BOOLEAN,
            caps: SUBSET Caps, bar0_sized: BOOLEAN]

Phases == {"init", "attached", "unhooked", "unpolled", "irqs_closed",
           "detached", "panicked"}

VARIABLES
    phase,       \* where Connect / Disconnect have got to
    hw,          \* fixed facts of the host device: group viability, caps
    dev,         \* the device's own config space
    hdr,         \* pci_header_: the guest-visible copy
    msiEnabled,  \* msi_config_.enabled
    open,        \* which descriptors are open
    polled,      \* the eventfd is registered with the I/O reactor
    listener,    \* memory_listener_ is registered
    trigger,     \* VFIO has the eventfd as the MSI trigger (kernel state)
    counter,     \* the eventfd counter
    raised,      \* interrupts the device has raised
    signalled    \* SignalMsi calls made by the reactor callback

vars == <<phase, hw, dev, hdr, msiEnabled, open, polled, listener, trigger,
          counter, raised, signalled>>

-----------------------------------------------------------------------------
(* Helpers translated from SetupPciConfiguration and WritePciConfigSpace.  *)

\* Lines 97-118: the rewrites applied to the header read from the device.
\* A sanitising pass that forgets to clear the interrupt pin.
\* The BAR loop skips a BAR whose region has size 0 (line 108) and
\* clears the 64-bit type only of a memory BAR it keeps.
SanitizeKeepPin(h, sized) ==
    [h EXCEPT !.multi_fn = FALSE, !.display = TRUE,
              !.bar0 = IF sized /\ @ = "mem64" THEN "mem32" ELSE @]
Sanitize(h, sized) ==
    [h EXCEPT !.irq_pin = 0, !.multi_fn = FALSE, !.display = TRUE,
              !.bar0 = IF sized /\ @ = "mem64" THEN "mem32" ELSE @]

\* Line 154: pwrite of a whole header to the device.  The enable bit is
\* writable; the other fields are read-only in PCI and kept only by a
\* device that stores such writes.
DeviceWrite(d, h) ==
    IF DeviceStoresRoWrites THEN h ELSE [d EXCEPT !.msi_enable = h.msi_enable]

\* The bytes [off, off + len) of a config write include byte b.
WritesByte(off, len, b) == off <= b /\ b < off + len

\* Line 528: the access overlaps the byte holding the MSI enable bit.
\* A check that only sees accesses starting at that byte.
MsiRangeTouchedExact(off, len) == off = MsiCtlByte
MsiRangeTouched(off, len) == off < MsiCtlByte + 1 /\ MsiCtlByte < off + len

\* SetupVfioGroup (lines 218-243): the group must be viable.
SetupVfioGroupOk == hw.viable

\* SetupVfioContainer (lines 245-286): API version, TYPE1v2 support, binding
\* the group and reading the IOMMU info must all succeed (MV_ASSERTs).
SetupVfioContainerOk == hw.container_ok

\* SetupVfioDevice (lines 288-375): the device must report RESET and PCI,
\* enough regions and IRQ indexes, and a single eventfd-capable MSI.
SetupVfioDeviceOk == hw.device_ok

\* SetupPciConfiguration (lines 88-155): a normal header once the
\* multi-function bit is cleared, and no MSI-X capability.
SetupPciConfigurationOk == ~dev.bridge /\ "msix" \notin hw.caps

\* SetupPciInterrupts (lines 468-486): a 64-bit MSI capability was found.
SetupPciInterruptsOk == "msi64" \in hw.caps

\* Connect (lines 43-58) runs the setup steps in order; any failed check
\* ends in MV_PANIC or a failed MV_ASSERT.
ConnectChecksPass ==
    /\ SetupVfioGroupOk
    /\ SetupVfioContainerOk
    /\ SetupVfioDeviceOk
    /\ SetupPciConfigurationOk
    /\ SetupPciInterruptsOk

-----------------------------------------------------------------------------
(* Initial state: the constructor (lines 32-37) and a host device.          *)

Init ==
    /\ phase = "init"
    /\ hw \in HwFacts
    /\ dev \in {h \in Header : ~h.msi_enable}
    \* A BAR that is not implemented (VFIO reports a region of size 0) is
    \* hardwired to zero: a 32-bit memory BAR.
    /\ ~hw.bar0_sized => dev.bar0 = "mem32"
    /\ hdr = dev
    /\ msiEnabled = FALSE
    /\ open = [f \in Fds |-> FALSE]
    /\ polled = FALSE
    /\ listener = FALSE
    /\ trigger = FALSE
    /\ counter = 0
    /\ raised = 0
    /\ signalled = 0

-----------------------------------------------------------------------------
(* Connect (lines 43-58).  It runs before the guest and before the eventfd  *)
(* exists, so it is one step.  Every check that fails ends in MV_PANIC or a *)
(* failed MV_ASSERT, which aborts the process.                              *)

ConnectOk ==
    /\ phase = "init"
    /\ ConnectChecksPass
    /\ phase' = "attached"
    /\ open' = [f \in Fds |-> TRUE]
    /\ hdr' = Sanitize(dev, hw.bar0_sized)
    /\ dev' = DeviceWrite(dev, Sanitize(dev, hw.bar0_sized))
    /\ polled' = TRUE
    /\ listener' = TRUE
    /\ UNCHANGED <<hw, msiEnabled, trigger, counter, raised, signalled>>

ConnectPanic ==
    /\ phase = "init"
    /\ ~ConnectChecksPass
    /\ phase' = "panicked"
    /\ UNCHANGED <<hw, dev, hdr, msiEnabled, open, polled, listener, trigger,
                   counter, raised, signalled>>

-----------------------------------------------------------------------------
(* Guest config-space accesses on the vCPU (lines 488-542).                 *)

\* UpdateMsiRoutes reading msi_config_.enabled before refreshing it from the
\* control register.
UpdateMsiRoutesStale ==
    /\ msiEnabled' = hdr'.msi_enable
    /\ trigger' = msiEnabled
\* UpdateMsiRoutes (lines 488-513): cache the enable bit, then one
\* VFIO_DEVICE_SET_IRQS binding the eventfd, or -1, as the trigger.
UpdateMsiRoutes ==
    /\ msiEnabled' = hdr'.msi_enable
    /\ trigger' = msiEnabled'

\* WritePciConfigSpace (lines 515-531): pwrite to the device, the base
\* model's update of pci_header_, then UpdateMsiRoutes if the enable byte
\* was written.  en is the enable bit in the written bytes.
GuestWriteConfig(off, len, en) ==
    /\ phase = "attached"
    /\ LET put(h) == IF WritesByte(off, len, MsiCtlByte)
                       THEN [h EXCEPT !.msi_enable = en] ELSE h
       IN /\ dev' = put(dev)
          /\ hdr' = put(hdr)
    /\ IF MsiRangeTouched(off, len)
         THEN UpdateMsiRoutes
         ELSE UNCHANGED <<msiEnabled, trigger>>
    /\ UNCHANGED <<phase, hw, open, polled, listener, counter, raised,
                   signalled>>

\* ReadPciConfigSpace (lines 533-542): re-read the bytes from the device
\* into pci_header_, from which the base model answers the guest.
GuestReadConfig(f) ==
    /\ phase = "attached"
    /\ hdr' = [hdr EXCEPT ![f] = dev[f]]
    /\ UNCHANGED <<phase, hw, dev, msiEnabled, open, polled, listener, trigger,
                   counter, raised, signalled>>

-----------------------------------------------------------------------------
(* The kernel and the I/O reactor.                                          *)

\* The device raises an interrupt; VFIO signals the trigger eventfd.  The
\* kernel holds its own reference, so this works until device_fd_ closes.
DeviceInterrupt ==
    /\ trigger
    /\ open["device"]
    /\ raised < MaxIrqs
    /\ counter' = counter + 1
    /\ raised' = raised + 1
    /\ UNCHANGED <<phase, hw, dev, hdr, msiEnabled, open, polled, listener,
                   trigger, signalled>>

\* A callback that forwards on every readiness wake-up without reading
\* anything from the eventfd first.
ReactorDrainSpurious ==
    /\ polled
    /\ signalled < MaxIrqs
    /\ counter' = 0
    /\ signalled' = signalled + 1
    /\ UNCHANGED <<phase, hw, dev, hdr, msiEnabled, open, polled, listener,
                   trigger, raised>>
\* The reactor callback of SetupPciInterrupts (lines 479-484): one 8-byte
\* read of an eventfd created by eventfd(0, 0), which returns the whole
\* counter and resets it, then SignalMsi(vector).
ReactorDrain ==
    /\ polled
    /\ counter > 0
    /\ signalled < MaxIrqs
    /\ counter' = 0
    /\ signalled' = signalled + 1
    /\ UNCHANGED <<phase, hw, dev, hdr, msiEnabled, open, polled, listener,
                   trigger, raised>>

-----------------------------------------------------------------------------
(* Disconnect (lines 60-75), in three steps between which the reactor and   *)
(* the kernel may run.                                                      *)

\* Lines 61-64: UnregisterMemoryListener.
DisconnectListener ==
    /\ phase = "attached"
    /\ phase' = "unhooked"
    /\ listener' = FALSE
    /\ UNCHANGED <<hw, dev, hdr, msiEnabled, open, polled, trigger, counter,
                   raised, signalled>>

\* The loop of lines 65-70 with its two calls swapped: the eventfd is
\* closed while the reactor still polls it.
DisconnectCloseFirst ==
    /\ phase = "unhooked"
    /\ phase' = "unpolled"
    /\ open' = [open EXCEPT !["event"] = FALSE]
    /\ UNCHANGED <<hw, dev, hdr, msiEnabled, polled, listener, trigger,
                   counter, raised, signalled>>
\* Line 67: IoThread::StopPolling(event_fd).
DisconnectStopPolling ==
    /\ phase = "unhooked"
    /\ phase' = "unpolled"
    /\ polled' = FALSE
    /\ UNCHANGED <<hw, dev, hdr, msiEnabled, open, listener, trigger,
                   counter, raised, signalled>>

\* Line 68: safe_close(&event_fd).
DisconnectCloseEvent ==
    /\ phase = "unpolled"
    /\ phase' = "irqs_closed"
    /\ open' = [open EXCEPT !["event"] = FALSE]
    /\ UNCHANGED <<hw, dev, hdr, msiEnabled, polled, listener, trigger,
                   counter, raised, signalled>>

\* Lines 71-74: close device_fd_ (the kernel then releases the MSI trigger),
\* container_fd_ and group_fd_.
DisconnectFds ==
    /\ phase = "irqs_closed"
    /\ phase' = "detached"
    /\ open' = [f \in Fds |-> FALSE]
    /\ trigger' = FALSE
    /\ UNCHANGED <<hw, dev, hdr, msiEnabled, polled, listener, counter,
                   raised, signalled>>

\* After Disconnect, or after a panic, the device takes no further step.
Terminated ==
    /\ phase \in {"detached", "panicked"}
    /\ UNCHANGED vars

-----------------------------------------------------------------------------

Next ==
    \/ ConnectOk
    \/ ConnectPanic
    \/ \E a \in Accesses, en \in BOOLEAN : GuestWriteConfig(a[1], a[2], en)
    \/ \E f \in Fields : GuestReadConfig(f)
    \/ DeviceInterrupt
    \/ ReactorDrain
    \/ DisconnectListener
    \/ DisconnectStopPolling
    \/ DisconnectCloseEvent
    \/ DisconnectFds
    \/ Terminated

\* The reactor thread loops on epoll and serves every ready descriptor, so
\* its callback cannot stay enabled forever without running.  The guest,
\* the device and the device manager are not obliged to act.
Spec == Init /\ [][Next]_vars /\ WF_vars(ReactorDrain)

-----------------------------------------------------------------------------
(* Properties.                                                              *)

TypeOK ==
    /\ phase \in Phases
    /\ hw \in HwFacts
    /\ dev \in Header
    /\ hdr \in Header
    /\ msiEnabled \in BOOLEAN
    /\ open \in [Fds -> BOOLEAN]
    /\ polled \in BOOLEAN
    /\ listener \in BOOLEAN
    /\ trigger \in BOOLEAN
    /\ counter \in 0 .. MaxIrqs
    /\ raised \in 0 .. MaxIrqs
    /\ signalled \in 0 .. MaxIrqs

\* MSI wiring (spec 8.4): while attached, VFIO has the eventfd as the MSI
\* trigger exactly when the guest's MSI enable bit, as the device holds it,
\* is set, msi_config_.enabled agrees, and the reactor polls the eventfd.
\* It rests on WritePciConfigSpace refreshing the routes on every write that
\* touches the enable byte, and on UpdateMsiRoutes reading the new value.
MsiWiring ==
    phase = "attached" =>
        /\ trigger = dev.msi_enable
        /\ msiEnabled = dev.msi_enable
        /\ polled

\* Descriptor discipline (spec 8.2): after Disconnect no descriptor of the
\* device is open, the reactor polls nothing of it, the memory listener is
\* gone and VFIO holds no trigger; during Disconnect the reactor never
\* polls an eventfd that is already closed.
DescriptorDiscipline ==
    /\ polled => open["event"]
    /\ phase = "detached" =>
         /\ \A f \in Fds : ~open[f]
         /\ ~polled
         /\ ~listener
         /\ ~trigger

\* Header sanity (spec 8.3): while attached, the header the guest reads has
\* interrupt pin 0, no multi-function bit, the display class code and no
\* 64-bit BAR.  ReadPciConfigSpace refreshes pci_header_ from the device, so
\* this rests on the device keeping the header written back at line 154.
GuestHeaderSane ==
    phase = "attached" =>
        /\ hdr.irq_pin = 0
        /\ ~hdr.multi_fn
        /\ hdr.display
        /\ hdr.bar0 # "mem64"

\* No spurious MSI: the reactor never forwards more interrupts than the
\* device raised; counting the ones still pending in the eventfd, the
\* callback's drains can only merge interrupts, never invent one.
NoSpuriousMsi ==
    signalled + counter <= raised

\* The reactor forwards an interrupt to the guest (SignalMsi) only while the
\* guest has MSI enabled: spec 4.5 gives the host-eventfd-readable event
\* only in the Enabled state.
MsiOnlyWhenEnabled ==
    [][signalled' # signalled => msiEnabled]_vars

\* Every interrupt the device raises reaches the guest as its own SignalMsi:
\* spec 4.5 asks for a semaphore-semantics eventfd drained by one read per
\* callback, which forwards interrupts one for one.
IrqAccounting ==
    signalled + counter = raised

=============================================================================

--------------------------- MODULE VfioPciProofs ---------------------------
(***************************************************************************)
(* Proofs about VfioPci for every bound MaxIrqs and either kind of device: *)
(* the type invariant, and MSI wiring with descriptor discipline through   *)
(* an inductive invariant that records, for each phase of Connect and      *)
(* Disconnect, which descriptors are open, polled and bound.               *)
(***************************************************************************)
EXTENDS VfioPci, TLAPS

AllOpen == open = [f \in Fds |-> TRUE]
AllClosed == open = [f \in Fds |-> FALSE]

\* The inductive strengthening of MsiWiring /\ DescriptorDiscipline.
IInv ==
    /\ TypeOK
    /\ NoSpuriousMsi
    /\ phase \in {"init", "panicked"} =>
         AllClosed /\ ~polled /\ ~listener /\ ~trigger
    /\ phase = "init" => ~dev.msi_enable /\ ~msiEnabled
    /\ phase = "attached" =>
         /\ AllOpen /\ polled /\ listener
         /\ trigger = dev.msi_enable
         /\ msiEnabled = dev.msi_enable
    /\ phase = "unhooked" => AllOpen /\ polled /\ ~listener
    /\ phase = "unpolled" => AllOpen /\ ~polled /\ ~listener
    /\ phase = "irqs_closed" => ~open["event"] /\ ~polled /\ ~listener
    /\ phase = "detached" => AllClosed /\ ~polled /\ ~listener /\ ~trigger

-----------------------------------------------------------------------------
(* Lemmas on the header operators.                                          *)

LEMMA SanitizeType ==
    ASSUME NEW h \in Header, NEW sized \in BOOLEAN
    PROVE  Sanitize(h, sized) \in Header
BY DEF Sanitize, Header

LEMMA DeviceWriteType ==
    ASSUME NEW d \in Header, NEW h \in Header
    PROVE  DeviceWrite(d, h) \in Header
BY DeviceAssumption DEF DeviceWrite, Header

LEMMA SetEnableType ==
    ASSUME NEW h \in Header, NEW en \in BOOLEAN
    PROVE  [h EXCEPT !.msi_enable = en] \in Header
BY DEF Header

LEMMA CopyFieldType ==
    ASSUME NEW h \in Header, NEW d \in Header, NEW f \in Fields
    PROVE  [h EXCEPT ![f] = d[f]] \in Header
<1>1. CASE f = "irq_pin"    BY <1>1 DEF Header
<1>2. CASE f = "multi_fn"   BY <1>2 DEF Header
<1>3. CASE f = "bridge"     BY <1>3 DEF Header
<1>4. CASE f = "display"    BY <1>4 DEF Header
<1>5. CASE f = "bar0"       BY <1>5 DEF Header
<1>6. CASE f = "msi_enable" BY <1>6 DEF Header
<1>7. QED BY <1>1, <1>2, <1>3, <1>4, <1>5, <1>6 DEF Fields

-----------------------------------------------------------------------------
(* Type correctness, with the interrupt accounting that bounds counter.     *)

TypeInv == TypeOK /\ NoSpuriousMsi

LEMMA InitTypeInv == Init => TypeInv
<1> SUFFICES ASSUME Init PROVE TypeInv
  OBVIOUS
<1>1. dev \in Header /\ hdr \in Header
  BY DEF Init
<1>2. open \in [Fds -> BOOLEAN]
  BY DEF Init
<1>3. phase \in Phases /\ hw \in HwFacts
  BY DEF Init, Phases
<1>4. msiEnabled \in BOOLEAN /\ polled \in BOOLEAN /\ listener \in BOOLEAN
      /\ trigger \in BOOLEAN
  BY DEF Init
<1>5. counter \in 0 .. MaxIrqs /\ raised \in 0 .. MaxIrqs
      /\ signalled \in 0 .. MaxIrqs /\ signalled + counter <= raised
  BY MaxIrqsAssumption DEF Init
<1>6. QED
  BY <1>1, <1>2, <1>3, <1>4, <1>5 DEF TypeInv, TypeOK, NoSpuriousMsi

LEMMA NextTypeInv == TypeInv /\ [Next]_vars => TypeInv'
<1> SUFFICES ASSUME TypeInv, [Next]_vars PROVE TypeInv'
  OBVIOUS
<1> USE MaxIrqsAssumption DEF TypeInv, TypeOK, NoSpuriousMsi
<1>1. CASE ConnectOk
  <2>1. hw.bar0_sized \in BOOLEAN
    BY DEF HwFacts
  <2>2. QED
    BY <1>1, <2>1, SanitizeType, DeviceWriteType DEF ConnectOk, Phases
<1>2. CASE ConnectPanic
  BY <1>2 DEF ConnectPanic, Phases
<1>3. ASSUME NEW a \in Accesses, NEW en \in BOOLEAN,
             GuestWriteConfig(a[1], a[2], en)
      PROVE  TypeInv'
  <2> DEFINE put(h) == IF WritesByte(a[1], a[2], MsiCtlByte)
                         THEN [h EXCEPT !.msi_enable = en] ELSE h
  <2>1. dev' = put(dev) /\ hdr' = put(hdr)
    BY <1>3 DEF GuestWriteConfig
  <2>2. put(dev) \in Header /\ put(hdr) \in Header
    BY SetEnableType
  <2>3. msiEnabled' \in BOOLEAN /\ trigger' \in BOOLEAN
    BY <1>3, <2>1, <2>2 DEF GuestWriteConfig, UpdateMsiRoutes, Header
  <2>4. QED
    BY <1>3, <2>1, <2>2, <2>3 DEF GuestWriteConfig
<1>4. ASSUME NEW f \in Fields, GuestReadConfig(f) PROVE TypeInv'
  BY <1>4, CopyFieldType DEF GuestReadConfig
<1>5. CASE DeviceInterrupt
  BY <1>5 DEF DeviceInterrupt
<1>6. CASE ReactorDrain
  BY <1>6 DEF ReactorDrain
<1>7. CASE DisconnectListener
  BY <1>7 DEF DisconnectListener, Phases
<1>8. CASE DisconnectStopPolling \/ DisconnectCloseEvent
  BY <1>8 DEF DisconnectStopPolling, DisconnectCloseEvent, Phases
<1>9. CASE DisconnectFds
  BY <1>9 DEF DisconnectFds, Phases
<1>10. CASE Terminated \/ UNCHANGED vars
  BY <1>10 DEF Terminated, vars
<1>11. QED
  BY <1>1, <1>2, <1>3, <1>4, <1>5, <1>6, <1>7, <1>8, <1>9, <1>10 DEF Next

\* The type invariant (TypeOK) holds in every reachable state.
THEOREM TypeCorrect == Spec => []TypeOK
BY InitTypeInv, NextTypeInv, PTL DEF Spec, TypeInv

\* NoSpuriousMsi: the reactor callback never forwards more MSIs than the
\* device raised, for every bound on the interrupts.
THEOREM NoSpurious == Spec => []NoSpuriousMsi
BY InitTypeInv, NextTypeInv, PTL DEF Spec, TypeInv

-----------------------------------------------------------------------------
(* MSI wiring and descriptor discipline.                                     *)

LEMMA IInvImpliesProps == IInv => MsiWiring /\ DescriptorDiscipline
BY DEF IInv, TypeOK, Phases, MsiWiring, DescriptorDiscipline, AllOpen,
       AllClosed, Fds

LEMMA InitIInv == Init => IInv
<1> SUFFICES ASSUME Init PROVE IInv
  OBVIOUS
<1>1. TypeOK /\ NoSpuriousMsi
  BY InitTypeInv DEF TypeInv
<1>2. QED
  BY <1>1 DEF Init, IInv, AllClosed

LEMMA NextIInv == IInv /\ [Next]_vars => IInv'
<1> SUFFICES ASSUME IInv, [Next]_vars PROVE IInv'
  OBVIOUS
<1>1. TypeOK' /\ NoSpuriousMsi'
  BY NextTypeInv DEF IInv, TypeInv
<1> USE <1>1 DEF IInv, AllOpen, AllClosed
<1>2. CASE ConnectOk
  <2>1. dev'.msi_enable = FALSE
    <3>1. dev \in Header /\ ~dev.msi_enable
      BY <1>2 DEF TypeOK, ConnectOk
    <3>2. QED
      BY <1>2, <3>1 DEF ConnectOk, DeviceWrite, Sanitize, Header
  <2>2. ~msiEnabled' /\ ~trigger'
    BY <1>2 DEF ConnectOk
  <2>3. phase' = "attached" /\ open' = [f \in Fds |-> TRUE] /\ polled' /\ listener'
    BY <1>2 DEF ConnectOk
  <2>4. trigger' = dev'.msi_enable /\ msiEnabled' = dev'.msi_enable
    BY <2>1, <2>2 DEF TypeOK
  <2>5. QED
    BY <2>3, <2>4
<1>3. CASE ConnectPanic
  BY <1>3 DEF ConnectPanic
<1>4. ASSUME NEW a \in Accesses, NEW en \in BOOLEAN,
             GuestWriteConfig(a[1], a[2], en)
      PROVE  IInv'
  <2>1. CASE MsiRangeTouched(a[1], a[2])
    <3>1. dev'.msi_enable = en /\ hdr'.msi_enable = en
      BY <1>4, <2>1 DEF GuestWriteConfig, MsiRangeTouched, WritesByte,
                        MsiCtlByte, Accesses, TypeOK, Header
    <3>2. msiEnabled' = en /\ trigger' = en
      BY <1>4, <2>1, <3>1 DEF GuestWriteConfig, UpdateMsiRoutes
    <3>3. QED
      BY <1>4, <3>1, <3>2 DEF GuestWriteConfig
  <2>2. CASE ~MsiRangeTouched(a[1], a[2])
    <3>1. dev' = dev
      BY <1>4, <2>2 DEF GuestWriteConfig, MsiRangeTouched, WritesByte,
                        MsiCtlByte, Accesses
    <3>2. QED
      BY <1>4, <2>2, <3>1 DEF GuestWriteConfig
  <2>3. QED
    BY <2>1, <2>2
<1>5. ASSUME NEW f \in Fields, GuestReadConfig(f) PROVE IInv'
  BY <1>5 DEF GuestReadConfig
<1>6. CASE DeviceInterrupt
  BY <1>6 DEF DeviceInterrupt
<1>7. CASE ReactorDrain
  BY <1>7 DEF ReactorDrain
<1>8. CASE DisconnectListener
  BY <1>8 DEF DisconnectListener
<1>9. CASE DisconnectStopPolling
  BY <1>9 DEF DisconnectStopPolling
<1>13. CASE DisconnectCloseEvent
  BY <1>13 DEF DisconnectCloseEvent, TypeOK, Fds
<1>10. CASE DisconnectFds
  BY <1>10 DEF DisconnectFds, AllClosed
<1>11. CASE Terminated \/ UNCHANGED vars
  BY <1>11 DEF Terminated, vars
<1>12. QED
  BY <1>2, <1>3, <1>4, <1>5, <1>6, <1>7, <1>8, <1>9, <1>10, <1>11, <1>13 DEF Next

\* MsiWiring and DescriptorDiscipline hold in every reachable state: while
\* attached, VFIO's trigger and msi_config_.enabled follow the guest's MSI
\* enable bit and the eventfd is polled; the reactor never polls a closed
\* eventfd; after Disconnect nothing of the device is open, polled or bound.
THEOREM WiringCorrect == Spec => [](MsiWiring /\ DescriptorDiscipline)
BY InitIInv, NextIInv, IInvImpliesProps, PTL DEF Spec

\* DescriptorDiscipline alone: Disconnect stops polling the eventfd before
\* it closes it, and leaves no descriptor open, polled or bound.
THEOREM DisciplineCorrect == Spec => []DescriptorDiscipline
BY WiringCorrect, PTL

-----------------------------------------------------------------------------
(* Header sanity, for a device that keeps writes to its read-only fields.  *)

\* The fields SetupPciConfiguration rewrites have their sanitised values.
Sane(h) ==
    /\ h.irq_pin = 0
    /\ ~h.multi_fn
    /\ h.display
    /\ h.bar0 # "mem64"

\* The strengthening of GuestHeaderSane: while attached, the device's own
\* config space is sanitised too, since every read copies from it; and a
\* BAR 0 that the BAR loop skips for its size is not a 64-bit BAR.
HInv ==
    /\ TypeOK
    /\ ~hw.bar0_sized => dev.bar0 # "mem64"
    /\ phase = "attached" => Sane(dev) /\ Sane(hdr)

\* The sanitising pass yields a sane header whenever the BAR it may skip
\* is not a 64-bit one.
LEMMA SanitizeSane ==
    ASSUME NEW h \in Header, NEW sized \in BOOLEAN,
           sized \/ h.bar0 # "mem64"
    PROVE  Sane(Sanitize(h, sized))
BY DEF Sanitize, Sane, Header

\* A write to the enable bit leaves the rewritten fields alone.
LEMMA SetEnableSane ==
    ASSUME NEW h \in Header, Sane(h), NEW en \in BOOLEAN
    PROVE  Sane([h EXCEPT !.msi_enable = en])
BY DEF Sane, Header

\* Copying one field from a sanitised header into another keeps it sane.
LEMMA CopyFieldSane ==
    ASSUME NEW h \in Header, NEW d \in Header, Sane(h), Sane(d), NEW f \in Fields
    PROVE  Sane([h EXCEPT ![f] = d[f]])
<1>1. CASE f = "irq_pin"    BY <1>1 DEF Sane, Header
<1>2. CASE f = "multi_fn"   BY <1>2 DEF Sane, Header
<1>3. CASE f = "bridge"     BY <1>3 DEF Sane, Header
<1>4. CASE f = "display"    BY <1>4 DEF Sane, Header
<1>5. CASE f = "bar0"       BY <1>5 DEF Sane, Header
<1>6. CASE f = "msi_enable" BY <1>6 DEF Sane, Header
<1>7. QED BY <1>1, <1>2, <1>3, <1>4, <1>5, <1>6 DEF Fields

LEMMA InitHInv == Init => HInv
BY InitTypeInv DEF Init, HInv, TypeInv, TypeOK, HwFacts

LEMMA NextHInv ==
    ASSUME DeviceStoresRoWrites
    PROVE  TypeInv /\ HInv /\ [Next]_vars => HInv'
<1> SUFFICES ASSUME TypeInv, HInv, [Next]_vars PROVE HInv'
  OBVIOUS
<1>1. TypeOK'
  BY NextTypeInv DEF TypeInv
<1> USE <1>1 DEF HInv
<1>2. CASE ConnectOk
  <2>1. dev \in Header /\ hw.bar0_sized \in BOOLEAN
        /\ (hw.bar0_sized \/ dev.bar0 # "mem64")
    BY DEF TypeOK, HwFacts
  <2>2. /\ hdr' = Sanitize(dev, hw.bar0_sized)
        /\ dev' = Sanitize(dev, hw.bar0_sized)
        /\ phase' = "attached" /\ hw' = hw
    BY <1>2 DEF ConnectOk, DeviceWrite
  <2>3. Sane(dev') /\ Sane(hdr')
    BY <2>1, <2>2, SanitizeSane
  <2>4. QED
    BY <2>2, <2>3 DEF Sane
<1>3. ASSUME NEW a \in Accesses, NEW en \in BOOLEAN,
             GuestWriteConfig(a[1], a[2], en)
      PROVE  HInv'
  <2> DEFINE put(h) == IF WritesByte(a[1], a[2], MsiCtlByte)
                         THEN [h EXCEPT !.msi_enable = en] ELSE h
  <2>1. phase' = "attached" /\ phase = "attached" /\ dev' = put(dev) /\ hdr' = put(hdr)
    BY <1>3 DEF GuestWriteConfig
  <2>2. dev \in Header /\ hdr \in Header /\ Sane(dev) /\ Sane(hdr)
    BY <2>1 DEF TypeOK
  <2>3. Sane(dev') /\ Sane(hdr')
    BY <2>1, <2>2, SetEnableSane
  <2>4. QED
    BY <2>1, <2>3 DEF Sane
<1>4. ASSUME NEW f \in Fields, GuestReadConfig(f) PROVE HInv'
  <2>1. phase = "attached" /\ hdr' = [hdr EXCEPT ![f] = dev[f]] /\ dev' = dev
        /\ phase' = phase /\ hw' = hw
    BY <1>4 DEF GuestReadConfig
  <2>2. dev \in Header /\ hdr \in Header /\ Sane(dev) /\ Sane(hdr)
    BY <2>1 DEF TypeOK
  <2>3. Sane(hdr')
    BY <2>1, <2>2, CopyFieldSane
  <2>4. QED
    BY <2>1, <2>2, <2>3 DEF Sane
<1>5. CASE ConnectPanic \/ DeviceInterrupt \/ ReactorDrain \/ DisconnectListener
           \/ DisconnectStopPolling \/ DisconnectCloseEvent \/ DisconnectFds
  BY <1>5 DEF ConnectPanic, DeviceInterrupt, ReactorDrain, DisconnectListener,
              DisconnectStopPolling, DisconnectCloseEvent, DisconnectFds
<1>6. CASE Terminated \/ UNCHANGED vars
  BY <1>6 DEF Terminated, vars
<1>7. QED
  BY <1>2, <1>3, <1>4, <1>5, <1>6 DEF Next

\* GuestHeaderSane holds in every reachable state, for every interrupt
\* bound, when the device stores the header SetupPciConfiguration writes
\* back (line 154): ReadPciConfigSpace then copies only sanitised fields
\* into pci_header_, and guest writes change only the MSI enable bit of
\* those fields.  For a device that ignores such writes it fails (the run
\* vfio_header_device_ignores).
THEOREM HeaderCorrect ==
    DeviceStoresRoWrites => (Spec => []GuestHeaderSane)
<1> SUFFICES ASSUME DeviceStoresRoWrites PROVE Spec => []GuestHeaderSane
  OBVIOUS
<1>1. TypeInv /\ HInv => GuestHeaderSane
  BY DEF HInv, Sane, GuestHeaderSane
<1>2. TypeInv /\ HInv /\ [Next]_vars => TypeInv' /\ HInv'
  BY NextTypeInv, NextHInv
<1>3. Init => TypeInv /\ HInv
  BY InitTypeInv, InitHInv
<1>4. QED
  BY <1>1, <1>2, <1>3, PTL DEF Spec

=============================================================================

--------------------------- MODULE VfioBarProofs ---------------------------
(***************************************************************************)
(* Proofs about VfioBar for every set of BARs, guest addresses and sparse  *)
(* areas: the type invariant (io_resources_ never loses an entry it does   *)
(* not hold) and that the host mappings follow activation.                 *)
(***************************************************************************)
EXTENDS VfioBar, TLAPS

-----------------------------------------------------------------------------
(* Lemmas on the resource bag.                                              *)

\* Adding entries keeps the bag a function into Nat.
LEMMA AddType ==
    ASSUME NEW b \in [Recs -> Nat], NEW S
    PROVE  AddIoResources(b, S) \in [Recs -> Nat]
BY DEF AddIoResources

\* RemoveIoResource decrements only an entry it has found, so the bag
\* stays a function into Nat.
LEMMA RemoveType ==
    ASSUME NEW b \in [Recs -> Nat], NEW t, NEW B
    PROVE  RemoveIoResources(b, t, B) \in [Recs -> Nat]
<1> SUFFICES ASSUME NEW r \in Recs,
                    r.type = t, r.base \in B, IoResourceFound(b, t, r.base),
                    r = Victim(b, t, r.base)
             PROVE  b[r] - 1 \in Nat
  BY DEF RemoveIoResources
<1>1. b[Victim(b, t, r.base)] > 0
  BY DEF IoResourceFound, Victim
<1>2. QED
  BY <1>1

-----------------------------------------------------------------------------
(* Type correctness.                                                        *)

LEMMA InitTypeOK == Init => TypeOK
<1> SUFFICES ASSUME Init PROVE TypeOK
  OBVIOUS
<1>1. address \in [Bars -> Addrs]
  BY DEF Init, Placements
<1>2. maps \in [Bars -> [Windows -> MapStates]] /\ res \in [Recs -> Nat]
  BY DEF Init, MapStates
<1>3. activations \in 0 .. MaxActivations
  BY BarAssumption DEF Init
<1>4. QED
  BY <1>1, <1>2, <1>3 DEF Init, TypeOK

\* The mappings MapBarRegion and UnmapBarRegion write stay well typed.
LEMMA MapsType ==
    ASSUME TypeOK, NEW i \in Bars, NEW v \in MapStates, NEW A
    PROVE  /\ [maps EXCEPT ![i][Whole] = v] \in [Bars -> [Windows -> MapStates]]
           /\ [maps EXCEPT ![i] = [w \in Windows |-> IF w \in A THEN v ELSE @[w]]]
                \in [Bars -> [Windows -> MapStates]]
BY DEF TypeOK, Windows

LEMMA NextTypeOK == TypeOK /\ [Next]_vars => TypeOK'
<1> SUFFICES ASSUME TypeOK, [Next]_vars PROVE TypeOK'
  OBVIOUS
<1>1. ASSUME NEW i \in Bars, ActivatePciBar(i) PROVE TypeOK'
  <2>1. active' \in [Bars -> BOOLEAN] /\ activations' \in 0 .. MaxActivations
    BY <1>1, BarAssumption DEF ActivatePciBar, TypeOK
  <2>2. CASE region[i].mmap /\ region[i].areas = {}
    <3>1. PICK m \in MmapOutcomes :
             /\ maps' = [maps EXCEPT ![i][Whole] = m]
             /\ res' = AddIoResources(res,
                         {[type |-> "ram", base |-> address[i], bar |-> i, win |-> Whole]})
             /\ UNCHANGED panicked
      BY <1>1, <2>2 DEF ActivatePciBar, MapBarRegion
    <3>2. m \in MapStates
      BY DEF MmapOutcomes, MapStates
    <3>3. QED
      BY <1>1, <2>1, <3>1, <3>2, MapsType, AddType DEF ActivatePciBar, TypeOK
  <2>3. CASE region[i].mmap /\ region[i].areas # {}
    <3>1. CASE /\ maps' = [maps EXCEPT ![i] = [w \in Windows |->
                              IF w \in region[i].areas THEN "live" ELSE @[w]]]
               /\ res' = AddIoResources(res,
                           {[type |-> "mmio", base |-> address[i], bar |-> i, win |-> Whole]}
                           \cup {[type |-> "ram", base |-> address[i] + o, bar |-> i, win |-> o]
                                  : o \in region[i].areas})
               /\ UNCHANGED panicked
      <4>1. maps' \in [Bars -> [Windows -> MapStates]]
        <5>1. "live" \in MapStates
          BY DEF MapStates
        <5>2. QED
          BY <3>1, <5>1, MapsType
      <4>2. res' \in [Recs -> Nat]
        BY <3>1, AddType DEF TypeOK
      <4>3. QED
        BY <1>1, <2>1, <3>1, <4>1, <4>2 DEF ActivatePciBar, TypeOK
    <3>2. CASE MmapMayFail /\ panicked' = TRUE /\ UNCHANGED <<maps, res>>
      BY <1>1, <2>1, <3>2 DEF ActivatePciBar, TypeOK
    <3>3. QED
      BY <1>1, <2>3, <3>1, <3>2 DEF ActivatePciBar, MapBarRegion
  <2>4. CASE ~region[i].mmap
    BY <1>1, <2>1, <2>4, AddType DEF ActivatePciBar, PciBaseActivate, TypeOK
  <2>5. QED
    BY <2>2, <2>3, <2>4
<1>2. ASSUME NEW i \in Bars, DeactivatePciBar(i) PROVE TypeOK'
  <2>1. active' \in [Bars -> BOOLEAN]
    BY <1>2 DEF DeactivatePciBar, TypeOK
  <2>2. CASE region[i].mmap /\ region[i].areas = {}
    <3>1. maps' = [maps EXCEPT ![i][Whole] = "none"]
          /\ res' = RemoveIoResources(res, "ram", {address[i]})
      BY <1>2, <2>2 DEF DeactivatePciBar, UnmapBarRegion
    <3>2. maps' \in [Bars -> [Windows -> MapStates]]
      <4>1. "none" \in MapStates
        BY DEF MapStates
      <4>2. QED
        BY <3>1, <4>1, MapsType
    <3>3. res' \in [Recs -> Nat]
      BY <3>1, RemoveType DEF TypeOK
    <3>4. QED
      BY <1>2, <2>1, <3>2, <3>3 DEF DeactivatePciBar, TypeOK
  <2>3. CASE region[i].mmap /\ region[i].areas # {}
    <3>1. RemoveIoResources(res, "ram", {RegionOffset(i) + o : o \in region[i].areas})
            \in [Recs -> Nat]
      BY RemoveType DEF TypeOK
    <3>2. res' \in [Recs -> Nat]
      BY <1>2, <2>3, <3>1, RemoveType DEF DeactivatePciBar, UnmapBarRegion
    <3>3. maps' \in [Bars -> [Windows -> MapStates]]
      <4>1. maps' = [maps EXCEPT ![i] = [w \in Windows |->
                        IF w \in region[i].areas THEN "none" ELSE @[w]]]
        BY <1>2, <2>3 DEF DeactivatePciBar, UnmapBarRegion
      <4>2. "none" \in MapStates
        BY DEF MapStates
      <4>3. QED
        BY <4>1, <4>2, MapsType
    <3>4. QED
      BY <1>2, <2>1, <3>2, <3>3 DEF DeactivatePciBar, TypeOK
  <2>4. CASE ~region[i].mmap
    BY <1>2, <2>1, <2>4, RemoveType DEF DeactivatePciBar, PciBaseDeactivate, TypeOK
  <2>5. QED
    BY <2>2, <2>3, <2>4
<1>3. ASSUME NEW i \in Bars, NEW a \in Addrs, GuestProgramBar(i, a) PROVE TypeOK'
  BY <1>3 DEF GuestProgramBar, TypeOK
<1>4. CASE Terminated
  BY <1>4 DEF Terminated, vars, TypeOK
<1>5. CASE UNCHANGED vars
  BY <1>5 DEF vars, TypeOK
<1>6. QED
  BY <1>1, <1>2, <1>3, <1>4, <1>5 DEF Next

\* Every reachable state of the BAR mapper is well typed; in particular no
\* RemoveIoResource of UnmapBarRegion or of the base PciDevice drops an
\* entry io_resources_ does not hold.
THEOREM TypeCorrect == Spec => []TypeOK
BY InitTypeOK, NextTypeOK, PTL DEF Spec

-----------------------------------------------------------------------------
(* The host mappings follow activation.  MappingsFollowActivation is       *)
(* inductive together with TypeOK: each step changes the mappings of one   *)
(* BAR only, and from all-none to its windows or back.                     *)

MInv == TypeOK /\ MappingsFollowActivation

\* The per-BAR form of MappingsFollowActivation.
BarFollows(i) ==
    \A w \in Windows :
        maps[i][w] # "none" <=> active[i] /\ region[i].mmap /\ w \in RegionWindows(i)

LEMMA WholeNotArea == Whole \notin AreaOffsets
BY BarAssumption DEF Whole

LEMMA InitMInv == Init => MInv
BY InitTypeOK DEF Init, MInv, MappingsFollowActivation

\* A step that changes active, maps and region only at BAR i, and leaves
\* BarFollows(i), keeps MappingsFollowActivation.
LEMMA OneBar ==
    ASSUME MappingsFollowActivation, ~panicked, ~panicked', NEW i \in Bars, BarFollows(i)',
           region' = region,
           \A j \in Bars \ {i} : active'[j] = active[j] /\ maps'[j] = maps[j]
    PROVE  MappingsFollowActivation'
BY DEF MappingsFollowActivation, BarFollows, RegionWindows

LEMMA NextMInv == MInv /\ [Next]_vars => MInv'
<1> SUFFICES ASSUME MInv, [Next]_vars PROVE MInv'
  OBVIOUS
<1>1. TypeOK'
  BY NextTypeOK DEF MInv
<1> USE DEF MInv
<1>2. ASSUME NEW i \in Bars, ActivatePciBar(i) PROVE MappingsFollowActivation'
  <2>1. \A w \in Windows : maps[i][w] = "none"
    BY <1>2 DEF ActivatePciBar, MappingsFollowActivation
  <2>2. active'[i] /\ region' = region
        /\ \A j \in Bars \ {i} : active'[j] = active[j]
    BY <1>2 DEF ActivatePciBar, TypeOK
  <2>3. CASE region[i].mmap /\ region[i].areas = {}
    <3>1. PICK m \in MmapOutcomes : maps' = [maps EXCEPT ![i][Whole] = m]
                                     /\ UNCHANGED panicked
      BY <1>2, <2>3 DEF ActivatePciBar, MapBarRegion
    <3>2. m # "none"
      BY DEF MmapOutcomes
    <3>3. BarFollows(i)'
      BY <2>1, <2>2, <2>3, <3>1, <3>2 DEF BarFollows, RegionWindows, TypeOK
    <3>4. QED
      BY <1>2, <2>2, <3>1, <3>3, OneBar DEF ActivatePciBar, TypeOK
  <2>4. CASE region[i].mmap /\ region[i].areas # {}
    <3>1. CASE /\ maps' = [maps EXCEPT ![i] = [w \in Windows |->
                              IF w \in region[i].areas THEN "live" ELSE @[w]]]
               /\ UNCHANGED panicked
      <4>1. BarFollows(i)'
        BY <2>1, <2>2, <2>4, <3>1, WholeNotArea DEF BarFollows, RegionWindows, TypeOK, Windows
      <4>2. QED
        BY <1>2, <2>2, <3>1, <4>1, OneBar DEF ActivatePciBar, TypeOK
    <3>2. CASE panicked' = TRUE
      BY <3>2 DEF MappingsFollowActivation
    <3>3. QED
      BY <1>2, <2>4, <3>1, <3>2 DEF ActivatePciBar, MapBarRegion
  <2>5. CASE ~region[i].mmap
    <3>1. BarFollows(i)'
      BY <1>2, <2>1, <2>2, <2>5 DEF ActivatePciBar, PciBaseActivate, BarFollows
    <3>2. ~panicked /\ ~panicked' /\ maps' = maps
      BY <1>2, <2>5 DEF ActivatePciBar, PciBaseActivate
    <3>3. QED
      BY <2>2, <3>1, <3>2, OneBar
  <2>6. QED
    BY <2>3, <2>4, <2>5
<1>3. ASSUME NEW i \in Bars, DeactivatePciBar(i) PROVE MappingsFollowActivation'
  <2>1. ~active'[i] /\ region' = region /\ ~panicked /\ ~panicked'
        /\ \A j \in Bars \ {i} : active'[j] = active[j]
    BY <1>3 DEF DeactivatePciBar, TypeOK
  <2>2. \A w \in Windows : w \notin RegionWindows(i) => maps[i][w] = "none"
    BY <1>3 DEF DeactivatePciBar, MappingsFollowActivation
  <2>3. CASE region[i].mmap /\ region[i].areas = {}
    <3>1. maps' = [maps EXCEPT ![i][Whole] = "none"]
      BY <1>3, <2>3 DEF DeactivatePciBar, UnmapBarRegion
    <3>2. BarFollows(i)'
      BY <2>1, <2>2, <2>3, <3>1 DEF BarFollows, RegionWindows, TypeOK
    <3>3. QED
      BY <2>1, <3>1, <3>2, OneBar DEF TypeOK
  <2>4. CASE region[i].mmap /\ region[i].areas # {}
    <3>1. maps' = [maps EXCEPT ![i] = [w \in Windows |->
                     IF w \in region[i].areas THEN "none" ELSE @[w]]]
      BY <1>3, <2>4 DEF DeactivatePciBar, UnmapBarRegion
    <3>2. BarFollows(i)'
      BY <2>1, <2>2, <2>4, <3>1 DEF BarFollows, RegionWindows, TypeOK
    <3>3. QED
      BY <2>1, <3>1, <3>2, OneBar DEF TypeOK
  <2>5. CASE ~region[i].mmap
    <3>1. UNCHANGED maps
      BY <1>3, <2>5 DEF DeactivatePciBar, PciBaseDeactivate
    <3>2. BarFollows(i)'
      BY <1>3, <2>1, <2>5, <3>1 DEF DeactivatePciBar, MappingsFollowActivation, BarFollows
    <3>3. QED
      BY <2>1, <3>1, <3>2, OneBar
  <2>6. QED
    BY <2>3, <2>4, <2>5
<1>4. ASSUME NEW i \in Bars, NEW a \in Addrs, GuestProgramBar(i, a)
      PROVE MappingsFollowActivation'
  BY <1>4 DEF GuestProgramBar, MappingsFollowActivation, RegionWindows
<1>5. CASE Terminated
  BY <1>1, <1>5 DEF Terminated, vars, MappingsFollowActivation
<1>6. CASE UNCHANGED vars
  BY <1>1, <1>6 DEF vars, MappingsFollowActivation, RegionWindows
<1>7. QED
  BY <1>1, <1>2, <1>3, <1>4, <1>5, <1>6 DEF Next

\* For every instance, a BAR whose region has MMAP has a host mapping of
\* each of its windows exactly while the base PciDevice has it active:
\* MapBarRegion maps every window (or the process panics) and
\* UnmapBarRegion munmaps every window it mapped.
THEOREM MappingsCorrect == Spec => []MappingsFollowActivation
<1>1. Init => MInv
  BY InitMInv
<1>2. MInv /\ [Next]_vars => MInv'
  BY NextMInv
<1>3. QED
  BY <1>1, <1>2, PTL DEF Spec, MInv

-----------------------------------------------------------------------------
(* Resource bookkeeping for devices whose mmap'able regions are mapped     *)
(* whole (no sparse areas).  Each active BAR then has exactly one entry,   *)
(* RecOf(i), and because the guest places BARs at distinct addresses the  *)
(* RemoveIoResource of a deactivation finds that entry and no other.       *)

\* The one entry ActivatePciBar(i) adds when the region has no sparse areas.
RecOf(i) ==
    [type |-> IF region[i].mmap THEN "ram" ELSE "mmio",
     base |-> address[i], bar |-> i, win |-> Whole]

RInv == TypeOK /\ address \in Placements /\ BarResourcesMatch

LEMMA WholeRegion ==
    ASSUME AreaOffsets = {}, TypeOK, NEW i \in Bars
    PROVE  /\ region[i].areas = {}
           /\ Expected(i) = {RecOf(i)}
           /\ RecOf(i) \in Recs
<1>1. region[i].areas = {}
  <2>1. SUBSET AreaOffsets = {{}}
    OBVIOUS
  <2>2. region[i] \in Regions
    BY DEF TypeOK
  <2>3. CASE region[i] = [mmap |-> FALSE, areas |-> {}]
    BY <2>3
  <2>4. CASE region[i] \in [mmap: {TRUE}, areas: SUBSET AreaOffsets]
    <3>1. region[i].areas \in SUBSET AreaOffsets
      BY <2>4
    <3>2. QED
      BY <2>1, <3>1
  <2>5. QED
    BY <2>2, <2>3, <2>4 DEF Regions
<1>2. Expected(i) = {RecOf(i)}
  BY <1>1 DEF Expected, RecOf
<1>3. RecOf(i) \in Recs
  BY DEF RecOf, Recs, TypeOK, Bases, Windows
<1>4. QED
  BY <1>1, <1>2, <1>3

\* The entry of an active BAR is the only entry at its address.
LEMMA OnlyEntryAt ==
    ASSUME AreaOffsets = {}, RInv, ~panicked, NEW i \in Bars,
           NEW r \in Recs, res[r] > 0, r.base = address[i]
    PROVE  r = RecOf(i)
<1>1. active[r.bar] /\ r \in Expected(r.bar)
  BY DEF RInv, BarResourcesMatch
<1>2. r = RecOf(r.bar)
  BY <1>1, WholeRegion DEF RInv, Recs
<1>3. r.bar = i
  BY <1>2 DEF RecOf, RInv, Placements, Recs
<1>4. QED
  BY <1>2, <1>3

\* The RemoveIoResource of DeactivatePciBar(i) drops the entry of BAR i.
LEMMA RemoveOwnEntry ==
    ASSUME AreaOffsets = {}, RInv, ~panicked, NEW i \in Bars, active[i]
    PROVE  RemoveIoResources(res, RecOf(i).type, {address[i]})
             = [res EXCEPT ![RecOf(i)] = 0]
<1> DEFINE t == RecOf(i).type
<1>1. RecOf(i) \in Recs /\ Expected(i) = {RecOf(i)}
  BY WholeRegion DEF RInv
<1>2. res[RecOf(i)] = 1
  BY <1>1 DEF RInv, BarResourcesMatch, RecOf
<1>3. IoResourceFound(res, t, address[i])
  BY <1>1, <1>2 DEF IoResourceFound, RecOf
<1>4. Victim(res, t, address[i]) = RecOf(i)
  <2>1. /\ Victim(res, t, address[i]) \in Recs
        /\ res[Victim(res, t, address[i])] > 0
        /\ Victim(res, t, address[i]).base = address[i]
    BY <1>3 DEF Victim, IoResourceFound
  <2>2. QED
    BY <2>1, OnlyEntryAt
<1>5. ASSUME NEW r \in Recs
      PROVE  RemoveIoResources(res, t, {address[i]})[r]
               = IF r = RecOf(i) THEN 0 ELSE res[r]
  <2>1. CASE r = RecOf(i)
    BY <1>2, <1>3, <1>4, <2>1 DEF RemoveIoResources, RecOf
  <2>2. CASE r # RecOf(i)
    <3>1. ~(r.type = t /\ r.base \in {address[i]} /\ IoResourceFound(res, t, r.base)
            /\ r = Victim(res, t, r.base))
      BY <1>4, <2>2
    <3>2. QED
      BY <3>1, <2>2 DEF RemoveIoResources
  <2>3. QED
    BY <2>1, <2>2
<1>6. QED
  BY <1>1, <1>5 DEF RemoveIoResources, RInv, TypeOK

LEMMA InitRInv == Init => RInv
BY InitTypeOK DEF Init, RInv, BarResourcesMatch, Recs

LEMMA NextRInv ==
    ASSUME AreaOffsets = {}
    PROVE  RInv /\ [Next]_vars => RInv'
<1> SUFFICES ASSUME RInv, [Next]_vars PROVE RInv'
  OBVIOUS
<1>1. TypeOK'
  BY NextTypeOK DEF RInv
<1>2. ASSUME NEW i \in Bars, ActivatePciBar(i) PROVE RInv'
  <2>1. /\ region' = region /\ address' = address
        /\ active' = [active EXCEPT ![i] = TRUE] /\ ~panicked
    BY <1>2 DEF ActivatePciBar
  <2>2. region[i].areas = {} /\ RecOf(i) \in Recs
    BY WholeRegion DEF RInv
  <2>3. res' = AddIoResources(res, {RecOf(i)}) /\ ~panicked'
    <3>1. CASE region[i].mmap
      BY <1>2, <2>2, <3>1 DEF ActivatePciBar, MapBarRegion, RecOf
    <3>2. CASE ~region[i].mmap
      BY <1>2, <3>2 DEF ActivatePciBar, PciBaseActivate, RecOf
    <3>3. QED
      BY <3>1, <3>2
  <2>4. res[RecOf(i)] = 0
    BY <1>2, <2>2 DEF ActivatePciBar, RInv, BarResourcesMatch, RecOf
  <2>5. \A j \in Bars : Expected(j)' = Expected(j) /\ RecOf(j)' = RecOf(j)
    BY <2>1 DEF Expected, RecOf
  <2>6. BarResourcesMatch'
    <3> SUFFICES ASSUME NEW r \in Recs
                 PROVE  res'[r] = IF active'[r.bar] /\ r \in Expected(r.bar) THEN 1 ELSE 0
      BY <2>3, <2>5 DEF BarResourcesMatch, Recs
    <3>1. CASE r = RecOf(i)
      BY <2>1, <2>2, <2>3, <2>4, <3>1, WholeRegion DEF AddIoResources, RInv, TypeOK, RecOf
    <3>2. CASE r # RecOf(i) /\ r.bar = i
      BY <2>1, <2>3, <3>2, WholeRegion DEF AddIoResources, RInv, BarResourcesMatch, TypeOK
    <3>3. CASE r.bar # i
      BY <2>1, <2>3, <3>3 DEF AddIoResources, RInv, BarResourcesMatch, TypeOK, RecOf, Recs
    <3>4. QED
      BY <3>1, <3>2, <3>3
  <2>7. QED
    BY <1>1, <2>1, <2>6 DEF RInv
<1>3. ASSUME NEW i \in Bars, DeactivatePciBar(i) PROVE RInv'
  <2>1. /\ region' = region /\ address' = address
        /\ active' = [active EXCEPT ![i] = FALSE] /\ ~panicked /\ active[i]
        /\ ~panicked'
    BY <1>3 DEF DeactivatePciBar
  <2>2. region[i].areas = {} /\ RecOf(i) \in Recs
    BY WholeRegion DEF RInv
  <2>3. res' = RemoveIoResources(res, RecOf(i).type, {address[i]})
    <3>1. CASE region[i].mmap
      BY <1>3, <2>2, <3>1 DEF DeactivatePciBar, UnmapBarRegion, RecOf
    <3>2. CASE ~region[i].mmap
      BY <1>3, <3>2 DEF DeactivatePciBar, PciBaseDeactivate, RecOf
    <3>3. QED
      BY <3>1, <3>2
  <2>4. res' = [res EXCEPT ![RecOf(i)] = 0]
    BY <2>1, <2>3, RemoveOwnEntry
  <2>5. \A j \in Bars : Expected(j)' = Expected(j) /\ RecOf(j)' = RecOf(j)
    BY <2>1 DEF Expected, RecOf
  <2>6. BarResourcesMatch'
    <3> SUFFICES ASSUME NEW r \in Recs
                 PROVE  res'[r] = IF active'[r.bar] /\ r \in Expected(r.bar) THEN 1 ELSE 0
      BY <2>1, <2>5 DEF BarResourcesMatch, Recs
    <3>1. CASE r = RecOf(i)
      BY <2>1, <2>2, <2>4, <3>1 DEF RInv, TypeOK, RecOf
    <3>2. CASE r # RecOf(i) /\ r.bar = i
      BY <2>1, <2>4, <3>2, WholeRegion DEF RInv, BarResourcesMatch, TypeOK
    <3>3. CASE r.bar # i
      BY <2>1, <2>4, <3>3 DEF RInv, BarResourcesMatch, TypeOK, RecOf, Recs
    <3>4. QED
      BY <3>1, <3>2, <3>3
  <2>7. QED
    BY <1>1, <2>1, <2>6 DEF RInv
<1>4. ASSUME NEW i \in Bars, NEW a \in Addrs, GuestProgramBar(i, a) PROVE RInv'
  <2>1. /\ address' = [address EXCEPT ![i] = a] /\ ~active[i] /\ ~panicked
        /\ UNCHANGED <<region, active, res, panicked>>
        /\ \A j \in Bars : address[j] # a
    BY <1>4 DEF GuestProgramBar
  <2>2. address' \in Placements
    BY <2>1 DEF RInv, Placements
  <2>3. \A j \in Bars \ {i} : Expected(j)' = Expected(j)
    BY <2>1 DEF Expected
  <2>4. BarResourcesMatch'
    BY <2>1, <2>3 DEF RInv, BarResourcesMatch, Recs
  <2>5. QED
    BY <1>1, <2>2, <2>4 DEF RInv
<1>5. CASE Terminated
  BY <1>1, <1>5 DEF Terminated, vars, RInv, BarResourcesMatch
<1>6. CASE UNCHANGED vars
  BY <1>1, <1>6 DEF vars, RInv, BarResourcesMatch, Expected
<1>7. QED
  BY <1>2, <1>3, <1>4, <1>5, <1>6 DEF Next

\* For a device whose mmap'able regions have no sparse areas, at every
\* reachable state io_resources_ holds exactly one entry for each active
\* BAR, at its current address and of the type ActivatePciBar registers,
\* and none for an inactive one: Activate; Deactivate; Activate leaves the
\* state of one Activate (spec 8.5), for any number of BARs and moves.
THEOREM WholeResourcesCorrect ==
    ASSUME AreaOffsets = {}
    PROVE  Spec => []BarResourcesMatch
<1>1. Init => RInv
  BY InitRInv
<1>2. RInv /\ [Next]_vars => RInv'
  BY NextRInv
<1>3. QED
  BY <1>1, <1>2, PTL DEF Spec, RInv

=============================================================================

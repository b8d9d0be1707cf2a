--------------------------- MODULE VfioDmaProofs ---------------------------
(***************************************************************************)
(* Proofs about VfioDma for every range of guest addresses, set of host    *)
(* addresses and bound on transitions, when the flat view does not change  *)
(* between SetupDmaMaps' mapping pass and its listener registration: DMA   *)
(* equality, that MAP_DMA never fails, and that the code implements the   *)
(* abstract mirror DmaMirror.                                               *)
(***************************************************************************)
EXTENDS VfioDma, TLAPS

\* The slots whose mappings the container holds while a transition is in
\* flight: the slots kept by the transition, the removed slots whose unmap
\* is outstanding, and the added slots whose map has been delivered.
Mirrored == (prior \cap view) \cup toUnmap \cup ((view \ prior) \ toMap)

\* The inductive invariant.
DInv ==
    /\ TypeOK
    /\ phase # "panicked"
    /\ phase # "synced" => Quiescent
    /\ phase = "idle" => iommu = {}
    /\ phase = "scanned" => iommu = RamMaps(view)
    /\ phase = "closed" => iommu = {}
    /\ phase = "synced" =>
         /\ toUnmap \subseteq prior \ view
         /\ toMap \subseteq view \ prior
         /\ toUnmap # {} => toMap = view \ prior
         /\ iommu = RamMaps(Mirrored)

-----------------------------------------------------------------------------
(* Lemmas about slots and the mappings MapDmaPages makes of them.          *)

\* The mapping of a slot is a type1 mapping record of the container.
LEMMA DmaMapType ==
    ASSUME NEW s \in Slots
    PROVE  DmaMap(s) \in DmaMaps
BY MemoryViewAssumption DEF Slots, DmaMap, DmaMaps

\* The mappings of slots are mapping records.
LEMMA RamMapsType ==
    ASSUME NEW X \in SUBSET Slots
    PROVE  RamMaps(X) \subseteq DmaMaps
BY DmaMapType DEF RamMaps

\* A slot's mapping lies inside the slot.
LEMMA InsideOwn ==
    ASSUME NEW s \in Slots
    PROVE  Inside(DmaMap(s), s)
BY DEF Slots, Inside, DmaMap

\* The mappings of two disjoint slots neither overlap nor lie one inside
\* the other's slot.
LEMMA DisjointMaps ==
    ASSUME NEW a \in Slots, NEW b \in Slots, ~SlotsOverlap(a, b)
    PROVE  /\ ~MapsOverlap(DmaMap(a), DmaMap(b))
           /\ ~Inside(DmaMap(a), b)
BY DEF Slots, SlotsOverlap, MapsOverlap, Inside, DmaMap

\* The slots of a view, or of a subset of one, are pairwise disjoint.
Disjoint(X) == \A a, b \in X : a # b => ~SlotsOverlap(a, b)

\* Adding a slot adds its mapping if it is a RAM slot.
LEMMA RamMapsAdd ==
    ASSUME NEW X, NEW s
    PROVE  RamMaps(X \cup {s}) = IF s.ram THEN RamMaps(X) \cup {DmaMap(s)}
                                         ELSE RamMaps(X)
BY DEF RamMaps

\* Removing a slot that is not a RAM slot leaves the mappings alone.
LEMMA RamMapsRemoveOther ==
    ASSUME NEW X, NEW s, ~s.ram
    PROVE  RamMaps(X \ {s}) = RamMaps(X)
BY DEF RamMaps

\* UnmapDmaPages of a RAM slot of a set of disjoint slots splits none of
\* their mappings and removes exactly the slot's own.
LEMMA UnmapOwn ==
    ASSUME NEW X \in SUBSET Slots, Disjoint(X), NEW s \in X, s.ram
    PROVE  /\ ~\E m \in RamMaps(X) : MapsOverlap(m, DmaMap(s)) /\ ~Inside(m, s)
           /\ {m \in RamMaps(X) : ~Inside(m, s)} = RamMaps(X \ {s})
<1>1. \A t \in X : t # s => ~MapsOverlap(DmaMap(t), DmaMap(s)) /\ ~Inside(DmaMap(t), s)
  BY DisjointMaps DEF Disjoint
<1>2. Inside(DmaMap(s), s)
  BY InsideOwn
<1>3. ~\E m \in RamMaps(X) : MapsOverlap(m, DmaMap(s)) /\ ~Inside(m, s)
  BY <1>1, <1>2 DEF RamMaps
<1>4. {m \in RamMaps(X) : ~Inside(m, s)} = RamMaps(X \ {s})
  BY <1>1, <1>2 DEF RamMaps
<1>. QED  BY <1>3, <1>4

\* MapDmaPages of a slot disjoint from a set of slots overlaps none of
\* their mappings.
LEMMA MapNew ==
    ASSUME NEW X \in SUBSET Slots, NEW s \in Slots,
           \A t \in X : ~SlotsOverlap(t, s)
    PROVE  ~\E m \in RamMaps(X) : MapsOverlap(m, DmaMap(s))
BY DisjointMaps DEF RamMaps

-----------------------------------------------------------------------------
(* Type correctness.                                                       *)

LEMMA InitTypeOK == Init => TypeOK
BY DmaAssumption DEF Init, TypeOK, Phases

\* Every step, the listener's calls included, keeps the variables typed.
LEMMA NextTypeOK == TypeOK /\ [Next]_vars => TypeOK'
<1> SUFFICES ASSUME TypeOK, [Next]_vars PROVE TypeOK'
  OBVIOUS
<1>1. CASE SetupDmaMapsScan
  <2>1. RamMaps(view) \subseteq DmaMaps
    BY RamMapsType DEF TypeOK, Views
  <2>. QED  BY <1>1, <2>1 DEF SetupDmaMapsScan, TypeOK, Phases
<1>2. CASE SetupDmaMapsRegister
  BY <1>2 DEF SetupDmaMapsRegister, TypeOK, Phases
<1>3. CASE DisconnectListener
  BY <1>3 DEF DisconnectListener, TypeOK, Phases
<1>4. CASE DisconnectContainer
  BY <1>4 DEF DisconnectContainer, TypeOK, Phases
<1>5. CASE \E V \in Views : Commit(V)
  <2>1. PICK V \in Views : Commit(V)
    BY <1>5
  <2>2. V \subseteq Slots /\ view \subseteq Slots
    BY DEF Views, TypeOK
  <2>. QED  BY <2>1, <2>2, DmaAssumption DEF Commit, TypeOK
<1>6. CASE \E s \in Slots : ListenerUnmap(s)
  <2>1. PICK s \in Slots : ListenerUnmap(s)
    BY <1>6
  <2>2. iommu' \subseteq iommu
    BY <2>1 DEF ListenerUnmap, UnmapDmaPages
  <2>. QED  BY <2>1, <2>2 DEF ListenerUnmap, TypeOK
<1>7. CASE \E s \in Slots : ListenerMap(s)
  <2>1. PICK s \in Slots : ListenerMap(s)
    BY <1>7
  <2>2. iommu' \subseteq iommu \cup {DmaMap(s)}
    BY <2>1 DEF ListenerMap, MapDmaPages
  <2>3. phase' \in Phases
    BY <2>1 DEF ListenerMap, MapDmaPages, TypeOK, Phases
  <2>. QED  BY <2>1, <2>2, <2>3, DmaMapType DEF ListenerMap, TypeOK
<1>8. CASE Terminated
  BY <1>8 DEF Terminated, TypeOK, vars
<1>9. CASE UNCHANGED vars
  BY <1>9 DEF TypeOK, vars
<1>. QED  BY <1>1, <1>2, <1>3, <1>4, <1>5, <1>6, <1>7, <1>8, <1>9 DEF Next

\* Type correctness of the DMA mirror's state.
THEOREM TypeCorrect == Spec => []TypeOK
BY InitTypeOK, NextTypeOK, PTL DEF Spec

-----------------------------------------------------------------------------
(* The inductive invariant.                                                *)

\* With no call outstanding the container mirrors the whole view.
LEMMA QuiescentMirrored == Quiescent => Mirrored = view
BY DEF Quiescent, Mirrored

LEMMA InitDInv == Init => DInv
BY InitTypeOK DEF Init, DInv, Quiescent

\* Every step keeps DInv, when the view is fixed during Connect.
LEMMA NextDInv ==
    ASSUME ~TopologyChangesDuringConnect
    PROVE  DInv /\ [Next]_vars => DInv'
<1> SUFFICES ASSUME DInv, [Next]_vars PROVE DInv'
  OBVIOUS
<1>1. TypeOK'
  BY NextTypeOK DEF DInv
<1>2. CASE SetupDmaMapsScan
  BY <1>1, <1>2 DEF SetupDmaMapsScan, DInv, Quiescent
<1>3. CASE SetupDmaMapsRegister
  <2>1. Quiescent /\ iommu = RamMaps(view)
    BY <1>3 DEF SetupDmaMapsRegister, DInv
  <2>2. Mirrored' = view'
    BY <1>3, <2>1, QuiescentMirrored DEF SetupDmaMapsRegister, Quiescent, Mirrored
  <2>. QED  BY <1>1, <1>3, <2>1, <2>2 DEF SetupDmaMapsRegister, DInv, Quiescent
<1>4. CASE DisconnectListener
  BY <1>1, <1>4 DEF DisconnectListener, DInv, Quiescent
<1>5. CASE DisconnectContainer
  BY <1>1, <1>5 DEF DisconnectContainer, DInv, Quiescent
<1>6. CASE \E V \in Views : Commit(V)
  <2>1. PICK V \in Views : Commit(V)
    BY <1>6
  <2>2. phase # "scanned"
    BY <2>1 DEF Commit
  <2>3. CASE phase = "synced"
    <3>1. iommu = RamMaps(view)
      BY <2>1, <2>3, QuiescentMirrored DEF Commit, DInv
    <3>2. Mirrored' = view
      BY <2>1, <2>3 DEF Commit, Mirrored
    <3>. QED  BY <1>1, <2>1, <2>3, <3>1, <3>2 DEF Commit, DInv
  <2>4. CASE phase # "synced"
    BY <1>1, <2>1, <2>2, <2>4 DEF Commit, DInv, Quiescent
  <2>. QED  BY <2>3, <2>4
<1>7. CASE \E s \in Slots : ListenerUnmap(s)
  <2>1. PICK s \in Slots : ListenerUnmap(s)
    BY <1>7
  <2>. DEFINE M == (prior \cap view) \cup toUnmap
  <2>2. phase = "synced" /\ s \in toUnmap /\ toUnmap \subseteq prior \ view
    BY <2>1 DEF ListenerUnmap, DInv
  <2>3. Mirrored = M /\ iommu = RamMaps(M)
    BY <2>2 DEF DInv, Mirrored
  <2>4. Mirrored' = M \ {s}
    <3>1. toMap = view \ prior
      BY <2>2 DEF DInv
    <3>. QED  BY <2>1, <2>2, <3>1 DEF ListenerUnmap, Mirrored
  <2>5. M \in SUBSET Slots /\ Disjoint(M) /\ s \in M
    BY <2>2 DEF DInv, TypeOK, Views, Disjoint
  <2>6. iommu' = RamMaps(M \ {s})
    <3>1. CASE s.ram
      BY <2>1, <2>3, <2>5, <3>1, UnmapOwn DEF ListenerUnmap, UnmapDmaPages
    <3>2. CASE ~s.ram
      BY <2>1, <2>3, <3>2, RamMapsRemoveOther DEF ListenerUnmap
    <3>. QED  BY <3>1, <3>2
  <2>. QED  BY <1>1, <2>1, <2>2, <2>4, <2>6 DEF ListenerUnmap, DInv
<1>8. CASE \E s \in Slots : ListenerMap(s)
  <2>1. PICK s \in Slots : ListenerMap(s)
    BY <1>8
  <2>. DEFINE M == (prior \cap view) \cup ((view \ prior) \ toMap)
  <2>2. phase = "synced" /\ s \in toMap /\ toUnmap = {} /\ toMap \subseteq view \ prior
    BY <2>1 DEF ListenerMap, UnmapsDelivered, DInv
  <2>3. Mirrored = M /\ iommu = RamMaps(M)
    BY <2>2 DEF DInv, Mirrored
  <2>4. M \in SUBSET Slots /\ \A t \in M : ~SlotsOverlap(t, s)
    BY <2>2 DEF DInv, TypeOK, Views
  <2>5. phase' = "synced" /\ iommu' = RamMaps(M \cup {s})
    <3>1. CASE s.ram
      <4>1. ~\E m \in iommu : MapsOverlap(m, DmaMap(s))
        BY <2>3, <2>4, MapNew
      <4>. QED  BY <2>1, <2>2, <2>3, <3>1, <4>1, RamMapsAdd DEF ListenerMap, MapDmaPages
    <3>2. CASE ~s.ram
      BY <2>1, <2>2, <2>3, <3>2, RamMapsAdd DEF ListenerMap
    <3>. QED  BY <3>1, <3>2
  <2>6. toMap' = toMap \ {s}
    BY <2>1, <2>5 DEF ListenerMap
  <2>7. Mirrored' = M \cup {s}
    BY <2>1, <2>2, <2>6 DEF ListenerMap, Mirrored
  <2>. QED  BY <1>1, <2>1, <2>2, <2>5, <2>6, <2>7 DEF ListenerMap, DInv
<1>9. CASE Terminated
  BY <1>1, <1>9 DEF Terminated, DInv, vars, Quiescent, Mirrored
<1>10. CASE UNCHANGED vars
  BY <1>1, <1>10 DEF DInv, vars, Quiescent, Mirrored
<1>. QED  BY <1>2, <1>3, <1>4, <1>5, <1>6, <1>7, <1>8, <1>9, <1>10 DEF Next

\* DInv holds in every state.
LEMMA DInvHolds ==
    ASSUME ~TopologyChangesDuringConnect
    PROVE  Spec => []DInv
BY InitDInv, NextDInv, PTL DEF Spec

\* DMA equality (spec 8.1), checked by the run vfio_dma_sync: when the flat
\* view stays fixed while SetupDmaMaps registers its listener, the container
\* holds exactly the RAM slots' mappings whenever the listener has had every
\* call of the last transition.
THEOREM DmaEqual ==
    ASSUME ~TopologyChangesDuringConnect
    PROVE  Spec => []DmaMirrorEqual
<1>1. DInv => DmaMirrorEqual
  BY QuiescentMirrored DEF DInv, DmaMirrorEqual
<1>. QED  BY <1>1, DInvHolds, PTL

\* MapDmaPages never panics: the listener never maps a slot over a range
\* that is still mapped, since every unmap of a transition comes first.
THEOREM NoMapFailure ==
    ASSUME ~TopologyChangesDuringConnect
    PROVE  Spec => []NoDmaMapFailure
<1>1. DInv => NoDmaMapFailure
  BY DEF DInv, NoDmaMapFailure
<1>. QED  BY <1>1, DInvHolds, PTL

-----------------------------------------------------------------------------
(* Refinement: the code implements the mirror DmaMirror.                   *)

absvars == <<AbsView, AbsMirror, AbsStage>>

\* The mirror's flat views and mappings are the code's.
LEMMA SameViews ==
    /\ Mirror!Views = Views
    /\ \A X : Mirror!RamMaps(X) = RamMaps(X)
BY DEF Mirror!Views, Mirror!Slots, Mirror!SlotsOverlap, Mirror!RamMaps, Mirror!DmaMap,
       Views, Slots, SlotsOverlap, RamMaps, DmaMap

LEMMA InitRefines == Init => Mirror!Init
BY SameViews DEF Init, Mirror!Init, AbsView, AbsMirror, AbsStage, Quiescent

\* A listener call maps to the abstract transition when it is the last
\* call of its transition, and to a stutter otherwise.
LEMMA ListenerRefines ==
    ASSUME DInv, DInv', phase = "synced", phase' = "synced", ~Quiescent,
           UNCHANGED <<view, prior>>
    PROVE  [Mirror!Next]_absvars
<1>1. AbsStage = "on" /\ AbsStage' = "on"
  BY DEF AbsStage
<1>2. CASE Quiescent'
  <2>0. Mirrored' = view'
    BY <1>2 DEF Quiescent, Mirrored
  <2>1. AbsView' = view /\ AbsMirror' = RamMaps(view)
    BY <1>2, <2>0 DEF DInv, AbsView, AbsMirror
  <2>2. view \in Views
    BY DEF DInv, TypeOK
  <2>3. Mirror!Commit(view)
    BY <1>1, <2>1, SameViews DEF Mirror!Commit
  <2>. QED  BY <2>2, <2>3, SameViews DEF Mirror!Next
<1>3. CASE ~Quiescent'
  BY <1>1, <1>3 DEF absvars, AbsView, AbsMirror
<1>. QED  BY <1>2, <1>3

\* Every step of the code is a step of the mirror or leaves its state alone.
LEMMA NextRefines ==
    ASSUME ~TopologyChangesDuringConnect
    PROVE  DInv /\ DInv' /\ [Next]_vars => [Mirror!Next]_absvars
<1> SUFFICES ASSUME DInv, DInv', [Next]_vars PROVE [Mirror!Next]_absvars
  OBVIOUS
<1>1. CASE SetupDmaMapsScan
  <2>1. Mirror!Attach
    BY <1>1, SameViews DEF DInv, SetupDmaMapsScan, Mirror!Attach, AbsStage, AbsView, AbsMirror, Quiescent
  <2>. QED  BY <2>1 DEF Mirror!Next
<1>2. CASE SetupDmaMapsRegister
  BY <1>2 DEF DInv, SetupDmaMapsRegister, absvars, AbsStage, AbsView, AbsMirror, Quiescent
<1>3. CASE DisconnectListener
  <2>1. Mirror!Freeze
    BY <1>3 DEF DisconnectListener, Mirror!Freeze, AbsStage, AbsView, AbsMirror, Quiescent
  <2>. QED  BY <2>1 DEF Mirror!Next
<1>4. CASE DisconnectContainer
  <2>1. Mirror!Close
    BY <1>4 DEF DInv, DisconnectContainer, Mirror!Close, AbsStage, AbsView, AbsMirror, Quiescent
  <2>. QED  BY <2>1 DEF Mirror!Next
<1>5. CASE \E V \in Views : Commit(V)
  <2>1. PICK V \in Views : Commit(V)
    BY <1>5
  <2>2. CASE phase = "synced"
    <3>1. ~Quiescent'
      BY <2>1, <2>2 DEF Commit, Quiescent
    <3>2. iommu = RamMaps(view)
      BY <2>1, <2>2, QuiescentMirrored DEF Commit, DInv
    <3>. QED  BY <2>1, <2>2, <3>1, <3>2 DEF Commit, absvars, AbsStage, AbsView, AbsMirror
  <2>3. CASE phase # "synced"
    <3>1. phase \in {"idle", "unhooked", "closed"}
      BY <2>1, <2>3 DEF Commit, DInv, TypeOK, Phases
    <3>2. Quiescent'
      BY <2>1, <2>3 DEF Commit, Quiescent
    <3>3. Mirror!Commit(V)
      BY <2>1, <3>1, <3>2 DEF Commit, Mirror!Commit, AbsStage, AbsView, AbsMirror
    <3>. QED  BY <2>1, <3>3, SameViews DEF Mirror!Next
  <2>. QED  BY <2>2, <2>3
<1>6. CASE \E s \in Slots : ListenerUnmap(s)
  <2>1. PICK s \in Slots : ListenerUnmap(s)
    BY <1>6
  <2>2. ~Quiescent
    BY <2>1 DEF ListenerUnmap, Quiescent
  <2>. QED  BY <2>1, <2>2, ListenerRefines DEF ListenerUnmap
<1>7. CASE \E s \in Slots : ListenerMap(s)
  <2>1. PICK s \in Slots : ListenerMap(s)
    BY <1>7
  <2>2. ~Quiescent /\ phase' = "synced"
    BY <2>1 DEF ListenerMap, MapDmaPages, Quiescent, DInv
  <2>. QED  BY <2>1, <2>2, ListenerRefines DEF ListenerMap
<1>8. CASE Terminated
  BY <1>8 DEF Terminated, vars, absvars, AbsStage, AbsView, AbsMirror, Quiescent
<1>9. CASE UNCHANGED vars
  BY <1>9 DEF vars, absvars, AbsStage, AbsView, AbsMirror, Quiescent
<1>. QED  BY <1>1, <1>2, <1>3, <1>4, <1>5, <1>6, <1>7, <1>8, <1>9 DEF Next

\* The code implements the mirror's contract, checked by the run
\* vfio_dma_sync: SetupDmaMaps, the listener and Disconnect, under the
\* memory manager's transitions, behave as DmaMirror when the flat view
\* stays fixed during Connect.
THEOREM Implements ==
    ASSUME ~TopologyChangesDuringConnect
    PROVE  Spec => MirrorRefined
<1>1. Spec => []DInv
  BY DInvHolds
<1>. QED  BY <1>1, InitRefines, NextRefines, PTL DEF Spec, MirrorRefined, Mirror!Spec, absvars

=============================================================================

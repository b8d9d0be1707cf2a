-------------------------- MODULE RedirectUdpProofs --------------------------
(***************************************************************************)
(* Proofs about RedirectUdp for every pool size, bound on datagrams and    *)
(* set of timer handles: every reachable state is well typed, because      *)
(* StartReading hands out only packets the pool has and the guest returns  *)
(* only packets it holds.                                                  *)
(***************************************************************************)
EXTENDS RedirectUdp, TLAPS

\* TypeOK in two parts: the flags, and the descriptor, counters and timers.
Flags == polled \in BOOLEAN /\ event \in BOOLEAN /\ idle \in BOOLEAN /\ destroyed \in BOOLEAN

Data ==
    /\ fd \in {"unopened", "open", "closed"}
    /\ queue \in 0 .. MaxDatagrams /\ sent \in 0 .. MaxDatagrams
    /\ free \in 0 .. PoolSize /\ held \in 0 .. PoolSize
    /\ waitTimer \in TimerIds \cup {NoTimer} /\ timers \subseteq TimerIds

\* The strengthening: no packet is lost or made up between the pool and
\* the guest, and the host socket never holds more than the peer sent.
IInv ==
    /\ Flags /\ Data
    /\ free + held = PoolSize
    /\ queue <= sent

LEMMA IInvTypeOK == IInv => TypeOK
BY DEF IInv, Flags, Data, TypeOK

-----------------------------------------------------------------------------

\* A call of StartReading keeps the counters and timers in range and the
\* packets accounted for, whatever timers it is given, as long as they are
\* handles of the reactor.
LEMMA StartReadingInv ==
    ASSUME IInv, NEW live \in SUBSET TimerIds,
           NEW wait \in TimerIds \cup {NoTimer},
           StartReading(live, wait),
           UNCHANGED <<fd, polled, sent, destroyed>>
    PROVE  Data' /\ free' + held' = PoolSize /\ queue' <= sent' /\ idle' \in BOOLEAN
<1>1. Readable \in 0 .. queue /\ Readable <= free
  BY DEF IInv, Data, Readable
<1>2. CASE fd # "open"
  <2>1. idle' \in BOOLEAN
    BY <1>2 DEF StartReading, IInv, Flags
  <2>2. QED
    BY <1>2, <2>1, UdpAssumption DEF StartReading, IInv, Data
<1>3. CASE fd = "open"
  <2>1. /\ queue' = queue - Readable /\ free' = free - Readable
        /\ held' = held + Readable /\ idle' = (idle /\ Readable = 0)
    BY <1>3 DEF StartReading
  <2>2. waitTimer' \in TimerIds \cup {NoTimer} /\ timers' \subseteq TimerIds
    BY <1>3 DEF StartReading, AddTimer
  <2>3. idle' \in BOOLEAN
    BY <2>1
  <2>4. QED
    BY <1>1, <2>1, <2>2, <2>3, UdpAssumption DEF IInv, Data
<1>4. QED
  BY <1>2, <1>3

LEMMA InitIInv == Init => IInv
<1> SUFFICES ASSUME Init PROVE IInv
  OBVIOUS
<1>1. Flags
  BY DEF Init, Flags
<1>2. Data /\ free + held = PoolSize /\ queue <= sent
  BY UdpAssumption DEF Init, Data, NoTimer
<1>3. QED
  BY <1>1, <1>2 DEF IInv

LEMMA NextIInv == IInv /\ [Next]_vars => IInv'
<1> SUFFICES ASSUME IInv, [Next]_vars PROVE IInv'
  OBVIOUS
<1>1. CASE InitializeRedirect
  <2>1. Flags'
    BY <1>1 DEF InitializeRedirect, IInv, Flags
  <2>2. QED
    BY <1>1, <2>1 DEF InitializeRedirect, IInv, Data
<1>2. CASE ReactorRead
  <2>1. timers \in SUBSET TimerIds /\ waitTimer \in TimerIds \cup {NoTimer}
    BY DEF IInv, Data
  <2>2. Data' /\ free' + held' = PoolSize /\ queue' <= sent' /\ idle' \in BOOLEAN
    BY <1>2, <2>1, StartReadingInv DEF ReactorRead
  <2>3. Flags'
    BY <1>2, <2>2 DEF ReactorRead, IInv, Flags
  <2>4. QED
    BY <2>2, <2>3 DEF IInv
<1>3. ASSUME NEW t \in TimerIds, TimerFire(t) PROVE IInv'
  <2>1. timers \ {t} \in SUBSET TimerIds /\ NoTimer \in TimerIds \cup {NoTimer}
    BY DEF IInv, Data
  <2>2. Data' /\ free' + held' = PoolSize /\ queue' <= sent' /\ idle' \in BOOLEAN
    BY <1>3, <2>1, StartReadingInv DEF TimerFire
  <2>3. Flags'
    BY <1>3, <2>2 DEF TimerFire, IInv, Flags
  <2>4. QED
    BY <2>2, <2>3 DEF IInv
<1>4. CASE OnPacketFromGuest
  <2>1. Flags'
    BY <1>4 DEF OnPacketFromGuest, IInv, Flags
  <2>2. QED
    BY <1>4, <2>1 DEF OnPacketFromGuest, IInv, Data
<1>5. CASE Destroy
  <2>1. Flags'
    BY <1>5 DEF Destroy, IInv, Flags
  <2>2. QED
    BY <1>5, <2>1, UdpAssumption DEF Destroy, IInv, Data
<1>6. CASE HostDatagram
  <2>1. Flags'
    BY <1>6 DEF HostDatagram, IInv, Flags
  <2>2. QED
    BY <1>6, <2>1, UdpAssumption DEF HostDatagram, IInv, Data
<1>7. CASE GuestConsume
  <2>1. Flags'
    BY <1>7 DEF GuestConsume, IInv, Flags
  <2>2. QED
    BY <1>7, <2>1 DEF GuestConsume, IInv, Data
<1>8. CASE Tick
  <2>1. Flags'
    BY <1>8 DEF Tick, IInv, Flags
  <2>2. QED
    BY <1>8, <2>1 DEF Tick, IInv, Data
<1>9. CASE Terminated \/ UNCHANGED vars
  BY <1>9 DEF Terminated, vars, IInv, Flags, Data
<1>10. QED
  BY <1>1, <1>2, <1>3, <1>4, <1>5, <1>6, <1>7, <1>8, <1>9 DEF Next

\* Every reachable state of the UDP redirect socket is well typed: the
\* pool never goes negative or over its size in StartReading and the
\* guest's releases, and wait_timer_ only ever holds a reactor handle.
THEOREM TypeCorrect == Spec => []TypeOK
<1>1. QED
  BY IInvTypeOK, InitIInv, NextIInv, PTL DEF Spec

-----------------------------------------------------------------------------
(* The read loop drains the socket (EPOLLET).                               *)

\* A call of StartReading that hands packets to the guest stops only with
\* the socket empty, or with the pool empty and a new timer in wait_timer_.
LEMMA StartReadingDrains ==
    ASSUME IInv, NEW live \in SUBSET TimerIds,
           NEW wait \in TimerIds \cup {NoTimer},
           StartReading(live, wait)
    PROVE  DrainedOrRetry
<1>1. Readable \in 0 .. queue /\ Readable <= free
      /\ (Readable = queue \/ Readable = free)
  BY DEF IInv, Data, Readable
<1>2. CASE fd # "open"
  BY <1>2 DEF StartReading, DrainedOrRetry, IInv, Data
<1>3. CASE fd = "open" /\ Readable = free
  <2>1. free' = 0
    BY <1>3, <1>1 DEF StartReading, IInv, Data
  <2>2. waitTimer' \in timers'
    BY <1>3 DEF StartReading, AddTimer
  <2>3. QED
    BY <2>1, <2>2 DEF DrainedOrRetry
<1>4. CASE fd = "open" /\ Readable # free
  <2>1. queue' = 0
    BY <1>4, <1>1 DEF StartReading, IInv, Data
  <2>2. QED
    BY <2>1 DEF DrainedOrRetry
<1>5. QED
  BY <1>2, <1>3, <1>4

LEMMA NextDrainedOrRetry == IInv /\ [Next]_vars => [DrainedOrRetry]_vars
<1> SUFFICES ASSUME IInv, [Next]_vars PROVE DrainedOrRetry \/ UNCHANGED vars
  OBVIOUS
<1>1. CASE ReactorRead
  <2>1. timers \in SUBSET TimerIds /\ waitTimer \in TimerIds \cup {NoTimer}
    BY DEF IInv, Data
  <2>2. QED
    BY <1>1, <2>1, StartReadingDrains DEF ReactorRead
<1>2. ASSUME NEW t \in TimerIds, TimerFire(t) PROVE DrainedOrRetry
  <2>1. timers \ {t} \in SUBSET TimerIds /\ NoTimer \in TimerIds \cup {NoTimer}
    BY DEF IInv, Data
  <2>2. QED
    BY <1>2, <2>1, StartReadingDrains DEF TimerFire
<1>3. CASE GuestConsume
  BY <1>3 DEF GuestConsume, DrainedOrRetry, IInv, Data
<1>4. CASE InitializeRedirect \/ OnPacketFromGuest \/ Destroy \/ HostDatagram
           \/ Tick \/ Terminated \/ UNCHANGED vars
  BY <1>4 DEF InitializeRedirect, OnPacketFromGuest, Destroy, HostDatagram,
              Tick, Terminated, vars, DrainedOrRetry, IInv, Data
<1>5. QED
  BY <1>1, <1>2, <1>3, <1>4 DEF Next

\* ReadUntilBlocked: every read callback, from the EPOLLIN edge or from the
\* retry timer, leaves the socket empty or leaves a retry timer pending on
\* an empty pool, for every pool size, datagram bound and handle set.
THEOREM ReadsUntilBlocked == Spec => ReadUntilBlocked
<1>1. QED
  BY InitIInv, NextIInv, NextDrainedOrRetry, PTL DEF Spec, ReadUntilBlocked

=============================================================================

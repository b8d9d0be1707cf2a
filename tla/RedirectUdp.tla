----------------------------- MODULE RedirectUdp -----------------------------
(***************************************************************************)
(* The UDP redirect socket of src/networks/uip/redirect_udp.cc: the host   *)
(* socket a guest UDP flow is redirected to, read on the reactor thread    *)
(* with EPOLLET, into packets of a shared pool, with a 10 ms retry timer   *)
(* when the pool is empty, and the destructor that the owner runs once     *)
(* active() is false.                                                      *)
(*                                                                         *)
(* The reactor is single-threaded: every callback below is one step.  The  *)
(* owner, the packet pool and OnDataFromHost are not in the repository;    *)
(* the guest side returns the packets it was handed to the pool, and the   *)
(* owner deletes the socket at some time when active() is false.  Time is  *)
(* abstracted to whether REDIRECT_TIMEOUT_SECONDS have passed since the    *)
(* last activity.                                                          *)
(***************************************************************************)
EXTENDS Naturals

CONSTANTS
    PoolSize,    \* packets in the pool that AllocatePacket draws from
    MaxDatagrams,  \* bound on the datagrams the peer sends to the socket
    TimerIds     \* the reactor's timer handles (a bound on pending timers)

ASSUME UdpAssumption ==
    PoolSize \in Nat /\ MaxDatagrams \in Nat /\ TimerIds \subseteq Nat \ {0}

\* wait_timer_ == nullptr.
NoTimer == 0

VARIABLES
    fd,         \* fd_: "unopened" and "closed" are both -1
    polled,     \* the reactor polls fd_ (StartPolling ... EPOLLIN | EPOLLET)
    event,      \* an EPOLLIN edge the reactor has not dispatched yet
    queue,      \* datagrams waiting in the host socket
    free,       \* packets left in the pool
    held,       \* packets handed to the guest and not released yet
    waitTimer,  \* wait_timer_
    timers,     \* retry timers registered with the reactor for this socket
    idle,       \* REDIRECT_TIMEOUT_SECONDS have passed since active_time_
    sent,       \* datagrams the peer has sent (bounded)
    destroyed   \* the destructor has run

vars == <<fd, polled, event, queue, free, held, waitTimer, timers, idle, sent, destroyed>>

Init ==
    /\ fd = "unopened" /\ polled = FALSE /\ event = FALSE
    /\ queue = 0 /\ free = PoolSize /\ held = 0
    /\ waitTimer = NoTimer /\ timers = {}
    /\ idle = FALSE /\ sent = 0 /\ destroyed = FALSE

\* active(): not timed out and fd_ != -1.
Active == ~idle /\ fd = "open"

-----------------------------------------------------------------------------
(* StartReading, with the reactor's timers before the call ('live') and    *)
(* wait_timer_ before the call ('wait').  The loop reads one datagram per  *)
(* packet until recv finds the socket empty (EAGAIN: the packet goes back) *)
(* or AllocatePacket fails; then it adds a retry timer and stores it in    *)
(* wait_timer_, whatever wait_timer_ held.                                 *)

\* The datagrams one call reads: as many as there are, and packets for.
Readable == IF queue < free THEN queue ELSE free

\* io_->AddTimer(10, false, ...) assigned to wait_timer_.
AddTimer(live) ==
    \E t \in TimerIds \ live :
        /\ timers' = live \cup {t}
        /\ waitTimer' = t

\* Mutant: a read loop that returns after one datagram, as a
\* level-triggered reader could.
StartReadingOne(live, wait) ==
    LET n == IF Readable > 0 THEN 1 ELSE 0 IN
    IF fd # "open"
    THEN /\ timers' = live /\ waitTimer' = wait
         /\ UNCHANGED <<queue, free, held, idle>>
    ELSE /\ queue' = queue - n
         /\ free' = free - n
         /\ held' = held + n
         /\ idle' = (idle /\ n = 0)
         /\ IF n = free
            THEN AddTimer(live)
            ELSE timers' = live /\ waitTimer' = wait

StartReading(live, wait) ==
    IF fd # "open"
    THEN /\ timers' = live /\ waitTimer' = wait
         /\ UNCHANGED <<queue, free, held, idle>>
    ELSE /\ queue' = queue - Readable
         /\ free' = free - Readable
         /\ held' = held + Readable
         /\ idle' = (idle /\ Readable = 0)
         /\ IF Readable = free
            THEN AddTimer(live)
            ELSE timers' = live /\ waitTimer' = wait

-----------------------------------------------------------------------------
(* The socket's operations.                                                *)

\* InitializeRedirect: socket, connect (which may fail: the socket is
\* closed and never polled), StartPolling with EPOLLET.
InitializeRedirect ==
    /\ fd = "unopened" /\ ~destroyed
    /\ \/ fd' = "open" /\ polled' = TRUE
       \/ fd' = "closed" /\ UNCHANGED polled
    /\ UNCHANGED <<event, queue, free, held, waitTimer, timers, idle, sent, destroyed>>

\* The reactor dispatches an EPOLLIN edge to the polling callback.
ReactorRead ==
    /\ polled /\ event
    /\ event' = FALSE
    /\ StartReading(timers, waitTimer)
    /\ UNCHANGED <<fd, polled, sent, destroyed>>

\* Mutant: a timer callback that clears wait_timer_ but does not read.
TimerFireNoRead(t) ==
    /\ t \in timers
    /\ timers' = timers \ {t} /\ waitTimer' = NoTimer
    /\ UNCHANGED <<fd, polled, event, queue, free, held, idle, sent, destroyed>>

\* A one-shot retry timer fires: wait_timer_ = nullptr, then StartReading.
\* On a destroyed socket this is a call into freed memory; the model lets
\* it run on the closed descriptor.
TimerFire(t) ==
    /\ t \in timers
    /\ StartReading(timers \ {t}, NoTimer)
    /\ UNCHANGED <<fd, polled, event, sent, destroyed>>

\* OnPacketFromGuest: send on the connected socket; activity only if the
\* send succeeded.  The guest's packet is released either way.
OnPacketFromGuest ==
    /\ ~destroyed
    /\ \E ok \in BOOLEAN :
         idle' = IF fd = "open" THEN idle /\ ~ok ELSE idle
    /\ UNCHANGED <<fd, polled, event, queue, free, held, waitTimer, timers, sent, destroyed>>

\* The destructor, run by the owner once active() is false: StopPolling and
\* close, then RemoveTimer(wait_timer_) if it is set.  The kernel drops the
\* socket's queue.
Destroy ==
    /\ ~destroyed /\ ~Active
    /\ destroyed' = TRUE
    /\ polled' = FALSE /\ event' = FALSE /\ queue' = 0
    /\ fd' = IF fd = "open" THEN "closed" ELSE fd
    /\ timers' = timers \ {waitTimer}
    /\ UNCHANGED <<free, held, waitTimer, idle, sent>>

-----------------------------------------------------------------------------
(* The environment.                                                        *)

\* A datagram for the flow arrives; with EPOLLET each arrival is an edge.
HostDatagram ==
    /\ fd = "open" /\ sent < MaxDatagrams
    /\ queue' = queue + 1 /\ event' = TRUE /\ sent' = sent + 1
    /\ UNCHANGED <<fd, polled, free, held, waitTimer, timers, idle, destroyed>>

\* The guest side releases a packet it was handed back to the pool.
GuestConsume ==
    /\ held > 0
    /\ held' = held - 1 /\ free' = free + 1
    /\ UNCHANGED <<fd, polled, event, queue, waitTimer, timers, idle, sent, destroyed>>

\* REDIRECT_TIMEOUT_SECONDS pass without activity.
Tick ==
    /\ ~idle /\ idle' = TRUE
    /\ UNCHANGED <<fd, polled, event, queue, free, held, waitTimer, timers, sent, destroyed>>

\* The socket is gone and nothing refers to it any more.
Terminated ==
    /\ destroyed /\ timers = {} /\ held = 0 /\ idle
    /\ UNCHANGED vars

Next ==
    \/ InitializeRedirect \/ ReactorRead \/ \E t \in TimerIds : TimerFire(t)
    \/ OnPacketFromGuest \/ Destroy
    \/ HostDatagram \/ GuestConsume \/ Tick \/ Terminated

\* The reactor dispatches every pending edge and fires every due timer, and
\* the guest eventually releases the packets it was handed.  The owner and
\* the peer get no fairness.
Fairness ==
    /\ WF_vars(ReactorRead)
    /\ \A t \in TimerIds : WF_vars(TimerFire(t))
    /\ WF_vars(GuestConsume)

Spec == Init /\ [][Next]_vars /\ Fairness

-----------------------------------------------------------------------------
(* Properties.                                                             *)

\* Type invariant.
TypeOK ==
    /\ fd \in {"unopened", "open", "closed"}
    /\ polled \in BOOLEAN /\ event \in BOOLEAN /\ idle \in BOOLEAN
    /\ destroyed \in BOOLEAN
    /\ queue \in 0 .. MaxDatagrams /\ sent \in 0 .. MaxDatagrams
    /\ free \in 0 .. PoolSize /\ held \in 0 .. PoolSize
    /\ waitTimer \in TimerIds \cup {NoTimer}
    /\ timers \subseteq TimerIds

\* Every datagram waiting in the host socket is read while the socket
\* lives, however long the pool stays empty: with EPOLLET no new edge comes
\* for it, so StartReading's retry timer is what brings the read.
DatagramsRead == queue > 0 ~> (queue = 0 \/ destroyed)

\* The destructor leaves no retry timer registered: a timer left behind
\* fires into the freed socket (its lambda captures this).
NoTimerAfterDestroy == destroyed => timers = {}

\* Every read callback that hands datagrams to the guest leaves the socket
\* empty, or stops on an empty pool with a retry timer pending in
\* wait_timer_: with EPOLLET no new edge comes for datagrams left behind,
\* so StartReading must read until recv fails or AllocatePacket does.
DrainedOrRetry ==
    held' > held => queue' = 0 \/ (free' = 0 /\ waitTimer' \in timers')

ReadUntilBlocked == [][DrainedOrRetry]_vars

=============================================================================

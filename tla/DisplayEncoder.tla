---------------------------- MODULE DisplayEncoder ----------------------------
(***************************************************************************)
(* The threads of SweetDisplayEncoder (src/sweet-server/display_encoder.cc): *)
(* client threads calling Start, Stop, Render and ForceKeyframe, the encode *)
(* thread running EncodeProcess, and the destructor.  encode_mutex_ guards  *)
(* started_, output_callback_ and encode_slices_; force_keyframe_ and       *)
(* destroyed_ are written and read without it.                              *)
(*                                                                          *)
(* Pixels, YUV conversion and x264 are left out: the queue of slices is     *)
(* abstracted to whether it is empty, a frame to whether it is a keyframe,  *)
(* and a client to the number of the Start that installed its callback.     *)
(***************************************************************************)
EXTENDS Naturals

CONSTANTS
    MaxStarts   \* bound on the calls of Start (each installs a new client)

ASSUME EncoderAssumption == MaxStarts \in Nat

Sessions == 1 .. MaxStarts

\* output_callback_ == nullptr.
NoClient == 0

VARIABLES
    started,    \* started_
    client,     \* output_callback_: the session it delivers to, or NoClient
    slices,     \* encode_slices_ is not empty
    forceKey,   \* force_keyframe_
    destroyed,  \* destroyed_
    lock,       \* encode_mutex_: "free", or held by the encode thread
    pc,         \* where the encode thread is in EncodeProcess
    frameKey,   \* the frame Encode is producing is a keyframe
    firstFrame, \* for each session: the type of the first frame it received
    starts,     \* calls of Start so far
    dtor        \* where the destructor is

vars == <<started, client, slices, forceKey, destroyed, lock, pc, frameKey,
          firstFrame, starts, dtor>>

Init ==
    /\ started = FALSE /\ client = NoClient /\ slices = FALSE
    /\ forceKey = FALSE /\ destroyed = FALSE
    /\ lock = "free" /\ pc = "top" /\ frameKey = FALSE
    /\ firstFrame = [s \in Sessions |-> "none"]
    /\ starts = 0 /\ dtor = "alive"

\* The predicate of wait_for.
Pred == destroyed \/ slices

\* encode_cv_.notify_all(): wakes the encode thread if it is blocked.
Notify == pc' = IF pc = "waiting" THEN "woken" ELSE pc

-----------------------------------------------------------------------------
(* The encode thread, EncodeProcess.                                        *)

\* while (!destroyed_) exits the loop.
EncoderExit ==
    /\ pc = "top" /\ destroyed
    /\ pc' = "done"
    /\ UNCHANGED <<started, client, slices, forceKey, destroyed, lock, frameKey, firstFrame, starts, dtor>>

\* The loop takes encode_mutex_.
EncoderLock ==
    /\ pc = "top" /\ ~destroyed /\ lock = "free"
    /\ lock' = "enc" /\ pc' = "check"
    /\ UNCHANGED <<started, client, slices, forceKey, destroyed, frameKey, firstFrame, starts, dtor>>

\* wait_for tests its predicate before blocking.
EncoderCheck ==
    /\ pc = "check"
    /\ pc' = IF Pred THEN "body" ELSE "towait"
    /\ UNCHANGED <<started, client, slices, forceKey, destroyed, lock, frameKey, firstFrame, starts, dtor>>

\* It releases the mutex and blocks on encode_cv_.
EncoderBlock ==
    /\ pc = "towait"
    /\ lock' = "free" /\ pc' = "waiting"
    /\ UNCHANGED <<started, client, slices, forceKey, destroyed, frameKey, firstFrame, starts, dtor>>

\* The 1 s idle_interval elapses (or the wait wakes spuriously).
EncoderTimeout ==
    /\ pc = "waiting"
    /\ pc' = "timedout"
    /\ UNCHANGED <<started, client, slices, forceKey, destroyed, lock, frameKey, firstFrame, starts, dtor>>

\* Woken, it retakes the mutex: wait_for returns if the predicate holds or
\* the time is up, and blocks again otherwise.
EncoderWake ==
    /\ pc \in {"woken", "timedout"} /\ lock = "free"
    /\ IF Pred \/ pc = "timedout"
       THEN pc' = "body" /\ lock' = "enc"
       ELSE pc' = "waiting" /\ UNCHANGED lock
    /\ UNCHANGED <<started, client, slices, forceKey, destroyed, frameKey, firstFrame, starts, dtor>>

\* Mutant: the slices are encoded but encode_slices_ is not cleared.
EncoderBodyNoClear ==
    /\ pc = "body"
    /\ lock' = "free"
    /\ pc' = CASE destroyed -> "done" [] ~started -> "top" [] OTHER -> "encode"
    /\ UNCHANGED <<started, client, slices, forceKey, destroyed, frameKey, firstFrame, starts, dtor>>

\* After wait_for: break if destroyed_, continue (unlocking) if not
\* started_, else take the queued slices and unlock for DrawSlices.
EncoderBody ==
    /\ pc = "body"
    /\ lock' = "free"
    /\ pc' = CASE destroyed -> "done" [] ~started -> "top" [] OTHER -> "encode"
    /\ slices' = (slices /\ (destroyed \/ ~started))
    /\ UNCHANGED <<started, client, forceKey, destroyed, frameKey, firstFrame, starts, dtor>>

\* Encode() reads force_keyframe_ without the mutex ...
EncoderReadForce ==
    /\ pc = "encode"
    /\ frameKey' = forceKey
    /\ pc' = IF forceKey THEN "clear" ELSE "encoded"
    /\ UNCHANGED <<started, client, slices, forceKey, destroyed, lock, firstFrame, starts, dtor>>

\* ... and clears it when it was set.
EncoderClearForce ==
    /\ pc = "clear"
    /\ forceKey' = FALSE /\ pc' = "encoded"
    /\ UNCHANGED <<started, client, slices, destroyed, lock, frameKey, firstFrame, starts, dtor>>

\* The frame types x264 may give a picture: KEYFRAME, or with X264_TYPE_AUTO
\* a delta frame or a keyframe of its own choosing.
FrameKinds == IF frameKey THEN {"key"} ELSE {"key", "delta"}

\* lock.lock(), output_callback_ with the frame, the pacing sleep, and the
\* end of the iteration releasing the mutex.
EncoderDeliver ==
    /\ pc = "encoded" /\ lock = "free"
    /\ pc' = "top"
    /\ \E kind \in FrameKinds :
         firstFrame' =
           IF client # NoClient /\ firstFrame[client] = "none"
           THEN [firstFrame EXCEPT ![client] = kind]
           ELSE firstFrame
    /\ UNCHANGED <<started, client, slices, forceKey, destroyed, lock, frameKey, starts, dtor>>

EncoderStep ==
    \/ EncoderExit \/ EncoderLock \/ EncoderCheck \/ EncoderBlock \/ EncoderWake
    \/ EncoderBody \/ EncoderReadForce \/ EncoderClearForce \/ EncoderDeliver

-----------------------------------------------------------------------------
(* The client threads.  Start, Stop and Render hold encode_mutex_ for the   *)
(* whole call.  No client calls in once the destructor has begun.           *)

\* Start: started_, force_keyframe_, the new callback and a full-screen
\* slice, without notifying the encode thread.
Start ==
    /\ dtor = "alive" /\ lock = "free" /\ starts < MaxStarts
    /\ started' = TRUE /\ forceKey' = TRUE /\ slices' = TRUE
    /\ starts' = starts + 1 /\ client' = starts + 1
    /\ UNCHANGED <<destroyed, lock, pc, frameKey, firstFrame, dtor>>

Stop ==
    /\ dtor = "alive" /\ lock = "free"
    /\ started' = FALSE /\ client' = NoClient
    /\ UNCHANGED <<slices, forceKey, destroyed, lock, pc, frameKey, firstFrame, starts, dtor>>

\* Mutant: a Render that queues slices without taking encode_mutex_.
RenderUnlocked ==
    /\ dtor = "alive"
    /\ \E copied \in BOOLEAN : slices' = (slices \/ (started /\ copied))
    /\ IF slices' THEN Notify ELSE UNCHANGED pc
    /\ UNCHANGED <<started, client, forceKey, destroyed, lock, frameKey, firstFrame, starts, dtor>>

\* Render: each partial is copied or converted (which may fail) and, while
\* started, queued as a slice; notify if the queue is not empty.
Render ==
    /\ dtor = "alive" /\ lock = "free"
    /\ \E copied \in BOOLEAN : slices' = (slices \/ (started /\ copied))
    /\ IF slices' THEN Notify ELSE UNCHANGED pc
    /\ UNCHANGED <<started, client, forceKey, destroyed, lock, frameKey, firstFrame, starts, dtor>>

\* ForceKeyframe: sets force_keyframe_ and notifies, without the mutex.
ForceKeyframe ==
    /\ dtor = "alive"
    /\ forceKey' = TRUE
    /\ Notify
    /\ UNCHANGED <<started, client, slices, destroyed, lock, frameKey, firstFrame, starts, dtor>>

-----------------------------------------------------------------------------
(* The destructor: destroyed_ = true, notify_all, join; all without the     *)
(* mutex.                                                                   *)

\* Mutant: a destructor that never sets destroyed_.
DtorSetNoFlag ==
    /\ dtor = "alive"
    /\ dtor' = "set"
    /\ UNCHANGED <<started, client, slices, forceKey, destroyed, lock, pc, frameKey, firstFrame, starts>>

DtorSet ==
    /\ dtor = "alive"
    /\ destroyed' = TRUE /\ dtor' = "set"
    /\ UNCHANGED <<started, client, slices, forceKey, lock, pc, frameKey, firstFrame, starts>>

DtorNotify ==
    /\ dtor = "set"
    /\ dtor' = "notified" /\ Notify
    /\ UNCHANGED <<started, client, slices, forceKey, destroyed, lock, frameKey, firstFrame, starts>>

DtorJoin ==
    /\ dtor = "notified" /\ pc = "done"
    /\ dtor' = "joined"
    /\ UNCHANGED <<started, client, slices, forceKey, destroyed, lock, pc, frameKey, firstFrame, starts>>

DtorStep == DtorSet \/ DtorNotify \/ DtorJoin

\* The encoder is destroyed and its thread joined.
Terminated ==
    /\ dtor = "joined"
    /\ UNCHANGED vars

Next ==
    \/ EncoderStep \/ EncoderTimeout
    \/ Start \/ Stop \/ Render \/ ForceKeyframe
    \/ DtorStep \/ Terminated

\* The encode thread and the destructor run when they can, and wait_for's
\* timeout does expire; the clients call in when they like.
Fairness ==
    /\ WF_vars(EncoderStep) /\ WF_vars(EncoderTimeout)
    /\ WF_vars(DtorNotify) /\ WF_vars(DtorJoin)

Spec == Init /\ [][Next]_vars /\ Fairness

-----------------------------------------------------------------------------
(* Properties.                                                              *)

\* Type invariant.
TypeOK ==
    /\ started \in BOOLEAN /\ slices \in BOOLEAN /\ forceKey \in BOOLEAN
    /\ destroyed \in BOOLEAN /\ frameKey \in BOOLEAN
    /\ client \in Sessions \cup {NoClient}
    /\ lock \in {"free", "enc"}
    /\ pc \in {"top", "check", "towait", "waiting", "woken", "timedout",
               "body", "encode", "clear", "encoded", "done"}
    /\ firstFrame \in [Sessions -> {"none", "key", "delta"}]
    /\ starts \in 0 .. MaxStarts
    /\ dtor \in {"alive", "set", "notified", "joined"}

\* The encode thread goes to sleep in wait_for only with encode_slices_
\* empty and encode_mutex_ still held since it tested the predicate: no
\* client can queue a slice between the test and the wait, so Render's
\* notify_all is never lost (only the unlocked notifies of ForceKeyframe
\* and the destructor can be).
WaitsOnlyWhenIdle == pc = "towait" => lock = "enc" /\ ~slices

\* Once the destructor has set destroyed_, its join returns: the encode
\* thread leaves EncodeProcess even when the notify_all falls between its
\* predicate test and its wait, since wait_for's timeout wakes it.
DestructorReturns == dtor = "set" ~> dtor = "joined"

\* Slices queued while started are encoded (or the client stops): the
\* full-screen slice of Start is queued without a notify, and only the
\* timeout of wait_for makes the encode thread look at it.
SlicesEncoded == (started /\ slices) ~> (~slices \/ ~started \/ destroyed)

\* Every client receives a keyframe first: Start sets force_keyframe_ so
\* that the first frame it delivers to the new callback can be decoded.
FirstFrameIsKey == \A s \in Sessions : firstFrame[s] # "delta"

\* While stopped, the encode thread eventually blocks in wait_for rather
\* than going round its loop.
StoppedEncoderWaits == ~started ~> (pc = "waiting" \/ started \/ destroyed)

=============================================================================

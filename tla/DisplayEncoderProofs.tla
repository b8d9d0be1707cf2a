------------------------- MODULE DisplayEncoderProofs -------------------------
(***************************************************************************)
(* Proofs about DisplayEncoder for every bound on the calls of Start.      *)
(***************************************************************************)
EXTENDS DisplayEncoder, TLAPS

\* TypeOK in two parts: the flags, and the rest.
Flags ==
    /\ started \in BOOLEAN /\ slices \in BOOLEAN /\ forceKey \in BOOLEAN
    /\ destroyed \in BOOLEAN /\ frameKey \in BOOLEAN

Data ==
    /\ client \in Sessions \cup {NoClient}
    /\ lock \in {"free", "enc"}
    /\ pc \in {"top", "check", "towait", "waiting", "woken", "timedout",
               "body", "encode", "clear", "encoded", "done"}
    /\ firstFrame \in [Sessions -> {"none", "key", "delta"}]
    /\ starts \in 0 .. MaxStarts
    /\ dtor \in {"alive", "set", "notified", "joined"}

LEMMA TypeSplit == TypeOK <=> Flags /\ Data
BY DEF TypeOK, Flags, Data

LEMMA InitTypeOK == Init => TypeOK
<1> SUFFICES ASSUME Init PROVE Flags /\ Data
  BY TypeSplit
<1>1. Flags
  BY DEF Init, Flags
<1>2. Data
  BY EncoderAssumption DEF Init, Data, NoClient
<1>3. QED
  BY <1>1, <1>2

\* Each step keeps the flags Boolean: every assignment to one is a
\* Boolean expression or leaves it alone.
LEMMA NextFlags == TypeOK /\ [Next]_vars => Flags'
<1> SUFFICES ASSUME Flags, [Next]_vars PROVE Flags'
  BY TypeSplit
<1> QED
  BY DEF Next, vars, Flags, EncoderStep, EncoderExit, EncoderLock,
         EncoderCheck, EncoderBlock, EncoderWake, EncoderBody,
         EncoderReadForce, EncoderClearForce, EncoderDeliver, EncoderTimeout,
         Start, Stop, Render, ForceKeyframe, DtorStep, DtorSet, DtorNotify,
         DtorJoin, Terminated

\* Each step keeps the client, the encode thread's place, the frames
\* received and the count of Starts in range: Start installs session
\* starts + 1 only while starts < MaxStarts, and the encode thread records
\* a frame only for the installed client.
LEMMA NextData == TypeOK /\ [Next]_vars => Data'
<1> SUFFICES ASSUME TypeOK, [Next]_vars PROVE Data'
  OBVIOUS
<1>1. CASE EncoderDeliver
  <2>1. PICK kind \in FrameKinds :
          firstFrame' = IF client # NoClient /\ firstFrame[client] = "none"
                        THEN [firstFrame EXCEPT ![client] = kind]
                        ELSE firstFrame
    BY <1>1 DEF EncoderDeliver
  <2>2. kind \in {"none", "key", "delta"}
    BY DEF FrameKinds
  <2>3. QED
    BY <1>1, <2>1, <2>2 DEF EncoderDeliver, TypeOK, Data, NoClient
<1>2. CASE Start
  BY <1>2, EncoderAssumption DEF Start, TypeOK, Data, Sessions
<1>3. CASE EncoderStep \/ EncoderTimeout
  BY <1>3, <1>1 DEF EncoderStep, EncoderExit, EncoderLock,
         EncoderCheck, EncoderBlock, EncoderWake, EncoderBody,
         EncoderReadForce, EncoderClearForce, EncoderTimeout, TypeOK, Data
<1>4. CASE Stop \/ Render \/ ForceKeyframe
  BY <1>4 DEF Stop, Render, ForceKeyframe, Notify, TypeOK, Data, NoClient
<1>5. CASE DtorStep \/ Terminated \/ UNCHANGED vars
  BY <1>5 DEF DtorStep, DtorSet, DtorNotify, DtorJoin, Notify, Terminated,
              vars, TypeOK, Data
<1>6. QED
  BY <1>1, <1>2, <1>3, <1>4, <1>5 DEF Next

\* Every reachable state of the display encoder is well typed, for every
\* bound on the calls of Start: in particular output_callback_ is always
\* the callback of a Start that happened, or null.
THEOREM TypeCorrect == Spec => []TypeOK
<1>1. TypeOK /\ [Next]_vars => TypeOK'
  <2> SUFFICES ASSUME TypeOK, [Next]_vars PROVE TypeOK'
    OBVIOUS
  <2>1. Flags' /\ Data'
    BY NextFlags, NextData
  <2>2. QED
    BY <2>1 DEF TypeOK, Flags, Data
<1>2. QED
  BY <1>1, InitTypeOK, PTL DEF Spec

-----------------------------------------------------------------------------
(* encode_mutex_ and the wait_for predicate.                                *)

\* encode_mutex_ is held by the encode thread exactly from the lock at the
\* top of its loop to the unlock after wait_for: the clients' calls are
\* single steps that need it free.
LockHeld == lock = "enc" <=> pc \in {"check", "towait", "body"}

\* The strengthening of WaitsOnlyWhenIdle.
EInv == TypeOK /\ LockHeld /\ WaitsOnlyWhenIdle

LEMMA InitEInv == Init => EInv
BY InitTypeOK DEF Init, EInv, LockHeld, WaitsOnlyWhenIdle

LEMMA NextEInv == EInv /\ [Next]_vars => EInv'
<1> SUFFICES ASSUME EInv, [Next]_vars PROVE EInv'
  OBVIOUS
<1>1. TypeOK'
  BY NextFlags, NextData, TypeSplit DEF EInv, TypeOK, Flags, Data
<1> USE <1>1 DEF EInv, LockHeld, WaitsOnlyWhenIdle
<1>2. CASE EncoderExit \/ EncoderLock \/ EncoderCheck \/ EncoderBlock
  BY <1>2 DEF EncoderExit, EncoderLock, EncoderCheck, EncoderBlock, Pred
<1>3. CASE EncoderWake \/ EncoderBody \/ EncoderTimeout
  BY <1>3 DEF EncoderWake, EncoderBody, EncoderTimeout
<1>4. CASE EncoderReadForce \/ EncoderClearForce \/ EncoderDeliver
  BY <1>4 DEF EncoderReadForce, EncoderClearForce, EncoderDeliver
<1>5. CASE Start \/ Stop \/ Render
  BY <1>5 DEF Start, Stop, Render, Notify
<1>6. CASE ForceKeyframe \/ DtorStep
  BY <1>6 DEF ForceKeyframe, DtorStep, DtorSet, DtorNotify, DtorJoin, Notify
<1>7. CASE Terminated \/ UNCHANGED vars
  BY <1>7 DEF Terminated, vars
<1>8. QED
  BY <1>2, <1>3, <1>4, <1>5, <1>6, <1>7 DEF Next, EncoderStep

\* WaitsOnlyWhenIdle holds in every reachable state, for every bound on
\* the calls of Start: the encode thread blocks in wait_for only with the
\* mutex held since its predicate test found encode_slices_ empty.
THEOREM IdleWaitCorrect == Spec => []WaitsOnlyWhenIdle
<1>1. EInv => WaitsOnlyWhenIdle
  BY DEF EInv
<1>2. QED
  BY <1>1, InitEInv, NextEInv, PTL DEF Spec

=============================================================================

-------------------------- MODULE CameraView_proofs --------------------------
(***************************************************************************)
(* Proofs about CameraView, for any number of render threads and calls:    *)
(* what the liveness of the view rests on.  Whoever waits for a render     *)
(* thread, or wants it to end or to let an encoder go, has put the message *)
(* that does it into the queue, and nothing takes it out unhandled.        *)
(***************************************************************************)
EXTENDS CameraView, MessageQueue_proofs, TLAPS

Surface == {"CREATE", "RESIZE", "SAME SIZE"}
Enders == {"NO ENCODER", "TERMINATE"}

\* Queue q has a message of these kinds.
Has(q, kinds) == \E i \in 1..Len(q) : q[i] \in kinds

\* After q an encoder that is set, e, or that q sets, is no longer there.
Cleared(q, e) ==
    /\ e => Has(q, Enders)
    /\ \A i \in 1..Len(q) :
         q[i] = "ENCODER" => \E j \in 1..Len(q) : i < j /\ q[j] \in Enders

\* The handler of the view is the only active one.  Of the threads that loop,
\* its is the only one that has not been told to end.
Handlers ==
    /\ mRenderHandler # NULL => started /\ life[mRenderHandler] = "loop"
    /\ \A r \in Renders :
         /\ mIsActive[r] <=> mRenderHandler = r
         /\ mThread[r] <=> life[r] = "loop"
         /\ life[r] = "loop" => (Has(messages[r], {"TERMINATE"}) <=> ~mIsActive[r])

\* Who calls what, and which handler a call goes to.
Calls ==
    /\ pc[UI] \notin {"capturing", "crashed"} /\ pc[Async] # "capturing"
    /\ pc[Camera] \in {"idle", "look", "read", "capturing", "crashed"}
    /\ \A t \in {UI, Async} : pc[t] \in {"look", "read"} => op[t] = "getSurface"
    /\ pc[Camera] \in {"look", "read"} => op[Camera] = IF told THEN "ENCODER" ELSE "NO ENCODER"
    /\ pc[UI] \in {"read", "enter", "wait", "waiting", "woken"} => mRenderHandler # NULL
    /\ pc[UI] \in {"enter", "wait", "waiting", "woken"} => handler[UI] = mRenderHandler
    /\ pc[Async] \in {"enter", "wait", "waiting", "woken"}
         => handler[Async] \in Renders /\ life[handler[Async]] # "none"

\* Who waits has sent what wakes him, or the thread is about to end, which
\* wakes him as well.
Waits ==
    /\ pc[UI] \in {"wait", "waiting"} => Has(messages[mRenderHandler], Surface)
    /\ pc[Async] \in {"wait", "waiting"} /\ life[handler[Async]] = "loop"
         => Has(messages[handler[Async]], Surface \cup {"TERMINATE"})

\* What a thread that the view has given up does, and any thread when
\* setVideoEncoder(null) has returned.
Encoders ==
    \A r \in Renders :
        /\ life[r] \in {"none", "ended"} => ~mEncoder[r]
        /\ /\ life[r] = "loop"
           /\ \/ ~mIsActive[r]
              \/ ~told /\ pc[Camera] \notin {"look", "read", "crashed"}
           => Cleared(messages[r], mEncoder[r])

IndInv == TypeOK /\ Handlers /\ Calls /\ Waits /\ Encoders
-----------------------------------------------------------------------------
(* Queues. *)

LEMMA Sending ==
    ASSUME NEW q \in Seq(Kinds), NEW m \in Kinds
    PROVE  /\ Append(q, m) \in Seq(Kinds)
           /\ \A kinds : Has(Append(q, m), kinds) <=> Has(q, kinds) \/ m \in kinds
           /\ \A e \in BOOLEAN :
                m # "ENCODER" /\ Cleared(q, e) => Cleared(Append(q, m), e)
           /\ \A e \in BOOLEAN : m \in Enders => Cleared(Append(q, m), e)
<1> DEFINE s == Append(q, m)
<1>1. /\ s \in Seq(Kinds) /\ Len(q) \in Nat /\ Len(s) = Len(q) + 1
      /\ \A i \in 1..Len(q) : s[i] = q[i]
      /\ s[Len(q) + 1] = m
  OBVIOUS
<1> HIDE DEF s
<1>2. ASSUME NEW kinds
      PROVE  Has(s, kinds) <=> Has(q, kinds) \/ m \in kinds
  BY <1>1 DEF Has
<1>3. ASSUME NEW e \in BOOLEAN, m # "ENCODER", Cleared(q, e)
      PROVE  Cleared(s, e)
  <2>1. e => Has(s, Enders)
    BY <1>2, <1>3 DEF Cleared
  <2>2. ASSUME NEW i \in 1..Len(s), s[i] = "ENCODER"
        PROVE  \E j \in 1..Len(s) : i < j /\ s[j] \in Enders
    <3>1. i \in 1..Len(q) /\ q[i] = "ENCODER"
      BY <1>1, <1>3, <2>2
    <3>2. PICK j \in 1..Len(q) : i < j /\ q[j] \in Enders
      BY <1>3, <3>1 DEF Cleared
    <3> QED
      BY <1>1, <3>2
  <2> QED
    BY <2>1, <2>2 DEF Cleared
<1>4. ASSUME NEW e \in BOOLEAN, m \in Enders
      PROVE  Cleared(s, e)
  <2> DEFINE l == Len(s)
  <2>1. l \in 1..l /\ s[l] = m /\ \A i \in 1..l : i < l \/ i = l
    BY <1>1
  <2>2. m # "ENCODER"
    BY <1>4 DEF Enders
  <2> QED
    BY <1>4, <2>1, <2>2 DEF Cleared, Has
<1> QED
  BY <1>1, <1>2, <1>3, <1>4 DEF s

LEMMA Taking ==
    ASSUME NEW q \in Seq(Kinds), q # <<>>
    PROVE  /\ Tail(q) \in Seq(Kinds) /\ Head(q) \in Kinds
           /\ \A kinds : Has(q, kinds) <=> Has(Tail(q), kinds) \/ Head(q) \in kinds
           /\ \A e \in BOOLEAN : Head(q) \notin Enders /\ Cleared(q, e) =>
                Cleared(Tail(q), e \/ Head(q) = "ENCODER")
           /\ \A e \in BOOLEAN : Cleared(q, e) => Cleared(Tail(q), FALSE)
<1> DEFINE s == Tail(q)
<1>1. /\ s \in Seq(Kinds) /\ Head(q) = q[1] /\ q[1] \in Kinds
      /\ Len(q) \in Nat /\ Len(q) > 0 /\ Len(s) = Len(q) - 1
      /\ \A i \in 1..Len(s) : s[i] = q[i + 1]
  OBVIOUS
<1>t. \A i \in 2..Len(q) : i - 1 \in 1..Len(s) /\ q[i] = s[i - 1]
  BY <1>1
<1> HIDE DEF s
<1>2. ASSUME NEW kinds
      PROVE  Has(q, kinds) <=> Has(s, kinds) \/ Head(q) \in kinds
  <2>1. Has(q, kinds) => Has(s, kinds) \/ Head(q) \in kinds
    BY <1>1, <1>t DEF Has
  <2>2. Has(s, kinds) => Has(q, kinds)
    BY <1>1 DEF Has
  <2>3. Head(q) \in kinds => Has(q, kinds)
    BY <1>1 DEF Has
  <2> QED
    BY <2>1, <2>2, <2>3
<1>3. ASSUME NEW e \in BOOLEAN, Cleared(q, e)
      PROVE  /\ Cleared(s, FALSE)
             /\ Head(q) = "ENCODER" => Has(s, Enders)
  <2>1. ASSUME NEW i \in 1..Len(q), q[i] = "ENCODER"
        PROVE  \E j \in 1..Len(s) : i <= j /\ s[j] \in Enders
    <3>1. PICK j \in 1..Len(q) : i < j /\ q[j] \in Enders
      BY <1>3, <2>1 DEF Cleared
    <3>2. j \in 2..Len(q)
      BY <1>1, <3>1
    <3>3. j - 1 \in 1..Len(s) /\ s[j - 1] \in Enders /\ i <= j - 1
      BY <1>t, <3>1, <3>2
    <3> QED
      BY <3>3
  <2>2. \A i \in 1..Len(s) :
          s[i] = "ENCODER" => \E j \in 1..Len(s) : i < j /\ s[j] \in Enders
    <3> SUFFICES ASSUME NEW i \in 1..Len(s), s[i] = "ENCODER"
                 PROVE  \E j \in 1..Len(s) : i < j /\ s[j] \in Enders
      OBVIOUS
    <3>1. i + 1 \in 1..Len(q) /\ q[i + 1] = "ENCODER"
      BY <1>1
    <3>2. PICK j \in 1..Len(s) : i + 1 <= j /\ s[j] \in Enders
      BY <2>1, <3>1
    <3> QED
      BY <1>1, <3>2
  <2>3. Head(q) = "ENCODER" => Has(s, Enders)
    BY <1>1, <2>1 DEF Has
  <2> QED
    BY <2>2, <2>3 DEF Cleared
<1>4. ASSUME NEW e \in BOOLEAN, Cleared(q, e), Head(q) \notin Enders
      PROVE  Cleared(s, e \/ Head(q) = "ENCODER")
  <2>1. e => Has(s, Enders)
    BY <1>2, <1>4 DEF Cleared
  <2> QED
    BY <1>3, <1>4, <2>1 DEF Cleared
<1> QED
  BY <1>1, <1>2, <1>3, <1>4 DEF s

\* What release leaves in the queue.
LEMMA Releasing ==
    ASSUME NEW q \in Seq(Kinds)
    PROVE  LET s == Append(removeMessages(q, {"RENDER", "ENCODER", "NO ENCODER"}), "TERMINATE")
           IN  /\ s \in Seq(Kinds)
               /\ Has(s, {"TERMINATE"})
               /\ Has(q, Surface) => Has(s, Surface)
               /\ \A e \in BOOLEAN : Cleared(s, e)
<1> DEFINE gone == {"RENDER", "ENCODER", "NO ENCODER"}
           left == removeMessages(q, gone)
<1>1. left \in Seq(Kinds)
  <2>1. left \in Seq(Kinds \ gone)
    BY RemovesOnlyThese
  <2> HIDE DEF left, gone
  <2>2. /\ Len(left) \in Nat /\ left = [i \in 1..Len(left) |-> left[i]]
        /\ \A i \in 1..Len(left) : left[i] \in Kinds
    BY <2>1
  <2> QED
    BY <2>2
<1>2. ASSUME Has(q, Surface)
      PROVE  Has(left, Surface)
  <2>1. PICK i \in 1..Len(q) : q[i] \in Surface
    BY <1>2 DEF Has
  <2>2. i \in Staying(q, gone)
    BY <2>1 DEF Staying, Surface
  <2>3. PICK f \in [1..Len(left) -> Staying(q, gone)] :
          /\ \A n \in 1..Len(left) : left[n] = q[f[n]]
          /\ \A j \in Staying(q, gone) : \E n \in 1..Len(left) : f[n] = j
    <3>1. \E f \in [1..Len(left) -> Staying(q, gone)] :
            /\ \A n \in 1..Len(left) : left[n] = q[f[n]]
            /\ \A m, n \in 1..Len(left) : m < n => f[m] < f[n]
            /\ \A j \in Staying(q, gone) : \E n \in 1..Len(left) : f[n] = j
      <4> HIDE DEF gone
      <4> QED
        BY KeepsTheOthers
    <3> QED
      BY <3>1
  <2>4. PICK n \in 1..Len(left) : f[n] = i
    BY <2>2, <2>3
  <2> HIDE DEF left, gone
  <2> QED
    BY <2>1, <2>3, <2>4 DEF Has
<1>3. "TERMINATE" \in Kinds /\ "TERMINATE" \in Enders
  BY DEF Kinds, Enders
<1> HIDE DEF left
<1> DEFINE s == Append(left, "TERMINATE")
<1>4. s \in Seq(Kinds) /\ Has(s, {"TERMINATE"})
  BY <1>1, <1>3, Sending
<1>5. Has(q, Surface) => Has(s, Surface)
  BY <1>1, <1>2, <1>3, Sending
<1>6. \A e \in BOOLEAN : Cleared(s, e)
  BY <1>1, <1>3, Sending
<1> QED
  BY <1>4, <1>5, <1>6 DEF left
-----------------------------------------------------------------------------
(* Types, one variable at a time. *)

ViewTypes ==
    /\ started \in BOOLEAN /\ mHasSurface \in BOOLEAN /\ mPreviewSurface \in BOOLEAN
    /\ mTempBitmap \in BOOLEAN /\ mReqesutCaptureStillImage \in BOOLEAN
    /\ drawn \in BOOLEAN /\ told \in BOOLEAN
    /\ mRenderHandler \in Renders \cup {NULL}

ThreadTypes ==
    /\ messages \in [Renders -> Seq(Kinds)]
    /\ mIsActive \in [Renders -> BOOLEAN] /\ mThread \in [Renders -> BOOLEAN]
    /\ texture \in [Renders -> BOOLEAN] /\ mEncoder \in [Renders -> BOOLEAN]
    /\ life \in [Renders -> {"none", "loop", "finishing", "ended"}]
    /\ \A r \in Renders : life[r] # "loop" => messages[r] = <<>>

CallTypes ==
    /\ pc \in [Threads -> {"idle", "look", "read", "enter", "wait", "waiting", "woken",
                           "capturing", "crashed"}]
    /\ op \in [Threads -> {"none", "getSurface", "resize", "ENCODER", "NO ENCODER"}]
    /\ handler \in [Threads -> Renders \cup {NULL}]
    /\ calls \in [Threads -> Nat]

Types == ViewTypes /\ ThreadTypes /\ CallTypes

LEMMA Typed == (TypeOK <=> Types) /\ (TypeOK' <=> Types')
<1>1. TypeOK <=> Types
  BY DEF TypeOK, Types, ViewTypes, ThreadTypes, CallTypes
<1>2. TypeOK' <=> Types'
  BY DEF TypeOK, Types, ViewTypes, ThreadTypes, CallTypes
<1> QED
  BY <1>1, <1>2

LEMMA InitInd == Init => IndInv
<1> SUFFICES ASSUME Init PROVE IndInv
  OBVIOUS
<1>1. TypeOK
  <2>1. <<>> \in Seq(Kinds)
    OBVIOUS
  <2> QED
    BY <2>1, Typed DEF Types, ViewTypes, ThreadTypes, CallTypes, Init, Threads
<1>2. Handlers
  BY ConstantsAssumption DEF Init, Handlers, Has
<1>3. Calls /\ Waits /\ Encoders
  BY DEF Init, Calls, Waits, Encoders, Threads, UI, Async, Camera
<1> QED
  BY <1>1, <1>2, <1>3 DEF IndInv

\* A thread that calls the view, goes on to the handler or comes back.
\* A call of the view.
Calling ==
    \/ getSurface(UI) \/ getSurface(Async) \/ captureStillImage
    \/ setVideoEncoder("ENCODER") \/ setVideoEncoder("NO ENCODER")

LEMMA CallKeeps ==
    IndInv /\ Calling => IndInv'
<1>a. HAVE IndInv /\ Calling
<1> USE DEF UI, Async, Camera
<1>0. MaxCalls \in [Threads -> Nat] /\ UI \in Threads /\ Async \in Threads /\ Camera \in Threads
  BY ConstantsAssumption DEF Threads
<1>t. Types
  BY <1>a, Typed DEF IndInv
<1>1. UNCHANGED <<mRenderHandler, messages, mIsActive, mThread, life, texture, mEncoder, handler>>
  BY <1>a DEF Calling, getSurface, setVideoEncoder, captureStillImage, Call, view, render
<1>2. UNCHANGED <<started, mHasSurface, mPreviewSurface, mTempBitmap, drawn>>
  BY <1>a DEF Calling, getSurface, setVideoEncoder, captureStillImage, Call, view, still
<1>3. PICK t \in Threads :
        /\ pc[t] = "idle"
        /\ calls' = [calls EXCEPT ![t] = @ + 1]
        /\ \/ /\ pc' = [pc EXCEPT ![t] = "look"]
              /\ \/ t # Camera /\ op' = [op EXCEPT ![t] = "getSurface"] /\ told' = told
                 \/ /\ t = Camera
                    /\ \E m \in {"ENCODER", "NO ENCODER"} :
                         op' = [op EXCEPT ![t] = m] /\ told' = (m = "ENCODER")
              /\ mReqesutCaptureStillImage' = mReqesutCaptureStillImage
           \/ /\ t = Camera /\ pc' = [pc EXCEPT ![t] = "capturing"] /\ op' = op /\ told' = told
              /\ mReqesutCaptureStillImage' = TRUE
  BY <1>a, <1>0 DEF Calling, getSurface, setVideoEncoder, captureStillImage, Call, Begin, Goto, still
<1>4. told' \in BOOLEAN
  BY <1>a, <1>t DEF Calling, getSurface, setVideoEncoder, captureStillImage, Types, ViewTypes
<1>5. ViewTypes'
  BY <1>t, <1>1, <1>2, <1>3, <1>4 DEF Types, ViewTypes
<1>6. ThreadTypes'
  BY <1>t, <1>1 DEF Types, ThreadTypes
<1>7. CallTypes'
  <2>1. calls' \in [Threads -> Nat]
    <3>1. calls \in [Threads -> Nat] /\ calls' = [calls EXCEPT ![t] = @ + 1]
      BY <1>t, <1>3 DEF Types, CallTypes
    <3> QED
      BY <3>1
  <2> QED
    BY <1>t, <1>1, <1>3, <2>1 DEF Types, CallTypes
<1>8. Handlers'
  BY <1>a, <1>1, <1>2 DEF IndInv, Handlers
<1>9. Calls'
  <2>1. (pc[Camera] \in {"look", "read"} => op[Camera] = IF told THEN "ENCODER" ELSE "NO ENCODER")'
    <3>1. CASE t = Camera
      BY <1>a, <1>0, <1>t, <1>3, <3>1 DEF Types, CallTypes
    <3>2. CASE t # Camera
      <4>1. pc'[Camera] = pc[Camera] /\ op'[Camera] = op[Camera] /\ told' = told
        BY <1>0, <1>t, <1>3, <3>2 DEF Types, CallTypes
      <4> QED
        BY <1>a, <4>1 DEF IndInv, Calls
    <3> QED
      BY <3>1, <3>2
  <2>2. \A s \in {UI, Async} : \/ pc'[s] = pc[s] /\ op'[s] = op[s]
                               \/ pc[s] = "idle" /\ pc'[s] = "look" /\ op'[s] = "getSurface"
    <3> TAKE s \in {UI, Async}
    <3>1. s \in Threads /\ s # Camera
      BY <1>0
    <3>2. CASE t = s
      BY <1>t, <1>3, <3>1, <3>2 DEF Types, CallTypes
    <3>3. CASE t # s
      BY <1>t, <1>3, <3>1, <3>3 DEF Types, CallTypes
    <3> QED
      BY <3>2, <3>3
  <2>3. pc'[Camera] = pc[Camera] \/ pc'[Camera] \in {"look", "capturing"}
    BY <1>0, <1>t, <1>3 DEF Types, CallTypes
  <2> QED
    BY <1>a, <1>1, <2>1, <2>2, <2>3 DEF IndInv, Calls
<1>10. Waits'
  BY <1>a, <1>0, <1>t, <1>1, <1>3 DEF IndInv, Waits, Types, CallTypes
<1>11. Encoders'
  <2>1. ~told' /\ pc'[Camera] \notin {"look", "read", "crashed"}
          => ~told /\ pc[Camera] \notin {"look", "read", "crashed"}
    BY <1>0, <1>t, <1>3 DEF Types, CallTypes
  <2> QED
    BY <1>a, <1>1, <2>1 DEF IndInv, Encoders
<1> QED
  BY <1>a, <1>5, <1>6, <1>7, <1>8, <1>9, <1>10, <1>11, Typed DEF IndInv, Types
LEMMA LookKeeps == \A t \in Threads : IndInv /\ Look(t) => IndInv'
<1> TAKE t \in Threads
<1>a. HAVE IndInv /\ Look(t)
<1> USE DEF UI, Async, Camera
<1>0. /\ UI \in Threads /\ Async \in Threads /\ Camera \in Threads
      /\ t \in {UI, Async, Camera} /\ NULL \notin Renders
  BY ConstantsAssumption DEF Threads
<1>t. Types
  BY <1>a, Typed DEF IndInv
<1>1. /\ UNCHANGED ViewTypes /\ UNCHANGED <<started, told, mRenderHandler>>
      /\ UNCHANGED <<messages, mIsActive, mThread, life, texture, mEncoder, op, handler, calls>>
      /\ pc[t] = "look"
      /\ pc' = [pc EXCEPT ![t] = IF mRenderHandler = NULL THEN "idle" ELSE "read"]
  BY <1>a DEF Look, Jump, Goto, view, still, render, ViewTypes
<1>2. ViewTypes' /\ ThreadTypes' /\ CallTypes'
  BY <1>t, <1>1 DEF Types, ThreadTypes, CallTypes
<1>3. Handlers'
  BY <1>a, <1>1 DEF IndInv, Handlers
<1>4. Calls'
  BY <1>a, <1>0, <1>t, <1>1 DEF IndInv, Calls, Types, CallTypes
<1>5. Waits'
  BY <1>a, <1>0, <1>t, <1>1 DEF IndInv, Waits, Types, CallTypes
<1>6. Encoders'
  <2>1. \/ ~told /\ pc[Camera] \notin {"look", "read", "crashed"}
        \/ ~(~told /\ pc[Camera] \notin {"look", "read", "crashed"})'
        \/ \A r \in Renders : ~mIsActive[r]
    BY <1>a, <1>0, <1>t, <1>1 DEF IndInv, Handlers, Types, CallTypes
  <2> QED
    BY <1>a, <1>1, <2>1 DEF IndInv, Encoders
<1> QED
  BY <1>2, <1>3, <1>4, <1>5, <1>6, Typed DEF IndInv, Types
LEMMA WaitKeeps == \A t \in Threads : IndInv /\ Wait(t) => IndInv'
<1> TAKE t \in Threads
<1>a. HAVE IndInv /\ Wait(t)
<1> USE DEF UI, Async, Camera
<1>0. /\ UI \in Threads /\ Async \in Threads /\ Camera \in Threads
      /\ t \in {UI, Async, Camera} /\ NULL \notin Renders
  BY ConstantsAssumption DEF Threads
<1>t. Types
  BY <1>a, Typed DEF IndInv
<1>1. /\ UNCHANGED ViewTypes /\ UNCHANGED <<started, told, mRenderHandler>>
      /\ UNCHANGED <<messages, mIsActive, mThread, life, texture, mEncoder, op, handler, calls>>
      /\ pc[t] = "wait"
      /\ pc' = [pc EXCEPT ![t] = IF mThread[handler[t]] THEN "waiting" ELSE "crashed"]
  BY <1>a DEF Wait, Jump, Goto, view, still, render, ViewTypes
<1>2. ViewTypes' /\ ThreadTypes' /\ CallTypes'
  BY <1>t, <1>1 DEF Types, ThreadTypes, CallTypes
<1>3. Handlers'
  BY <1>a, <1>1 DEF IndInv, Handlers
<1>4. t = UI => mThread[handler[t]]
  BY <1>a, <1>0, <1>t, <1>1 DEF IndInv, Calls, Handlers, Types, ViewTypes
<1>5. t # Camera
  BY <1>a, <1>1 DEF IndInv, Calls
<1>6. /\ \A s \in Threads : s # t => pc'[s] = pc[s]
      /\ pc'[t] = "waiting" \/ (t = Async /\ pc'[t] = "crashed")
  <2>1. pc \in [Threads -> {"idle", "look", "read", "enter", "wait", "waiting", "woken",
                            "capturing", "crashed"}]
        /\ handler \in [Threads -> Renders \cup {NULL}]
    BY <1>t DEF Types, CallTypes
  <2>2. t = UI \/ t = Async
    BY <1>0, <1>5
  <2>3. \A s \in Threads : s # t => pc'[s] = pc[s]
    BY <1>1, <2>1
  <2>4. pc'[t] = IF mThread[handler[t]] THEN "waiting" ELSE "crashed"
    BY <1>1, <2>1
  <2> QED
    BY <1>4, <2>2, <2>3, <2>4
<1>7. Calls'
  BY <1>a, <1>0, <1>1, <1>5, <1>6 DEF IndInv, Calls
<1>8. Waits'
  BY <1>a, <1>0, <1>1, <1>6 DEF IndInv, Waits
<1>9. Encoders'
  BY <1>a, <1>0, <1>1, <1>5, <1>6 DEF IndInv, Encoders
<1> QED
  BY <1>2, <1>3, <1>7, <1>8, <1>9, Typed DEF IndInv, Types

LEMMA ReturnKeeps == \A t \in Threads : IndInv /\ Return(t) => IndInv'
<1> TAKE t \in Threads
<1>a. HAVE IndInv /\ Return(t)
<1> USE DEF UI, Async, Camera
<1>0. /\ UI \in Threads /\ Async \in Threads /\ Camera \in Threads
      /\ t \in {UI, Async, Camera} /\ NULL \notin Renders
  BY ConstantsAssumption DEF Threads
<1>t. Types
  BY <1>a, Typed DEF IndInv
<1>1. /\ UNCHANGED <<started, mHasSurface, mRenderHandler>>
      /\ UNCHANGED <<mTempBitmap, mReqesutCaptureStillImage, drawn, told>>
      /\ UNCHANGED <<messages, mIsActive, mThread, life, texture, mEncoder, op, calls>>
      /\ pc[t] = "woken"
      /\ pc' = [pc EXCEPT ![t] = IF op[t] = "resize" \/ mThread[handler[t]] THEN "idle" ELSE "crashed"]
      /\ handler' = [handler EXCEPT ![t] = NULL]
      /\ mPreviewSurface' = (mPreviewSurface \/ (op[t] = "getSurface" /\ texture[handler[t]]))
  BY <1>a DEF Return, Jump, Goto, still, render
<1>2. ViewTypes' /\ ThreadTypes' /\ CallTypes'
  <2>1. mPreviewSurface' \in BOOLEAN
    BY <1>1
  <2>2. ViewTypes'
    BY <1>t, <1>1, <2>1 DEF Types, ViewTypes
  <2>3. ThreadTypes' /\ CallTypes'
    BY <1>t, <1>1 DEF Types, ThreadTypes, CallTypes
  <2> QED
    BY <2>2, <2>3
<1>3. Handlers'
  BY <1>a, <1>1 DEF IndInv, Handlers
<1>4. t = UI => mThread[handler[t]]
  BY <1>a, <1>0, <1>t, <1>1 DEF IndInv, Calls, Handlers, Types, ViewTypes
<1>5. t # Camera
  BY <1>a, <1>1 DEF IndInv, Calls
<1>6. /\ \A s \in Threads : s # t => pc'[s] = pc[s] /\ handler'[s] = handler[s]
      /\ pc'[t] = "idle" \/ (t = Async /\ pc'[t] = "crashed")
  <2>1. pc \in [Threads -> {"idle", "look", "read", "enter", "wait", "waiting", "woken",
                            "capturing", "crashed"}]
        /\ handler \in [Threads -> Renders \cup {NULL}]
    BY <1>t DEF Types, CallTypes
  <2>2. t = UI \/ t = Async
    BY <1>0, <1>5
  <2>3. \A s \in Threads : s # t => pc'[s] = pc[s] /\ handler'[s] = handler[s]
    BY <1>1, <2>1
  <2>4. pc'[t] = IF op[t] = "resize" \/ mThread[handler[t]] THEN "idle" ELSE "crashed"
    BY <1>1, <2>1
  <2> QED
    BY <1>4, <2>2, <2>3, <2>4
<1>7. Calls'
  BY <1>a, <1>0, <1>1, <1>5, <1>6 DEF IndInv, Calls
<1>8. Waits'
  BY <1>a, <1>0, <1>1, <1>6 DEF IndInv, Waits
<1>9. Encoders'
  BY <1>a, <1>0, <1>1, <1>5, <1>6 DEF IndInv, Encoders
<1> QED
  BY <1>2, <1>3, <1>7, <1>8, <1>9, Typed DEF IndInv, Types
\* A message sent to a thread that loops.
LEMMA Posting ==
    \A r \in Renders : \A m \in Kinds :
        ThreadTypes /\ life[r] = "loop" /\ messages' = Sent(r, m) =>
            /\ messages' \in [Renders -> Seq(Kinds)]
            /\ \A s \in Renders : s # r => messages'[s] = messages[s]
            /\ \A s \in Renders : \A kinds :
                 Has(messages'[s], kinds) <=> Has(messages[s], kinds) \/ (s = r /\ m \in kinds)
            /\ m # "ENCODER" => \A s \in Renders : \A e \in BOOLEAN :
                 Cleared(messages[s], e) => Cleared(messages'[s], e)
            /\ m \in Enders => \A e \in BOOLEAN : Cleared(messages'[r], e)
<1> TAKE r \in Renders
<1> TAKE m \in Kinds
<1>a. HAVE ThreadTypes /\ life[r] = "loop" /\ messages' = Sent(r, m)
<1>1. messages \in [Renders -> Seq(Kinds)] /\ messages' = [messages EXCEPT ![r] = Append(@, m)]
  BY <1>a DEF ThreadTypes, Sent
<1>2. messages[r] \in Seq(Kinds)
  BY <1>1
<1>3. /\ Append(messages[r], m) \in Seq(Kinds)
      /\ \A kinds : Has(Append(messages[r], m), kinds) <=> Has(messages[r], kinds) \/ m \in kinds
      /\ \A e \in BOOLEAN :
           m # "ENCODER" /\ Cleared(messages[r], e) => Cleared(Append(messages[r], m), e)
      /\ \A e \in BOOLEAN : m \in Enders => Cleared(Append(messages[r], m), e)
  BY <1>2, Sending
<1>4. /\ \A s \in Renders : s # r => messages'[s] = messages[s]
      /\ messages'[r] = Append(messages[r], m)
  BY <1>1
<1>5. messages' \in [Renders -> Seq(Kinds)]
  BY <1>1, <1>3
<1>6. \A s \in Renders : \A kinds :
        Has(messages'[s], kinds) <=> Has(messages[s], kinds) \/ (s = r /\ m \in kinds)
  BY <1>3, <1>4
<1>7. m # "ENCODER" => \A s \in Renders : \A e \in BOOLEAN :
        Cleared(messages[s], e) => Cleared(messages'[s], e)
  BY <1>3, <1>4
<1> QED
  BY <1>3, <1>4, <1>5, <1>6, <1>7

LEMMA EnterKeeps == \A t \in Threads : IndInv /\ Enter(t) => IndInv'
<1> TAKE t \in Threads
<1>a. HAVE IndInv /\ Enter(t)
<1> USE DEF UI, Async, Camera
<1> DEFINE r == handler[t]
<1>0. /\ UI \in Threads /\ Async \in Threads /\ Camera \in Threads
      /\ t \in {UI, Async, Camera} /\ NULL \notin Renders
  BY ConstantsAssumption DEF Threads
<1>t. Types
  BY <1>a, Typed DEF IndInv
<1>1. /\ UNCHANGED ViewTypes /\ UNCHANGED <<started, told, mRenderHandler>>
      /\ UNCHANGED <<mIsActive, mThread, life, texture, mEncoder, op, handler, calls>>
      /\ pc[t] = "enter"
  BY <1>a DEF Enter, view, still, render, ViewTypes
<1>2. t # Camera
  BY <1>a, <1>1 DEF IndInv, Calls
<1>3. r \in Renders /\ (t = UI => mThread[r])
  BY <1>a, <1>0, <1>t, <1>1, <1>2 DEF IndInv, Calls, Handlers, Types, ViewTypes
<1>4. ViewTypes'
  BY <1>t, <1>1 DEF Types
<1>5. Handlers /\ Calls /\ Waits /\ Encoders
  BY <1>a DEF IndInv
<1>6. CASE mThread[r]
  <2>1. PICK m \in Surface : messages' = Sent(r, m) /\ pc' = [pc EXCEPT ![t] = "wait"]
    BY <1>a, <1>6 DEF Enter, Goto, Surface
  <2>2. m \in Kinds /\ m # "ENCODER" /\ m # "TERMINATE"
    BY <2>1 DEF Surface, Kinds
  <2>3. life[r] = "loop"
    BY <1>3, <1>5, <1>6 DEF Handlers
  <2>4. /\ messages' \in [Renders -> Seq(Kinds)]
        /\ \A s \in Renders : s # r => messages'[s] = messages[s]
        /\ \A s \in Renders : \A kinds :
             Has(messages'[s], kinds) <=> Has(messages[s], kinds) \/ (s = r /\ m \in kinds)
        /\ \A s \in Renders : \A e \in BOOLEAN :
             Cleared(messages[s], e) => Cleared(messages'[s], e)
    BY <1>3, <1>t, <2>1, <2>2, <2>3, Posting DEF Types
  <2>5. /\ \A s \in Threads : s # t => pc'[s] = pc[s]
        /\ pc'[t] = "wait"
    BY <1>t, <2>1 DEF Types, CallTypes
  <2>6. ThreadTypes'
    BY <1>t, <1>1, <2>3, <2>4 DEF Types, ThreadTypes
  <2>7. CallTypes'
    BY <1>t, <1>1, <2>1 DEF Types, CallTypes
  <2>8. Handlers'
    BY <1>1, <1>5, <2>2, <2>4 DEF Handlers
  <2>9. Calls'
    BY <1>0, <1>1, <1>2, <1>5, <2>5 DEF Calls
  <2>10. Waits'
    <3>1. \A s \in Renders : /\ Has(messages[s], Surface) => Has(messages'[s], Surface)
                             /\ Has(messages[s], Surface \cup {"TERMINATE"})
                                  => Has(messages'[s], Surface \cup {"TERMINATE"})
      BY <2>4
    <3>2. Has(messages'[r], Surface) /\ Has(messages'[r], Surface \cup {"TERMINATE"})
      BY <1>3, <2>1, <2>4
    <3>3. pc[UI] \in {"wait", "waiting"} => mRenderHandler \in Renders
      BY <1>5, <1>t DEF Calls, Types, ViewTypes
    <3>4. pc[Async] \in {"wait", "waiting"} => handler[Async] \in Renders
      BY <1>5 DEF Calls
    <3>5. t = UI => r = mRenderHandler
      BY <1>1, <1>5 DEF Calls
    <3> QED
      BY <1>0, <1>1, <1>2, <1>5, <2>5, <3>1, <3>2, <3>3, <3>4, <3>5 DEF Waits
  <2>11. Encoders'
    <3>1. pc'[Camera] = pc[Camera]
      BY <1>0, <1>2, <2>5
    <3>2. \A s \in Renders : Cleared(messages[s], mEncoder[s]) => Cleared(messages'[s], mEncoder'[s])
      BY <1>1, <1>t, <2>4 DEF Types, ThreadTypes
    <3> QED
      BY <1>1, <1>5, <3>1, <3>2 DEF Encoders
  <2> QED
    BY <1>4, <2>6, <2>7, <2>8, <2>9, <2>10, <2>11, Typed DEF IndInv, Types
<1>7. CASE ~mThread[r]
  <2>1. pc' = [pc EXCEPT ![t] = "crashed"] /\ messages' = messages
    BY <1>a, <1>7 DEF Enter, Goto
  <2>2. /\ t = Async
        /\ \A s \in Threads : s # t => pc'[s] = pc[s]
        /\ pc'[t] = "crashed"
    BY <1>0, <1>2, <1>3, <1>7, <1>t, <2>1 DEF Types, CallTypes
  <2>3. ThreadTypes' /\ CallTypes'
    BY <1>t, <1>1, <2>1 DEF Types, ThreadTypes, CallTypes
  <2>4. Handlers' /\ Calls' /\ Waits' /\ Encoders'
    BY <1>0, <1>1, <1>5, <2>1, <2>2 DEF Handlers, Calls, Waits, Encoders
  <2> QED
    BY <1>4, <2>3, <2>4, Typed DEF IndInv, Types
<1> QED
  BY <1>6, <1>7
LEMMA ReadKeeps == \A t \in Threads : IndInv /\ Read(t) => IndInv'
<1> TAKE t \in Threads
<1>a. HAVE IndInv /\ Read(t)
<1> USE DEF UI, Async, Camera
<1> DEFINE r == mRenderHandler
<1>0. /\ UI \in Threads /\ Async \in Threads /\ Camera \in Threads
      /\ t \in {UI, Async, Camera} /\ NULL \notin Renders
  BY ConstantsAssumption DEF Threads
<1>t. Types
  BY <1>a, Typed DEF IndInv
<1>1. /\ UNCHANGED ViewTypes /\ UNCHANGED <<started, told, mRenderHandler>>
      /\ UNCHANGED <<mIsActive, mThread, life, texture, mEncoder, op, calls>>
      /\ pc[t] = "read"
  BY <1>a DEF Read, Jump, view, still, render, ViewTypes
<1>2. Handlers /\ Calls /\ Waits /\ Encoders
  BY <1>a DEF IndInv
<1>3. ViewTypes' /\ told \in BOOLEAN /\ r \in Renders \cup {NULL}
  BY <1>t, <1>1 DEF Types, ViewTypes
<1>4. r # NULL => r \in Renders /\ mIsActive[r] /\ life[r] = "loop"
  BY <1>2, <1>3 DEF Handlers
<1>5. CASE mRenderHandler = NULL
  <2>1. UNCHANGED <<handler, messages>> /\ pc' = [pc EXCEPT ![t] = "crashed"]
    BY <1>a, <1>5 DEF Read, Jump, Goto
  <2>2. /\ t # UI
        /\ \A s \in Threads : s # t => pc'[s] = pc[s]
        /\ pc'[t] = "crashed"
    BY <1>1, <1>2, <1>5, <1>t, <2>1 DEF Calls, Types, CallTypes
  <2>3. ThreadTypes' /\ CallTypes'
    BY <1>t, <1>1, <2>1 DEF Types, ThreadTypes, CallTypes
  <2>4. Handlers' /\ Calls' /\ Waits' /\ Encoders'
    BY <1>0, <1>1, <1>2, <2>1, <2>2 DEF Handlers, Calls, Waits, Encoders
  <2> QED
    BY <1>3, <2>3, <2>4, Typed DEF IndInv, Types
<1>6. CASE mRenderHandler # NULL /\ op[t] = "getSurface"
  <2>1. /\ pc' = [pc EXCEPT ![t] = "enter"] /\ handler' = [handler EXCEPT ![t] = r]
        /\ messages' = messages
    BY <1>a, <1>4, <1>6 DEF Read, Jump, Goto
  <2>2. t # Camera
    BY <1>1, <1>2, <1>6 DEF Calls
  <2>3. /\ \A s \in Threads : s # t => pc'[s] = pc[s] /\ handler'[s] = handler[s]
        /\ pc'[t] = "enter" /\ handler'[t] = r
    BY <1>t, <2>1 DEF Types, CallTypes
  <2>4. ThreadTypes' /\ CallTypes'
    BY <1>t, <1>1, <1>3, <2>1 DEF Types, ThreadTypes, CallTypes
  <2>5. Handlers' /\ Encoders'
    BY <1>0, <1>1, <1>2, <2>1, <2>2, <2>3 DEF Handlers, Encoders
  <2>6. Calls'
    BY <1>0, <1>1, <1>2, <1>4, <1>6, <2>2, <2>3 DEF Calls
  <2>7. Waits'
    BY <1>0, <1>1, <1>2, <2>1, <2>3 DEF Waits
  <2> QED
    BY <1>3, <2>4, <2>5, <2>6, <2>7, Typed DEF IndInv, Types
<1>7. CASE mRenderHandler # NULL /\ op[t] # "getSurface"
  <2>1. t = Camera
    BY <1>0, <1>1, <1>2, <1>7 DEF Calls
  <2>2. op[t] = IF told THEN "ENCODER" ELSE "NO ENCODER"
    BY <1>1, <1>2, <2>1 DEF Calls
  <2>3. PICK m \in Kinds : /\ m = IF told THEN "ENCODER" ELSE "NO ENCODER"
                           /\ messages' = Sent(r, m)
    BY <1>a, <1>4, <1>7, <2>2 DEF Read, Passed, Kinds
  <2>4. pc' = [pc EXCEPT ![t] = "idle"] /\ handler' = handler
    BY <1>a, <1>4, <1>7 DEF Read, Jump, Goto
  <2>5. /\ messages' \in [Renders -> Seq(Kinds)]
        /\ \A s \in Renders : s # r => messages'[s] = messages[s]
        /\ \A s \in Renders : \A kinds :
             Has(messages'[s], kinds) <=> Has(messages[s], kinds) \/ (s = r /\ m \in kinds)
        /\ m \in Enders => \A e \in BOOLEAN : Cleared(messages'[r], e)
    BY <1>4, <1>7, <1>t, <2>3, Posting DEF Types
  <2>6. /\ \A s \in Threads : s # t => pc'[s] = pc[s]
        /\ pc'[t] = "idle"
    BY <1>t, <2>4 DEF Types, CallTypes
  <2>7. ThreadTypes' /\ CallTypes'
    BY <1>t, <1>1, <1>4, <1>7, <2>4, <2>5 DEF Types, ThreadTypes, CallTypes
  <2>8. Handlers'
    BY <1>1, <1>2, <2>3, <2>5 DEF Handlers
  <2>9. Calls'
    BY <1>0, <1>1, <1>2, <2>1, <2>4, <2>6 DEF Calls
  <2>10. Waits'
    <3>1. \A s \in Renders : /\ Has(messages[s], Surface) => Has(messages'[s], Surface)
                             /\ Has(messages[s], Surface \cup {"TERMINATE"})
                                  => Has(messages'[s], Surface \cup {"TERMINATE"})
      BY <2>5
    <3>2. pc[Async] \in {"wait", "waiting"} => handler[Async] \in Renders
      BY <1>2 DEF Calls
    <3> QED
      BY <1>0, <1>1, <1>2, <1>4, <1>7, <2>1, <2>4, <2>6, <3>1, <3>2 DEF Waits
  <2>11. Encoders'
    <3>1. ASSUME NEW s \in Renders, life[s] = "loop",
                 ~mIsActive[s] \/ ~told
          PROVE  Cleared(messages'[s], mEncoder'[s])
      <4>1. mEncoder'[s] = mEncoder[s] /\ mEncoder[s] \in BOOLEAN
        BY <1>1, <1>t DEF Types, ThreadTypes
      <4>2. CASE s = r
        <5>1. m \in Enders
          BY <1>4, <1>7, <2>3, <3>1, <4>2 DEF Enders
        <5> QED
          BY <2>5, <4>1, <4>2, <5>1
      <4>3. CASE s # r
        <5>1. ~mIsActive[s]
          BY <1>2, <4>3 DEF Handlers
        <5> QED
          BY <1>2, <2>5, <3>1, <4>1, <4>3, <5>1 DEF Encoders
      <4> QED
        BY <4>2, <4>3
    <3> QED
      BY <1>1, <1>2, <3>1 DEF Encoders
  <2> QED
    BY <1>3, <2>7, <2>8, <2>9, <2>10, <2>11, Typed DEF IndInv, Types
<1> QED
  BY <1>5, <1>6, <1>7
LEMMA CallerKeeps == \A t \in Threads : IndInv /\ CallerStep(t) => IndInv'
BY LookKeeps, ReadKeeps, EnterKeeps, WaitKeeps, ReturnKeeps DEF CallerStep
-----------------------------------------------------------------------------
(* The view's life.  The UI thread is between its calls. *)

\* A new render thread, when the view has none.
LEMMA CreateKeeps ==
    IndInv /\ ((onResume /\ mHasSurface) \/ (onSurfaceTextureAvailable /\ mRenderHandler = NULL))
        => IndInv'
<1>a. HAVE IndInv /\ ((onResume /\ mHasSurface)
                        \/ (onSurfaceTextureAvailable /\ mRenderHandler = NULL))
<1> USE DEF UI, Async, Camera
<1>0. /\ UI \in Threads /\ Async \in Threads /\ Camera \in Threads /\ NULL \notin Renders
      /\ MaxCalls \in [Threads -> Nat]
  BY ConstantsAssumption DEF Threads
<1>t. Types
  BY <1>a, Typed DEF IndInv
<1>i. Handlers /\ Calls /\ Waits /\ Encoders
  BY <1>a DEF IndInv
<1>1. /\ UNCHANGED <<messages, texture, mEncoder, told, pc, op, handler>>
      /\ UNCHANGED <<mPreviewSurface, mTempBitmap, mReqesutCaptureStillImage, drawn>>
      /\ started' = TRUE /\ mHasSurface' \in BOOLEAN
      /\ pc[UI] = "idle" /\ calls' = [calls EXCEPT ![UI] = @ + 1]
      /\ createHandler
  BY <1>a, <1>t DEF onResume, onSurfaceTextureAvailable, Begin, still, caller, Types, ViewTypes
<1>2. mRenderHandler = NULL
  BY <1>a, <1>i DEF onResume, Handlers
<1>3. PICK r \in Renders :
        /\ life[r] = "none"
        /\ life' = [life EXCEPT ![r] = "loop"]
        /\ mThread' = [mThread EXCEPT ![r] = TRUE]
        /\ mIsActive' = [mIsActive EXCEPT ![r] = TRUE]
        /\ mRenderHandler' = r
  BY <1>1 DEF createHandler
<1>4. ViewTypes'
  BY <1>t, <1>1, <1>3 DEF Types, ViewTypes
<1>5. ThreadTypes'
  BY <1>t, <1>1, <1>3 DEF Types, ThreadTypes
<1>6. CallTypes'
  <2>1. calls \in [Threads -> Nat]
    BY <1>t DEF Types, CallTypes
  <2>2. calls' \in [Threads -> Nat]
    BY <1>0, <1>1, <2>1
  <2> QED
    BY <1>t, <1>1, <2>2 DEF Types, CallTypes
<1>7. /\ life'[r] = "loop" /\ mThread'[r] = TRUE /\ mIsActive'[r] = TRUE
      /\ messages[r] = <<>> /\ ~mEncoder[r]
      /\ \A s \in Renders : s # r =>
           life'[s] = life[s] /\ mThread'[s] = mThread[s] /\ mIsActive'[s] = mIsActive[s]
  BY <1>t, <1>i, <1>3 DEF Types, ThreadTypes, Encoders
<1>8. ~Has(<<>>, {"TERMINATE"}) /\ Cleared(<<>>, FALSE)
  BY DEF Has, Cleared
<1>9. Handlers'
  <2>1. ASSUME NEW s \in Renders
        PROVE  /\ mIsActive'[s] <=> r = s
               /\ mThread'[s] <=> life'[s] = "loop"
               /\ life'[s] = "loop" => (Has(messages[s], {"TERMINATE"}) <=> ~mIsActive'[s])
    <3>1. CASE s = r
      BY <1>7, <1>8, <3>1
    <3>2. CASE s # r
      BY <1>0, <1>2, <1>7, <1>i, <3>2 DEF Handlers
    <3> QED
      BY <3>1, <3>2
  <2> QED
    BY <1>1, <1>3, <1>7, <2>1 DEF Handlers
<1>10. Calls'
  <2>1. \A s \in Renders : life[s] # "none" => life'[s] # "none"
    BY <1>7
  <2> QED
    BY <1>1, <1>i, <2>1 DEF Calls
<1>11. Waits'
  BY <1>1, <1>3, <1>7, <1>i DEF Waits, Calls
<1>12. Encoders'
  <2>1. ASSUME NEW s \in Renders
        PROVE  /\ life'[s] \in {"none", "ended"} => ~mEncoder[s]
               /\ /\ life'[s] = "loop"
                  /\ \/ ~mIsActive'[s]
                     \/ ~told /\ pc[Camera] \notin {"look", "read", "crashed"}
                  => Cleared(messages[s], mEncoder[s])
    <3>1. CASE s = r
      <4>1. mEncoder[s] = FALSE
        BY <1>7, <1>t, <3>1 DEF Types, ThreadTypes
      <4> QED
        BY <1>7, <1>8, <3>1, <4>1
    <3>2. CASE s # r
      BY <1>7, <1>i, <3>2 DEF Encoders
    <3> QED
      BY <3>1, <3>2
  <2> QED
    BY <1>1, <2>1 DEF Encoders
<1> QED
  BY <1>4, <1>5, <1>6, <1>9, <1>10, <1>11, <1>12, Typed DEF IndInv, Types
\* The thread goes on into resize.
LEMMA ResizeKeeps ==
    IndInv /\ (onSurfaceTextureSizeChanged
                 \/ (onSurfaceTextureAvailable /\ mRenderHandler # NULL)) => IndInv'
<1>a. HAVE IndInv /\ (onSurfaceTextureSizeChanged
                        \/ (onSurfaceTextureAvailable /\ mRenderHandler # NULL))
<1> USE DEF UI, Async, Camera
<1>0. /\ UI \in Threads /\ Async \in Threads /\ Camera \in Threads
      /\ MaxCalls \in [Threads -> Nat]
  BY ConstantsAssumption DEF Threads
<1>t. Types
  BY <1>a, Typed DEF IndInv
<1>i. Handlers /\ Calls /\ Waits /\ Encoders
  BY <1>a DEF IndInv
<1>1. /\ UNCHANGED <<messages, mIsActive, mThread, life, texture, mEncoder, told, mRenderHandler>>
      /\ UNCHANGED <<started, mPreviewSurface, mTempBitmap, mReqesutCaptureStillImage, drawn>>
      /\ mHasSurface' \in BOOLEAN
      /\ pc[UI] = "idle" /\ calls' = [calls EXCEPT ![UI] = @ + 1]
      /\ mRenderHandler # NULL
      /\ pc' = [pc EXCEPT ![UI] = "enter"] /\ op' = [op EXCEPT ![UI] = "resize"]
      /\ handler' = [handler EXCEPT ![UI] = mRenderHandler]
  BY <1>a, <1>t DEF onSurfaceTextureSizeChanged, onSurfaceTextureAvailable, resize, Begin, Goto,
     view, still, render, Types, ViewTypes
<1>2. ViewTypes' /\ ThreadTypes'
  BY <1>t, <1>1 DEF Types, ViewTypes, ThreadTypes
<1>3. CallTypes'
  <2>1. calls' \in [Threads -> Nat]
    <3>1. calls \in [Threads -> Nat]
      BY <1>t DEF Types, CallTypes
    <3> QED
      BY <1>0, <1>1, <3>1
  <2>2. mRenderHandler \in Renders \cup {NULL}
    BY <1>t DEF Types, ViewTypes
  <2> QED
    BY <1>t, <1>1, <2>1, <2>2 DEF Types, CallTypes
<1>4. /\ \A t \in {Async, Camera} : pc'[t] = pc[t] /\ op'[t] = op[t] /\ handler'[t] = handler[t]
      /\ pc'[UI] = "enter" /\ handler'[UI] = mRenderHandler
  BY <1>0, <1>t, <1>1 DEF Types, CallTypes
<1>5. Handlers'
  BY <1>1, <1>i DEF Handlers
<1>6. Calls'
  BY <1>1, <1>4, <1>i DEF Calls
<1>7. Waits'
  BY <1>1, <1>4, <1>i DEF Waits
<1>8. Encoders'
  BY <1>1, <1>4, <1>i DEF Encoders
<1> QED
  BY <1>2, <1>3, <1>5, <1>6, <1>7, <1>8, Typed DEF IndInv, Types

\* A call that concerns no render thread, and the end of a drawing.
LEMMA ViewKeeps ==
    IndInv /\ ((onResume /\ ~mHasSurface) \/ (onPause /\ mRenderHandler = NULL)
                 \/ (onSurfaceTextureDestroyed /\ mRenderHandler = NULL)
                 \/ onSurfaceTextureUpdated) => IndInv'
<1>a. HAVE IndInv /\ ((onResume /\ ~mHasSurface) \/ (onPause /\ mRenderHandler = NULL)
                        \/ (onSurfaceTextureDestroyed /\ mRenderHandler = NULL)
                        \/ onSurfaceTextureUpdated)
<1> USE DEF UI, Async, Camera
<1>0. /\ UI \in Threads /\ Async \in Threads /\ Camera \in Threads
      /\ MaxCalls \in [Threads -> Nat]
  BY ConstantsAssumption DEF Threads
<1>t. Types
  BY <1>a, Typed DEF IndInv
<1>i. Handlers /\ Calls /\ Waits /\ Encoders
  BY <1>a DEF IndInv
<1>1. /\ UNCHANGED <<messages, mIsActive, mThread, life, texture, mEncoder, told, mRenderHandler>>
      /\ UNCHANGED <<op, handler>>
      /\ pc' = pc \/ (pc[Camera] = "capturing" /\ pc' = [pc EXCEPT ![Camera] = "idle"])
      /\ calls' = [calls EXCEPT ![UI] = @ + 1] \/ calls' = calls
      /\ mRenderHandler # NULL => started' = started
  BY <1>a, <1>i DEF onResume, onPause, onSurfaceTextureDestroyed, onSurfaceTextureUpdated, Drop,
     Begin, Goto, view, still, render, caller, Handlers
<1>2. ViewTypes'
  <2>1. mReqesutCaptureStillImage' \in BOOLEAN /\ mTempBitmap' \in BOOLEAN /\ drawn' \in BOOLEAN
    BY <1>a, <1>t DEF onResume, onPause, onSurfaceTextureDestroyed, onSurfaceTextureUpdated, still,
       Types, ViewTypes
  <2>2. started' \in BOOLEAN /\ mHasSurface' \in BOOLEAN /\ mPreviewSurface' \in BOOLEAN
    BY <1>a, <1>t DEF onResume, onPause, onSurfaceTextureDestroyed, onSurfaceTextureUpdated, view,
       Types, ViewTypes
  <2> QED
    BY <1>t, <1>1, <2>1, <2>2 DEF Types, ViewTypes
<1>3. ThreadTypes'
  BY <1>t, <1>1 DEF Types, ThreadTypes
<1>4. CallTypes'
  <2>1. calls' \in [Threads -> Nat]
    <3>1. calls \in [Threads -> Nat]
      BY <1>t DEF Types, CallTypes
    <3> QED
      BY <1>0, <1>1, <3>1
  <2>2. pc' \in [Threads -> {"idle", "look", "read", "enter", "wait", "waiting", "woken",
                             "capturing", "crashed"}]
    BY <1>t, <1>1 DEF Types, CallTypes
  <2> QED
    BY <1>t, <1>1, <2>1, <2>2 DEF Types, CallTypes
<1>5. /\ \A t \in {UI, Async} : pc'[t] = pc[t]
      /\ pc'[Camera] = pc[Camera] \/ (pc[Camera] = "capturing" /\ pc'[Camera] = "idle")
  BY <1>0, <1>t, <1>1 DEF Types, CallTypes
<1>6. Handlers'
  <2>1. mRenderHandler # NULL => started'
    BY <1>1, <1>i DEF Handlers
  <2> QED
    BY <1>1, <1>i, <2>1 DEF Handlers
<1>7. Calls'
  BY <1>1, <1>5, <1>i DEF Calls
<1>8. Waits'
  BY <1>1, <1>5, <1>i DEF Waits
<1>9. Encoders'
  BY <1>1, <1>5, <1>i DEF Encoders
<1> QED
  BY <1>2, <1>3, <1>4, <1>6, <1>7, <1>8, <1>9, Typed DEF IndInv, Types

\* The view gives up its render thread.
LEMMA DropKeeps ==
    IndInv /\ mRenderHandler # NULL /\ (onPause \/ onSurfaceTextureDestroyed) => IndInv'
<1>a. HAVE IndInv /\ mRenderHandler # NULL /\ (onPause \/ onSurfaceTextureDestroyed)
<1> USE DEF UI, Async, Camera
<1> DEFINE r == mRenderHandler
<1>0. /\ UI \in Threads /\ Async \in Threads /\ Camera \in Threads /\ NULL \notin Renders
      /\ MaxCalls \in [Threads -> Nat]
  BY ConstantsAssumption DEF Threads
<1>t. Types
  BY <1>a, Typed DEF IndInv
<1>i. Handlers /\ Calls /\ Waits /\ Encoders
  BY <1>a DEF IndInv
<1>1. /\ UNCHANGED <<mThread, life, texture, mEncoder, told, mReqesutCaptureStillImage>>
      /\ UNCHANGED <<pc, op, handler>>
      /\ pc[UI] = "idle" /\ calls' = [calls EXCEPT ![UI] = @ + 1]
      /\ mRenderHandler' = NULL
      /\ mIsActive' = [mIsActive EXCEPT ![r] = FALSE]
      /\ messages' = Removed(r)
  BY <1>a DEF onPause, onSurfaceTextureDestroyed, Drop, Releases, Begin, view, still, render, caller
<1>2. ViewTypes'
  <2>1. mTempBitmap' \in BOOLEAN /\ drawn' \in BOOLEAN
    BY <1>a, <1>t DEF onPause, onSurfaceTextureDestroyed, Types, ViewTypes
  <2>2. started' \in BOOLEAN /\ mHasSurface' \in BOOLEAN /\ mPreviewSurface' \in BOOLEAN
    BY <1>a, <1>t DEF onPause, onSurfaceTextureDestroyed, Types, ViewTypes
  <2> QED
    BY <1>t, <1>1, <2>1, <2>2 DEF Types, ViewTypes
<1>3. r \in Renders /\ life[r] = "loop"
  BY <1>a, <1>t, <1>i DEF Handlers, Types, ViewTypes
<1>4. messages \in [Renders -> Seq(Kinds)] /\ messages[r] \in Seq(Kinds)
  BY <1>t, <1>3 DEF Types, ThreadTypes
<1>5. PICK s \in Seq(Kinds) : /\ messages' = [messages EXCEPT ![r] = s]
                              /\ Has(s, {"TERMINATE"})
                              /\ Has(messages[r], Surface) => Has(s, Surface)
                              /\ \A e \in BOOLEAN : Cleared(s, e)
  BY <1>1, <1>4, Releasing DEF Removed
<1>6. /\ \A q \in Renders : q # r => messages'[q] = messages[q] /\ mIsActive'[q] = mIsActive[q]
      /\ messages'[r] = s /\ mIsActive'[r] = FALSE
  BY <1>1, <1>3, <1>4, <1>5, <1>t DEF Types, ThreadTypes
<1>7. ThreadTypes'
  BY <1>1, <1>3, <1>4, <1>5, <1>t DEF Types, ThreadTypes
<1>8. CallTypes'
  <2>1. calls' \in [Threads -> Nat]
    <3>1. calls \in [Threads -> Nat]
      BY <1>t DEF Types, CallTypes
    <3> QED
      BY <1>0, <1>1, <3>1
  <2> QED
    BY <1>t, <1>1, <2>1 DEF Types, CallTypes
<1>9. Handlers'
  <2>1. ASSUME NEW q \in Renders
        PROVE  /\ ~mIsActive'[q]
               /\ mThread[q] <=> life[q] = "loop"
               /\ life[q] = "loop" => Has(messages'[q], {"TERMINATE"})
    <3>1. CASE q = r
      BY <1>5, <1>6, <1>i, <3>1 DEF Handlers
    <3>2. CASE q # r
      BY <1>6, <1>i, <3>2 DEF Handlers
    <3> QED
      BY <3>1, <3>2
  <2> QED
    BY <1>0, <1>1, <2>1 DEF Handlers
<1>10. Calls'
  BY <1>1, <1>i DEF Calls
<1>11. Waits'
  <2>1. Has(s, Surface \cup {"TERMINATE"})
    BY <1>5 DEF Has
  <2>2. pc[Async] \in {"wait", "waiting"} => handler[Async] \in Renders
    BY <1>i DEF Calls
  <2> QED
    BY <1>1, <1>6, <1>i, <2>1, <2>2 DEF Waits
<1>12. Encoders'
  <2>1. ASSUME NEW q \in Renders,
               life[q] = "loop",
               ~mIsActive'[q] \/ (~told /\ pc[Camera] \notin {"look", "read", "crashed"})
        PROVE  Cleared(messages'[q], mEncoder[q])
    <3>1. CASE q = r
      BY <1>5, <1>6, <1>t, <3>1 DEF Types, ThreadTypes
    <3>2. CASE q # r
      BY <1>6, <1>i, <2>1, <3>2 DEF Encoders
    <3> QED
      BY <3>1, <3>2
  <2> QED
    BY <1>1, <1>i, <2>1 DEF Encoders
<1> QED
  BY <1>2, <1>7, <1>8, <1>9, <1>10, <1>11, <1>12, Typed DEF IndInv, Types
-----------------------------------------------------------------------------
(* The render threads. *)

LEMMA FrameKeeps == \A r \in Renders : IndInv /\ onFrameAvailable(r) => IndInv'
<1> TAKE r \in Renders
<1>a. HAVE IndInv /\ onFrameAvailable(r)
<1>t. Types
  BY <1>a, Typed DEF IndInv
<1>i. Handlers /\ Calls /\ Waits /\ Encoders
  BY <1>a DEF IndInv
<1>1. /\ UNCHANGED <<started, mHasSurface, mRenderHandler, mPreviewSurface, mTempBitmap>>
      /\ UNCHANGED <<mReqesutCaptureStillImage, drawn, told, pc, op, handler, calls>>
      /\ UNCHANGED <<mIsActive, life, texture, mEncoder, mThread>>
      /\ mIsActive[r] /\ messages' = Sent(r, "RENDER")
  BY <1>a DEF onFrameAvailable, view, still, render, caller
<1>2. life[r] = "loop"
  BY <1>1, <1>i, ConstantsAssumption DEF Handlers
<1>3. /\ messages' \in [Renders -> Seq(Kinds)]
      /\ \A s \in Renders : s # r => messages'[s] = messages[s]
      /\ \A s \in Renders : \A kinds :
           Has(messages'[s], kinds) <=> Has(messages[s], kinds) \/ (s = r /\ "RENDER" \in kinds)
      /\ \A s \in Renders : \A e \in BOOLEAN :
           Cleared(messages[s], e) => Cleared(messages'[s], e)
  <2>1. "RENDER" \in Kinds
    BY DEF Kinds
  <2> QED
    BY <1>1, <1>2, <1>t, <2>1, Posting DEF Types
<1>4. ViewTypes' /\ ThreadTypes' /\ CallTypes'
  BY <1>1, <1>2, <1>3, <1>t DEF Types, ViewTypes, ThreadTypes, CallTypes
<1>5. Handlers'
  BY <1>1, <1>3, <1>i DEF Handlers
<1>6. Calls'
  BY <1>1, <1>i DEF Calls
<1>7. Waits'
  <2>1. pc[UI] \in {"wait", "waiting"} => mRenderHandler \in Renders
    BY <1>i, <1>t DEF Calls, Types, ViewTypes
  <2>2. pc[Async] \in {"wait", "waiting"} => handler[Async] \in Renders
    BY <1>i DEF Calls
  <2> QED
    BY <1>1, <1>3, <1>i, <2>1, <2>2 DEF Waits
<1>8. Encoders'
  <2>1. \A s \in Renders : Cleared(messages[s], mEncoder[s]) => Cleared(messages'[s], mEncoder'[s])
    BY <1>1, <1>3, <1>t DEF Types, ThreadTypes
  <2> QED
    BY <1>1, <1>i, <2>1 DEF Encoders
<1> QED
  BY <1>4, <1>5, <1>6, <1>7, <1>8, Typed DEF IndInv, Types

\* The first message of a thread that loops is taken out.
LEMMA Handling ==
    \A r \in Renders : \A kinds :
        ThreadTypes /\ Take(r, kinds) =>
            /\ life[r] = "loop"
            /\ messages' \in [Renders -> Seq(Kinds)]
            /\ \A s \in Renders : s # r => messages'[s] = messages[s]
            /\ \E m \in Kinds \cap kinds :
                 /\ m = Head(messages[r])
                 /\ \A some :
                      Has(messages[r], some) <=> Has(messages'[r], some) \/ m \in some
                 /\ \A e \in BOOLEAN : m \notin Enders /\ Cleared(messages[r], e) =>
                      Cleared(messages'[r], e \/ m = "ENCODER")
                 /\ \A e \in BOOLEAN : Cleared(messages[r], e) => Cleared(messages'[r], FALSE)
<1> TAKE r \in Renders
<1> TAKE kinds
<1>a. HAVE ThreadTypes /\ Take(r, kinds)
<1>1. /\ messages \in [Renders -> Seq(Kinds)] /\ life[r] = "loop"
      /\ messages[r] # <<>> /\ Head(messages[r]) \in kinds
      /\ messages' = [messages EXCEPT ![r] = Tail(@)]
  BY <1>a DEF ThreadTypes, Take
<1>2. messages[r] \in Seq(Kinds)
  BY <1>1
<1>3. /\ Tail(messages[r]) \in Seq(Kinds) /\ Head(messages[r]) \in Kinds
      /\ \A some :
           Has(messages[r], some) <=> Has(Tail(messages[r]), some) \/ Head(messages[r]) \in some
      /\ \A e \in BOOLEAN : Head(messages[r]) \notin Enders /\ Cleared(messages[r], e) =>
           Cleared(Tail(messages[r]), e \/ Head(messages[r]) = "ENCODER")
      /\ \A e \in BOOLEAN : Cleared(messages[r], e) => Cleared(Tail(messages[r]), FALSE)
  BY <1>1, <1>2, Taking
<1>4. /\ \A s \in Renders : s # r => messages'[s] = messages[s]
      /\ messages'[r] = Tail(messages[r])
  BY <1>1
<1>5. messages' \in [Renders -> Seq(Kinds)]
  BY <1>1, <1>3
<1> QED
  BY <1>1, <1>3, <1>4, <1>5

\* A drawing, or an encoder that is set or let go.
LEMMA DrawKeeps == \A r \in Renders : IndInv /\ (onDrawFrame(r) \/ setEncoder(r)) => IndInv'
<1> TAKE r \in Renders
<1>a. HAVE IndInv /\ (onDrawFrame(r) \/ setEncoder(r))
<1>t. Types
  BY <1>a, Typed DEF IndInv
<1>i. Handlers /\ Calls /\ Waits /\ Encoders
  BY <1>a DEF IndInv
<1> DEFINE kinds == {"RENDER", "ENCODER", "NO ENCODER"}
<1>1. /\ UNCHANGED <<started, mHasSurface, mRenderHandler, mPreviewSurface, mTempBitmap>>
      /\ UNCHANGED <<mReqesutCaptureStillImage, told, pc, op, handler, calls>>
      /\ UNCHANGED <<mIsActive, life, texture, mThread>>
      /\ drawn' \in BOOLEAN
      /\ Take(r, kinds)
  BY <1>a, <1>t DEF onDrawFrame, setEncoder, Take, view, still, render, caller, Types, ViewTypes
<1>2. PICK m \in Kinds \cap kinds :
        /\ life[r] = "loop"
        /\ messages' \in [Renders -> Seq(Kinds)]
        /\ \A s \in Renders : s # r => messages'[s] = messages[s]
        /\ m = Head(messages[r])
        /\ \A some : Has(messages[r], some) <=> Has(messages'[r], some) \/ m \in some
        /\ \A e \in BOOLEAN : m \notin Enders /\ Cleared(messages[r], e) =>
             Cleared(messages'[r], e \/ m = "ENCODER")
        /\ \A e \in BOOLEAN : Cleared(messages[r], e) => Cleared(messages'[r], FALSE)
  <2> HIDE DEF kinds
  <2> QED
    BY <1>1, <1>t, Handling DEF Types
<1>3. mEncoder' = IF m = "RENDER" THEN mEncoder ELSE [mEncoder EXCEPT ![r] = m = "ENCODER"]
  BY <1>a, <1>2 DEF onDrawFrame, setEncoder, Take, render
<1>4. /\ mEncoder \in [Renders -> BOOLEAN] /\ mEncoder' \in [Renders -> BOOLEAN]
      /\ \A s \in Renders : s # r => mEncoder'[s] = mEncoder[s]
      /\ m = "RENDER" => mEncoder'[r] = mEncoder[r]
      /\ m = "ENCODER" => mEncoder'[r] = TRUE
      /\ m = "NO ENCODER" => mEncoder'[r] = FALSE
  BY <1>3, <1>t DEF Types, ThreadTypes
<1>5. ViewTypes' /\ ThreadTypes' /\ CallTypes'
  BY <1>1, <1>2, <1>4, <1>t DEF Types, ViewTypes, ThreadTypes, CallTypes
<1>6. /\ \A s \in Renders : Has(messages'[s], {"TERMINATE"}) <=> Has(messages[s], {"TERMINATE"})
      /\ \A s \in Renders : Has(messages'[s], Surface) <=> Has(messages[s], Surface)
      /\ \A s \in Renders : Has(messages'[s], Surface \cup {"TERMINATE"})
                              <=> Has(messages[s], Surface \cup {"TERMINATE"})
  <2>1. m \notin {"TERMINATE"} /\ m \notin Surface /\ m \notin Surface \cup {"TERMINATE"}
    BY <1>2 DEF Surface
  <2> QED
    BY <1>2, <2>1
<1>7. Handlers'
  BY <1>1, <1>6, <1>i DEF Handlers
<1>8. Calls'
  BY <1>1, <1>i DEF Calls
<1>9. Waits'
  <2>1. pc[UI] \in {"wait", "waiting"} => mRenderHandler \in Renders
    BY <1>i, <1>t DEF Calls, Types, ViewTypes
  <2>2. pc[Async] \in {"wait", "waiting"} => handler[Async] \in Renders
    BY <1>i DEF Calls
  <2> QED
    BY <1>1, <1>6, <1>i, <2>1, <2>2 DEF Waits
<1>10. Encoders'
  <2>1. ASSUME NEW s \in Renders, Cleared(messages[s], mEncoder[s])
        PROVE  Cleared(messages'[s], mEncoder'[s])
    <3>1. CASE s # r
      BY <1>2, <1>4, <2>1, <3>1
    <3>2. CASE s = r /\ m = "NO ENCODER"
      BY <1>2, <1>4, <2>1, <3>2
    <3>3. CASE s = r /\ m # "NO ENCODER"
      <4>1. m \notin Enders /\ mEncoder[r] \in BOOLEAN
        BY <1>2, <1>4, <3>3 DEF Enders
      <4>2. Cleared(messages'[r], mEncoder[r] \/ m = "ENCODER")
        BY <1>2, <2>1, <3>3, <4>1
      <4>3. mEncoder'[r] = (mEncoder[r] \/ m = "ENCODER")
        BY <1>2, <1>4, <3>3
      <4> QED
        BY <3>3, <4>2, <4>3
    <3> QED
      BY <3>1, <3>2, <3>3
  <2>2. \A s \in Renders : s # r => mEncoder'[s] = mEncoder[s]
    BY <1>4
  <2> QED
    BY <1>1, <1>2, <1>i, <2>1, <2>2 DEF Encoders
<1> QED
  BY <1>5, <1>7, <1>8, <1>9, <1>10, Typed DEF IndInv, Types
\* The surface is made or resized, which wakes all who wait for the thread.
LEMMA UpdateKeeps == \A r \in Renders : IndInv /\ updatePreviewSurface(r) => IndInv'
<1> TAKE r \in Renders
<1>a. HAVE IndInv /\ updatePreviewSurface(r)
<1> USE DEF UI, Async, Camera
<1>0. UI \in Threads /\ Async \in Threads /\ Camera \in Threads
  BY DEF Threads
<1>t. Types
  BY <1>a, Typed DEF IndInv
<1>i. Handlers /\ Calls /\ Waits /\ Encoders
  BY <1>a DEF IndInv
<1>1. /\ UNCHANGED <<started, mHasSurface, mRenderHandler, mPreviewSurface, mTempBitmap>>
      /\ UNCHANGED <<mReqesutCaptureStillImage, drawn, told, op, handler, calls>>
      /\ UNCHANGED <<mIsActive, life, mEncoder, mThread>>
      /\ \A t \in Threads : ~(pc[t] = "wait" /\ handler[t] = r)
      /\ pc' = [t \in Threads |-> IF pc[t] = "waiting" /\ handler[t] = r THEN "woken" ELSE pc[t]]
      /\ Take(r, Surface)
      /\ texture' = [texture EXCEPT ![r] = @ \/ Head(messages[r]) # "SAME SIZE"]
  <2>1. Wake({t \in Threads : pc[t] = "waiting" /\ handler[t] = r})
    BY <1>a DEF updatePreviewSurface, Notified
  <2>2. pc' = [t \in Threads |-> IF pc[t] = "waiting" /\ handler[t] = r THEN "woken" ELSE pc[t]]
    BY <2>1 DEF Wake
  <2> QED
    BY <1>a, <2>2 DEF updatePreviewSurface, Locked, Surface, view, still
<1>2. PICK m \in Kinds \cap Surface :
        /\ life[r] = "loop"
        /\ messages' \in [Renders -> Seq(Kinds)]
        /\ \A s \in Renders : s # r => messages'[s] = messages[s]
        /\ \A some : Has(messages[r], some) <=> Has(messages'[r], some) \/ m \in some
        /\ \A e \in BOOLEAN : m \notin Enders /\ Cleared(messages[r], e) =>
             Cleared(messages'[r], e \/ m = "ENCODER")
  BY <1>1, <1>t, Handling DEF Types
<1>3. texture' \in [Renders -> BOOLEAN]
  BY <1>1, <1>t DEF Types, ThreadTypes
<1>4. pc' \in [Threads -> {"idle", "look", "read", "enter", "wait", "waiting", "woken",
                           "capturing", "crashed"}]
  BY <1>1, <1>t DEF Types, CallTypes
<1>5. ViewTypes' /\ ThreadTypes' /\ CallTypes'
  BY <1>1, <1>2, <1>3, <1>4, <1>t DEF Types, ViewTypes, ThreadTypes, CallTypes
<1>6. /\ pc'[UI] = pc[UI] \/ (pc[UI] = "waiting" /\ pc'[UI] = "woken")
      /\ pc'[Async] = pc[Async] \/ (pc[Async] = "waiting" /\ pc'[Async] = "woken")
      /\ pc[Camera] # "waiting" => pc'[Camera] = pc[Camera]
      /\ \A t \in {UI, Async} : pc'[t] \in {"wait", "waiting"} =>
           pc[t] \in {"wait", "waiting"} /\ handler[t] # r
  BY <1>0, <1>1
<1>7. /\ m \notin {"TERMINATE"} /\ m # "ENCODER" /\ m \notin Enders
  BY <1>2 DEF Surface, Enders
<1>8. Handlers'
  <2>1. \A s \in Renders : Has(messages'[s], {"TERMINATE"}) <=> Has(messages[s], {"TERMINATE"})
    BY <1>2, <1>7
  <2> QED
    BY <1>1, <1>i, <2>1 DEF Handlers
<1>9. Calls'
  BY <1>1, <1>6, <1>i DEF Calls
<1>10. Waits'
  <2>1. pc[UI] \in {"wait", "waiting"} =>
          mRenderHandler \in Renders /\ handler[UI] = mRenderHandler
    BY <1>i, <1>t DEF Calls, Types, ViewTypes
  <2>2. pc[Async] \in {"wait", "waiting"} => handler[Async] \in Renders
    BY <1>i DEF Calls
  <2> QED
    BY <1>1, <1>2, <1>6, <1>i, <2>1, <2>2 DEF Waits
<1>11. Encoders'
  <2>1. ASSUME NEW s \in Renders, Cleared(messages[s], mEncoder[s])
        PROVE  Cleared(messages'[s], mEncoder[s])
    <3>1. mEncoder[s] \in BOOLEAN /\ (mEncoder[s] \/ m = "ENCODER") = mEncoder[s]
      BY <1>7, <1>t DEF Types, ThreadTypes
    <3>2. CASE s # r
      BY <1>2, <2>1, <3>2
    <3>3. CASE s = r
      <4>1. Cleared(messages'[s], mEncoder[s] \/ m = "ENCODER")
        BY <1>2, <1>7, <2>1, <3>1, <3>3
      <4> QED
        BY <3>1, <4>1
    <3> QED
      BY <3>2, <3>3
  <2>2. pc'[Camera] = pc[Camera]
    BY <1>6, <1>i DEF Calls
  <2> QED
    BY <1>1, <1>i, <2>1, <2>2 DEF Encoders
<1> QED
  BY <1>5, <1>8, <1>9, <1>10, <1>11, Typed DEF IndInv, Types

\* The thread ends.  Only one that the view has given up is told to.
LEMMA EndKeeps == \A r \in Renders : IndInv /\ (Terminate(r) \/ Finish(r)) => IndInv'
<1> TAKE r \in Renders
<1>a. HAVE IndInv /\ (Terminate(r) \/ Finish(r))
<1> USE DEF UI, Async, Camera
<1>0. UI \in Threads /\ Async \in Threads /\ Camera \in Threads
  BY DEF Threads
<1>t. Types
  BY <1>a, Typed DEF IndInv
<1>i. Handlers /\ Calls /\ Waits /\ Encoders
  BY <1>a DEF IndInv
<1>1. /\ UNCHANGED <<started, mHasSurface, mRenderHandler, mPreviewSurface, mTempBitmap>>
      /\ UNCHANGED <<mReqesutCaptureStillImage, drawn, told, op, handler, calls, mIsActive>>
  BY <1>a DEF Terminate, Finish, view, still, caller
<1>2. \/ /\ life[r] = "loop" /\ life' = [life EXCEPT ![r] = "finishing"]
         /\ messages' = [messages EXCEPT ![r] = <<>>]
         /\ mThread' = [mThread EXCEPT ![r] = FALSE]
         /\ UNCHANGED <<pc, texture, mEncoder>>
      \/ /\ life[r] = "finishing" /\ life' = [life EXCEPT ![r] = "ended"]
         /\ texture' = [texture EXCEPT ![r] = FALSE] /\ mEncoder' = [mEncoder EXCEPT ![r] = FALSE]
         /\ \/ pc' = pc
            \/ \E w \in Threads :
                 /\ pc[w] = "waiting"
                 /\ pc' = [t \in Threads |-> IF t \in {w} THEN "woken" ELSE pc[t]]
         /\ UNCHANGED <<messages, mThread>>
  BY <1>a DEF Terminate, Finish, Left, Waiting, Wake, caller
<1>3. mRenderHandler # r
  <2>1. CASE life[r] = "finishing"
    BY <1>i, <2>1, ConstantsAssumption DEF Handlers
  <2>2. CASE Terminate(r)
    <3>1. messages[r] \in Seq(Kinds) /\ messages[r] # <<>> /\ Head(messages[r]) = "TERMINATE"
          /\ life[r] = "loop"
      BY <1>t, <2>2 DEF Terminate, Types, ThreadTypes
    <3>2. Has(messages[r], {"TERMINATE"})
      BY <3>1, Taking
    <3> QED
      BY <1>i, <3>1, <3>2 DEF Handlers
  <2> QED
    BY <1>a, <2>1, <2>2 DEF Finish
<1>4. /\ life' \in [Renders -> {"none", "loop", "finishing", "ended"}]
      /\ texture' \in [Renders -> BOOLEAN] /\ mEncoder' \in [Renders -> BOOLEAN]
      /\ mThread' \in [Renders -> BOOLEAN]
  BY <1>2, <1>t DEF Types, ThreadTypes
<1>5. messages' \in [Renders -> Seq(Kinds)]
  <2>1. <<>> \in Seq(Kinds)
    OBVIOUS
  <2> QED
    BY <1>2, <1>t, <2>1 DEF Types, ThreadTypes
<1>6. pc' \in [Threads -> {"idle", "look", "read", "enter", "wait", "waiting", "woken",
                           "capturing", "crashed"}]
  BY <1>2, <1>t DEF Types, CallTypes
<1>7. /\ \A s \in Renders : s # r =>
           /\ life'[s] = life[s] /\ messages'[s] = messages[s] /\ mThread'[s] = mThread[s]
           /\ mEncoder'[s] = mEncoder[s]
      /\ life'[r] \in {"finishing", "ended"} /\ mThread'[r] = FALSE /\ messages'[r] = <<>>
      /\ life'[r] = "ended" => mEncoder'[r] = FALSE
      /\ life[r] # "none"
  <2>1. CASE life[r] = "loop"
    BY <1>2, <1>t, <2>1 DEF Types, ThreadTypes
  <2>2. CASE life[r] = "finishing"
    <3>1. mThread[r] = FALSE /\ messages[r] = <<>>
      BY <1>i, <1>t, <2>2 DEF Handlers, Types, ThreadTypes
    <3> QED
      BY <1>2, <1>t, <2>2, <3>1 DEF Types, ThreadTypes
  <2> QED
    BY <1>2, <2>1, <2>2
<1>8. \A t \in Threads : pc'[t] = pc[t] \/ (pc[t] = "waiting" /\ pc'[t] = "woken")
  BY <1>2
<1>9. ViewTypes' /\ ThreadTypes' /\ CallTypes'
  <2>1. \A s \in Renders : life'[s] # "loop" => messages'[s] = <<>>
    BY <1>7, <1>t DEF Types, ThreadTypes
  <2> QED
    BY <1>1, <1>4, <1>5, <1>6, <1>t, <2>1 DEF Types, ViewTypes, ThreadTypes, CallTypes
<1>10. Handlers'
  <2>1. ASSUME NEW s \in Renders
        PROVE  /\ mIsActive[s] <=> mRenderHandler = s
               /\ mThread'[s] <=> life'[s] = "loop"
               /\ life'[s] = "loop" => (Has(messages'[s], {"TERMINATE"}) <=> ~mIsActive[s])
    <3>1. CASE s = r
      BY <1>7, <1>i, <3>1 DEF Handlers
    <3>2. CASE s # r
      BY <1>7, <1>i, <3>2 DEF Handlers
    <3> QED
      BY <3>1, <3>2
  <2>2. mRenderHandler # NULL => started /\ life'[mRenderHandler] = "loop"
    BY <1>3, <1>7, <1>i, <1>t DEF Handlers, Types, ViewTypes
  <2> QED
    BY <1>1, <2>1, <2>2 DEF Handlers
<1>11. Calls'
  <2>1. \A s \in Renders : life[s] # "none" => life'[s] # "none"
    BY <1>7
  <2>2. pc'[Camera] = pc[Camera]
    BY <1>0, <1>8, <1>i DEF Calls
  <2> QED
    BY <1>0, <1>1, <1>8, <1>i, <2>1, <2>2 DEF Calls
<1>12. Waits'
  <2>1. pc[UI] \in {"wait", "waiting"} => mRenderHandler \in Renders
    BY <1>i, <1>t DEF Calls, Types, ViewTypes
  <2>2. pc[Async] \in {"wait", "waiting"} => handler[Async] \in Renders
    BY <1>i DEF Calls
  <2>3. \A t \in {UI, Async} : pc'[t] \in {"wait", "waiting"} => pc[t] \in {"wait", "waiting"}
    BY <1>0, <1>8
  <2> QED
    BY <1>1, <1>3, <1>7, <1>i, <2>1, <2>2, <2>3 DEF Waits
<1>13. Encoders'
  <2>1. pc'[Camera] = pc[Camera]
    BY <1>0, <1>8, <1>i DEF Calls
  <2>2. ASSUME NEW s \in Renders
        PROVE  /\ life'[s] \in {"none", "ended"} => ~mEncoder'[s]
               /\ /\ life'[s] = "loop"
                  /\ \/ ~mIsActive[s]
                     \/ ~told /\ pc[Camera] \notin {"look", "read", "crashed"}
                  => Cleared(messages'[s], mEncoder'[s])
    <3>1. CASE s = r
      BY <1>7, <3>1
    <3>2. CASE s # r
      BY <1>7, <1>i, <3>2 DEF Encoders
    <3> QED
      BY <3>1, <3>2
  <2> QED
    BY <1>1, <2>1, <2>2 DEF Encoders
<1> QED
  BY <1>9, <1>10, <1>11, <1>12, <1>13, Typed DEF IndInv, Types
-----------------------------------------------------------------------------
LEMMA NextInd == IndInv /\ [Next]_vars => IndInv'
<1> SUFFICES ASSUME IndInv, [Next]_vars
             PROVE  IndInv'
  OBVIOUS
<1>1. CASE onResume
  BY <1>1, CreateKeeps, ViewKeeps
<1>2. CASE onPause
  BY <1>2, DropKeeps, ViewKeeps
<1>3. CASE onSurfaceTextureAvailable
  BY <1>3, CreateKeeps, ResizeKeeps
<1>4. CASE onSurfaceTextureSizeChanged
  BY <1>4, ResizeKeeps
<1>5. CASE onSurfaceTextureDestroyed
  BY <1>5, DropKeeps, ViewKeeps
<1>6. CASE onSurfaceTextureUpdated
  BY <1>6, ViewKeeps
<1>7. CASE Calling
  BY <1>7, CallKeeps
<1>8. CASE \E t \in Threads : CallerStep(t)
  BY <1>8, CallerKeeps
<1>9. CASE \E r \in Renders : onFrameAvailable(r) \/ RenderStep(r)
  BY <1>9, FrameKeeps, DrawKeeps, UpdateKeeps, EndKeeps DEF RenderStep
<1>10. CASE UNCHANGED vars
  <2>1. UNCHANGED <<started, mHasSurface, mRenderHandler, mPreviewSurface, mTempBitmap,
          mReqesutCaptureStillImage, drawn, told, pc, op, handler, calls, messages, mIsActive,
          life, texture, mEncoder, mThread>>
    BY <1>10 DEF vars, view, still, render, caller
  <2>2. TypeOK'
    BY <2>1 DEF IndInv, TypeOK
  <2>3. Handlers' /\ Calls' /\ Waits' /\ Encoders'
    BY <2>1 DEF IndInv, Handlers, Calls, Waits, Encoders
  <2> QED
    BY <2>2, <2>3 DEF IndInv
<1> QED
  BY <1>1, <1>2, <1>3, <1>4, <1>5, <1>6, <1>7, <1>8, <1>9, <1>10 DEF Next, Calling

LEMMA Invariant == Spec => []IndInv
<1>1. Init => IndInv
  BY InitInd
<1>2. IndInv /\ [Next]_vars => IndInv'
  BY NextInd
<1> QED
  BY <1>1, <1>2, PTL DEF Spec

\* Every variable of the view and its render threads keeps its type, and a
\* looper that has quit has no messages.
THEOREM TypeCorrect == Spec => []TypeOK
<1>1. IndInv => TypeOK
  BY DEF IndInv
<1> QED
  BY <1>1, Invariant, PTL

\* What UiReturns rests on: the UI thread never meets a null, and the render
\* thread it waits for in resize or getPreviewTexture is the view's, loops and
\* has the message that wakes it.
UiServed ==
    /\ pc[UI] # "crashed"
    /\ pc[UI] \in {"wait", "waiting"} =>
         /\ handler[UI] = mRenderHandler /\ life[mRenderHandler] = "loop"
         /\ Has(messages[mRenderHandler], Surface)

THEOREM UiIsServed == Spec => []UiServed
<1>1. IndInv => UiServed
  BY DEF IndInv, Handlers, Calls, Waits, UiServed
<1> QED
  BY <1>1, Invariant, PTL

\* What WaiterWoken rests on: the render thread that USBMonitor's worker waits
\* for in getPreviewTexture has its message, or the one that ends it, as long
\* as it loops.
WorkerServed ==
    pc[Async] \in {"wait", "waiting"} /\ life[handler[Async]] = "loop"
        => Has(messages[handler[Async]], Surface \cup {"TERMINATE"})

THEOREM WorkerIsServed == Spec => []WorkerServed
<1>1. IndInv => WorkerServed
  BY DEF IndInv, Waits, WorkerServed
<1> QED
  BY <1>1, Invariant, PTL

\* What RenderEnds rests on: MSG_TERMINATE is in the queue of every render
\* thread that loops and is not the view's, and in that of no other.
OthersTold ==
    \A r \in Renders :
        life[r] = "loop" => (Has(messages[r], {"TERMINATE"}) <=> mRenderHandler # r)

THEOREM OthersAreTold == Spec => []OthersTold
<1>1. IndInv => OthersTold
  BY DEF IndInv, Handlers, OthersTold
<1> QED
  BY <1>1, Invariant, PTL

\* What EncoderLetGo rests on: after setVideoEncoder(null) has returned, a
\* render thread that has an encoder, or is to have one, has the message after
\* which it has none, or it is ending.
EncodersCleared ==
    ~told /\ pc[Camera] = "idle" =>
        \A r \in Renders :
            /\ life[r] = "loop" => Cleared(messages[r], mEncoder[r])
            /\ mEncoder[r] => life[r] \in {"loop", "finishing"}

THEOREM EncodersAreCleared == Spec => []EncodersCleared
<1>1. IndInv => EncodersCleared
  <2> SUFFICES ASSUME IndInv, ~told, pc[Camera] = "idle", NEW r \in Renders
               PROVE  /\ life[r] = "loop" => Cleared(messages[r], mEncoder[r])
                      /\ mEncoder[r] => life[r] \in {"loop", "finishing"}
    BY DEF EncodersCleared
  <2>1. Encoders /\ life[r] \in {"none", "loop", "finishing", "ended"}
    BY Typed DEF IndInv, Types, ThreadTypes
  <2> QED
    BY <2>1 DEF Encoders
<1> QED
  BY <1>1, Invariant, PTL
=============================================================================

------------------------------ MODULE CameraView ------------------------------
(***************************************************************************)
(* UVCCameraTextureView and the render threads of its RenderHandlers.      *)
(*                                                                         *)
(*   UI      the UI thread: the view's life, and getSurface;               *)
(*   Async   USBMonitor's worker thread, which calls getSurface in         *)
(*           onConnect;                                                    *)
(*   Camera  CameraThread: setVideoEncoder and captureStillImage;          *)
(*   r       a RenderThread, known by its handler.                         *)
(*                                                                         *)
(* TextureView calls its listener only while the activity is started, but  *)
(* may take the surface away at any time.  Textures are told apart only    *)
(* from none.  Object.wait returns only when notified.                     *)
(***************************************************************************)
EXTENDS Integers, Sequences, FiniteSets, MessageQueue

CONSTANTS
    Renders,     \* identities for render threads; bound on their number
    NULL,
    MaxCalls     \* bound on calls of each thread

UI == "ui"
Async == "async"
Camera == "camera"
Threads == {UI, Async, Camera}

ASSUME ConstantsAssumption ==
    IsFiniteSet(Renders) /\ NULL \notin Renders /\ MaxCalls \in [Threads -> Nat]

VARIABLES
    started,             \* the activity is between onResume and onPause
    mHasSurface, mRenderHandler,
    mPreviewSurface,     \* TRUE: the view has a Surface
    mTempBitmap,         \* TRUE: not null
    mReqesutCaptureStillImage,
    messages,            \* of each handler
    mIsActive,
    mThread,             \* FALSE: null
    life,                \* "none", "loop", "finishing" or "ended"
    texture,             \* the thread has its mPreviewSurface
    mEncoder,            \* TRUE: not null
    drawn,               \* TextureView is to call onSurfaceTextureUpdated
    told,                \* what setVideoEncoder was last called with is not null
    pc, op, handler,     \* where each caller is, in which method, with which handler
    calls                \* counted against MaxCalls

view == <<mHasSurface, mRenderHandler, mPreviewSurface>>
still == <<mTempBitmap, mReqesutCaptureStillImage, drawn>>
render == <<life, texture, mEncoder, mThread>>
caller == <<pc, op, handler>>
vars == <<started, view, still, messages, mIsActive, render, told, caller, calls>>

Goto(t, label) == pc' = [pc EXCEPT ![t] = label]
Jump(t, from, to) == pc[t] = from /\ Goto(t, to)

Init ==
    /\ started = TRUE
    /\ mHasSurface = FALSE /\ mRenderHandler = NULL /\ mPreviewSurface = FALSE
    /\ mTempBitmap = FALSE /\ mReqesutCaptureStillImage = FALSE /\ drawn = FALSE
    /\ messages = [r \in Renders |-> <<>>]
    /\ mIsActive = [r \in Renders |-> FALSE] /\ mThread = [r \in Renders |-> FALSE]
    /\ life = [r \in Renders |-> "none"]
    /\ texture = [r \in Renders |-> FALSE] /\ mEncoder = [r \in Renders |-> FALSE]
    /\ told = FALSE
    /\ pc = [t \in Threads |-> "idle"] /\ op = [t \in Threads |-> "none"]
    /\ handler = [t \in Threads |-> NULL]
    /\ calls = [t \in Threads |-> 0]

-----------------------------------------------------------------------------
(* Forms of the operators below that a plausible slip would give; the      *)
(* checked properties must reject them.                                    *)

\* Looper.quit drops what came after MSG_TERMINATE.
Kept(r) == Tail(messages[r])
Left(r) == <<>>

\* release removes what need not be done any more, and then sends
\* MSG_TERMINATE.
AllRemoved(r) == [messages EXCEPT ![r] = <<>>]
Removed(r) ==
    [messages EXCEPT ![r] =
        Append(removeMessages(@, {"RENDER", "ENCODER", "NO ENCODER"}), "TERMINATE")]

\* onSurfaceTextureDestroyed releases the handler before it forgets it.
Releases(r) == mIsActive' = [mIsActive EXCEPT ![r] = FALSE] /\ messages' = Removed(r)

\* RenderThread.resize notifies when there is nothing to resize as well.
NotifiedIfChanged(m) == m # "SAME SIZE"
Notified(m) == TRUE

\* The end of run notifies a thread that waits for it.
NoneWoken(r) == {}
Waiting(r) == {t \in Threads : pc[t] = "waiting" /\ handler[t] = r}

\* setVideoEncoder passes null on.
OnlyEncoder(m) == m = "ENCODER"
Passed(m) == TRUE
-----------------------------------------------------------------------------
(* The view's life, on the UI thread.                                      *)

Sent(r, m) == [messages EXCEPT ![r] = Append(@, m)]

Begin(t) == pc[t] = "idle" /\ calls[t] < MaxCalls[t] /\ calls' = [calls EXCEPT ![t] = @ + 1]

\* RenderHandler.createHandler waits for the thread to start and to make its
\* handler.
createHandler ==
    \E r \in Renders :
        /\ life[r] = "none" /\ r = CHOOSE s \in Renders : life[s] = "none"
        /\ life' = [life EXCEPT ![r] = "loop"]
        /\ mThread' = [mThread EXCEPT ![r] = TRUE]
        /\ mIsActive' = [mIsActive EXCEPT ![r] = TRUE]
        /\ mRenderHandler' = r

onResume ==
    /\ Begin(UI) /\ ~started /\ started' = TRUE
    /\ IF mHasSurface THEN createHandler
       ELSE UNCHANGED <<life, mThread, mIsActive, mRenderHandler>>
    /\ UNCHANGED <<mHasSurface, mPreviewSurface, still, messages, texture, mEncoder, told, caller>>

\* RenderHandler.release
Drop ==
    /\ IF mRenderHandler = NULL THEN UNCHANGED <<messages, mIsActive>> ELSE Releases(mRenderHandler)
    /\ mRenderHandler' = NULL

onPause ==
    /\ Begin(UI) /\ started /\ started' = FALSE
    /\ Drop
    /\ mTempBitmap' = FALSE
    /\ UNCHANGED <<mHasSurface, mPreviewSurface, mReqesutCaptureStillImage, drawn, render, told, caller>>

\* RenderHandler.resize goes on as getPreviewTexture does.
resize ==
    /\ mIsActive[mRenderHandler]
    /\ Goto(UI, "enter") /\ op' = [op EXCEPT ![UI] = "resize"]
    /\ handler' = [handler EXCEPT ![UI] = mRenderHandler]

\* The application sets no Callback.
onSurfaceTextureAvailable ==
    /\ Begin(UI) /\ started /\ ~mHasSurface
    /\ IF mRenderHandler = NULL THEN createHandler /\ UNCHANGED caller
       ELSE resize /\ UNCHANGED <<life, mThread, mIsActive, mRenderHandler>>
    /\ mHasSurface' = TRUE
    /\ UNCHANGED <<started, mPreviewSurface, still, messages, texture, mEncoder, told>>

onSurfaceTextureSizeChanged ==
    /\ Begin(UI) /\ started /\ mHasSurface
    /\ mRenderHandler # NULL /\ resize
    /\ UNCHANGED <<started, view, still, messages, mIsActive, render, told>>

onSurfaceTextureDestroyed ==
    /\ Begin(UI) /\ mHasSurface /\ mHasSurface' = FALSE
    /\ Drop
    /\ mPreviewSurface' = FALSE /\ drawn' = FALSE
    /\ UNCHANGED <<started, mTempBitmap, mReqesutCaptureStillImage, render, told, caller>>

onSurfaceTextureUpdated ==
    /\ pc[UI] = "idle" /\ started /\ drawn /\ drawn' = FALSE
    /\ mTempBitmap' = (mTempBitmap \/ mReqesutCaptureStillImage)
    /\ mReqesutCaptureStillImage' = FALSE
    /\ IF mReqesutCaptureStillImage /\ pc[Camera] = "capturing" THEN Goto(Camera, "idle")
       ELSE UNCHANGED pc
    /\ UNCHANGED <<started, view, messages, mIsActive, render, told, op, handler, calls>>
-----------------------------------------------------------------------------
(* Calls of the view.  mRenderHandler is looked at and then read again.    *)

Call(t, method) ==
    /\ Begin(t)
    /\ Goto(t, "look") /\ op' = [op EXCEPT ![t] = method]
    /\ UNCHANGED <<started, view, still, messages, mIsActive, render, handler>>

getSurface(t) == t # Camera /\ ~mPreviewSurface /\ Call(t, "getSurface") /\ UNCHANGED told

setVideoEncoder(m) == Call(Camera, m) /\ told' = (m = "ENCODER")

captureStillImage ==
    /\ Begin(Camera) /\ Goto(Camera, "capturing")
    /\ mReqesutCaptureStillImage' = TRUE
    /\ UNCHANGED <<started, view, mTempBitmap, drawn, messages, mIsActive, render, told, op, handler>>

Look(t) ==
    /\ Jump(t, "look", IF mRenderHandler = NULL THEN "idle" ELSE "read")
    /\ UNCHANGED <<started, view, still, messages, mIsActive, render, told, op, handler, calls>>

\* The method of the handler looks at mIsActive.
Read(t) ==
    /\ \/ mRenderHandler = NULL /\ Jump(t, "read", "crashed") /\ UNCHANGED <<handler, messages>>
       \/ /\ mRenderHandler # NULL /\ ~mIsActive[mRenderHandler]
          /\ Jump(t, "read", "idle") /\ UNCHANGED <<handler, messages>>
       \/ /\ mRenderHandler # NULL /\ mIsActive[mRenderHandler] /\ op[t] = "getSurface"
          /\ Jump(t, "read", "enter")
          /\ handler' = [handler EXCEPT ![t] = mRenderHandler] /\ UNCHANGED messages
       \/ /\ mRenderHandler # NULL /\ mIsActive[mRenderHandler] /\ op[t] # "getSurface"
          /\ Jump(t, "read", "idle")
          /\ messages' = IF Passed(op[t]) THEN Sent(mRenderHandler, op[t]) ELSE messages
          /\ UNCHANGED handler
    /\ UNCHANGED <<started, view, still, mIsActive, render, told, op, calls>>

\* Whether a thread is inside the section under r's mSync.
Locked(r) == \E t \in Threads : pc[t] = "wait" /\ handler[t] = r

\* synchronized (mThread.mSync) { send...; mThread.mSync.wait(); }
Enter(t) ==
    /\ pc[t] = "enter" /\ ~Locked(handler[t])
    /\ IF mThread[handler[t]]
       THEN /\ Goto(t, "wait")
            /\ \E m \in IF op[t] = "resize" THEN {"RESIZE", "SAME SIZE"} ELSE {"CREATE"} :
                 messages' = Sent(handler[t], m)
       ELSE Goto(t, "crashed") /\ UNCHANGED messages
    /\ UNCHANGED <<started, view, still, mIsActive, render, told, op, handler, calls>>

Wait(t) ==
    /\ Jump(t, "wait", IF mThread[handler[t]] THEN "waiting" ELSE "crashed")
    /\ UNCHANGED <<started, view, still, messages, mIsActive, render, told, op, handler, calls>>

\* getPreviewTexture returns mThread.mPreviewSurface, or resize returns.
Return(t) ==
    /\ Jump(t, "woken", IF op[t] = "resize" \/ mThread[handler[t]] THEN "idle" ELSE "crashed")
    /\ handler' = [handler EXCEPT ![t] = NULL]
    /\ mPreviewSurface' = (mPreviewSurface \/ (op[t] = "getSurface" /\ texture[handler[t]]))
    /\ UNCHANGED <<started, mHasSurface, mRenderHandler, still, messages, mIsActive, render, told,
                   op, calls>>

CallerStep(t) == Look(t) \/ Read(t) \/ Enter(t) \/ Wait(t) \/ Return(t)
-----------------------------------------------------------------------------
(* RenderThread: handleMessage.                                            *)

Take(r, kinds) ==
    /\ life[r] = "loop" /\ messages[r] # <<>> /\ Head(messages[r]) \in kinds
    /\ messages' = [messages EXCEPT ![r] = Tail(@)]

Wake(threads) == pc' = [t \in Threads |-> IF t \in threads THEN "woken" ELSE pc[t]]

\* A camera frame has been drawn into the thread's texture.  A second message
\* before the first is handled tells nothing more.
onFrameAvailable(r) ==
    /\ texture[r] /\ mIsActive[r] /\ \A i \in 1..Len(messages[r]) : messages[r][i] # "RENDER"
    /\ messages' = Sent(r, "RENDER")
    /\ UNCHANGED <<started, view, still, mIsActive, render, told, caller, calls>>

onDrawFrame(r) ==
    /\ Take(r, {"RENDER"})
    /\ drawn' = mHasSurface
    /\ UNCHANGED <<started, view, mTempBitmap, mReqesutCaptureStillImage, mIsActive, render, told,
                   caller, calls>>

setEncoder(r) ==
    /\ Take(r, {"ENCODER", "NO ENCODER"})
    /\ mEncoder' = [mEncoder EXCEPT ![r] = Head(messages[r]) = "ENCODER"]
    /\ UNCHANGED <<started, view, still, mIsActive, life, texture, mThread, told, caller, calls>>

\* updatePreviewSurface, and RenderThread.resize, which calls it when the size
\* is another
updatePreviewSurface(r) ==
    /\ Take(r, {"CREATE", "RESIZE", "SAME SIZE"}) /\ ~Locked(r)
    /\ texture' = [texture EXCEPT ![r] = @ \/ Head(messages[r]) # "SAME SIZE"]
    /\ IF Notified(Head(messages[r])) THEN Wake({t \in Threads : pc[t] = "waiting" /\ handler[t] = r})
       ELSE UNCHANGED pc
    /\ UNCHANGED <<started, view, still, mIsActive, life, mEncoder, mThread, told, op, handler, calls>>

Terminate(r) ==
    /\ life[r] = "loop" /\ messages[r] # <<>> /\ Head(messages[r]) = "TERMINATE"
    /\ messages' = [messages EXCEPT ![r] = Left(r)]
    /\ life' = [life EXCEPT ![r] = "finishing"]
    /\ mThread' = [mThread EXCEPT ![r] = FALSE]
    /\ UNCHANGED <<started, view, still, mIsActive, texture, mEncoder, told, caller, calls>>

\* The rest of run: release, and one notify.
Finish(r) ==
    /\ life[r] = "finishing" /\ ~Locked(r)
    /\ life' = [life EXCEPT ![r] = "ended"]
    /\ texture' = [texture EXCEPT ![r] = FALSE] /\ mEncoder' = [mEncoder EXCEPT ![r] = FALSE]
    /\ \/ \E t \in Waiting(r) : Wake({t})
       \/ Waiting(r) = {} /\ UNCHANGED pc
    /\ UNCHANGED <<started, view, still, messages, mIsActive, mThread, told, op, handler, calls>>

RenderStep(r) ==
    onDrawFrame(r) \/ setEncoder(r) \/ updatePreviewSurface(r) \/ Terminate(r) \/ Finish(r)
-----------------------------------------------------------------------------
Next ==
    \/ onResume \/ onPause \/ onSurfaceTextureAvailable \/ onSurfaceTextureSizeChanged
    \/ onSurfaceTextureDestroyed \/ onSurfaceTextureUpdated
    \/ getSurface(UI) \/ getSurface(Async) \/ captureStillImage
    \/ setVideoEncoder("ENCODER") \/ setVideoEncoder("NO ENCODER")
    \/ \E t \in Threads : CallerStep(t)
    \/ \E r \in Renders : onFrameAvailable(r) \/ RenderStep(r)

Spec == Init /\ [][Next]_vars

\* The threads run, the UI thread between its other calls too.  Nothing says
\* that the camera sends frames.
Fairness ==
    /\ \A t \in Threads : WF_vars(CallerStep(t))
    /\ \A r \in Renders : WF_vars(RenderStep(r))
    /\ SF_vars(onSurfaceTextureUpdated)

FairSpec == Spec /\ Fairness
-----------------------------------------------------------------------------
Kinds == {"RENDER", "ENCODER", "NO ENCODER", "CREATE", "RESIZE", "SAME SIZE", "TERMINATE"}

\* Every variable has its type, and a looper that has quit has no messages.
TypeOK ==
    /\ {started, mHasSurface, mPreviewSurface, mTempBitmap, mReqesutCaptureStillImage, drawn, told}
         \subseteq BOOLEAN
    /\ mRenderHandler \in Renders \cup {NULL}
    /\ messages \in [Renders -> Seq(Kinds)]
    /\ {mIsActive, mThread, texture, mEncoder} \subseteq [Renders -> BOOLEAN]
    /\ life \in [Renders -> {"none", "loop", "finishing", "ended"}]
    /\ pc \in [Threads -> {"idle", "look", "read", "enter", "wait", "waiting", "woken",
                           "capturing", "crashed"}]
    /\ op \in [Threads -> {"none", "getSurface", "resize", "ENCODER", "NO ENCODER"}]
    /\ handler \in [Threads -> Renders \cup {NULL}]
    /\ calls \in [Threads -> Nat]
    /\ \A r \in Renders : life[r] # "loop" => messages[r] = <<>>

\* The UI thread comes back from each of its calls.  It alone ends the render
\* thread, so that the one it waits for is alive.
UiReturns == pc[UI] # "idle" ~> pc[UI] = "idle"

\* The worker thread in getPreviewTexture is woken, by the render thread's work
\* or by its end, if that has not ended before the wait.
WaiterWoken ==
    \A r \in Renders :
        pc[Async] = "waiting" /\ handler[Async] = r /\ life[r] # "ended" ~> pc[Async] # "waiting"

\* A render thread that the view has given up ends.
RenderEnds ==
    \A r \in Renders : life[r] # "none" /\ mRenderHandler # r ~> life[r] = "ended"

\* After setVideoEncoder(null) no render thread keeps the encoder: the new one
\* is told, the old one ends.
EncoderLetGo ==
    ~told /\ pc[Camera] = "idle" ~> told \/ pc[Camera] # "idle" \/ \A r \in Renders : ~mEncoder[r]
=============================================================================

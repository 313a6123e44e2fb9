----------------------------- MODULE UVCPreview -----------------------------
(***************************************************************************)
(* The native preview engine, jni/UVCCamera/UVCPreview.cpp.                *)
(*                                                                         *)
(* Four kinds of threads share one UVCPreview object:                      *)
(*   Ctrl            the Java thread that calls the API through UVCCamera; *)
(*   Usb             libuvc's user-callback thread, which hands camera     *)
(*                   frames to uvc_preview_frame_callback;                 *)
(*   Pv              preview_thread: takes frames from previewFrames,      *)
(*                   draws them and passes them on to captureQueu;         *)
(*   CaptureThreads  capture_thread: writes frames to the capture window   *)
(*                   and calls IFrameCallback#onFrame.  A set, because     *)
(*                   nothing in the code stops a second one from being     *)
(*                   created before the first one ends.                    *)
(*                                                                         *)
(* A section under preview_mutex, capture_mutex or pool_mutex that does    *)
(* not wait is one step; an unlocked read or write of mIsRunning,          *)
(* mIsCapturing, mCaptureWindow or mFrameCallbackObj that another thread   *)
(* can separate from its neighbours is a step of its own.  A thread inside *)
(* pthread_cond_wait is "parked"; a signalled one is "woken" and takes the *)
(* mutex again in its next step.                                           *)
(***************************************************************************)
EXTENDS Integers, Sequences, FiniteSets

CONSTANTS
    Frames,          \* uvc_frame_t buffers that fit in memory
    PreviewWindows,  \* ANativeWindows for setPreviewDisplay
    CaptureWindows,  \* ANativeWindows for setCaptureDisplay
    Callbacks,       \* IFrameCallback objects
    CaptureThreads,  \* identities pthread_create can give a capture thread
    NULL,
    MaxFrame,        \* MAX_FRAME, 4 in the code
    MJPEG,           \* frameMode: TRUE when the camera sends MJPEG
    Spurious,        \* TRUE: pthread_cond_wait may return without a signal
    Endless,         \* TRUE: frames after MaxSeq keep coming, all numbered MaxSeq
    MaxSeq,          \* bound: camera frames with a number of their own
    MaxSessions,     \* bound: calls of startPreview
    MaxSets          \* bound: calls of setCaptureDisplay and setFrameCallback

Ctrl == "ctrl"
Usb == "usb"
Pv == "pv"
Threads == {Ctrl, Usb, Pv} \cup CaptureThreads

ASSUME ConstantsAssumption ==
    /\ MaxFrame \in Nat \ {0}
    /\ MaxSeq \in Nat /\ MaxSessions \in Nat /\ MaxSets \in Nat
    /\ {MJPEG, Spurious, Endless} \subseteq BOOLEAN
    /\ IsFiniteSet(Frames)
    /\ CaptureThreads \cap {Ctrl, Usb, Pv} = {}
    /\ NULL \notin Frames \cup PreviewWindows \cup CaptureWindows
    /\ NULL \notin Callbacks \cup CaptureThreads

FRAME_POOL_SZ == MaxFrame + 2

VARIABLES
    mIsRunning, mIsCapturing, mPreviewWindow, mCaptureWindow, mFrameCallbackObj,
    capture_thread,  \* the pthread_t field: the capture thread created last
    mFramePool,      \* recycled buffers
    previewFrames,   \* buffers from Usb to Pv, oldest first
    captureQueu,     \* latest buffer from Pv to the capture thread
    allocated,       \* buffers allocated and not yet freed
    local,           \* buffer in each local variable of each thread
    content,         \* number of the camera frame in each buffer
    pc,              \* where each thread is
    surface,         \* capture threads inside do_capture_surface
    op, arg,         \* the call Ctrl is in, and its argument while it waits
    process,         \* "alive", "deleted" (object freed) or "aborted"
    seq,             \* number of the last camera frame
    delivered,       \* last camera frame each capture thread gave to onFrame
    sessions, sets   \* calls counted against MaxSessions and MaxSets

windows == <<mPreviewWindow, mCaptureWindow>>
fields == <<mIsRunning, mIsCapturing, windows, mFrameCallbackObj, capture_thread>>
pool == <<mFramePool, allocated>>
queues == <<previewFrames, captureQueu>>
buffers == <<pool, queues, local, content>>
call == <<op, arg, sessions, sets>>
others == <<surface, process, seq, delivered>>
vars == <<fields, buffers, call, others, pc>>

Locals == {"frame", "converted", "callback_frame"}
-----------------------------------------------------------------------------
(* Program counters, condition variables, the frame pool.                  *)

Goto(t, label) == pc' = [pc EXCEPT ![t] = label]
Jump(t, from, to) == pc[t] = from /\ Goto(t, to)

\* Only Pv ever waits on preview_sync; capture threads and Ctrl on capture_sync.
PreviewWaiters == {t \in {Pv} : pc[t] = "parked"}
CaptureWaiters == {t \in CaptureThreads \cup {Ctrl} : pc[t] = "parked"}

\* t goes from one label to another and the threads of woken leave their wait.
JumpAndWake(t, from, to, woken) ==
    /\ pc[t] = from
    /\ pc' = [u \in Threads |-> IF u = t THEN to
                                ELSE IF u \in woken THEN "woken" ELSE pc[u]]

\* pthread_cond_signal wakes one waiter if there is one.
JumpAndSignal(t, from, to, waiters) ==
    \E woken \in IF waiters = {} THEN {{}} ELSE {{u} : u \in waiters} :
        JumpAndWake(t, from, to, woken)

NotNull(f) == {f} \ {NULL}

\* get_frame: a buffer of the pool, a new one when the pool is empty, or NULL
\* when uvc_allocate_frame finds no memory.  Which buffer does not matter: all
\* of them are grown to the size needed.
Available == IF mFramePool # {} THEN mFramePool ELSE Frames \ allocated

get_frame(f) ==
    /\ f \in IF Available = {} THEN {NULL} ELSE Available
    /\ mFramePool' = mFramePool \ {f}
    /\ allocated' = allocated \cup NotNull(f)

\* recycle_frame for each buffer of S: into the pool while there is room,
\* the others are freed.
recycle_frame(S) ==
    \E kept \in SUBSET S :
        /\ \/ kept = S /\ Cardinality(mFramePool \cup S) <= FRAME_POOL_SZ
           \/ /\ Cardinality(mFramePool \cup S) > FRAME_POOL_SZ
              /\ Cardinality(mFramePool \cup kept) = FRAME_POOL_SZ
        /\ mFramePool' = mFramePool \cup kept
        /\ allocated' = allocated \ (S \ kept)

Queued == {previewFrames[i] : i \in 1..Len(previewFrames)}

Init ==
    /\ mIsRunning = FALSE /\ mIsCapturing = FALSE
    /\ mPreviewWindow = NULL /\ mCaptureWindow = NULL /\ mFrameCallbackObj = NULL
    /\ capture_thread = NULL
    /\ mFramePool = {} /\ previewFrames = <<>> /\ captureQueu = NULL
    /\ allocated = {}
    /\ local = [x \in Locals \X Threads |-> NULL]
    /\ content = [f \in Frames |-> 0]
    /\ pc = [t \in Threads |-> IF t = Ctrl THEN "idle" ELSE "off"]
    /\ surface = {}
    /\ op = "none" /\ arg = NULL
    /\ process = "alive"
    /\ seq = 0 /\ delivered = [t \in CaptureThreads |-> 0]
    /\ sessions = 0 /\ sets = 0
-----------------------------------------------------------------------------
(* Parts of the operations below, some after a form of them that a         *)
(* plausible slip would give and that the checked properties must reject.  *)

\* addPreviewFrame refuses a frame when the queue is full.
RoomInQueueOffByOne == Len(previewFrames) <= MaxFrame
RoomInQueue == Len(previewFrames) < MaxFrame

\* waitPreviewFrame removes the oldest frame.
NextFrame == 1

\* waitCaptureFrame moves the frame out of captureQueu.
MoveCaptureFrameCopied(t) ==
    local' = [local EXCEPT ![<<"frame", t>>] = captureQueu] /\ UNCHANGED captureQueu
MoveCaptureFrame(t) ==
    local' = [local EXCEPT ![<<"frame", t>>] = captureQueu] /\ captureQueu' = NULL

\* addCaptureFrame recycles the frame it replaces.
KeepOnlyLatestLeaking(f) == captureQueu' = f /\ UNCHANGED pool
KeepOnlyLatest(f) == captureQueu' = f /\ recycle_frame(NotNull(captureQueu))

\* Whom addPreviewFrame's signal and addCaptureFrame's broadcast wake.
WokenByPreviewFrame == PreviewWaiters
WokenByCaptureFrameNone == {}
WokenByCaptureFrame == CaptureWaiters

\* do_preview's loop goes on while isRunning().
PreviewLoops == mIsRunning

\* pthread_join returns when the thread has ended.
JoinedEarly(t) == pc[t] # "off"
Joined(t) == pc[t] = "exit"
-----------------------------------------------------------------------------
(* Ctrl: the API.  Ctrl is one thread, so a call starts when it is idle.   *)

\* Under preview_mutex, like every other use of mPreviewWindow.
setPreviewDisplay(w) ==
    /\ pc[Ctrl] = "idle"
    /\ mPreviewWindow' = w
    /\ UNCHANGED <<mIsRunning, mIsCapturing, mCaptureWindow, mFrameCallbackObj,
                   capture_thread, buffers, call, others, pc>>

startPreview ==
    /\ ~mIsRunning /\ sessions < MaxSessions
    /\ Jump(Ctrl, "idle", "create")
    /\ mIsRunning' = TRUE
    /\ sessions' = sessions + 1
    /\ UNCHANGED <<mIsCapturing, windows, mFrameCallbackObj, capture_thread,
                   buffers, op, arg, sets, others>>

\* Lines 334-349: create preview_thread, or give up when there is no window.
StartCreate ==
    /\ pc[Ctrl] = "create"
    /\ IF mPreviewWindow # NULL
       THEN /\ pc' = [pc EXCEPT ![Ctrl] = "idle", ![Pv] = "prepare"]
            /\ UNCHANGED mIsRunning
       ELSE /\ JumpAndWake(Ctrl, "create", "idle", PreviewWaiters)
            /\ mIsRunning' = FALSE
    /\ UNCHANGED <<mIsCapturing, windows, mFrameCallbackObj, capture_thread,
                   buffers, call, others>>

\* "wait finishing capturing": signal capture_sync, then wait on it, once.
WaitFinishCapturing(c, a) ==
    /\ JumpAndSignal(Ctrl, "idle", "parked", CaptureWaiters)
    /\ op' = c /\ arg' = a

setCaptureDisplay(w) ==
    /\ pc[Ctrl] = "idle" /\ sets < MaxSets
    /\ sets' = sets + 1
    /\ mIsCapturing' = (mIsCapturing /\ ~mIsRunning)
    /\ IF mIsRunning /\ mIsCapturing /\ mCaptureWindow # NULL
       THEN WaitFinishCapturing("display", w) /\ UNCHANGED mCaptureWindow
       ELSE mCaptureWindow' = w /\ UNCHANGED <<op, arg, pc>>
    /\ UNCHANGED <<mIsRunning, mPreviewWindow, mFrameCallbackObj, capture_thread,
                   buffers, sessions, others>>

FinishSetCaptureDisplay ==
    /\ Jump(Ctrl, "woken", "idle")
    /\ op = "display"
    /\ mCaptureWindow' = arg
    /\ op' = "none" /\ arg' = NULL
    /\ UNCHANGED <<mIsRunning, mIsCapturing, mPreviewWindow, mFrameCallbackObj,
                   capture_thread, buffers, sessions, sets, others>>

\* UVCCamera.stopPreview and close first call setFrameCallback(null, 0); the
\* callback is deleted and replaced after the wait.
AfterCallback(c) == IF c = "callback" THEN "idle" ELSE "stop"

setFrameCallback(c, o) ==
    /\ pc[Ctrl] = "idle"
    /\ mIsCapturing' = (mIsCapturing /\ ~mIsRunning)
    /\ IF mIsRunning /\ mIsCapturing /\ mFrameCallbackObj # NULL
       THEN WaitFinishCapturing(c, o) /\ UNCHANGED mFrameCallbackObj
       ELSE /\ Goto(Ctrl, AfterCallback(c))
            /\ mFrameCallbackObj' = o
            /\ op' = c /\ UNCHANGED arg
    /\ UNCHANGED <<mIsRunning, windows, capture_thread, buffers, sessions, others>>

FinishSetFrameCallback ==
    /\ Jump(Ctrl, "woken", AfterCallback(op))
    /\ op # "display"
    /\ mFrameCallbackObj' = arg
    /\ arg' = NULL
    /\ UNCHANGED <<mIsRunning, mIsCapturing, windows, capture_thread, buffers,
                   op, sessions, sets, others>>

CtrlCall ==
    \/ \E w \in PreviewWindows \cup {NULL} : setPreviewDisplay(w)
    \/ \E w \in CaptureWindows \cup {NULL} : setCaptureDisplay(w)
    \/ \E o \in Callbacks \cup {NULL} :
         sets < MaxSets /\ sets' = sets + 1 /\ setFrameCallback("callback", o)
    \/ \E c \in {"stop", "close"} : setFrameCallback(c, NULL) /\ UNCHANGED sets
    \/ startPreview

\* stopPreview, lines 356-358: the flag is written without a mutex.
stopPreview ==
    /\ Jump(Ctrl, "stop", IF mIsRunning THEN "signal_preview" ELSE "clear_preview")
    /\ mIsRunning' = FALSE
    /\ UNCHANGED <<mIsCapturing, windows, mFrameCallbackObj, capture_thread,
                   buffers, call, others>>

\* pthread_join on the field as it is now.  A handle that was never written
\* or was joined before makes it fail at once (the LOGW branch).
StopJoinCapture ==
    /\ pc[Ctrl] = "join_capture"
    /\ IF capture_thread # NULL /\ pc[capture_thread] # "off"
       THEN /\ Joined(capture_thread)
            /\ pc' = [pc EXCEPT ![Ctrl] = "join_preview", ![capture_thread] = "off"]
       ELSE Goto(Ctrl, "join_preview")

StopJoinPreview ==
    /\ pc[Ctrl] = "join_preview" /\ Joined(Pv)
    /\ pc' = [pc EXCEPT ![Ctrl] = "clear_preview", ![Pv] = "off"]

\* Both signals are sent without the mutex of their condition.
StopWaits ==
    /\ \/ JumpAndWake(Ctrl, "signal_preview", "signal_capture", PreviewWaiters)
       \/ JumpAndSignal(Ctrl, "signal_capture", "join_capture", CaptureWaiters)
       \/ StopJoinCapture \/ StopJoinPreview
    /\ UNCHANGED <<fields, buffers, call, others>>

clearPreviewFrame == recycle_frame(Queued) /\ previewFrames' = <<>>
clearCaptureFrame == recycle_frame(NotNull(captureQueu)) /\ captureQueu' = NULL

StopClears ==
    /\ \/ /\ Jump(Ctrl, "clear_preview", "clear_capture")
          /\ clearPreviewFrame /\ UNCHANGED captureQueu
       \/ /\ Jump(Ctrl, "clear_capture", "release")
          /\ clearCaptureFrame /\ UNCHANGED previewFrames
    /\ UNCHANGED <<fields, local, content, call, others>>

\* Lines 371-382.  close() goes on to UVCCamera::release, which calls
\* stopPreview again and then deletes the object.
StopReleaseWindows ==
    /\ Jump(Ctrl, "release",
            CASE op = "stop" -> "idle" [] op = "close" -> "stop" [] OTHER -> "delete")
    /\ mPreviewWindow' = NULL /\ mCaptureWindow' = NULL
    /\ op' = (IF op = "close" THEN "delete" ELSE "none")
    /\ UNCHANGED <<mIsRunning, mIsCapturing, mFrameCallbackObj, capture_thread,
                   buffers, arg, sessions, sets, others>>

\* ~UVCPreview: the queues are recycled into the pool and the pool is freed.
Delete ==
    /\ Jump(Ctrl, "delete", "idle")
    /\ process' = "deleted"
    /\ allocated' = allocated \ (mFramePool \cup Queued \cup NotNull(captureQueu))
    /\ mFramePool' = {} /\ previewFrames' = <<>> /\ captureQueu' = NULL
    /\ UNCHANGED <<fields, local, content, call, surface, seq, delivered>>

CtrlStep ==
    \/ StartCreate \/ FinishSetCaptureDisplay \/ FinishSetFrameCallback
    \/ stopPreview \/ StopWaits \/ StopClears \/ StopReleaseWindows \/ Delete
-----------------------------------------------------------------------------
(* Usb: uvc_preview_frame_callback.  Frames whose format or size is wrong  *)
(* and frames that come while mIsRunning is FALSE change nothing.          *)

UsbFrame ==
    /\ Jump(Usb, "idle", "copy")
    /\ mIsRunning
    /\ seq < MaxSeq \/ Endless
    /\ seq' = (IF seq < MaxSeq THEN seq + 1 ELSE seq)
    /\ UNCHANGED <<fields, buffers, call, surface, process, delivered>>

\* get_frame, then uvc_duplicate_frame, which fails ("undo") when there is no
\* memory to grow the buffer.
UsbCopy ==
    /\ pc[Usb] = "copy" /\ mIsRunning
    /\ \E f \in Frames \cup {NULL} :
        /\ get_frame(f)
        /\ local' = [local EXCEPT ![<<"frame", Usb>>] = f]
        /\ content' = [g \in Frames |-> IF g = f THEN seq ELSE content[g]]
        /\ \/ Goto(Usb, IF f = NULL THEN "idle" ELSE "add")
           \/ f # NULL /\ allocated = Frames /\ Goto(Usb, "undo")
    /\ UNCHANGED <<fields, queues, call, others>>

addPreviewFrame ==
    /\ mIsRunning /\ RoomInQueue
    /\ JumpAndWake(Usb, "add", "idle", WokenByPreviewFrame)
    /\ previewFrames' = Append(previewFrames, local[<<"frame", Usb>>])
    /\ local' = [local EXCEPT ![<<"frame", Usb>>] = NULL]
    /\ UNCHANGED <<fields, pool, captureQueu, content, call, others>>

UsbRefused ==
    /\ \/ Jump(Usb, "copy", "idle") /\ ~mIsRunning
       \/ Jump(Usb, "add", "undo") /\ ~(mIsRunning /\ RoomInQueue)
    /\ UNCHANGED <<fields, buffers, call, others>>

UsbRecycle ==
    /\ Jump(Usb, "undo", "idle")
    /\ recycle_frame({local[<<"frame", Usb>>]})
    /\ local' = [local EXCEPT ![<<"frame", Usb>>] = NULL]
    /\ UNCHANGED <<fields, queues, content, call, others>>

UsbStep == UsbCopy \/ addPreviewFrame \/ UsbRefused \/ UsbRecycle
-----------------------------------------------------------------------------
(* Pv: preview_thread_func, prepare_preview, do_preview.                   *)

\* Negotiation and start of the stream.  A failure ends the thread and
\* leaves mIsRunning TRUE.
PvOpenStream ==
    /\ \/ Jump(Pv, "prepare", "stream")
       \/ Jump(Pv, "prepare", "exit")
       \/ pc[Pv] = "stream" /\ pc' = [pc EXCEPT ![Pv] = "clear", ![Usb] = "idle"]
       \/ Jump(Pv, "stream", "exit")
    /\ UNCHANGED <<fields, buffers, call, others>>

PvClear ==
    /\ Jump(Pv, "clear", "create")
    /\ clearPreviewFrame
    /\ UNCHANGED <<fields, captureQueu, local, content, call, others>>

\* pthread_create gives an identity no live or unjoined thread has.
PvCreateCaptureThread ==
    /\ pc[Pv] = "create"
    /\ \E t \in CaptureThreads :
        /\ pc[t] = "off"
        /\ t = CHOOSE u \in CaptureThreads : pc[u] = "off"
        /\ capture_thread' = t
        /\ pc' = [pc EXCEPT ![Pv] = "loop", ![t] = "clear"]
    /\ UNCHANGED <<mIsRunning, mIsCapturing, windows, mFrameCallbackObj, buffers,
                   call, others>>

\* The loop condition, and waitPreviewFrame as far as its only wait:
\* mIsRunning is not read again before it.
PvLoop ==
    /\ \/ Jump(Pv, "loop", IF PreviewLoops THEN "wait" ELSE "signal")
       \/ Jump(Pv, "wait", "parked") /\ previewFrames = <<>>
    /\ UNCHANGED <<fields, buffers, call, others>>

PvTake ==
    /\ pc[Pv] = "woken" \/ (pc[Pv] = "wait" /\ previewFrames # <<>>)
    /\ IF mIsRunning /\ previewFrames # <<>>
       THEN /\ local' = [local EXCEPT ![<<"frame", Pv>>] = previewFrames[NextFrame]]
            /\ previewFrames' = SubSeq(previewFrames, 1, NextFrame - 1)
                 \o SubSeq(previewFrames, NextFrame + 1, Len(previewFrames))
            /\ Goto(Pv, IF MJPEG THEN "decode" ELSE "draw")
       ELSE Goto(Pv, "loop") /\ UNCHANGED <<local, previewFrames>>
    /\ UNCHANGED <<fields, pool, captureQueu, content, call, others>>

\* uvc_mjpeg2yuyv into a second buffer; get_frame's result is not tested.
PvDecode ==
    /\ pc[Pv] = "decode"
    /\ \E f \in Frames \cup {NULL} :
        /\ get_frame(f)
        /\ local' = [local EXCEPT ![<<"converted", Pv>>] = f]
        /\ content' = [g \in Frames |-> IF g = f THEN content[local[<<"frame", Pv>>]]
                                                 ELSE content[g]]
        /\ process' = (IF f = NULL THEN "aborted" ELSE process)
        /\ \E next \in {"decoded", "undecodable"} : Goto(Pv, next)
    /\ UNCHANGED <<fields, queues, call, surface, seq, delivered>>

PvDecoded ==
    /\ \/ /\ Jump(Pv, "decoded", "draw")
          /\ recycle_frame({local[<<"frame", Pv>>]})
          /\ local' = [local EXCEPT ![<<"frame", Pv>>] = local[<<"converted", Pv>>],
                                    ![<<"converted", Pv>>] = NULL]
       \/ /\ Jump(Pv, "undecodable", "loop")
          /\ recycle_frame({local[<<"frame", Pv>>], local[<<"converted", Pv>>]})
          /\ local' = [local EXCEPT ![<<"frame", Pv>>] = NULL, ![<<"converted", Pv>>] = NULL]
    /\ UNCHANGED <<fields, queues, content, call, others>>

\* Look at the window, get the RGBX buffer ("show"), copy it to the window if
\* there still is one, give it back ("add").
draw_preview_one ==
    /\ \/ /\ Jump(Pv, "draw", "add") /\ mPreviewWindow = NULL
          /\ UNCHANGED <<pool, local>>
       \/ /\ pc[Pv] = "draw" /\ mPreviewWindow # NULL
          /\ \E f \in Frames \cup {NULL} :
               /\ get_frame(f)
               /\ local' = [local EXCEPT ![<<"converted", Pv>>] = f]
               /\ Goto(Pv, IF f = NULL THEN "add" ELSE "show")
       \/ /\ Jump(Pv, "show", "add")
          /\ recycle_frame({local[<<"converted", Pv>>]})
          /\ local' = [local EXCEPT ![<<"converted", Pv>>] = NULL]
    /\ UNCHANGED <<fields, queues, content, call, others>>

\* After stopPreview cleared mIsRunning the frame is neither queued nor
\* recycled.
addCaptureFrame ==
    /\ local' = [local EXCEPT ![<<"frame", Pv>>] = NULL]
    /\ \/ /\ mIsRunning
          /\ JumpAndWake(Pv, "add", "loop", WokenByCaptureFrame)
          /\ KeepOnlyLatest(local[<<"frame", Pv>>])
       \/ /\ ~mIsRunning
          /\ Jump(Pv, "add", "loop")
          /\ UNCHANGED <<pool, captureQueu>>
    /\ UNCHANGED <<fields, previewFrames, content, call, others>>

\* uvc_stop_streaming returns when the callback thread has been joined.
PvStopStreaming ==
    /\ \/ JumpAndSignal(Pv, "signal", "stop_stream", CaptureWaiters)
       \/ /\ pc[Pv] = "stop_stream" /\ pc[Usb] = "idle"
          /\ pc' = [pc EXCEPT ![Pv] = "exit", ![Usb] = "off"]
    /\ UNCHANGED <<fields, buffers, call, others>>

PvStep ==
    \/ PvOpenStream \/ PvClear \/ PvCreateCaptureThread \/ PvLoop \/ PvTake
    \/ PvDecode \/ PvDecoded \/ draw_preview_one \/ addCaptureFrame
    \/ PvStopStreaming
-----------------------------------------------------------------------------
(* Capture threads: capture_thread_func, do_capture.                       *)

CapClear(t) ==
    /\ Jump(t, "clear", "loop")
    /\ clearCaptureFrame
    /\ UNCHANGED <<fields, previewFrames, local, content, call, others>>

\* do_capture's loop: mIsCapturing is set without the mutex.
do_capture(t) ==
    /\ Jump(t, "loop", IF mIsRunning THEN "choose" ELSE "exit")
    /\ mIsCapturing' = (mIsCapturing \/ mIsRunning)
    /\ UNCHANGED <<mIsRunning, windows, mFrameCallbackObj, capture_thread,
                   buffers, call, others>>

\* do_capture_surface or do_capture_idle_loop
CapChoose(t) ==
    /\ Jump(t, "choose", "body")
    /\ surface' = IF mCaptureWindow # NULL THEN surface \cup {t} ELSE surface
    /\ UNCHANGED <<fields, buffers, call, process, seq, delivered>>

\* The condition of either loop, and waitCaptureFrame as far as its only
\* wait: neither flag is read again before it.
CapLoop(t) ==
    /\ \/ Jump(t, "body", IF mIsRunning /\ mIsCapturing THEN "wait"
                          ELSE IF t \in surface THEN "leave" ELSE "broadcast")
       \/ Jump(t, "wait", "parked") /\ captureQueu = NULL
    /\ UNCHANGED <<fields, buffers, call, others>>

waitCaptureFrame(t) ==
    /\ pc[t] = "woken" \/ (pc[t] = "wait" /\ captureQueu # NULL)
    /\ IF mIsRunning /\ captureQueu # NULL
       THEN /\ MoveCaptureFrame(t)
            /\ Goto(t, IF t \in surface THEN "convert" ELSE "callback")
       ELSE Goto(t, "body") /\ UNCHANGED <<local, captureQueu>>
    /\ UNCHANGED <<fields, pool, previewFrames, content, call, others>>

\* do_capture_surface, lines 816-822: the RGBX buffer is got once and kept.
CapConvert(t) ==
    /\ \/ /\ Jump(t, "convert", "callback")
          /\ ~mIsCapturing
          /\ UNCHANGED <<pool, local>>
       \/ /\ pc[t] = "convert" /\ mIsCapturing
          /\ IF local[<<"converted", t>>] # NULL
             THEN /\ \E next \in {"window", "callback"} : Goto(t, next)
                  /\ UNCHANGED <<pool, local>>
             ELSE \E f \in Frames \cup {NULL} :
                    /\ get_frame(f)
                    /\ local' = [local EXCEPT ![<<"converted", t>>] = f]
                    /\ \/ f # NULL /\ Goto(t, "window")
                       \/ Goto(t, "callback")
    /\ UNCHANGED <<fields, queues, content, call, others>>

\* copyToSurface: mCaptureWindow is read and used without the mutex.
CapCopyToSurface(t) ==
    /\ \/ Jump(t, "window", IF mCaptureWindow # NULL THEN "copying" ELSE "callback")
       \/ Jump(t, "copying", "callback")
    /\ UNCHANGED <<fields, buffers, call, others>>

\* do_capture_callback: no callback; a callback that takes the frame as it
\* is; or one for which it is first converted into another buffer.
CapCallback(t) ==
    /\ \/ /\ Jump(t, "callback", IF mFrameCallbackObj = NULL THEN "recycle" ELSE "call")
          /\ UNCHANGED <<pool, local, content>>
       \/ /\ pc[t] = "callback" /\ mFrameCallbackObj # NULL
          /\ \E f \in Frames \cup {NULL} :
               /\ get_frame(f)
               /\ local' = [local EXCEPT ![<<"callback_frame", t>>] = f]
               /\ content' = [g \in Frames |-> IF g = f THEN content[local[<<"frame", t>>]]
                                                        ELSE content[g]]
               /\ Goto(t, IF f = NULL THEN "recycle" ELSE "converted")
    /\ UNCHANGED <<fields, queues, call, others>>

CapConverted(t) ==
    /\ \E next \in {"call", "recycle"} : Jump(t, "converted", next)
    /\ recycle_frame({local[<<"frame", t>>]})
    /\ local' = [local EXCEPT ![<<"frame", t>>] = local[<<"callback_frame", t>>],
                              ![<<"callback_frame", t>>] = NULL]
    /\ UNCHANGED <<fields, queues, content, call, others>>

\* CallVoidMethod reads mFrameCallbackObj again; JNI aborts on NULL.
CapCall(t) ==
    /\ Jump(t, "call", "onFrame")
    /\ IF mFrameCallbackObj = NULL
       THEN process' = "aborted" /\ UNCHANGED delivered
       ELSE /\ delivered' = [delivered EXCEPT ![t] = content[local[<<"frame", t>>]]]
            /\ UNCHANGED process
    /\ UNCHANGED <<fields, buffers, call, surface, seq>>

CapReturn(t) ==
    /\ Jump(t, "onFrame", "recycle")
    /\ UNCHANGED <<fields, buffers, call, others>>

CapRecycle(t) ==
    /\ Jump(t, "recycle", "body")
    /\ recycle_frame({local[<<"frame", t>>]})
    /\ local' = [local EXCEPT ![<<"frame", t>>] = NULL]
    /\ UNCHANGED <<fields, queues, content, call, others>>

\* The end of do_capture_surface: the window is released, and in a later
\* step forgotten, both without the mutex.
CapLeave(t) ==
    /\ Jump(t, "leave", IF mCaptureWindow # NULL THEN "forget" ELSE "broadcast")
    /\ recycle_frame(NotNull(local[<<"converted", t>>]))
    /\ local' = [local EXCEPT ![<<"converted", t>>] = NULL]
    /\ surface' = surface \ {t}
    /\ UNCHANGED <<fields, queues, content, call, process, seq, delivered>>

CapForget(t) ==
    /\ Jump(t, "forget", "broadcast")
    /\ mCaptureWindow' = NULL
    /\ UNCHANGED <<mIsRunning, mIsCapturing, mPreviewWindow, mFrameCallbackObj,
                   capture_thread, buffers, call, others>>

\* pthread_cond_broadcast without the mutex.
CapBroadcast(t) ==
    /\ JumpAndWake(t, "broadcast", "loop", CaptureWaiters)
    /\ UNCHANGED <<fields, buffers, call, others>>

CapStep(t) ==
    \/ CapClear(t) \/ do_capture(t) \/ CapChoose(t) \/ CapLoop(t)
    \/ waitCaptureFrame(t) \/ CapConvert(t) \/ CapCopyToSurface(t)
    \/ CapCallback(t) \/ CapConverted(t) \/ CapCall(t) \/ CapReturn(t)
    \/ CapRecycle(t) \/ CapLeave(t) \/ CapForget(t) \/ CapBroadcast(t)
-----------------------------------------------------------------------------
SpuriousWakeup ==
    /\ Spurious
    /\ \E t \in Threads : Jump(t, "parked", "woken")
    /\ UNCHANGED <<fields, buffers, call, others>>

\* After "deleted" or "aborted" nothing the program does is defined.
Alive == process = "alive"

Next ==
    /\ Alive
    /\ \/ CtrlCall \/ CtrlStep
       \/ UsbFrame \/ UsbStep
       \/ PvStep
       \/ \E t \in CaptureThreads : CapStep(t)
       \/ SpuriousWakeup

Spec == Init /\ [][Next]_vars

\* Every thread is scheduled, and onFrame returns.  Nothing makes the camera
\* send a frame or the application make a call.
Fairness ==
    /\ WF_vars(Alive /\ CtrlStep)
    /\ WF_vars(Alive /\ UsbStep)
    /\ WF_vars(Alive /\ PvStep)
    /\ \A t \in CaptureThreads : WF_vars(Alive /\ CapStep(t))

FairSpec == Spec /\ Fairness

\* ... and a camera that keeps sending, in a process whose allocator does not
\* fail every time.
Copied == UsbCopy /\ pc'[Usb] = "add"
StreamingSpec ==
    /\ FairSpec
    /\ WF_vars(Alive /\ UsbFrame)
    /\ SF_vars(Alive /\ Copied)
-----------------------------------------------------------------------------
CtrlLabels == {"idle", "create", "parked", "woken", "stop", "signal_preview",
               "signal_capture", "join_capture", "join_preview", "clear_preview",
               "clear_capture", "release", "delete"}
UsbLabels == {"off", "idle", "copy", "add", "undo"}
PvLabels == {"off", "prepare", "stream", "clear", "create", "loop", "wait",
             "parked", "woken", "decode", "decoded", "undecodable", "draw",
             "show", "add", "signal", "stop_stream", "exit"}
CapLabels == {"off", "clear", "loop", "choose", "body", "wait", "parked", "woken",
              "convert", "window", "copying", "callback", "converted", "call",
              "onFrame", "recycle", "leave", "forget", "broadcast", "exit"}

FieldTypes ==
    /\ mIsRunning \in BOOLEAN /\ mIsCapturing \in BOOLEAN
    /\ mPreviewWindow \in PreviewWindows \cup {NULL}
    /\ mCaptureWindow \in CaptureWindows \cup {NULL}
    /\ mFrameCallbackObj \in Callbacks \cup {NULL}
    /\ capture_thread \in CaptureThreads \cup {NULL}
    /\ surface \in SUBSET CaptureThreads
    /\ process \in {"alive", "deleted", "aborted"}
    /\ op \in {"none", "display", "callback", "stop", "close", "delete"}
    /\ arg \in CaptureWindows \cup Callbacks \cup {NULL}
    /\ seq \in Nat /\ delivered \in [CaptureThreads -> Nat]
    /\ sessions \in Nat /\ sets \in Nat

BufferTypes ==
    /\ mFramePool \in SUBSET Frames /\ Cardinality(mFramePool) <= FRAME_POOL_SZ
    /\ previewFrames \in Seq(Frames) /\ Len(previewFrames) <= MaxFrame
    /\ captureQueu \in Frames \cup {NULL}
    /\ allocated \in SUBSET Frames
    /\ local \in [Locals \X Threads -> Frames \cup {NULL}]
    /\ content \in [Frames -> Nat]

PcTypes ==
    /\ pc \in [Threads -> CtrlLabels \cup UsbLabels \cup PvLabels \cup CapLabels]
    /\ pc[Ctrl] \in CtrlLabels /\ pc[Usb] \in UsbLabels /\ pc[Pv] \in PvLabels
    /\ \A t \in CaptureThreads : pc[t] \in CapLabels

\* Every variable has its type; previewFrames holds at most MAX_FRAME buffers
\* and the pool at most FRAME_POOL_SZ (addPreviewFrame, recycle_frame).
TypeOK == FieldTypes /\ BufferTypes /\ PcTypes

\* A buffer has one owner: the pool, one place of previewFrames, captureQueu
\* or one local variable of one thread; and an owned buffer is not freed.
\* (get_frame, recycle_frame and every hand-over between the threads.)
FrameOwnership ==
    /\ mFramePool \cap Queued = {}
    /\ captureQueu \notin mFramePool \cup Queued
    /\ \A i, j \in 1..Len(previewFrames) :
          previewFrames[i] = previewFrames[j] => i = j
    /\ \A x \in Locals \X Threads :
          /\ local[x] \notin mFramePool \cup Queued
          /\ local[x] = captureQueu => local[x] = NULL
          /\ \A y \in Locals \X Threads : local[x] = local[y] => x = y \/ local[x] = NULL
    /\ mFramePool \cup Queued \cup NotNull(captureQueu) \subseteq allocated
    /\ \A x \in Locals \X Threads : local[x] \in allocated \cup {NULL}

\* At most one buffer is lost in each session: the one addCaptureFrame is
\* given after stopPreview cleared mIsRunning.
Owned == mFramePool \cup Queued \cup NotNull(captureQueu)
           \cup {local[x] : x \in Locals \X Threads}
LeakBound == Cardinality(allocated \ Owned) <= sessions

\* When stopPreview has returned, and whenever startPreview is about to
\* create a preview thread, the previous one is joined, the stream is
\* stopped and both queues are empty (stopPreview, do_preview).
QuietWhenStopped ==
    (\/ pc[Ctrl] = "create"
     \/ (pc[Ctrl] = "idle" /\ ~mIsRunning))
    => pc[Pv] = "off" /\ pc[Usb] = "off" /\ previewFrames = <<>> /\ captureQueu = NULL

\* Even two capture threads at work together never give onFrame the same
\* frame (waitCaptureFrame empties captureQueu).
SingleDelivery ==
    \A t, u \in CaptureThreads : t # u /\ delivered[t] = delivered[u] => delivered[t] = 0

\* While the preview runs, captureQueu is emptied again: the single wait of
\* waitCaptureFrame loses no broadcast of addCaptureFrame.
CaptureTaken ==
    captureQueu # NULL /\ mIsRunning /\ Alive
        ~> captureQueu = NULL \/ ~mIsRunning \/ ~Alive

\* While the camera keeps sending frames, setCaptureDisplay, setFrameCallback
\* and the calls that begin with it come back from "wait finishing capturing".
SetterReturns == pc[Ctrl] = "parked" ~> pc[Ctrl] # "parked" \/ ~Alive
-----------------------------------------------------------------------------
(* What the comments say and the code does not do.                         *)

\* UVCCamera.stopPreview, "stop preview": the call ends.
StopReturns == pc[Ctrl] = "join_preview" ~> pc[Ctrl] # "join_preview"
=============================================================================

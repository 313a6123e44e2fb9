---------------------------- MODULE CameraHandler ----------------------------
(***************************************************************************)
(* AbstractUVCCameraHandler and its CameraThread, in the form the          *)
(* application uses: UVCCameraHandlerMultiSurface.                         *)
(*                                                                         *)
(*   Looper   CameraThread: takes one message after the other from its     *)
(*            queue and runs the handle... method for it;                  *)
(*   Clients  the threads that call the handler: UI, and USBMonitor's and  *)
(*            BaseActivity's worker threads;                               *)
(*   r        the video encoder's thread of recording r, as far as it calls*)
(*            mMediaEncoderListener.onStopped.                             *)
(*                                                                         *)
(* A section under mSync is one step.  So are a read or a write outside it *)
(* that another thread can separate from its neighbours.  Object.wait is   *)
(* taken to return only when notified.  What UVCPreview and MediaRecording *)
(* model is here a flag (preview) and a state for each recording (rec).    *)
(***************************************************************************)
EXTENDS Integers, Sequences, FiniteSets, MessageQueue

CONSTANTS
    Clients, UI,
    Recordings,  \* identities for recordings; bound on calls of startRecording
    NULL,
    MaxCalls     \* bound: other calls of the handler's methods, and the end of the activity

Looper == "looper"
Threads == Clients \cup {Looper}

ASSUME ConstantsAssumption ==
    /\ UI \in Clients /\ Looper \notin Clients
    /\ IsFiniteSet(Recordings) /\ NULL \notin Recordings \cup Clients
    /\ MaxCalls \in Nat

VARIABLES
    mEncoderType,   \* 0 MediaSurfaceEncoder, 1 MediaVideoEncoder, 2 MediaVideoBufferEncoder
    queue,          \* messages for Looper
    delayed,        \* MSG_MEDIA_UPDATEs in their second of delay
    mReleased,
    mUVCCamera,     \* TRUE: not null
    preview,        \* the native preview runs
    mIsPreviewing, mIsRecording,
    mMuxer,         \* the recording it belongs to, or NULL
    rec,            \* what has become of each recording
    viewEncoder,    \* recording whose encoder the camera view was last told to feed
    capture,        \* recording whose surface is the camera's capture display
    pc, op,         \* where each thread is, and the call or message it is in
    muxer,          \* Looper's local muxer
    lock,           \* the client inside the synchronized release()
    parentGone,     \* the activity is destroyed
    calls, starts   \* calls counted against MaxCalls and Recordings

messages == <<queue, delayed>>
camera == <<mUVCCamera, preview, mIsPreviewing>>
recording == <<mIsRecording, mMuxer, rec, viewEncoder, capture, muxer>>
outside == <<mEncoderType, parentGone, calls, starts>>
vars == <<messages, mReleased, camera, recording, pc, op, lock, outside>>

Goto(t, label) == pc' = [pc EXCEPT ![t] = label]
Jump(t, from, to) == pc[t] = from /\ Goto(t, to)

Init ==
    /\ mEncoderType \in 0..2
    /\ queue = <<>> /\ delayed = 0
    /\ mReleased = FALSE
    /\ mUVCCamera = FALSE /\ preview = FALSE /\ mIsPreviewing = FALSE
    /\ mIsRecording = FALSE /\ mMuxer = NULL /\ muxer = NULL
    /\ rec = [r \in Recordings |-> "none"]
    /\ viewEncoder = NULL /\ capture = NULL
    /\ pc = [t \in Threads |-> "idle"] /\ op = [t \in Threads |-> "none"]
    /\ lock = NULL /\ parentGone = FALSE
    /\ calls = 0 /\ starts = 0

-----------------------------------------------------------------------------
(* Forms of the operators below that a plausible slip would give; the      *)
(* checked properties must reject them.                                    *)

\* A handler whose looper has quit drops what is sent to it.
SentAnyway(q, m) == Append(q, m)
Sent(q, m) == IF pc[Looper] = "ended" THEN q ELSE Append(q, m)

\* handleStartRecording needs a camera and no other recording.
MayRecordTwice == mUVCCamera
MayRecord == mUVCCamera /\ mMuxer = NULL

\* handleOpen, handleClose and handleRelease stop the recording first.
StopFirst(m) == "stop recording"

\* handleStopRecording takes the encoder away from the view before it stops
\* the muxer.
DetachedNever == UNCHANGED viewEncoder
Detached == viewEncoder' = NULL

\* handleClose stops the preview of the camera it has taken out of mUVCCamera.
DestroyedRunning == UNCHANGED preview
Destroyed == preview' = FALSE

\* handleStopPreview stops the preview of the camera, when there is one, before
\* it notifies those who wait for it.
NotifiedRunning == preview
Stopped == preview /\ ~(mIsPreviewing /\ mUVCCamera)

\* handleUpdateMedia calls handleRelease when the handler is released.
ReleasesIfParentGone == parentGone
Releases == mReleased \/ parentGone
-----------------------------------------------------------------------------
(* Clients.                                                                *)

Begin == calls < MaxCalls /\ calls' = calls + 1 /\ UNCHANGED starts

Send(c, m) ==
    /\ pc[c] = "idle"
    /\ queue' = Sent(queue, m)
    /\ UNCHANGED <<delayed, mReleased, camera, recording, pc, op, lock, mEncoderType, parentGone>>

checkReleased == ~mReleased

open(c) == Begin /\ checkReleased /\ Send(c, "OPEN")

\* synchronized, as release is
startPreview(c) ==
    Begin /\ lock = NULL /\ checkReleased /\ Send(c, "PREVIEW_START")

\* captureStill() sends MSG_CAPTURE_STILL, captureStill(path) a Runnable.
captureStill(c) ==
    \E m \in {"CAPTURE_STILL", "STILL_TASK"} : Begin /\ checkReleased /\ Send(c, m)

startRecording(c) ==
    /\ checkReleased
    /\ starts < Cardinality(Recordings) /\ starts' = starts + 1 /\ UNCHANGED calls
    /\ Send(c, "CAPTURE_START")

stopRecording(c) == Begin /\ Send(c, "CAPTURE_STOP")

\* The calls that wait for the preview to end go on from label to label.
Call(c, call, label) ==
    /\ Begin /\ pc[c] = "idle"
    /\ op' = [op EXCEPT ![c] = call]
    /\ Goto(c, label)
    /\ UNCHANGED <<messages, camera, recording, mEncoderType, parentGone>>

stopPreview(c) == Call(c, "stopPreview", "stop") /\ UNCHANGED <<mReleased, lock>>
close(c) == Call(c, "close", "is opened") /\ UNCHANGED <<mReleased, lock>>
release(c) ==
    lock = NULL /\ Call(c, "release", "is opened") /\ mReleased' = TRUE /\ lock' = c

CallStep(c) ==
    open(c) \/ startPreview(c) \/ captureStill(c) \/ startRecording(c) \/ stopRecording(c)
      \/ stopPreview(c) \/ close(c) \/ release(c)

NotOpened(c) == IF op[c] = "release" THEN "finish" ELSE "idle"

\* isOpened and isPreviewing each look under mSync.
Look(c) ==
    /\ \/ Jump(c, "is opened", IF mUVCCamera THEN "stop" ELSE NotOpened(c))
       \/ Jump(c, "check", IF mUVCCamera /\ mIsPreviewing THEN "post" ELSE "stopped")
    /\ UNCHANGED <<messages, mReleased, camera, recording, op, lock, outside>>

\* removeMessages(MSG_PREVIEW_START) and stopRecording()
StopBegin(c) ==
    /\ Jump(c, "stop", "check")
    /\ queue' = Sent(removeMessages(queue, {"PREVIEW_START"}), "CAPTURE_STOP")
    /\ UNCHANGED <<delayed, mReleased, camera, recording, op, lock, outside>>

\* Sending MSG_PREVIEW_STOP and mSync.wait in one section; nothing is looked
\* at again.
StopWait(c) ==
    /\ Jump(c, "post", "waiting")
    /\ queue' = Sent(queue, "PREVIEW_STOP")
    /\ UNCHANGED <<delayed, mReleased, camera, recording, op, lock, outside>>

\* stopPreview returns; close and release send MSG_CLOSE.
StopReturn(c) ==
    /\ Jump(c, "stopped", NotOpened(c))
    /\ queue' = IF op[c] = "stopPreview" THEN queue ELSE Sent(queue, "CLOSE")
    /\ UNCHANGED <<delayed, mReleased, camera, recording, op, lock, outside>>

ReleaseFinish(c) ==
    /\ Jump(c, "finish", "idle")
    /\ queue' = Sent(queue, "RELEASE")
    /\ lock' = NULL
    /\ UNCHANGED <<delayed, mReleased, camera, recording, op, outside>>

ClientStep(c) == Look(c) \/ StopBegin(c) \/ StopWait(c) \/ StopReturn(c) \/ ReleaseFinish(c)
-----------------------------------------------------------------------------
(* Looper: handleMessage.                                                  *)

\* Where the method for a message begins.
Entry(m) ==
    CASE m \in {"OPEN", "CLOSE", "RELEASE", "CAPTURE_STOP"} -> StopFirst(m)
      [] m = "PREVIEW_START" -> "start preview"
      [] m = "PREVIEW_STOP"  -> "stop preview"
      [] m = "CAPTURE_STILL" -> "still"
      [] m = "STILL_TASK"    -> "still task"
      [] m = "CAPTURE_START" -> "start recording"
      [] OTHER               -> "update"

handleMessage ==
    /\ pc[Looper] = "idle" /\ queue # <<>>
    /\ queue' = Tail(queue)
    /\ op' = [op EXCEPT ![Looper] = Head(queue)]
    /\ Goto(Looper, Entry(Head(queue)))
    /\ UNCHANGED <<delayed, mReleased, camera, recording, lock, outside>>

\* stopCapture is called inside the section.
handleStopRecording ==
    /\ Jump(Looper, "stop recording", "detach")
    /\ muxer' = mMuxer /\ mMuxer' = NULL
    /\ capture' = IF mUVCCamera THEN NULL ELSE capture
    /\ UNCHANGED <<messages, mReleased, camera, mIsRecording, rec, viewEncoder, op, lock, outside>>

AfterStop == IF op[Looper] = "CAPTURE_STOP" THEN "idle" ELSE "close"

DetachView ==
    /\ Jump(Looper, "detach", IF muxer = NULL THEN AfterStop ELSE "stop muxer")
    /\ Detached
    /\ UNCHANGED <<messages, mReleased, camera, mIsRecording, mMuxer, rec, capture, muxer,
                   op, lock, outside>>

\* muxer.stopRecording, then mUVCCamera.setFrameCallback(null, 0) outside mSync
StopMuxer ==
    /\ Jump(Looper, "stop muxer", IF mUVCCamera THEN AfterStop ELSE "crashed")
    /\ rec' = [rec EXCEPT ![muxer] = "stopping"]
    /\ muxer' = NULL
    /\ UNCHANGED <<messages, mReleased, camera, mIsRecording, mMuxer, viewEncoder, capture,
                   op, lock, outside>>

AfterClose ==
    CASE op[Looper] = "OPEN" -> "open" [] op[Looper] = "CLOSE" -> "idle" [] OTHER -> "quit"

\* handleClose leaves mIsPreviewing as it is.
handleClose ==
    /\ Jump(Looper, "close", IF mUVCCamera THEN "destroy" ELSE AfterClose)
    /\ mUVCCamera' = FALSE
    /\ UNCHANGED <<messages, mReleased, preview, mIsPreviewing, recording, op, lock, outside>>

DestroyCamera ==
    /\ Jump(Looper, "destroy", AfterClose)
    /\ Destroyed
    /\ UNCHANGED <<messages, mReleased, mUVCCamera, mIsPreviewing, recording, op, lock, outside>>

\* The rest of handleOpen: UVCCamera.open throws when it fails.
handleOpen ==
    /\ Jump(Looper, "open", "idle")
    /\ mUVCCamera' \in BOOLEAN
    /\ UNCHANGED <<messages, mReleased, preview, mIsPreviewing, recording, op, lock, outside>>

\* The rest of handleRelease: without a recording, quit the looper.
handleRelease ==
    /\ IF mIsRecording
       THEN Jump(Looper, "quit", "idle") /\ UNCHANGED <<queue, mReleased>>
       ELSE Jump(Looper, "quit", "ended") /\ queue' = <<>> /\ mReleased' = TRUE
    /\ UNCHANGED <<delayed, camera, recording, op, lock, outside>>

\* setPreviewSize may fail twice; the result of nativeStartPreview is not
\* looked at.
handleStartPreview ==
    /\ \/ Jump(Looper, "start preview", "idle") /\ UNCHANGED preview
       \/ /\ mUVCCamera /\ ~mIsPreviewing
          /\ Jump(Looper, "start preview", "previewing")
          /\ preview' \in BOOLEAN
    /\ UNCHANGED <<messages, mReleased, mUVCCamera, mIsPreviewing, recording, op, lock, outside>>

PreviewStarted ==
    /\ Jump(Looper, "previewing", "idle")
    /\ mIsPreviewing' = TRUE
    /\ UNCHANGED <<messages, mReleased, mUVCCamera, preview, recording, op, lock, outside>>

handleStopPreview ==
    /\ Jump(Looper, "stop preview", IF mIsPreviewing THEN "notify" ELSE "idle")
    /\ preview' = Stopped
    /\ UNCHANGED <<messages, mReleased, mUVCCamera, mIsPreviewing, recording, op, lock, outside>>

\* mIsPreviewing = false; mSync.notifyAll()
PreviewStopped ==
    /\ pc[Looper] = "notify"
    /\ pc' = [t \in Threads |-> IF t = Looper THEN "idle"
                                ELSE IF pc[t] = "waiting" THEN "stopped" ELSE pc[t]]
    /\ mIsPreviewing' = FALSE
    /\ UNCHANGED <<messages, mReleased, mUVCCamera, preview, recording, op, lock, outside>>

\* captureStillImage waits for the view's next onSurfaceTextureUpdated, which
\* is called on the UI thread when a picture has been drawn.
handleCaptureStill ==
    /\ Jump(Looper, "still", "idle")
    /\ \/ preview /\ pc[UI] = "idle" /\ queue' \in {queue, Append(queue, "MEDIA_UPDATE")}
       \/ parentGone /\ UNCHANGED queue
    /\ UNCHANGED <<delayed, mReleased, camera, recording, op, lock, outside>>

\* synchronized; release() has set mRendererHolder to null
StillTask ==
    /\ Jump(Looper, "still task", "idle") /\ lock = NULL
    /\ queue' = IF mReleased THEN queue ELSE Append(queue, "MEDIA_UPDATE")
    /\ UNCHANGED <<delayed, mReleased, camera, recording, op, lock, outside>>

handleUpdateMedia ==
    /\ Jump(Looper, "update", IF Releases THEN "stop recording" ELSE "idle")
    /\ op' = [op EXCEPT ![Looper] = "RELEASE"]
    /\ UNCHANGED <<messages, mReleased, camera, recording, lock, outside>>

\* Prepare the video encoder, which may throw; its onPrepared sets mIsRecording
\* and attaches it.
handleStartRecording ==
    /\ \/ Jump(Looper, "start recording", "idle") /\ ~MayRecord /\ UNCHANGED <<rec, mIsRecording, muxer>>
       \/ /\ pc[Looper] = "start recording" /\ MayRecord
          /\ \E r \in Recordings :
               /\ rec[r] = "none" /\ r = CHOOSE s \in Recordings : rec[s] = "none"
               /\ \/ /\ Goto(Looper, "idle")
                     /\ rec' = [rec EXCEPT ![r] = "failed"]
                     /\ UNCHANGED <<mIsRecording, muxer>>
                  \/ /\ Goto(Looper, IF mEncoderType = 2 THEN "record" ELSE "attach")
                     /\ rec' = [rec EXCEPT ![r] = "prepared"]
                     /\ mIsRecording' = TRUE
                     /\ muxer' = r
    /\ UNCHANGED <<messages, mReleased, camera, mMuxer, viewEncoder, capture, op, lock, outside>>

\* setVideoEncoder, and startCapture of the surface encoder
onPrepared ==
    /\ \/ /\ Jump(Looper, "attach", IF mEncoderType = 0 THEN "capture" ELSE "record")
          /\ viewEncoder' = muxer /\ UNCHANGED capture
       \/ /\ Jump(Looper, "capture", "record")
          /\ capture' = muxer /\ UNCHANGED viewEncoder
    /\ UNCHANGED <<messages, mReleased, camera, mIsRecording, mMuxer, rec, muxer, op, lock, outside>>

\* The audio encoder has been prepared, with or without a codec, and onPrepared
\* has set mIsRecording again; muxer.startRecording; mMuxer = muxer.
Record ==
    /\ Jump(Looper, "record", "idle")
    /\ \/ rec' = [rec EXCEPT ![muxer] = "running"] /\ mMuxer' = muxer
          /\ mIsRecording' \in {TRUE, mIsRecording}
       \/ rec' = [rec EXCEPT ![muxer] = "failed"] /\ UNCHANGED <<mMuxer, mIsRecording>>
    /\ muxer' = NULL
    /\ UNCHANGED <<messages, mReleased, camera, viewEncoder, capture, op, lock, outside>>

LooperStep ==
    \/ handleMessage
    \/ handleStopRecording \/ DetachView \/ StopMuxer
    \/ handleClose \/ DestroyCamera \/ handleOpen \/ handleRelease
    \/ handleStartPreview \/ PreviewStarted \/ handleStopPreview \/ PreviewStopped
    \/ handleCaptureStill \/ StillTask \/ handleUpdateMedia
    \/ handleStartRecording \/ onPrepared \/ Record
-----------------------------------------------------------------------------
(* The video encoder's thread: onStopped.  It does nothing for a           *)
(* MediaVideoBufferEncoder.                                                *)

After(r, from, to) == rec[r] = from /\ rec' = [rec EXCEPT ![r] = to]

onStopped(r) ==
    /\ \/ /\ mEncoderType = 2 /\ After(r, "stopping", "done")
          /\ UNCHANGED <<mIsRecording, viewEncoder, capture, delayed>>
       \/ /\ mEncoderType # 2 /\ After(r, "stopping", "stopped")
          /\ mIsRecording' = FALSE
          /\ UNCHANGED <<viewEncoder, capture, delayed>>
       \/ /\ After(r, "stopped", "off view")
          /\ viewEncoder' = NULL
          /\ UNCHANGED <<mIsRecording, capture, delayed>>
       \/ /\ After(r, "off view", "off camera")
          /\ capture' = IF mUVCCamera THEN NULL ELSE capture
          /\ UNCHANGED <<mIsRecording, viewEncoder, delayed>>
       \/ /\ After(r, "off camera", "done")
          /\ delayed' = IF pc[Looper] = "ended" THEN delayed ELSE delayed + 1
          /\ UNCHANGED <<mIsRecording, viewEncoder, capture>>
    /\ UNCHANGED <<queue, mReleased, camera, mMuxer, muxer, pc, op, lock, outside>>

\* The second is over.
MediaUpdateDue ==
    /\ delayed > 0 /\ delayed' = delayed - 1
    /\ queue' = Sent(queue, "MEDIA_UPDATE")
    /\ UNCHANGED <<mReleased, camera, recording, pc, op, lock, outside>>

ParentDestroyed ==
    /\ ~parentGone /\ parentGone' = TRUE
    /\ calls < MaxCalls /\ calls' = calls + 1
    /\ UNCHANGED <<messages, mReleased, camera, recording, pc, op, lock, mEncoderType, starts>>
-----------------------------------------------------------------------------
Next ==
    \/ \E c \in Clients : CallStep(c) \/ ClientStep(c)
    \/ LooperStep
    \/ \E r \in Recordings : onStopped(r)
    \/ MediaUpdateDue
    \/ ParentDestroyed

Spec == Init /\ [][Next]_vars

\* Every thread is scheduled, the view draws while the preview runs and the UI
\* thread is free, and an encoder that is asked to stop stops.
Fairness ==
    /\ \A c \in Clients : WF_vars(ClientStep(c))
    /\ WF_vars(LooperStep)
    /\ \A r \in Recordings : WF_vars(onStopped(r))
    /\ WF_vars(MediaUpdateDue)

FairSpec == Spec /\ Fairness
-----------------------------------------------------------------------------
Messages == {"OPEN", "CLOSE", "PREVIEW_START", "PREVIEW_STOP", "CAPTURE_STILL", "STILL_TASK",
             "CAPTURE_START", "CAPTURE_STOP", "MEDIA_UPDATE", "RELEASE"}
ClientLabels == {"idle", "is opened", "stop", "check", "post", "waiting", "stopped", "finish"}
LooperLabels == {"idle", "stop recording", "detach", "stop muxer", "crashed", "close", "destroy",
                 "open", "quit", "ended", "start preview", "previewing", "stop preview", "notify",
                 "still", "still task", "update", "start recording", "attach", "capture", "record"}
RecStates == {"none", "prepared", "failed", "running", "stopping", "stopped", "off view",
              "off camera", "done"}

\* Every variable has its type, and a looper that has quit has no messages
\* (Looper.quit in handleRelease).
TypeOK ==
    /\ mEncoderType \in 0..2
    /\ queue \in Seq(Messages) /\ (pc[Looper] = "ended" => queue = <<>>)
    /\ delayed \in Nat
    /\ {mReleased, mUVCCamera, preview, mIsPreviewing, mIsRecording, parentGone} \subseteq BOOLEAN
    /\ rec \in [Recordings -> RecStates]
    /\ {mMuxer, muxer, viewEncoder, capture} \subseteq Recordings \cup {NULL}
    /\ pc[Looper] \in LooperLabels /\ \A c \in Clients : pc[c] \in ClientLabels
    /\ DOMAIN pc = Threads
    /\ op \in [Threads -> Messages \cup {"none", "stopPreview", "close", "release"}]
    /\ lock \in Clients \cup {NULL}
    /\ calls \in Nat /\ starts \in Nat

\* Whatever the order of calls, no recording is forgotten while it runs:
\* mMuxer holds it until handleStopRecording stops it.
NoLostRecording ==
    \A r \in Recordings : rec[r] = "running" =>
        \/ r = mMuxer
        \/ r = muxer /\ pc[Looper] \in {"detach", "stop muxer"}

\* handleStopRecording finds the camera when it calls setFrameCallback after
\* it has left mSync.
CameraOutlivesRecording == pc[Looper] # "crashed"

\* An encoder is stopped only after the view and the camera have let it go,
\* and neither gets it back.
EncoderDetached ==
    \A r \in Recordings : rec[r] \in RecStates \ {"none", "prepared", "failed", "running"} =>
        viewEncoder # r /\ capture # r

\* A preview that runs is known to isPreviewing, so that somebody can stop it:
\* it has the camera and the flag, except inside the method that is about to
\* set the flag or to destroy the camera.
NoHiddenPreview ==
    preview => /\ mIsPreviewing \/ pc[Looper] = "previewing"
               /\ mUVCCamera \/ pc[Looper] = "destroy"

\* A released handler's thread ends, when it has to wait for the end of a
\* recording as well; unless it waits in captureStill for ever, prepare has
\* failed, or the encoder is of the type that onStopped ignores.
ReleaseEnds ==
    \/ (\E i \in 1..Len(queue) : queue[i] = "RELEASE") ~> pc[Looper] = "ended"
    \/ <>[](pc[Looper] \in {"still", "still task"})
    \/ <>(\E r \in Recordings : rec[r] = "failed")
    \/ mEncoderType = 2

\* stopPreview, "wait for actually preview stopped": a caller that had to wait is
\* woken only when no preview runs, so that it may release the surface.
WokenWhenStopped ==
    [][\A c \in Clients : pc[c] = "waiting" /\ pc'[c] # "waiting" => ~preview']_vars

\* onStopped clears the view's encoder whoever's it is.  That is the only way a
\* recording that can still be stopped loses its picture: the encoder of another
\* recording ends late.
RecordingFed ==
    mEncoderType # 2 =>
        \A r \in Recordings : rec[r] = "running" /\ mMuxer = r =>
            \/ viewEncoder = r
            \/ \E s \in Recordings \ {r} : rec[s] \in {"off view", "off camera", "done"}
=============================================================================

------------------------- MODULE CameraHandler_proofs -------------------------
(***************************************************************************)
(* Proofs about CameraHandler, for any number of clients, recordings and   *)
(* calls.  What is in the queue plays no part in them: whatever messages   *)
(* come in whatever order, each method leaves the camera, the recording    *)
(* and the flags in a state that every other method can start from.        *)
(***************************************************************************)
EXTENDS CameraHandler, MessageQueue_proofs, TLAPS

StateTypes ==
    /\ pc \in [Threads -> ClientLabels \cup LooperLabels]
    /\ pc[Looper] \in LooperLabels
    /\ rec \in [Recordings -> RecStates]
    /\ mUVCCamera \in BOOLEAN /\ preview \in BOOLEAN /\ mIsPreviewing \in BOOLEAN
    /\ mMuxer \in Recordings \cup {NULL} /\ muxer \in Recordings \cup {NULL}
    /\ viewEncoder \in Recordings \cup {NULL} /\ capture \in Recordings \cup {NULL}

Preparing == {"attach", "capture", "record"}
Stopping == {"detach", "stop muxer"}
Closing == {"close", "destroy", "open", "quit", "ended"}

\* Which recording mMuxer and the local muxer stand for, and who has none.
Muxers ==
    /\ mMuxer # NULL => rec[mMuxer] = "running" /\ mUVCCamera
    /\ muxer # NULL => pc[Looper] \in Preparing \cup Stopping /\ mUVCCamera
    /\ pc[Looper] \in Preparing => muxer # NULL /\ rec[muxer] = "prepared"
    /\ pc[Looper] \in Stopping => (muxer # NULL => rec[muxer] = "running")
    /\ pc[Looper] = "stop muxer" => muxer # NULL
    /\ pc[Looper] \in Preparing \cup Stopping \cup Closing => mMuxer = NULL
    /\ pc[Looper] \in {"destroy", "open", "quit", "ended"} => ~mUVCCamera

\* What the view and the camera feed has not been asked to stop.
Feeds ==
    /\ viewEncoder # NULL => rec[viewEncoder] \in {"prepared", "failed", "running"}
    /\ capture # NULL => rec[capture] \in {"prepared", "failed", "running"}
    /\ pc[Looper] \in Stopping /\ muxer # NULL => capture = NULL
    /\ pc[Looper] = "stop muxer" => viewEncoder = NULL

Flags ==
    /\ pc[Looper] = "previewing" => mUVCCamera
    /\ pc[Looper] = "notify" => ~preview

IndInv ==
    /\ StateTypes /\ Muxers /\ Feeds /\ Flags
    /\ NoLostRecording /\ CameraOutlivesRecording /\ NoHiddenPreview

LEMMA Names == NULL \notin Recordings /\ Looper \in Threads /\ Looper \notin Clients
BY ConstantsAssumption DEF Threads

LEMMA InitInd == Init => IndInv
BY Names DEF Init, IndInv, StateTypes, Muxers, Feeds, Flags, NoLostRecording,
             CameraOutlivesRecording, NoHiddenPreview, ClientLabels, LooperLabels, RecStates,
             Preparing, Stopping, Closing

\* What the invariant looks at, Looper's place included.
seen == <<pc[Looper], rec, mUVCCamera, preview, mIsPreviewing, mMuxer, muxer, viewEncoder, capture>>

LEMMA SeenSame ==
  ASSUME IndInv, UNCHANGED seen, pc' \in [Threads -> ClientLabels \cup LooperLabels]
  PROVE  IndInv'
BY DEF IndInv, StateTypes, Muxers, Feeds, Flags, NoLostRecording, CameraOutlivesRecording,
       NoHiddenPreview, seen

\* A client moves nothing but its own place.
LEMMA ClientInd ==
  ASSUME IndInv, NEW c \in Clients, CallStep(c) \/ ClientStep(c)
  PROVE  IndInv'
<1> USE Names DEF IndInv, StateTypes
<1> c \in Threads /\ c # Looper
  BY DEF Threads
<1>1. ASSUME CallStep(c) PROVE UNCHANGED seen /\ pc' \in [Threads -> ClientLabels \cup LooperLabels]
  <2>1. CASE UNCHANGED <<camera, recording, pc>>
    BY <2>1 DEF seen, camera, recording
  <2>2. ASSUME NEW call, NEW label \in ClientLabels, Call(c, call, label)
        PROVE  UNCHANGED seen /\ pc' \in [Threads -> ClientLabels \cup LooperLabels]
    BY <2>2 DEF Call, Goto, seen, camera, recording
  <2>3. {"stop", "is opened"} \subseteq ClientLabels
    BY DEF ClientLabels
  <2> QED
    BY <1>1, <2>1, <2>2, <2>3 DEF CallStep, open, startPreview, captureStill, startRecording,
       stopRecording, stopPreview, close, release, Send
<1>2. ASSUME ClientStep(c) PROVE UNCHANGED seen /\ pc' \in [Threads -> ClientLabels \cup LooperLabels]
  <2>1. ASSUME NEW from, NEW to \in ClientLabels, Jump(c, from, to), UNCHANGED <<camera, recording>>
        PROVE  UNCHANGED seen /\ pc' \in [Threads -> ClientLabels \cup LooperLabels]
    BY <2>1 DEF Jump, Goto, seen, camera, recording
  <2>2. NotOpened(c) \in ClientLabels
    BY DEF NotOpened, ClientLabels
  <2>3. {"idle", "stop", "check", "post", "waiting", "stopped"} \subseteq ClientLabels
    BY DEF ClientLabels
  <2> QED
    BY <1>2, <2>1, <2>2, <2>3 DEF ClientStep, Look, StopBegin, StopWait, StopReturn, ReleaseFinish
<1> HIDE DEF IndInv, StateTypes
<1> QED
  BY <1>1, <1>2, SeenSame

LEMMA LooperInd == IndInv /\ LooperStep => IndInv'
<1> SUFFICES ASSUME IndInv, LooperStep PROVE IndInv'
  OBVIOUS
<1> USE Names DEF IndInv, StateTypes, Muxers, Feeds, Flags, NoLostRecording,
                  CameraOutlivesRecording, NoHiddenPreview, Preparing, Stopping, Closing,
                  Jump, Goto, messages, camera, recording, outside, LooperLabels, RecStates
<1>0. AfterClose \in {"open", "idle", "quit"}
  BY DEF AfterClose
<1>1. CASE handleMessage
  <2>1. Entry(Head(queue)) \in {"stop recording", "start preview", "stop preview", "still",
                                "still task", "start recording", "update"}
    BY DEF Entry, StopFirst
  <2> DEFINE entry == Entry(Head(queue))
  <2> HIDE DEF entry
  <2>2. /\ pc[Looper] = "idle" /\ pc' = [pc EXCEPT ![Looper] = entry]
        /\ entry \in {"stop recording", "start preview", "stop preview", "still",
                      "still task", "start recording", "update"}
        /\ UNCHANGED <<camera, recording>>
    BY <1>1, <2>1 DEF handleMessage, entry
  <2> QED
    BY ZenonT(60), <2>2
<1>2. CASE handleStopRecording
  BY <1>2 DEF handleStopRecording
<1>3. CASE DetachView
  BY <1>3 DEF DetachView, Detached, AfterStop
<1>4. CASE StopMuxer
  BY <1>4 DEF StopMuxer, AfterStop
<1>5. CASE handleClose
  BY <1>5, <1>0 DEF handleClose
<1>6. CASE DestroyCamera
  BY <1>6, <1>0 DEF DestroyCamera, Destroyed
<1>7. CASE handleOpen
  BY <1>7 DEF handleOpen
<1>8. CASE handleRelease
  BY <1>8 DEF handleRelease
<1>9. CASE handleStartPreview
  <2>1. CASE pc' = [pc EXCEPT ![Looper] = "idle"] /\ preview' = preview
    BY <1>9, <2>1 DEF handleStartPreview
  <2>2. CASE mUVCCamera /\ pc' = [pc EXCEPT ![Looper] = "previewing"] /\ preview' \in BOOLEAN
    BY <1>9, <2>2 DEF handleStartPreview
  <2> QED
    BY <1>9, <2>1, <2>2 DEF handleStartPreview
<1>10. CASE PreviewStarted
  BY <1>10 DEF PreviewStarted
<1>11. CASE handleStopPreview
  BY <1>11 DEF handleStopPreview, Stopped
<1>12. CASE PreviewStopped
  <2>1. pc'[Looper] = "idle" /\ pc' \in [Threads -> ClientLabels \cup LooperLabels]
    BY <1>12 DEF PreviewStopped, ClientLabels
  <2> QED
    BY <1>12, <2>1 DEF PreviewStopped
<1>13. CASE handleCaptureStill \/ StillTask \/ handleUpdateMedia
  <2>1. /\ pc[Looper] \in {"still", "still task", "update"}
        /\ \E l \in {"idle", "stop recording"} : pc' = [pc EXCEPT ![Looper] = l]
        /\ UNCHANGED <<camera, recording>>
    <3>1. CASE handleCaptureStill
      BY <3>1 DEF handleCaptureStill
    <3>2. CASE StillTask
      BY <3>2 DEF StillTask
    <3>3. CASE handleUpdateMedia
      BY <3>3 DEF handleUpdateMedia
    <3> QED
      BY <1>13, <3>1, <3>2, <3>3
  <2>2. pc'[Looper] \in {"idle", "stop recording"} /\ pc' \in [Threads -> ClientLabels \cup LooperLabels]
    BY <2>1
  <2> QED
    BY ZenonT(60), <2>1, <2>2
<1>14. CASE handleStartRecording
  <2>1. CASE UNCHANGED <<rec, muxer>> /\ pc' = [pc EXCEPT ![Looper] = "idle"]
    BY <1>14, <2>1 DEF handleStartRecording
  <2>2. ASSUME NEW r \in Recordings, rec[r] = "none", MayRecord, pc[Looper] = "start recording",
               \/ /\ pc' = [pc EXCEPT ![Looper] = "idle"]
                  /\ rec' = [rec EXCEPT ![r] = "failed"] /\ muxer' = muxer
               \/ /\ \E l \in {"record", "attach"} : pc' = [pc EXCEPT ![Looper] = l]
                  /\ rec' = [rec EXCEPT ![r] = "prepared"] /\ muxer' = r
        PROVE  IndInv'
    <3>1. UNCHANGED <<camera, mMuxer, viewEncoder, capture>>
      BY <1>14 DEF handleStartRecording
    <3> QED
      BY ZenonT(60), <2>2, <3>1 DEF MayRecord
  <2> QED
    BY <1>14, <2>1, <2>2 DEF handleStartRecording
<1>15. CASE onPrepared
  BY <1>15 DEF onPrepared
<1>16. CASE Record
  BY ZenonT(60), <1>16 DEF Record
<1> QED
  BY <1>1, <1>2, <1>3, <1>4, <1>5, <1>6, <1>7, <1>8, <1>9, <1>10, <1>11, <1>12, <1>13, <1>14,
     <1>15, <1>16 DEF LooperStep

\* onStopped moves a recording from one state after the stop to the next, and
\* can only take something away from the view and the camera.
LEMMA EncoderInd ==
  ASSUME IndInv, NEW r \in Recordings, onStopped(r)
  PROVE  IndInv'
<1> USE Names DEF IndInv, StateTypes
<1>1. /\ rec[r] \in {"stopping", "stopped", "off view", "off camera"}
      /\ \E s \in {"stopped", "off view", "off camera", "done"} : rec' = [rec EXCEPT ![r] = s]
      /\ viewEncoder' \in {viewEncoder, NULL} /\ capture' \in {capture, NULL}
      /\ UNCHANGED <<camera, mMuxer, muxer, pc>>
  BY DEF onStopped, After
<1>2. PICK s \in {"stopped", "off view", "off camera", "done"} : rec' = [rec EXCEPT ![r] = s]
  BY <1>1
<1>3. /\ \A q \in Recordings : q # r => rec'[q] = rec[q]
      /\ rec' \in [Recordings -> RecStates] /\ rec'[r] = s
  BY <1>2 DEF RecStates
<1>4. StateTypes'
  BY <1>1, <1>3 DEF camera
<1>5. Muxers'
  BY <1>1, <1>3 DEF Muxers, Preparing, Stopping, Closing, camera
<1>6. Feeds'
  BY <1>1, <1>3 DEF Feeds, Stopping
<1>7. (Flags /\ NoLostRecording /\ CameraOutlivesRecording /\ NoHiddenPreview)'
  BY <1>1, <1>3 DEF Flags, NoLostRecording, CameraOutlivesRecording, NoHiddenPreview, camera
<1> QED
  BY <1>4, <1>5, <1>6, <1>7

LEMMA NextInd == IndInv /\ [Next]_vars => IndInv'
<1>1. ASSUME IndInv, Next PROVE IndInv'
  <2>1. CASE MediaUpdateDue \/ ParentDestroyed
    BY <1>1, <2>1, SeenSame DEF MediaUpdateDue, ParentDestroyed, camera, recording, seen, IndInv, StateTypes
  <2> QED
    BY <1>1, <2>1, ClientInd, LooperInd, EncoderInd DEF Next
<1>2. ASSUME IndInv, UNCHANGED vars PROVE IndInv'
  BY <1>2, SeenSame DEF vars, camera, recording, seen, IndInv, StateTypes
<1> QED
  BY <1>1, <1>2

LEMMA Inductive == Spec => []IndInv
BY InitInd, NextInd, PTL DEF Spec

\* Whatever the order of the calls and messages, a recording that runs is held
\* by mMuxer until handleStopRecording stops it.
THEOREM RecordingKept == Spec => []NoLostRecording
<1>1. IndInv => NoLostRecording
  BY DEF IndInv
<1> QED
  BY <1>1, Inductive, PTL

\* handleStopRecording finds the camera when it calls setFrameCallback.
THEOREM CameraThere == Spec => []CameraOutlivesRecording
<1>1. IndInv => CameraOutlivesRecording
  BY DEF IndInv
<1> QED
  BY <1>1, Inductive, PTL

\* The view and the camera let an encoder go before handleStopRecording stops
\* it, and onStopped gives it back to neither.
THEOREM DetachedFirst == Spec => []EncoderDetached
<1>1. IndInv => EncoderDetached
  BY Names DEF IndInv, StateTypes, Feeds, EncoderDetached, RecStates
<1> QED
  BY <1>1, Inductive, PTL

\* A preview that runs has its flag and its camera, except inside
\* handleStartPreview and handleClose.
THEOREM PreviewKnown == Spec => []NoHiddenPreview
<1>1. IndInv => NoHiddenPreview
  BY DEF IndInv
<1> QED
  BY <1>1, Inductive, PTL

\* A caller that had to wait in stopPreview is woken when the preview has been
\* stopped: only handleStopPreview wakes it, after the stop.
THEOREM WokenAfterStop == Spec => WokenWhenStopped
<1>1. ASSUME IndInv, [Next]_vars, NEW c \in Clients, pc[c] = "waiting", pc'[c] # "waiting"
      PROVE  ~preview'
  <2> USE Names DEF IndInv, StateTypes, Threads
  <2>1. CASE PreviewStopped
    BY <1>1, <2>1 DEF PreviewStopped, Flags
  <2>2. ASSUME NEW t \in Threads, NEW label, pc' = [pc EXCEPT ![t] = label], t # c
        PROVE  FALSE
    BY <1>1, <2>2
  <2>3. CASE LooperStep /\ ~PreviewStopped
    BY <1>1, <2>2, <2>3 DEF LooperStep, handleMessage, handleStopRecording, DetachView, StopMuxer,
       handleClose, DestroyCamera, handleOpen, handleRelease, handleStartPreview, PreviewStarted,
       handleStopPreview, handleCaptureStill, StillTask, handleUpdateMedia, handleStartRecording,
       onPrepared, Record, Jump, Goto
  <2>4. CASE \E d \in Clients : CallStep(d)
    <3>1. PICK d \in Clients : CallStep(d)
      BY <2>4
    <3>2. \/ pc' = pc
          \/ pc[d] = "idle" /\ (\E label : pc' = [pc EXCEPT ![d] = label])
      BY <3>1 DEF CallStep, open, startPreview, captureStill, startRecording, stopRecording,
         stopPreview, close, release, Send, Call, Goto
    <3> QED
      BY <1>1, <2>2, <3>2
  <2>5. CASE \E d \in Clients : ClientStep(d)
    <3>1. PICK d \in Clients : ClientStep(d)
      BY <2>5
    <3>2. pc[d] # "waiting" /\ (\E label : pc' = [pc EXCEPT ![d] = label])
      BY <3>1 DEF ClientStep, Look, StopBegin, StopWait, StopReturn, ReleaseFinish, Jump, Goto
    <3> QED
      BY <1>1, <2>2, <3>2
  <2>6. CASE UNCHANGED pc
    BY <1>1, <2>6
  <2> QED
    BY <1>1, <2>1, <2>3, <2>4, <2>5, <2>6 DEF Next, vars, onStopped, MediaUpdateDue, ParentDestroyed
<1>2. IndInv /\ [Next]_vars =>
        [\A c \in Clients : pc[c] = "waiting" /\ pc'[c] # "waiting" => ~preview']_vars
  BY <1>1
<1> QED
  BY <1>2, Inductive, PTL DEF Spec, WokenWhenStopped
-----------------------------------------------------------------------------
(* Who the view feeds.                                                     *)

Late == {"off view", "off camera", "done"}
Fed(r) == viewEncoder = r \/ (\E s \in Recordings \ {r} : rec[s] \in Late)

\* The recording of mMuxer is fed, and so is the one that has been attached to
\* the view and will become mMuxer.
Feeding ==
    mEncoderType # 2 =>
        /\ mMuxer # NULL => Fed(mMuxer)
        /\ pc[Looper] \in {"capture", "record"} => Fed(muxer)

\* A step that leaves the view alone and gives nobody a new muxer.
LEMMA FeedingKept ==
  ASSUME IndInv, Feeding,
         mEncoderType' = mEncoderType, viewEncoder' = viewEncoder,
         mMuxer' \in {mMuxer, NULL},
         \A s \in Recordings : rec[s] \in Late => rec'[s] \in Late,
         pc'[Looper] \in {"capture", "record"} => muxer' = muxer /\ pc'[Looper] = pc[Looper]
  PROVE  Feeding'
BY DEF Feeding, Fed

LEMMA ClientFeeding ==
  ASSUME IndInv, Feeding, NEW c \in Clients, CallStep(c) \/ ClientStep(c)
  PROVE  Feeding'
<1> USE Names DEF IndInv, StateTypes
<1>1. /\ UNCHANGED <<recording, mEncoderType>>
      /\ \/ pc' = pc
         \/ \E label : pc' = [pc EXCEPT ![c] = label]
  BY DEF CallStep, open, startPreview, captureStill, startRecording, stopRecording, stopPreview,
     close, release, Send, Call, Goto, ClientStep, Look, StopBegin, StopWait, StopReturn,
     ReleaseFinish, Jump, outside
<1>2. pc'[Looper] = pc[Looper]
  BY <1>1
<1> HIDE DEF IndInv, StateTypes
<1> QED
  BY <1>1, <1>2, FeedingKept DEF recording

LEMMA LooperFeeding ==
  ASSUME IndInv, IndInv', Feeding, LooperStep
  PROVE  Feeding'
<1> USE DEF Jump, Goto
<1>0. /\ pc \in [Threads -> ClientLabels \cup LooperLabels] /\ Looper \in Threads
      /\ rec \in [Recordings -> RecStates]
      /\ mMuxer \in Recordings \cup {NULL} /\ muxer \in Recordings \cup {NULL}
      /\ mEncoderType' = mEncoderType
  BY Names DEF IndInv, StateTypes, LooperStep, handleMessage, handleStopRecording, DetachView,
     StopMuxer, handleClose, DestroyCamera, handleOpen, handleRelease, handleStartPreview,
     PreviewStarted, handleStopPreview, PreviewStopped, handleCaptureStill, StillTask,
     handleUpdateMedia, handleStartRecording, onPrepared, Record, outside
<1>1. CASE DetachView
  BY <1>0, <1>1 DEF DetachView, Detached, AfterStop, Feeding, IndInv, Muxers, Stopping
<1>2. CASE onPrepared
  <2>1. mMuxer' = NULL /\ muxer' = muxer /\ rec' = rec
    BY <1>2 DEF onPrepared, IndInv, Muxers, Preparing
  <2>2. \/ viewEncoder' = muxer
        \/ viewEncoder' = viewEncoder /\ pc[Looper] = "capture"
    BY <1>2 DEF onPrepared
  <2> QED
    BY <1>0, <2>1, <2>2 DEF Feeding, Fed
<1>3. CASE Record
  <2>1. /\ pc[Looper] = "record" /\ pc'[Looper] = "idle" /\ viewEncoder' = viewEncoder
        /\ mMuxer' \in {muxer, mMuxer} /\ mMuxer = NULL /\ muxer # NULL /\ rec[muxer] = "prepared"
        /\ \E q \in {"running", "failed"} : rec' = [rec EXCEPT ![muxer] = q]
    BY <1>0, <1>3 DEF Record, IndInv, Muxers, Preparing
  <2>2. \A s \in Recordings : rec[s] \in Late => rec'[s] = rec[s]
    BY <1>0, <2>1 DEF Late
  <2> QED
    BY <1>0, <2>1, <2>2 DEF Feeding, Fed
<1>4. CASE handleStartRecording
  <2>1. /\ UNCHANGED <<mMuxer, viewEncoder>>
        /\ \/ rec' = rec
           \/ \E r \in Recordings, q \in {"failed", "prepared"} :
                  rec[r] = "none" /\ rec' = [rec EXCEPT ![r] = q]
        /\ \E l \in {"idle", "attach", "record"} :
              pc' = [pc EXCEPT ![Looper] = l] /\ (l = "record" => mEncoderType = 2)
    BY <1>0, <1>4 DEF handleStartRecording
  <2>2. \A s \in Recordings : rec[s] \in Late => rec'[s] = rec[s]
    BY <1>0, <2>1 DEF Late
  <2> QED
    BY <1>0, <2>1, <2>2 DEF Feeding, Fed
<1>5. CASE StopMuxer
  <2>1. /\ UNCHANGED <<mMuxer, viewEncoder>>
        /\ muxer # NULL /\ rec[muxer] = "running" /\ rec' = [rec EXCEPT ![muxer] = "stopping"]
        /\ pc'[Looper] \notin {"capture", "record"}
    BY <1>0, <1>5 DEF StopMuxer, AfterStop, IndInv, Muxers, Stopping
  <2> QED
    BY <1>0, <2>1, FeedingKept DEF Late
<1>6. CASE handleMessage
  BY <1>0, <1>6, FeedingKept DEF handleMessage, Entry, StopFirst, recording
<1>7. CASE handleStopRecording
  BY <1>0, <1>7, FeedingKept DEF handleStopRecording
<1>8. CASE handleClose \/ DestroyCamera \/ handleOpen \/ handleRelease
  BY <1>0, <1>8, FeedingKept DEF handleClose, DestroyCamera, handleOpen, handleRelease,
     AfterClose, recording
<1>9. CASE handleStartPreview \/ PreviewStarted \/ handleStopPreview \/ PreviewStopped
  BY <1>0, <1>9, FeedingKept DEF handleStartPreview, PreviewStarted, handleStopPreview,
     PreviewStopped, recording
<1>10. CASE handleCaptureStill \/ StillTask \/ handleUpdateMedia
  BY <1>0, <1>10, FeedingKept DEF handleCaptureStill, StillTask, handleUpdateMedia, recording
<1> QED
  BY <1>1, <1>2, <1>3, <1>4, <1>5, <1>6, <1>7, <1>8, <1>9, <1>10 DEF LooperStep

\* The recording whose onStopped takes the encoder away from the view is late
\* from then on, and is not the one of mMuxer.
LEMMA EncoderFeeding ==
  ASSUME IndInv, Feeding, NEW r \in Recordings, onStopped(r)
  PROVE  Feeding'
<1>1. /\ UNCHANGED <<mMuxer, muxer, pc, mEncoderType>>
      /\ rec \in [Recordings -> RecStates]
      /\ rec[r] \in {"stopping", "stopped", "off view", "off camera"}
      /\ \/ viewEncoder' = viewEncoder
         \/ rec' = [rec EXCEPT ![r] = "off view"]
      /\ \E s \in {"stopped", "off view", "off camera", "done"} :
            rec' = [rec EXCEPT ![r] = s] /\ (rec[r] \in Late => s \in Late)
  BY DEF onStopped, After, outside, IndInv, StateTypes, Late
<1>2. /\ mMuxer # NULL => mMuxer # r
      /\ pc[Looper] \in {"capture", "record"} => muxer # r
  BY <1>1 DEF IndInv, Muxers, Preparing
<1>3. \A s \in Recordings : rec[s] \in Late => rec'[s] \in Late
  BY <1>1
<1>4. CASE viewEncoder' = viewEncoder
  BY <1>1, <1>3, <1>4, FeedingKept
<1>5. CASE rec' = [rec EXCEPT ![r] = "off view"]
  <2>1. rec'[r] \in Late
    BY <1>1, <1>5 DEF Late
  <2> QED
    BY <1>1, <1>2, <2>1 DEF Feeding, Fed
<1> QED
  BY <1>1, <1>4, <1>5

\* A recording that can still be stopped is fed by the view, unless another one
\* has ended late (onStopped).
THEOREM FedUnlessLate == Spec => []RecordingFed
<1>1. Init => Feeding
  BY Names DEF Init, Feeding
<1>2. IndInv /\ IndInv' /\ Feeding /\ [Next]_vars => Feeding'
  <2>1. ASSUME IndInv, IndInv', Feeding, Next PROVE Feeding'
    <3>1. CASE MediaUpdateDue \/ ParentDestroyed
      BY <2>1, <3>1, FeedingKept DEF MediaUpdateDue, ParentDestroyed, recording, outside
    <3> QED
      BY <2>1, <3>1, ClientFeeding, LooperFeeding, EncoderFeeding DEF Next
  <2>2. ASSUME IndInv, Feeding, UNCHANGED vars PROVE Feeding'
    BY <2>2, FeedingKept DEF vars, recording, outside
  <2> QED
    BY <2>1, <2>2
<1>3. IndInv /\ Feeding => RecordingFed
  BY Names DEF IndInv, StateTypes, Feeding, Fed, Late, RecordingFed
<1> QED
  BY <1>1, <1>2, <1>3, Inductive, PTL DEF Spec
-----------------------------------------------------------------------------
(* Types, and the queue of a looper that has quit.                         *)

QueueTypes == queue \in Seq(Messages) /\ (pc[Looper] = "ended" => queue = <<>>)

OtherTypes ==
    /\ mEncoderType \in 0..2 /\ delayed \in Nat
    /\ mReleased \in BOOLEAN /\ mIsRecording \in BOOLEAN /\ parentGone \in BOOLEAN
    /\ op \in [Threads -> Messages \cup {"none", "stopPreview", "close", "release"}]
    /\ lock \in Clients \cup {NULL}
    /\ calls \in Nat /\ starts \in Nat

\* Client c moves on, or it does not.
LEMMA ClientPlace ==
    ASSUME IndInv, NEW c \in Clients, CallStep(c) \/ ClientStep(c)
    PROVE  /\ pc'[Looper] = pc[Looper]
           /\ \A d \in Clients : pc[d] \in ClientLabels => pc'[d] \in ClientLabels
<1> USE Names DEF IndInv, StateTypes, Threads, ClientLabels
<1>1. CASE CallStep(c)
  BY <1>1 DEF CallStep, open, startPreview, captureStill, startRecording, stopRecording,
     stopPreview, close, release, Send, Call, Goto
<1>2. CASE ClientStep(c)
  BY <1>2 DEF ClientStep, Look, StopBegin, StopWait, StopReturn, ReleaseFinish, NotOpened, Jump, Goto
<1> QED
  BY <1>1, <1>2

\* A queue with one more message, or without those of some kinds.
LEMMA QueueSent ==
    ASSUME QueueTypes, NEW q \in {queue, removeMessages(queue, {"PREVIEW_START"})}, NEW m \in Messages
    PROVE  /\ Sent(q, m) \in Seq(Messages)
           /\ pc[Looper] = "ended" => Sent(q, m) = <<>>
<1>1. /\ removeMessages(queue, {"PREVIEW_START"}) \in Seq(Messages \ {"PREVIEW_START"})
      /\ Len(removeMessages(queue, {"PREVIEW_START"})) <= Len(queue)
  BY RemovesOnlyThese DEF QueueTypes
<1>2. q \in Seq(Messages) /\ Len(q) <= Len(queue)
  BY <1>1 DEF QueueTypes
<1>3. Len(q) \in Nat /\ (Len(q) = 0 => q = <<>>) /\ (queue = <<>> => Len(queue) = 0)
  BY <1>2
<1> QED
  BY <1>2, <1>3 DEF QueueTypes, Sent

LEMMA ClientTypes ==
    ASSUME IndInv, QueueTypes, OtherTypes, NEW c \in Clients, CallStep(c) \/ ClientStep(c)
    PROVE  QueueTypes' /\ OtherTypes'
<1> USE Names
<1>p. pc'[Looper] = pc[Looper]
  BY ClientPlace
<1>q. ASSUME \/ queue' = queue
             \/ \E q \in {queue, removeMessages(queue, {"PREVIEW_START"})}, m \in Messages :
                   queue' = Sent(q, m)
      PROVE  QueueTypes'
  BY <1>p, <1>q, QueueSent DEF QueueTypes
<1>1. CASE CallStep(c)
  <2>1. QueueTypes'
    BY <1>1, <1>q DEF CallStep, open, startPreview, captureStill, startRecording, stopRecording,
       stopPreview, close, release, Send, Call, messages, Messages
  <2>2. /\ UNCHANGED <<mEncoderType, delayed, mIsRecording, parentGone>>
        /\ mReleased' \in {TRUE, mReleased} /\ lock' \in {lock, c}
        /\ calls' \in {calls, calls + 1} /\ starts' \in {starts, starts + 1}
        /\ \E o \in {op[c], "stopPreview", "close", "release"} : op' = op \/ op' = [op EXCEPT ![c] = o]
    BY <1>1 DEF CallStep, open, startPreview, captureStill, startRecording, stopRecording,
       stopPreview, close, release, Send, Call, Begin, messages, recording
  <2>3. op' \in [Threads -> Messages \cup {"none", "stopPreview", "close", "release"}]
    BY <2>2 DEF OtherTypes, Threads
  <2>4. mReleased' \in BOOLEAN /\ lock' \in Clients \cup {NULL}
    BY <2>2, Zenon DEF OtherTypes
  <2>5. calls' \in Nat /\ starts' \in Nat
    BY <2>2 DEF OtherTypes
  <2>6. OtherTypes'
    BY <2>2, <2>3, <2>4, <2>5 DEF OtherTypes
  <2> QED
    BY <2>1, <2>6
<1>2. CASE ClientStep(c)
  <2>1. QueueTypes'
    BY <1>2, <1>q DEF ClientStep, Look, StopBegin, StopWait, StopReturn, ReleaseFinish, messages,
       Messages
  <2>2. OtherTypes'
    BY <1>2 DEF ClientStep, Look, StopBegin, StopWait, StopReturn, ReleaseFinish, messages,
       recording, outside, OtherTypes
  <2> QED
    BY <2>1, <2>2
<1> QED
  BY <1>1, <1>2

\* handleRelease empties the queue when it quits.
LEMMA LooperTypes ==
    ASSUME IndInv, QueueTypes, OtherTypes, LooperStep
    PROVE  /\ QueueTypes' /\ OtherTypes'
           /\ \A c \in Clients : pc[c] \in ClientLabels => pc'[c] \in ClientLabels
<1> USE Names DEF Jump, Goto
<1>t. pc \in [Threads -> ClientLabels \cup LooperLabels]
  BY DEF IndInv, StateTypes
<1>c. ASSUME NEW c \in Clients
      PROVE  pc'[c] = pc[c] \/ (pc[c] = "waiting" /\ pc'[c] = "stopped")
  <2>c. c \in Threads /\ c # Looper
    BY <1>c DEF Threads
  <2>1. ASSUME NEW to, pc' = [pc EXCEPT ![Looper] = to]
        PROVE  pc'[c] = pc[c]
    BY <1>t, <2>c, <2>1
  <2>2. CASE PreviewStopped
    BY <2>2, <2>c DEF PreviewStopped
  <2> QED
    BY <2>1, <2>2 DEF LooperStep, handleMessage, handleStopRecording, DetachView, StopMuxer,
       handleClose, DestroyCamera, handleOpen, handleRelease, handleStartPreview, PreviewStarted,
       handleStopPreview, handleCaptureStill, StillTask, handleUpdateMedia, handleStartRecording,
       onPrepared, Record
<1>1. \A c \in Clients : pc[c] \in ClientLabels => pc'[c] \in ClientLabels
  BY <1>c DEF ClientLabels
<1> SUFFICES QueueTypes' /\ OtherTypes'
  BY <1>1
<1>s. ASSUME queue' = queue, pc[Looper] # "ended", pc'[Looper] # "ended",
             UNCHANGED <<delayed, mReleased, op, lock, outside>>, mIsRecording' \in {TRUE, mIsRecording}
      PROVE  QueueTypes' /\ OtherTypes'
  BY <1>s DEF QueueTypes, OtherTypes, outside
<1>2. CASE handleMessage
  <2>1. queue \in Seq(Messages) /\ queue # <<>>
    BY <1>2 DEF handleMessage, QueueTypes
  <2>2. Head(queue) \in Messages /\ Tail(queue) \in Seq(Messages)
    BY <2>1
  <2>3. /\ pc'[Looper] = Entry(Head(queue)) /\ Entry(Head(queue)) # "ended"
        /\ queue' = Tail(queue) /\ op' = [op EXCEPT ![Looper] = Head(queue)]
        /\ UNCHANGED <<delayed, mReleased, mIsRecording, lock, outside>>
    BY <1>2, <1>t DEF handleMessage, Entry, StopFirst, recording
  <2> QED
    BY <2>2, <2>3 DEF QueueTypes, OtherTypes, outside
<1>3. CASE handleStopRecording \/ DetachView \/ StopMuxer
  BY <1>3, <1>s, <1>t DEF handleStopRecording, DetachView, StopMuxer, AfterStop, messages
<1>4. CASE handleClose \/ DestroyCamera \/ handleOpen
  BY <1>4, <1>s, <1>t DEF handleClose, DestroyCamera, handleOpen, AfterClose, messages, recording
<1>5. CASE handleRelease
  <2>1. /\ (queue' = queue /\ pc'[Looper] = "idle") \/ queue' = <<>>
        /\ mReleased' \in {TRUE, mReleased}
        /\ UNCHANGED <<delayed, mIsRecording, op, lock, outside>>
    BY <1>5, <1>t DEF handleRelease, recording
  <2>2. <<>> \in Seq(Messages)
    OBVIOUS
  <2> QED
    BY <2>1, <2>2 DEF QueueTypes, OtherTypes, outside
<1>6. CASE handleStartPreview \/ PreviewStarted \/ handleStopPreview
  BY <1>6, <1>s, <1>t DEF handleStartPreview, PreviewStarted, handleStopPreview, messages, recording
<1>7. CASE PreviewStopped
  BY <1>7, <1>s DEF PreviewStopped, messages, recording
<1>8. CASE handleCaptureStill \/ StillTask
  <2>1. queue \in Seq(Messages) /\ Append(queue, "MEDIA_UPDATE") \in Seq(Messages)
    BY DEF QueueTypes, Messages
  <2>2. /\ queue' \in {queue, Append(queue, "MEDIA_UPDATE")} /\ pc'[Looper] = "idle"
        /\ UNCHANGED <<delayed, mReleased, mIsRecording, op, lock, outside>>
    BY <1>8, <1>t DEF handleCaptureStill, StillTask, recording
  <2> QED
    BY <2>1, <2>2 DEF QueueTypes, OtherTypes, outside
<1>9. CASE handleUpdateMedia
  <2>1. /\ op' = [op EXCEPT ![Looper] = "RELEASE"] /\ queue' = queue /\ pc'[Looper] # "ended"
        /\ UNCHANGED <<delayed, mReleased, mIsRecording, lock, outside>>
    BY <1>9, <1>t DEF handleUpdateMedia, messages, recording
  <2> QED
    BY <2>1 DEF QueueTypes, OtherTypes, outside, Messages
<1>10. CASE handleStartRecording \/ onPrepared \/ Record
  BY <1>10, <1>s, <1>t DEF handleStartRecording, onPrepared, Record, messages
<1> QED
  BY <1>2, <1>3, <1>4, <1>5, <1>6, <1>7, <1>8, <1>9, <1>10 DEF LooperStep

\* Every variable has its type, and whoever calls or posts late, nothing is left
\* in the queue of a looper that has quit.
THEOREM TypeCorrect == Spec => []TypeOK
<1> DEFINE Clientele == \A c \in Clients : pc[c] \in ClientLabels
<1>1. Init => QueueTypes /\ OtherTypes /\ Clientele
  <2> SUFFICES ASSUME Init PROVE QueueTypes /\ OtherTypes /\ Clientele
    OBVIOUS
  <2>1. QueueTypes /\ Clientele
    BY Names DEF Init, QueueTypes, ClientLabels, Threads
  <2>2. OtherTypes
    BY DEF Init, OtherTypes
  <2> QED
    BY <2>1, <2>2
<1>2. ASSUME IndInv, IndInv', QueueTypes, OtherTypes, Clientele, [Next]_vars
      PROVE  QueueTypes' /\ OtherTypes' /\ Clientele'
  <2>1. CASE \E c \in Clients : CallStep(c) \/ ClientStep(c)
    BY <1>2, <2>1, ClientTypes, ClientPlace
  <2>2. CASE LooperStep
    BY <1>2, <2>2, LooperTypes
  <2>3. CASE UNCHANGED <<messages, pc, mEncoderType, mReleased, op, lock, parentGone, calls, starts>>
             /\ mIsRecording' \in {FALSE, mIsRecording}
    BY <1>2, <2>3 DEF QueueTypes, OtherTypes, messages
  <2>4. ASSUME NEW r \in Recordings, onStopped(r)
        PROVE  QueueTypes' /\ OtherTypes' /\ Clientele'
    <3>1. /\ UNCHANGED <<queue, pc, mEncoderType, mReleased, op, lock, parentGone, calls, starts>>
          /\ mIsRecording' \in {FALSE, mIsRecording} /\ delayed' \in {delayed, delayed + 1}
      BY <2>4 DEF onStopped, outside
    <3>2. mIsRecording' \in BOOLEAN
      BY <1>2, <3>1, Zenon DEF OtherTypes
    <3>3. delayed' \in Nat
      BY <1>2, <3>1 DEF OtherTypes
    <3> QED
      BY <1>2, <3>1, <3>2, <3>3 DEF QueueTypes, OtherTypes
  <2>5. CASE MediaUpdateDue
    <3>1. queue' = Sent(queue, "MEDIA_UPDATE") /\ "MEDIA_UPDATE" \in Messages
          /\ delayed' \in Nat /\ UNCHANGED <<mReleased, recording, pc, op, lock, outside>>
      BY <1>2, <2>5 DEF MediaUpdateDue, Messages, OtherTypes
    <3> QED
      BY <1>2, <3>1, QueueSent DEF QueueTypes, OtherTypes, recording, outside
  <2>6. CASE ParentDestroyed
    BY <1>2, <2>6 DEF ParentDestroyed, QueueTypes, OtherTypes, messages, recording
  <2>7. CASE UNCHANGED vars
    BY <2>3, <2>7 DEF vars, recording, outside
  <2> QED
    BY <1>2, <2>1, <2>2, <2>4, <2>5, <2>6, <2>7 DEF Next
<1>3. IndInv /\ QueueTypes /\ OtherTypes /\ Clientele => TypeOK
  BY DEF IndInv, StateTypes, QueueTypes, OtherTypes, TypeOK
<1> QED
  BY <1>1, <1>2, <1>3, Inductive, PTL DEF Spec
=============================================================================

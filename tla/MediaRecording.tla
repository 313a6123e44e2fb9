---------------------------- MODULE MediaRecording ----------------------------
(***************************************************************************)
(* One recording: the encoders of usbCameraCommon's package encoder and    *)
(* the MediaMuxerWrapper they share.                                       *)
(*                                                                         *)
(*   Handler  the camera handler's thread, which makes the encoders, starts*)
(*            and stops them (handleStartRecording, handleStopRecording);  *)
(*   e        the thread of encoder e, MediaEncoder.run;                   *)
(*   feed[e]  the thread that brings e its data: the video encoder's is    *)
(*            UVCPreview's capture thread in onFrame, which calls          *)
(*            frameAvailableSoon and then encode; every other encoder has  *)
(*            an AudioThread, which calls encode first.                    *)
(*                                                                         *)
(* The encoders, the muxer and MediaMuxer's file are made for one          *)
(* recording; the next one has others.                                     *)
(***************************************************************************)
EXTENDS Integers, FiniteSets

CONSTANTS
    Encoders, Video,
    Handler,
    MayFail,       \* TRUE: prepare may throw IOException or find no codec
    InputBuffers,  \* input buffers of a codec
    MaxRequests    \* bound: mRequestDrain counts no further

ASSUME ConstantsAssumption ==
    /\ IsFiniteSet(Encoders) /\ Video \in Encoders /\ Handler \notin Encoders
    /\ MayFail \in BOOLEAN /\ InputBuffers \in Nat \ {0} /\ MaxRequests \in Nat \ {0}

VARIABLES
    pc,          \* of Handler and of the encoders' threads
    todo,        \* encoders that Handler has still to go through
    feed,        \* of the feeding threads
    phase,       \* drain's caller: "run" for frames, "last" before, "eos" after the EOS call
    mIsCapturing, mRequestStop, mRequestDrain, mMuxerStarted,
    codec,       \* mMediaCodec: "null", "running" or "released"
    frames,      \* frames inside the codec
    format,      \* the codec has reported its output format
    mEncoderCount, mStatredCount, mIsStarted,
    mMediaMuxer, \* "made", "started" or "stopped"
    tracks       \* encoders with a track in mMediaMuxer

flags == <<mIsCapturing, mRequestStop, mRequestDrain>>
media == <<codec, frames, format>>
muxer == <<mEncoderCount, mStatredCount, mIsStarted, mMediaMuxer, tracks>>
vars == <<pc, todo, feed, phase, flags, mMuxerStarted, media, muxer>>

\* mSync.notifyAll wakes e's thread.
Notify(e) == pc' = [pc EXCEPT ![e] = IF @ = "parked" THEN "loop" ELSE @]
Jump(t, from, to) == pc[t] = from /\ pc' = [pc EXCEPT ![t] = to]

Init ==
    /\ pc = [t \in Encoders \cup {Handler} |-> IF t = Handler THEN "construct" ELSE "none"]
    /\ todo = Encoders
    /\ feed = [e \in Encoders |-> "none"]
    /\ phase = [e \in Encoders |-> "run"]
    /\ mIsCapturing = [e \in Encoders |-> FALSE]
    /\ mRequestStop = [e \in Encoders |-> FALSE]
    /\ mRequestDrain = [e \in Encoders |-> 0]
    /\ mMuxerStarted = [e \in Encoders |-> FALSE]
    /\ codec = [e \in Encoders |-> "null"]
    /\ frames = [e \in Encoders |-> 0]
    /\ format = [e \in Encoders |-> FALSE]
    /\ mEncoderCount = 0 /\ mStatredCount = 0 /\ mIsStarted = FALSE
    /\ mMediaMuxer = "made" /\ tracks = {}
-----------------------------------------------------------------------------
(* Forms of the operators below that a plausible slip would give; the      *)
(* checked properties must reject them.                                    *)

\* Everybody has called start, nobody is left after stop.
AllStartedEarly(n) == n > 0
AllStarted(n) == mEncoderCount > 0 /\ n = mEncoderCount
NobodyLeftLate(n) == mEncoderCount > 0 /\ n < 0
NobodyLeft(n) == mEncoderCount > 0 /\ n <= 0

\* release stops the muxer only if drain has started it.
StopsMuxerAlways(e) == TRUE
StopsMuxer(e) == mMuxerStarted[e]

\* drain ends after more than five fruitless attempts, which the codec may
\* still need for a frame it has.
GivesUpNever == FALSE
GivesUp == TRUE

-----------------------------------------------------------------------------
(* Handler.                                                                *)

\* Video is the first one in every round.
Turn(stage, e) == pc[Handler] = stage /\ e \in todo /\ (e = Video \/ Video \notin todo)
Advance(e, stage, nextStage) ==
    /\ todo' = IF todo = {e} THEN Encoders ELSE todo \ {e}
    /\ pc' = [pc EXCEPT ![Handler] = IF todo = {e} THEN nextStage ELSE stage]

\* The constructor: addEncoder, then start the thread and wait for it.
MediaEncoder(e) ==
    /\ Turn("construct", e) /\ pc[e] = "none"
    /\ mEncoderCount' = mEncoderCount + 1
    /\ pc' = [pc EXCEPT ![Handler] = "await", ![e] = "born"]
    /\ UNCHANGED <<todo, feed, phase, flags, mMuxerStarted, media, mStatredCount, mIsStarted,
                   mMediaMuxer, tracks>>

Constructed(e) ==
    /\ Turn("await", e) /\ pc[e] \notin {"none", "born"}
    /\ Advance(e, "construct", "prepare")
    /\ UNCHANGED <<feed, phase, flags, mMuxerStarted, media, muxer>>

\* Without a codec of its type the encoder goes on with mMediaCodec = null.
prepare(e) ==
    /\ Turn("prepare", e)
    /\ mMuxerStarted' = [mMuxerStarted EXCEPT ![e] = FALSE]
    /\ \/ /\ codec' = [codec EXCEPT ![e] = "running"]
          /\ Advance(e, "prepare", "start")
       \/ /\ MayFail
          /\ Advance(e, "prepare", "start")
          /\ UNCHANGED codec
       \/ /\ MayFail
          /\ pc' = [pc EXCEPT ![Handler] = "failed"]
          /\ UNCHANGED <<todo, codec>>
    /\ UNCHANGED <<feed, phase, flags, frames, format, muxer>>

startRecording(e) ==
    /\ Turn("start", e)
    /\ mIsCapturing' = [mIsCapturing EXCEPT ![e] = TRUE]
    /\ mRequestStop' = [mRequestStop EXCEPT ![e] = FALSE]
    /\ todo' = IF todo = {e} THEN Encoders ELSE todo \ {e}
    /\ pc' = [pc EXCEPT ![Handler] = IF todo = {e} THEN "recording" ELSE @,
                        ![e] = IF @ = "parked" THEN "loop" ELSE @]
    /\ feed' = [feed EXCEPT ![e] = "idle"]
    /\ UNCHANGED <<phase, mRequestDrain, mMuxerStarted, media, muxer>>

\* mVideoEncoder = null: onFrame finds no encoder any more.
handleStopRecording ==
    /\ Jump(Handler, "recording", "stop")
    /\ UNCHANGED <<todo, feed, phase, flags, mMuxerStarted, media, muxer>>

\* A request, and the same under mSync when there is nothing to request.
stopRecording(e) ==
    /\ Turn("stop", e)
    /\ todo' = todo \ {e}
    /\ IF mIsCapturing[e] /\ ~mRequestStop[e]
       THEN /\ mRequestStop' = [mRequestStop EXCEPT ![e] = TRUE]
            /\ Notify(e)
       ELSE UNCHANGED <<mRequestStop, pc>>
    /\ UNCHANGED <<feed, phase, mIsCapturing, mRequestDrain, mMuxerStarted, media, muxer>>

HandlerStep(e) ==
    \/ MediaEncoder(e) \/ Constructed(e) \/ prepare(e) \/ startRecording(e) \/ stopRecording(e)
-----------------------------------------------------------------------------
(* The encoder's thread.                                                   *)

Born(e) ==
    /\ Jump(e, "born", "loop")
    /\ mRequestStop' = [mRequestStop EXCEPT ![e] = FALSE]
    /\ mRequestDrain' = [mRequestDrain EXCEPT ![e] = 0]
    /\ UNCHANGED <<todo, feed, phase, mIsCapturing, mMuxerStarted, media, muxer>>

\* The two flags are read under mSync; what follows from them is not.
ReadRequests(e) ==
    /\ Jump(e, "loop", IF mRequestStop[e] \/ mRequestDrain[e] > 0 THEN "drain" ELSE "window")
    /\ mRequestDrain' = [mRequestDrain EXCEPT ![e] = IF @ > 0 THEN @ - 1 ELSE @]
    /\ phase' = [phase EXCEPT ![e] = IF mRequestStop[e] THEN "last" ELSE "run"]
    /\ UNCHANGED <<todo, feed, mIsCapturing, mRequestStop, mMuxerStarted, media, muxer>>

Sleep(e) ==
    /\ Jump(e, "window", "parked")
    /\ UNCHANGED <<todo, feed, phase, flags, mMuxerStarted, media, muxer>>

AfterDrain(e) ==
    IF phase[e] = "run" THEN "loop" ELSE IF phase[e] = "last" THEN "signal" ELSE "release"

\* No codec, or nothing comes out of it.
DrainEnd(e) ==
    /\ Jump(e, "drain", AfterDrain(e))
    /\ codec[e] # "running" \/ ~mIsCapturing[e] \/ GivesUp
    /\ UNCHANGED <<todo, feed, phase, flags, mMuxerStarted, media, muxer>>

\* dequeueOutputBuffer gives the format first, then one frame after the other.
Dequeue(e) ==
    /\ codec[e] = "running" /\ mIsCapturing[e] /\ frames[e] > 0
    /\ \/ /\ ~format[e] /\ Jump(e, "drain", "addTrack")
          /\ format' = [format EXCEPT ![e] = TRUE]
          /\ UNCHANGED frames
       \/ /\ format[e] /\ Jump(e, "drain", "write")
          /\ frames' = [frames EXCEPT ![e] = @ - 1]
          /\ UNCHANGED format
    /\ UNCHANGED <<todo, feed, phase, flags, mMuxerStarted, codec, muxer>>

addTrack(e) ==
    /\ Jump(e, "addTrack", "start")
    /\ tracks' = tracks \cup {e}
    /\ mMuxerStarted' = [mMuxerStarted EXCEPT ![e] = TRUE]
    /\ UNCHANGED <<todo, feed, phase, flags, media, mEncoderCount, mStatredCount, mIsStarted,
                   mMediaMuxer>>

start(e) ==
    /\ mStatredCount' = mStatredCount + 1
    /\ IF AllStarted(mStatredCount + 1)
       THEN mIsStarted' = TRUE /\ mMediaMuxer' = "started"
       ELSE UNCHANGED <<mIsStarted, mMediaMuxer>>
    /\ Jump(e, "start", IF mIsStarted' THEN "drain" ELSE "await muxer")
    /\ UNCHANGED <<todo, feed, phase, flags, mMuxerStarted, media, mEncoderCount, tracks>>

\* muxer.wait(100) in a loop, which looks at nothing but isStarted.
AwaitMuxer(e) ==
    /\ mIsStarted
    /\ Jump(e, "await muxer", "drain")
    /\ UNCHANGED <<todo, feed, phase, flags, mMuxerStarted, media, muxer>>

writeSampleData(e) ==
    /\ Jump(e, "write", "drain")
    /\ UNCHANGED <<todo, feed, phase, flags, mMuxerStarted, media, muxer>>

\* encode(null, 0, ...): its loop runs while 0 < length, so the codec gets no
\* EOS; without a codec it throws, which ends the process.
signalEndOfInputStream(e) ==
    /\ Jump(e, "signal", IF codec[e] = "null" THEN "dead" ELSE "drain")
    /\ phase' = [phase EXCEPT ![e] = "eos"]
    /\ UNCHANGED <<todo, feed, flags, mMuxerStarted, media, muxer>>

release(e) ==
    /\ \/ /\ Jump(e, "release", "release codec")
          /\ mIsCapturing' = [mIsCapturing EXCEPT ![e] = FALSE]
          /\ UNCHANGED codec
       \/ /\ Jump(e, "release codec", "stop muxer")
          /\ codec' = [codec EXCEPT ![e] = "released"]
          /\ UNCHANGED mIsCapturing
    /\ UNCHANGED <<todo, feed, phase, mRequestStop, mRequestDrain, mMuxerStarted, frames, format,
                   muxer>>

stop(e) ==
    /\ Jump(e, "stop muxer", "leave")
    /\ IF StopsMuxer(e)
       THEN /\ mStatredCount' = mStatredCount - 1
            /\ IF NobodyLeft(mStatredCount - 1)
               THEN mIsStarted' = FALSE /\ mMediaMuxer' = "stopped"
               ELSE UNCHANGED <<mIsStarted, mMediaMuxer>>
       ELSE UNCHANGED <<mStatredCount, mIsStarted, mMediaMuxer>>
    /\ UNCHANGED <<todo, feed, phase, flags, mMuxerStarted, media, mEncoderCount, tracks>>

Leave(e) ==
    /\ Jump(e, "leave", "exit")
    /\ mRequestStop' = [mRequestStop EXCEPT ![e] = TRUE]
    /\ mIsCapturing' = [mIsCapturing EXCEPT ![e] = FALSE]
    /\ UNCHANGED <<todo, feed, phase, mRequestDrain, mMuxerStarted, media, muxer>>

EncoderStep(e) ==
    \/ Born(e) \/ ReadRequests(e) \/ Sleep(e) \/ DrainEnd(e) \/ Dequeue(e)
    \/ addTrack(e) \/ start(e) \/ AwaitMuxer(e) \/ writeSampleData(e)
    \/ signalEndOfInputStream(e) \/ release(e) \/ stop(e) \/ Leave(e)
-----------------------------------------------------------------------------
(* The threads that feed the encoders.                                     *)

Feed(e, from, to) == feed[e] = from /\ feed' = [feed EXCEPT ![e] = to]
Accepts(e) == mIsCapturing[e] /\ ~mRequestStop[e]

\* onFrame looks for the video encoder, AudioThread at the encoder's flags.
FeedBegin(e) ==
    /\ IF e = Video
       THEN pc[Handler] = "recording" /\ Feed(e, "idle", "announce")
       ELSE Feed(e, "idle", IF Accepts(e) THEN "encode" ELSE "end")
    /\ UNCHANGED <<pc, todo, phase, flags, mMuxerStarted, media, muxer>>

frameAvailableSoon(e) ==
    /\ Feed(e, "announce", IF e = Video THEN "encode" ELSE "idle")
    /\ IF Accepts(e)
       THEN /\ mRequestDrain' = [mRequestDrain EXCEPT ![e] = IF @ < MaxRequests THEN @ + 1 ELSE @]
            /\ Notify(e)
       ELSE UNCHANGED <<mRequestDrain, pc>>
    /\ UNCHANGED <<todo, phase, mIsCapturing, mRequestStop, mMuxerStarted, media, muxer>>

\* How encode returns, and how it ends with an exception: onFrame's goes back
\* to its caller, AudioThread's ends the thread.
AfterEncode(e) == IF e = Video THEN "idle" ELSE "announce"
AfterException(e) == IF e = Video THEN "idle" ELSE "end"

\* The flags are read first (only the video encoder's encode looks at
\* mRequestStop), the codec is used in a later step.
encode(e) ==
    /\ \/ Feed(e, "encode", IF mIsCapturing[e] /\ (e = Video => ~mRequestStop[e])
                            THEN "queue" ELSE AfterEncode(e)) /\ UNCHANGED frames
       \/ codec[e] # "running" /\ Feed(e, "queue", AfterException(e)) /\ UNCHANGED frames
       \/ /\ codec[e] = "running"
          /\ Feed(e, "queue", AfterEncode(e))
          /\ IF mIsCapturing[e]
             THEN frames[e] < InputBuffers /\ frames' = [frames EXCEPT ![e] = @ + 1]
             ELSE UNCHANGED frames
    /\ UNCHANGED <<pc, todo, phase, flags, mMuxerStarted, codec, format, muxer>>

FeedStep(e) == FeedBegin(e) \/ frameAvailableSoon(e) \/ encode(e)
-----------------------------------------------------------------------------
\* An exception nobody catches ends the process.
Alive == \A e \in Encoders : pc[e] # "dead"

Next ==
    /\ Alive
    /\ \/ handleStopRecording
       \/ \E e \in Encoders : HandlerStep(e) \/ EncoderStep(e) \/ FeedStep(e)

Spec == Init /\ [][Next]_vars

\* Every thread is scheduled; the camera and the microphone keep sending.
Fairness ==
    \A e \in Encoders :
        /\ WF_vars(Alive /\ HandlerStep(e))
        /\ WF_vars(Alive /\ EncoderStep(e))
        /\ WF_vars(Alive /\ FeedStep(e))

FairSpec == Spec /\ Fairness
-----------------------------------------------------------------------------
HandlerLabels == {"construct", "await", "prepare", "start", "recording", "stop", "failed"}
Labels == {"none", "born", "loop", "window", "parked", "drain", "addTrack", "start",
           "await muxer", "write", "signal", "dead", "release", "release codec",
           "stop muxer", "leave", "exit"}

\* Every variable has its type.
TypeOK ==
    /\ pc \in [Encoders \cup {Handler} -> HandlerLabels \cup Labels]
    /\ pc[Handler] \in HandlerLabels /\ \A e \in Encoders : pc[e] \in Labels
    /\ todo \subseteq Encoders
    /\ feed \in [Encoders -> {"none", "idle", "announce", "encode", "queue", "end"}]
    /\ phase \in [Encoders -> {"run", "last", "eos"}]
    /\ mIsCapturing \in [Encoders -> BOOLEAN] /\ mRequestStop \in [Encoders -> BOOLEAN]
    /\ mRequestDrain \in [Encoders -> 0..MaxRequests]
    /\ mMuxerStarted \in [Encoders -> BOOLEAN]
    /\ codec \in [Encoders -> {"null", "running", "released"}]
    /\ frames \in [Encoders -> 0..InputBuffers] /\ format \in [Encoders -> BOOLEAN]
    /\ mEncoderCount \in 0..Cardinality(Encoders) /\ mStatredCount \in 0..Cardinality(Encoders)
    /\ mIsStarted \in BOOLEAN /\ mMediaMuxer \in {"made", "started", "stopped"}
    /\ tracks \subseteq Encoders

\* MediaMuxer is used the way it asks for: tracks are added before it starts,
\* it starts with every track, and what is written is written between start
\* and stop, although writeSampleData looks at the count and not at mIsStarted.
MuxerProtocol ==
    \A e \in Encoders :
        /\ pc[e] \in {"addTrack", "start"} => mMediaMuxer = "made"
        /\ pc[e] = "write" => mMediaMuxer = "started" /\ tracks = Encoders

\* When the encoders have ended, a file that was begun is finished.
FileFinished ==
    (\A e \in Encoders : pc[e] = "exit") => mMediaMuxer # "started"

\* An encoder that has noticed the request to stop, and has the muxer, ends,
\* and whoever waits in encode for one of its input buffers gets out.
NoticedStopEnds ==
    \A e \in Encoders : phase[e] = "last" /\ mIsStarted ~> pc[e] = "exit" /\ feed[e] # "queue"
=============================================================================

------------------------ MODULE MediaRecording_proofs -------------------------
(***************************************************************************)
(* Proofs about MediaRecording, for any number of encoders: types, the     *)
(* protocol of MediaMuxer, and the end of the file.                        *)
(***************************************************************************)
EXTENDS MediaRecording, FiniteSetTheorems, TLAPS

\* Handler has not called e's startRecording.
Early(e) ==
    \/ pc[Handler] \in {"construct", "await", "prepare", "failed"}
    \/ pc[Handler] = "start" /\ e \in todo

\* Encoders inside the muxer's count: from start to stop.
Counted == {e \in Encoders : mMuxerStarted[e] /\ pc[e] \notin {"start", "leave", "exit"}}

\* addEncoder has counted those that were constructed.
Rounds ==
    /\ mEncoderCount = Cardinality({e \in Encoders : pc[e] # "none"})
    /\ pc[Handler] = "construct" => \A e \in Encoders : pc[e] = "none" <=> e \in todo
    /\ pc[Handler] = "await" => \E f \in todo : \A e \in Encoders : pc[e] = "none" <=> e \in todo \ {f}
    /\ pc[Handler] \notin {"construct", "await"} => \A e \in Encoders : pc[e] # "none"

\* Before startRecording an encoder only waits.
Waiting ==
    \A e \in Encoders : Early(e) =>
        /\ ~mIsCapturing[e] /\ ~mRequestStop[e] /\ mRequestDrain[e] = 0 /\ feed[e] = "none"
        /\ ~mMuxerStarted[e] /\ pc[e] \in {"none", "born", "loop", "window", "parked"}

\* Which encoders have a track.
Tracks ==
    /\ tracks = {e \in Encoders : mMuxerStarted[e]}
    /\ \A e \in Encoders :
        /\ format[e] <=> pc[e] = "addTrack" \/ mMuxerStarted[e]
        /\ pc[e] \in {"start", "await muxer", "write"} => mMuxerStarted[e]
        /\ pc[e] = "addTrack" => ~mMuxerStarted[e]

\* What the muxer's count and state say of the encoders.
Muxing ==
    /\ mStatredCount = Cardinality(Counted)
    /\ mIsStarted <=> mMediaMuxer = "started"
    /\ mMediaMuxer = "made" =>
        /\ Counted # Encoders
        /\ \A e \in Encoders : mMuxerStarted[e] => pc[e] \in {"start", "await muxer"}
    /\ mMediaMuxer # "made" =>
        \A e \in Encoders : mMuxerStarted[e] /\ pc[e] # "start"
    /\ mMediaMuxer = "started" => Counted # {}
    /\ mMediaMuxer = "stopped" => Counted = {}

IndInv == TypeOK /\ Rounds /\ Waiting /\ Tracks /\ Muxing
-----------------------------------------------------------------------------
\* All variables but pc, and the ones an action changes, are as they were.
LEMMA Names ==
    /\ \A e \in Encoders : e # Handler
    /\ IsFiniteSet(Encoders) /\ Video \in Encoders /\ Encoders # {}
BY ConstantsAssumption

LEMMA Sets ==
    /\ \A S \in SUBSET Encoders : IsFiniteSet(S) /\ Cardinality(S) \in 0..Cardinality(Encoders)
    /\ \A S \in SUBSET Encoders : Cardinality(S) = Cardinality(Encoders) => S = Encoders
    /\ \A S \in SUBSET Encoders : Cardinality(S) = 0 <=> S = {}
    /\ \A S \in SUBSET Encoders, e \in Encoders :
          /\ e \notin S => Cardinality(S \cup {e}) = Cardinality(S) + 1
          /\ e \in S => Cardinality(S \ {e}) = Cardinality(S) - 1
<1> USE Names
<1>1. ASSUME NEW S \in SUBSET Encoders
      PROVE  /\ IsFiniteSet(S) /\ Cardinality(S) \in Nat
             /\ Cardinality(S) <= Cardinality(Encoders)
             /\ Cardinality(S) = Cardinality(Encoders) => S = Encoders
  BY FS_Subset, FS_CardinalityType
<1>2. Cardinality(Encoders) \in Nat
  BY FS_CardinalityType
<1>3. \A S \in SUBSET Encoders : Cardinality(S) = 0 <=> S = {}
  BY <1>1, FS_EmptySet
<1>4. ASSUME NEW S \in SUBSET Encoders, NEW e \in Encoders
      PROVE  /\ e \notin S => Cardinality(S \cup {e}) = Cardinality(S) + 1
             /\ e \in S => Cardinality(S \ {e}) = Cardinality(S) - 1
  BY <1>1, FS_AddElement, FS_RemoveElement
<1> QED
  BY <1>1, <1>2, <1>3, <1>4
-----------------------------------------------------------------------------
LEMMA InitInd == Init => IndInv
<1> SUFFICES ASSUME Init PROVE IndInv
  OBVIOUS
<1> USE Names, ConstantsAssumption DEF Init
<1>1. TypeOK
  <2>1. 0 \in 0..MaxRequests /\ 0 \in 0..InputBuffers /\ 0 \in 0..Cardinality(Encoders)
    BY Sets
  <2> QED
    BY <2>1 DEF TypeOK, HandlerLabels, Labels
<1>2. Rounds /\ Muxing
  <2>1. {e \in Encoders : pc[e] # "none"} = {} /\ Counted = {}
    BY DEF Counted
  <2> QED
    BY <2>1, FS_EmptySet DEF Rounds, Muxing
<1>3. Waiting /\ Tracks
  BY DEF Waiting, Tracks
<1> QED
  BY <1>1, <1>2, <1>3 DEF IndInv

\* Labels that the muxer's count does not depend on.
Plain == Labels \ {"addTrack", "start", "await muxer", "write", "leave", "exit"}

LEMMA MuxerSame ==
    ASSUME IndInv,
           UNCHANGED <<mMuxerStarted, format, mStatredCount, mIsStarted, mMediaMuxer, tracks>>,
           \A x \in Encoders : pc'[x] = pc[x] \/ (pc[x] \in Plain /\ pc'[x] \in Plain)
    PROVE  Tracks' /\ Muxing'
<1> USE DEF IndInv, Tracks, Muxing, Plain
<1>1. Counted' = Counted
  BY DEF Counted
<1> QED
  BY <1>1

LEMMA RoundsSame ==
    ASSUME IndInv, UNCHANGED <<mEncoderCount, todo>>, pc'[Handler] = pc[Handler],
           \A x \in Encoders : pc'[x] = "none" <=> pc[x] = "none"
    PROVE  Rounds'
<1>1. {e \in Encoders : pc'[e] # "none"} = {e \in Encoders : pc[e] # "none"}
  OBVIOUS
<1> QED
  BY <1>1 DEF IndInv, Rounds

\* When an encoder is past its start the muxer counts all of them.
LEMMA AllAdded ==
    ASSUME IndInv, NEW e \in Encoders, ~Early(e)
    PROVE  mEncoderCount = Cardinality(Encoders) /\ mEncoderCount > 0
<1>1. {x \in Encoders : pc[x] # "none"} = Encoders
  BY Names DEF IndInv, Rounds, TypeOK, Early, HandlerLabels
<1>2. Cardinality(Encoders) \in Nat /\ Cardinality(Encoders) # 0
  BY Names, FS_CardinalityType, FS_EmptySet
<1>3. mEncoderCount = Cardinality({x \in Encoders : pc[x] # "none"})
  BY Zenon DEF IndInv, Rounds
<1>4. mEncoderCount = Cardinality(Encoders)
  BY <1>1, <1>3, Zenon
<1> QED
  BY <1>2, <1>4
-----------------------------------------------------------------------------
LEMMA HandlerInd ==
    ASSUME IndInv, NEW e \in Encoders, HandlerStep(e) \/ handleStopRecording
    PROVE  IndInv'
<1> USE Names, ConstantsAssumption
<1> USE DEF IndInv
<1>1. /\ UNCHANGED <<phase, mRequestDrain, frames, format, mStatredCount, mIsStarted,
                     mMediaMuxer, tracks>>
      /\ \A x \in Encoders : pc'[x] = pc[x] \/ (pc[x] \in Plain /\ pc'[x] \in Plain)
      /\ pc' \in [Encoders \cup {Handler} -> HandlerLabels \cup Labels]
      /\ pc'[Handler] \in HandlerLabels /\ \A x \in Encoders : pc'[x] \in Labels
  <2> USE DEF TypeOK, Plain, Labels, HandlerLabels, Turn, Advance, Notify, Jump, flags, media, muxer
  <2>1. CASE MediaEncoder(e)
    BY <2>1 DEF MediaEncoder
  <2>2. CASE Constructed(e)
    BY <2>2 DEF Constructed
  <2>3. CASE prepare(e)
    BY <2>3 DEF prepare
  <2>4. CASE startRecording(e)
    <3>1. pc'[Handler] \in {"start", "recording"}
      BY <2>4 DEF startRecording
    <3>2. \A x \in Encoders : pc'[x] = IF x = e /\ pc[x] = "parked" THEN "loop" ELSE pc[x]
      BY <2>4 DEF startRecording
    <3> QED
      BY <2>4, <3>1, <3>2 DEF startRecording
  <2>5. CASE stopRecording(e)
    <3>1. pc'[Handler] = pc[Handler]
      BY <2>5 DEF stopRecording
    <3>2. \A x \in Encoders : pc'[x] = pc[x] \/ (pc[x] = "parked" /\ pc'[x] = "loop")
      BY ZenonT(60), <2>5 DEF stopRecording
    <3>3. pc' \in [Encoders \cup {Handler} -> HandlerLabels \cup Labels]
      <4>1. CASE UNCHANGED pc
        BY <4>1
      <4>2. CASE Notify(e)
        BY <4>2
      <4> QED
        BY <2>5, <4>1, <4>2 DEF stopRecording
    <3> QED
      BY <2>5, <3>1, <3>2, <3>3 DEF stopRecording
  <2>6. CASE handleStopRecording
    BY <2>6 DEF handleStopRecording
  <2> QED
    BY <2>1, <2>2, <2>3, <2>4, <2>5, <2>6 DEF HandlerStep
<1>2. mMuxerStarted' = mMuxerStarted
  <2>1. CASE prepare(e)
    BY <2>1 DEF prepare, Waiting, Early, Turn, TypeOK
  <2>2. CASE ~prepare(e)
    BY <2>2 DEF HandlerStep, handleStopRecording, MediaEncoder, Constructed, startRecording,
                stopRecording
  <2> QED
    BY <2>1, <2>2
<1>3. Tracks' /\ Muxing'
  BY <1>1, <1>2, MuxerSame
<1>4. Rounds'
  <2> USE DEF Rounds, Turn, Advance, TypeOK
  <2>1. CASE MediaEncoder(e)
    <3>1. {x \in Encoders : pc'[x] # "none"} = {x \in Encoders : pc[x] # "none"} \cup {e}
      BY <2>1 DEF MediaEncoder
    <3>2. Cardinality({x \in Encoders : pc'[x] # "none"}) = mEncoderCount + 1
      BY <2>1, <3>1, Sets DEF MediaEncoder
    <3>3. pc'[Handler] = "await" /\ \A x \in Encoders : pc'[x] = "none" <=> x \in todo \ {e}
      BY <2>1 DEF MediaEncoder
    <3>4. mEncoderCount' = mEncoderCount + 1 /\ e \in todo /\ todo' = todo
      BY <2>1 DEF MediaEncoder
    <3> QED
      BY <3>2, <3>3, <3>4
  <2>2. CASE Constructed(e)
    <3>1. PICK f \in todo : \A x \in Encoders : pc[x] = "none" <=> x \in todo \ {f}
      BY <2>2 DEF Constructed
    <3>2. f = e
      BY <2>2, <3>1 DEF Constructed
    <3>3. \A x \in Encoders : pc'[x] = pc[x]
      BY <2>2 DEF Constructed
    <3>4. {x \in Encoders : pc'[x] # "none"} = {x \in Encoders : pc[x] # "none"}
      BY <3>3
    <3>5. mEncoderCount' = mEncoderCount
      BY <2>2 DEF Constructed, muxer
    <3>6. CASE todo = {e}
      BY <2>2, <3>1, <3>2, <3>3, <3>4, <3>5, <3>6 DEF Constructed
    <3>7. CASE todo # {e}
      BY <2>2, <3>1, <3>2, <3>3, <3>4, <3>5, <3>7 DEF Constructed
    <3> QED
      BY <3>6, <3>7
  <2>3. CASE prepare(e) \/ startRecording(e) \/ stopRecording(e) \/ handleStopRecording
    <3>1. \A x \in Encoders : pc[x] # "none"
      BY <2>3 DEF prepare, startRecording, stopRecording, handleStopRecording, Jump
    <3>2. \A x \in Encoders : pc'[x] # "none"
      BY <2>3, <3>1 DEF prepare, startRecording, stopRecording, handleStopRecording, Jump, Notify
    <3>3. {x \in Encoders : pc'[x] # "none"} = {x \in Encoders : pc[x] # "none"}
      BY <3>1, <3>2
    <3>4. mEncoderCount' = mEncoderCount /\ pc'[Handler] \notin {"construct", "await"}
      BY <2>3 DEF prepare, startRecording, stopRecording, handleStopRecording, Jump, Notify, muxer
    <3> QED
      BY <3>2, <3>3, <3>4
  <2> QED
    BY <2>1, <2>2, <2>3 DEF HandlerStep
<1>5. Waiting'
  <2> USE DEF Waiting, Early, Turn, Advance, TypeOK, flags
  <2>1. CASE MediaEncoder(e) \/ Constructed(e) \/ prepare(e)
    BY <2>1, <1>2 DEF MediaEncoder, Constructed, prepare
  <2>2. CASE startRecording(e)
    BY <2>2, <1>2 DEF startRecording
  <2>3. CASE stopRecording(e) \/ handleStopRecording
    BY <2>3, <1>2 DEF stopRecording, handleStopRecording, Jump, Notify
  <2> QED
    BY <2>1, <2>2, <2>3 DEF HandlerStep
<1>6. TypeOK'
  <2> USE DEF TypeOK, flags, media, muxer
  <2>1. mEncoderCount' \in 0..Cardinality(Encoders)
    <3>1. {x \in Encoders : pc'[x] # "none"} \in SUBSET Encoders
      OBVIOUS
    <3> QED
      BY <3>1, <1>4, Sets DEF Rounds
  <2>2. /\ todo' \subseteq Encoders
        /\ feed' \in [Encoders -> {"none", "idle", "announce", "encode", "queue", "end"}]
        /\ mIsCapturing' \in [Encoders -> BOOLEAN] /\ mRequestStop' \in [Encoders -> BOOLEAN]
        /\ codec' \in [Encoders -> {"null", "running", "released"}]
    BY ZenonT(60) DEF HandlerStep, MediaEncoder, Constructed, prepare, startRecording, stopRecording,
           handleStopRecording, Advance, Turn
  <2> QED
    BY <1>1, <1>2, <2>1, <2>2
<1> QED
  BY <1>3, <1>4, <1>5, <1>6
-----------------------------------------------------------------------------
\* What every step of an encoder's thread leaves alone.
LEMMA EncoderOnly ==
    ASSUME IndInv, NEW e \in Encoders, EncoderStep(e)
    PROVE  /\ UNCHANGED <<todo, feed, mEncoderCount>>
           /\ pc' = [pc EXCEPT ![e] = pc'[e]] /\ pc'[e] \in Labels \ {"none"} /\ pc[e] # "none"
           /\ pc' \in [Encoders \cup {Handler} -> HandlerLabels \cup Labels]
<1> DEFINE Goes == \E l \in Labels \ {"none"} : pc' = [pc EXCEPT ![e] = l]
<1> USE Names
<1>4. ASSUME Goes
      PROVE  /\ pc' = [pc EXCEPT ![e] = pc'[e]] /\ pc'[e] \in Labels \ {"none"}
             /\ pc' \in [Encoders \cup {Handler} -> HandlerLabels \cup Labels]
  <2>1. PICK l \in Labels \ {"none"} : pc' = [pc EXCEPT ![e] = l]
    BY <1>4
  <2>2. pc \in [Encoders \cup {Handler} -> HandlerLabels \cup Labels]
    BY DEF IndInv, TypeOK
  <2> QED
    BY <2>1, <2>2
<1> USE DEF Jump, Labels, muxer
<1>1. CASE Born(e) \/ ReadRequests(e) \/ Sleep(e) \/ DrainEnd(e)
  <2>1. UNCHANGED <<todo, feed, mEncoderCount>> /\ pc[e] # "none"
    BY <1>1 DEF Born, ReadRequests, Sleep, DrainEnd
  <2>2. Goes
    BY <1>1 DEF Born, ReadRequests, Sleep, DrainEnd, AfterDrain
  <2> QED
    BY <1>4, <2>1, <2>2
<1>2. CASE Dequeue(e) \/ addTrack(e) \/ start(e) \/ AwaitMuxer(e) \/ writeSampleData(e)
  <2>1. UNCHANGED <<todo, feed, mEncoderCount>> /\ pc[e] # "none"
    BY <1>2 DEF Dequeue, addTrack, start, AwaitMuxer, writeSampleData
  <2>2. Goes
    BY <1>2 DEF Dequeue, addTrack, start, AwaitMuxer, writeSampleData
  <2> QED
    BY <1>4, <2>1, <2>2
<1>3. CASE signalEndOfInputStream(e) \/ release(e) \/ stop(e) \/ Leave(e)
  <2>1. UNCHANGED <<todo, feed, mEncoderCount>> /\ pc[e] # "none"
    BY <1>3 DEF signalEndOfInputStream, release, stop, Leave
  <2>2. Goes
    BY <1>3 DEF signalEndOfInputStream, release, stop, Leave
  <2> QED
    BY <1>4, <2>1, <2>2
<1> QED
  BY <1>1, <1>2, <1>3 DEF EncoderStep

\* The muxer's state over a step of an encoder's thread.
LEMMA EncoderMuxing ==
    ASSUME IndInv, NEW e \in Encoders, EncoderStep(e)
    PROVE  Tracks' /\ Muxing'
<1> USE Names
<1>1. /\ pc' = [pc EXCEPT ![e] = pc'[e]] /\ pc'[e] \in Labels
      /\ pc \in [Encoders \cup {Handler} -> HandlerLabels \cup Labels]
      /\ \A x \in Encoders : x # e => pc'[x] = pc[x]
  BY EncoderOnly DEF IndInv, TypeOK
<1>2. mEncoderCount' = mEncoderCount
  BY EncoderOnly
<1> USE DEF IndInv, Jump, media, muxer, flags
<1>3. CASE \/ Born(e) \/ ReadRequests(e) \/ Sleep(e) \/ DrainEnd(e) \/ signalEndOfInputStream(e)
           \/ release(e)
  <2>1. /\ UNCHANGED <<mMuxerStarted, format, mStatredCount, mIsStarted, mMediaMuxer, tracks>>
        /\ pc[e] \in Plain /\ pc'[e] \in Plain
    BY ZenonT(60), <1>3 DEF Born, ReadRequests, Sleep, DrainEnd, AfterDrain, signalEndOfInputStream, release,
                Plain, Labels, TypeOK
  <2> QED
    BY <1>1, <2>1, MuxerSame
<1>4. CASE Dequeue(e)
  <2>1. /\ UNCHANGED <<mMuxerStarted, mStatredCount, mIsStarted, mMediaMuxer, tracks>>
        /\ pc[e] = "drain"
    BY <1>4 DEF Dequeue
  <2>2. mMediaMuxer = "made" => ~mMuxerStarted[e]
    BY <2>1 DEF Muxing
  <2>3. pc'[e] \in {"addTrack", "write"}
    BY <1>4 DEF Dequeue, TypeOK
  <2>4. Counted' = Counted
    BY <1>1, <2>1, <2>3 DEF Counted
  <2>5. Muxing'
    BY <1>1, <2>1, <2>2, <2>3, <2>4 DEF Muxing
  <2>6. CASE ~format[e]
    <3>1. pc'[e] = "addTrack" /\ format' = [format EXCEPT ![e] = TRUE] /\ ~mMuxerStarted[e]
      BY <1>4, <2>6 DEF Dequeue, Tracks, TypeOK
    <3> QED
      BY <1>1, <2>1, <2>5, <3>1 DEF Tracks, TypeOK
  <2>7. CASE format[e]
    <3>1. pc'[e] = "write" /\ format' = format /\ mMuxerStarted[e]
      BY <1>4, <2>1, <2>7 DEF Dequeue, Tracks, TypeOK
    <3> QED
      BY <1>1, <2>1, <2>5, <3>1 DEF Tracks, TypeOK
  <2> QED
    BY <2>5, <2>6, <2>7
<1>5. CASE addTrack(e)
  <2>1. /\ UNCHANGED <<format, mStatredCount, mIsStarted, mMediaMuxer>>
        /\ pc[e] = "addTrack" /\ pc'[e] = "start" /\ ~mMuxerStarted[e] /\ format[e]
        /\ mMuxerStarted' = [mMuxerStarted EXCEPT ![e] = TRUE] /\ tracks' = tracks \cup {e}
    BY <1>5 DEF addTrack, Tracks, TypeOK
  <2>2. mMediaMuxer = "made"
    BY <2>1 DEF Muxing
  <2>3. Counted' = Counted
    BY <1>1, <2>1 DEF Counted, TypeOK
  <2>4. Muxing'
    BY <1>1, <2>1, <2>2, <2>3 DEF Muxing, TypeOK
  <2>5. Tracks'
    <3>1. \A x \in Encoders : mMuxerStarted'[x] = (mMuxerStarted[x] \/ x = e)
      BY <2>1 DEF TypeOK
    <3>2. tracks' = {x \in Encoders : mMuxerStarted'[x]}
      BY <2>1, <3>1 DEF Tracks
    <3> QED
      BY <1>1, <2>1, <3>1, <3>2 DEF Tracks
  <2> QED
    BY <2>4, <2>5
<1>6. CASE start(e)
  <2>1. /\ UNCHANGED <<format, tracks, mMuxerStarted>>
        /\ pc[e] = "start" /\ mMuxerStarted[e]
        /\ mStatredCount' = mStatredCount + 1
        /\ pc'[e] = IF mIsStarted' THEN "drain" ELSE "await muxer"
    BY <1>6 DEF start, Tracks, TypeOK
  <2>2. mMediaMuxer = "made" /\ ~mIsStarted
    BY <2>1 DEF Muxing
  <2>3. Counted' = Counted \cup {e} /\ e \notin Counted
    BY <1>1, <2>1 DEF Counted
  <2>4. mStatredCount' = Cardinality(Counted')
    <3>1. mStatredCount = Cardinality(Counted) /\ Counted \in SUBSET Encoders
      <4>1. mStatredCount = Cardinality(Counted)
        BY DEF Muxing
      <4> QED
        BY <4>1 DEF Counted
    <3>2. Cardinality(Counted \cup {e}) = Cardinality(Counted) + 1
      BY <2>3, <3>1, Sets
    <3> QED
      BY <2>1, <2>3, <3>1, <3>2
  <2>5. mEncoderCount = Cardinality(Encoders) /\ mEncoderCount > 0
    BY <2>1, AllAdded DEF Waiting
  <2>6. Tracks'
    BY <1>1, <2>1 DEF Tracks
  <2>7. CASE AllStarted(mStatredCount + 1)
    <3>1. Counted' = Encoders
      <4>1. Cardinality(Counted') = Cardinality(Encoders)
        BY <2>1, <2>4, <2>5, <2>7 DEF AllStarted
      <4>2. Counted' \in SUBSET Encoders
        BY DEF Counted
      <4> QED
        BY <4>1, <4>2, Sets
    <3>2. mIsStarted' /\ mMediaMuxer' = "started"
      BY <1>6, <2>7 DEF start
    <3>3. \A x \in Encoders : mMuxerStarted'[x] /\ pc'[x] # "start"
      BY <3>1 DEF Counted
    <3> QED
      BY <2>4, <2>6, <3>1, <3>2, <3>3, Names DEF Muxing
  <2>8. CASE ~AllStarted(mStatredCount + 1)
    <3>1. Counted' # Encoders
      BY <2>1, <2>4, <2>5, <2>8 DEF AllStarted
    <3>2. mIsStarted' = mIsStarted /\ mMediaMuxer' = mMediaMuxer
      BY <1>6, <2>8 DEF start
    <3> QED
      BY <1>1, <2>1, <2>2, <2>4, <2>6, <3>1, <3>2 DEF Muxing
  <2> QED
    BY <2>7, <2>8
<1>7. CASE AwaitMuxer(e) \/ writeSampleData(e) \/ Leave(e)
  <2>1. /\ UNCHANGED <<mMuxerStarted, format, mStatredCount, mIsStarted, mMediaMuxer, tracks>>
        /\ \/ pc[e] = "await muxer" /\ pc'[e] = "drain" /\ mIsStarted
           \/ pc[e] = "write" /\ pc'[e] = "drain"
           \/ pc[e] = "leave" /\ pc'[e] = "exit"
    BY <1>1, <1>7 DEF AwaitMuxer, writeSampleData, Leave, TypeOK
  <2>2. Counted' = Counted
    BY <1>1, <2>1 DEF Counted
  <2> QED
    BY <1>1, <2>1, <2>2 DEF Tracks, Muxing
<1>8. CASE stop(e)
  <2>1. /\ UNCHANGED <<format, tracks, mMuxerStarted>>
        /\ pc[e] = "stop muxer" /\ pc'[e] = "leave"
    BY <1>1, <1>8 DEF stop, TypeOK
  <2>2. Tracks'
    BY <1>1, <2>1 DEF Tracks
  <2>3. CASE ~mMuxerStarted[e]
    <3>1. Counted' = Counted /\ UNCHANGED <<mStatredCount, mIsStarted, mMediaMuxer>>
      BY <1>1, <1>8, <2>1, <2>3 DEF stop, StopsMuxer, Counted
    <3> QED
      BY <1>1, <2>1, <2>2, <2>3, <3>1 DEF Muxing
  <2>4. CASE mMuxerStarted[e]
    <3>1. mMediaMuxer = "started"
      BY <2>1, <2>4 DEF Muxing, Counted, TypeOK
    <3>2. Counted' = Counted \ {e} /\ e \in Counted
      BY <1>1, <2>1, <2>4 DEF Counted
    <3>3. mStatredCount' = mStatredCount - 1
      BY <1>8, <2>4 DEF stop, StopsMuxer
    <3>4. mEncoderCount > 0
      BY <2>4, AllAdded DEF Waiting
    <3>5. mStatredCount' = Cardinality(Counted')
      <4>1. mStatredCount = Cardinality(Counted)
        BY DEF Muxing
      <4>2. Counted \in SUBSET Encoders
        BY DEF Counted
      <4>3. Cardinality(Counted \ {e}) = Cardinality(Counted) - 1
        BY <3>2, <4>2, Sets
      <4> QED
        BY <3>2, <3>3, <4>1, <4>3
    <3>6. mStatredCount' <= 0 <=> Counted' = {}
      <4>1. Counted' \in SUBSET Encoders
        BY DEF Counted
      <4>2. Cardinality(Counted') \in Nat /\ (Cardinality(Counted') = 0 <=> Counted' = {})
        BY <4>1, Sets, FS_CardinalityType
      <4> QED
        BY <3>5, <4>2
    <3> QED
      BY <1>1, <1>8, <2>1, <2>2, <2>4, <3>1, <3>3, <3>4, <3>5, <3>6
      DEF Muxing, stop, StopsMuxer, NobodyLeft
  <2> QED
    BY <2>3, <2>4
<1> QED
  BY <1>3, <1>4, <1>5, <1>6, <1>7, <1>8 DEF EncoderStep

LEMMA EncoderInd ==
    ASSUME IndInv, NEW e \in Encoders, EncoderStep(e)
    PROVE  IndInv'
<1> USE Names DEF IndInv
<1>1. /\ UNCHANGED <<todo, feed, mEncoderCount>>
      /\ pc' = [pc EXCEPT ![e] = pc'[e]] /\ pc'[e] \in Labels \ {"none"} /\ pc[e] # "none"
      /\ pc' \in [Encoders \cup {Handler} -> HandlerLabels \cup Labels]
  BY EncoderOnly
<1>2. pc'[Handler] = pc[Handler] /\ \A x \in Encoders \ {e} : pc'[x] = pc[x]
  BY <1>1 DEF TypeOK
<1>3. Tracks' /\ Muxing'
  BY EncoderMuxing
<1>4. Rounds'
  BY <1>1, <1>2, RoundsSame
<1>5. Waiting'
  <2>1. ASSUME NEW x \in Encoders PROVE Early(x)' <=> Early(x)
    BY <1>1, <1>2 DEF Early
  <2>2. CASE Early(e)
    <3>1. pc[e] \in {"born", "loop", "window", "parked"} /\ ~mRequestStop[e] /\ mRequestDrain[e] = 0
      BY <1>1, <2>2 DEF Waiting
    <3>2. Born(e) \/ ReadRequests(e) \/ Sleep(e)
      BY <3>1 DEF EncoderStep, DrainEnd, Dequeue, addTrack, start, AwaitMuxer, writeSampleData,
                  signalEndOfInputStream, release, stop, Leave, Jump
    <3>3. UNCHANGED <<mMuxerStarted, mIsCapturing>> /\ pc'[e] \in {"loop", "window", "parked"}
      BY <1>1, <3>1, <3>2 DEF Born, ReadRequests, Sleep, Jump, TypeOK, flags
    <3>4. /\ ~mRequestStop'[e] /\ mRequestDrain'[e] = 0
          /\ \A x \in Encoders \ {e} : mRequestStop'[x] = mRequestStop[x]
                                       /\ mRequestDrain'[x] = mRequestDrain[x]
      BY <3>1, <3>2 DEF Born, ReadRequests, Sleep, TypeOK, flags
    <3> QED
      BY <1>1, <1>2, <2>1, <3>3, <3>4 DEF Waiting
  <2>3. CASE ~Early(e)
    <3>1. \A x \in Encoders \ {e} :
            /\ mIsCapturing'[x] = mIsCapturing[x] /\ mRequestStop'[x] = mRequestStop[x]
            /\ mRequestDrain'[x] = mRequestDrain[x] /\ mMuxerStarted'[x] = mMuxerStarted[x]
      BY DEF EncoderStep, Born, ReadRequests, Sleep, DrainEnd, Dequeue, addTrack, start, AwaitMuxer,
             writeSampleData, signalEndOfInputStream, release, stop, Leave, flags, TypeOK
    <3> QED
      BY <1>1, <1>2, <2>1, <2>3, <3>1 DEF Waiting
  <2> QED
    BY <2>2, <2>3
<1>6. TypeOK'
  <2>1. mStatredCount' \in 0..Cardinality(Encoders)
    <3>1. Counted' \in SUBSET Encoders /\ mStatredCount' = Cardinality(Counted')
      <4>1. mStatredCount' = Cardinality(Counted')
        BY <1>3 DEF Muxing
      <4> QED
        BY <4>1 DEF Counted
    <3> QED
      BY <3>1, Sets
  <2>2. tracks' \subseteq Encoders
    BY <1>3 DEF Tracks
  <2> USE DEF TypeOK, flags, media, muxer
  <2>3. /\ phase' \in [Encoders -> {"run", "last", "eos"}]
        /\ mIsCapturing' \in [Encoders -> BOOLEAN] /\ mRequestStop' \in [Encoders -> BOOLEAN]
        /\ mMuxerStarted' \in [Encoders -> BOOLEAN] /\ format' \in [Encoders -> BOOLEAN]
        /\ codec' \in [Encoders -> {"null", "running", "released"}]
    BY DEF EncoderStep, Born, ReadRequests, Sleep, DrainEnd, Dequeue, addTrack, start, AwaitMuxer,
           writeSampleData, signalEndOfInputStream, release, stop, Leave
  <2>4. frames' \in [Encoders -> 0..InputBuffers] /\ mRequestDrain' \in [Encoders -> 0..MaxRequests]
    <3>1. CASE Dequeue(e)
      BY <3>1, ConstantsAssumption DEF Dequeue
    <3>2. CASE Born(e) \/ ReadRequests(e)
      BY <3>2, ConstantsAssumption DEF Born, ReadRequests
    <3>3. CASE ~Dequeue(e) /\ ~Born(e) /\ ~ReadRequests(e)
      BY <3>3 DEF EncoderStep, Sleep, DrainEnd, addTrack, start, AwaitMuxer,
             writeSampleData, signalEndOfInputStream, release, stop, Leave
    <3> QED
      BY <3>1, <3>2, <3>3
  <2>5. mIsStarted' \in BOOLEAN /\ mMediaMuxer' \in {"made", "started", "stopped"}
    BY DEF EncoderStep, Born, ReadRequests, Sleep, DrainEnd, Dequeue, addTrack, start, AwaitMuxer,
           writeSampleData, signalEndOfInputStream, release, stop, Leave
  <2> QED
    BY <1>1, <1>2, <2>1, <2>2, <2>3, <2>4, <2>5
<1> QED
  BY <1>3, <1>4, <1>5, <1>6

LEMMA FeedInd ==
    ASSUME IndInv, NEW e \in Encoders, FeedStep(e)
    PROVE  IndInv'
<1> USE Names, ConstantsAssumption DEF IndInv, Feed
<1>1. /\ UNCHANGED <<todo, phase, mIsCapturing, mRequestStop, mMuxerStarted, codec, format, muxer>>
      /\ \A x \in Encoders : pc'[x] = pc[x] \/ (pc[x] = "parked" /\ pc'[x] = "loop")
      /\ pc'[Handler] = pc[Handler]
      /\ pc' \in [Encoders \cup {Handler} -> HandlerLabels \cup Labels]
  <2> USE DEF flags, media, muxer, TypeOK
  <2>1. CASE FeedBegin(e) \/ encode(e)
    BY <2>1 DEF FeedBegin, encode
  <2>2. CASE frameAvailableSoon(e)
    <3>1. UNCHANGED pc \/ Notify(e)
      BY <2>2 DEF frameAvailableSoon
    <3>2. CASE UNCHANGED pc
      BY <2>2, <3>2 DEF frameAvailableSoon
    <3>3. CASE Notify(e)
      BY <2>2, <3>3 DEF frameAvailableSoon, Notify, Labels
    <3> QED
      BY <3>1, <3>2, <3>3
  <2> QED
    BY <2>1, <2>2 DEF FeedStep
<1>2. Tracks' /\ Muxing'
  BY <1>1, MuxerSame DEF Plain, Labels, muxer
<1>3. Rounds'
  BY <1>1, RoundsSame DEF muxer
<1>4. /\ feed' \in [Encoders -> {"none", "idle", "announce", "encode", "queue", "end"}]
      /\ \A x \in Encoders : feed[x] = "none" => feed'[x] = "none"
  BY DEF FeedStep, FeedBegin, frameAvailableSoon, encode, AfterEncode, AfterException, TypeOK
<1>5. /\ mRequestDrain' \in [Encoders -> 0..MaxRequests]
      /\ \A x \in Encoders : ~mIsCapturing[x] => mRequestDrain'[x] = mRequestDrain[x]
  BY DEF FeedStep, FeedBegin, frameAvailableSoon, encode, TypeOK, flags, Accepts
<1>6. frames' \in [Encoders -> 0..InputBuffers]
  BY DEF FeedStep, FeedBegin, frameAvailableSoon, encode, TypeOK, media
<1>7. Waiting'
  BY <1>1, <1>4, <1>5 DEF Waiting, Early
<1>8. TypeOK'
  BY <1>1, <1>4, <1>5, <1>6 DEF TypeOK, muxer, Labels
<1> QED
  BY <1>2, <1>3, <1>7, <1>8

LEMMA NextInd == IndInv /\ [Next]_vars => IndInv'
<1>1. ASSUME IndInv, Next PROVE IndInv'
  BY <1>1, Names, HandlerInd, EncoderInd, FeedInd DEF Next
<1>2. ASSUME IndInv, UNCHANGED vars PROVE IndInv'
  <2>1. /\ UNCHANGED <<pc, todo, feed, phase, mIsCapturing, mRequestStop, mRequestDrain,
                       mMuxerStarted, codec, frames, format>>
        /\ UNCHANGED <<mEncoderCount, mStatredCount, mIsStarted, mMediaMuxer, tracks>>
    BY <1>2 DEF vars, flags, media, muxer
  <2>2. TypeOK' /\ Waiting'
    BY <1>2, <2>1 DEF IndInv, TypeOK, Waiting, Early
  <2>3. Rounds' /\ Tracks' /\ Muxing'
    BY <1>2, <2>1, RoundsSame, MuxerSame
  <2> QED
    BY <2>2, <2>3 DEF IndInv
<1> QED
  BY <1>1, <1>2

LEMMA Inductive == Spec => []IndInv
BY InitInd, NextInd, PTL DEF Spec

\* Every variable of a recording keeps its type; the muxer's count of started
\* encoders never leaves 0..Cardinality(Encoders) (MediaMuxerWrapper.start, stop).
THEOREM TypeCorrect == Spec => []TypeOK
<1>1. IndInv => TypeOK
  BY DEF IndInv
<1> QED
  BY <1>1, Inductive, PTL

\* MediaMuxer gets its tracks before it is started, is started with all of them
\* and written to only while it is started, however the threads interleave.
THEOREM MuxerUsedWell == Spec => []MuxerProtocol
<1>1. IndInv => MuxerProtocol
  <2> SUFFICES ASSUME IndInv, NEW e \in Encoders
               PROVE  /\ pc[e] \in {"addTrack", "start"} => mMediaMuxer = "made"
                      /\ pc[e] = "write" => mMediaMuxer = "started" /\ tracks = Encoders
    BY DEF MuxerProtocol
  <2>1. pc[e] \in {"addTrack", "start"} => mMediaMuxer = "made"
    BY DEF IndInv, Tracks, Muxing
  <2>2. pc[e] = "write" => mMuxerStarted[e] /\ e \in Counted
    BY DEF IndInv, Tracks, Counted
  <2>3. pc[e] = "write" => mMediaMuxer = "started"
    BY <2>2 DEF IndInv, Muxing, TypeOK
  <2>4. mMediaMuxer = "started" => tracks = Encoders
    BY DEF IndInv, Muxing, Tracks
  <2> QED
    BY <2>1, <2>3, <2>4
<1> QED
  BY <1>1, Inductive, PTL

\* The last encoder that ends has stopped the muxer, if it ever ran.
THEOREM FileIsFinished == Spec => []FileFinished
<1>1. IndInv => FileFinished
  BY Names DEF IndInv, Muxing, Counted, FileFinished
<1> QED
  BY <1>1, Inductive, PTL
-----------------------------------------------------------------------------
(* The safety part of NoticedStopEnds.                                     *)

Ending == Labels \ {"none", "born", "loop", "window", "parked"}

\* An encoder that has noticed the request to stop goes on to its end.
Noticed == \A e \in Encoders : phase[e] # "run" => pc[e] \in Ending

LEMMA NoticedByHandler ==
    ASSUME IndInv, Noticed, NEW e \in Encoders, HandlerStep(e) \/ handleStopRecording
    PROVE  Noticed'
<1> USE Names DEF IndInv, TypeOK, Noticed, Turn, Advance, Notify, Jump
<1>1. /\ UNCHANGED phase
      /\ \A x \in Encoders : pc'[x] = pc[x] \/ pc[x] \in {"none", "parked"}
  <2>1. CASE MediaEncoder(e)
    BY <2>1 DEF MediaEncoder
  <2>2. CASE Constructed(e) \/ prepare(e) \/ handleStopRecording
    BY <2>2 DEF Constructed, prepare, handleStopRecording
  <2>3. CASE startRecording(e)
    BY <2>3 DEF startRecording
  <2>4. CASE stopRecording(e)
    BY <2>4, Zenon DEF stopRecording
  <2> QED
    BY <2>1, <2>2, <2>3, <2>4 DEF HandlerStep
<1> QED
  BY <1>1 DEF Ending

LEMMA NoticedByEncoder ==
    ASSUME IndInv, Noticed, NEW e \in Encoders, EncoderStep(e)
    PROVE  Noticed'
<1> USE Names DEF IndInv, TypeOK, Noticed, Jump
<1>1. \A x \in Encoders \ {e} : pc'[x] = pc[x] /\ phase'[x] = phase[x]
  BY DEF EncoderStep, Born, ReadRequests, Sleep, DrainEnd, Dequeue, addTrack, start, AwaitMuxer,
         writeSampleData, signalEndOfInputStream, release, stop, Leave
<1>2. phase'[e] # "run" => pc'[e] \in Ending
  <2>1. CASE Born(e) \/ Sleep(e)
    BY <2>1 DEF Born, Sleep, Ending
  <2>2. CASE ReadRequests(e)
    BY <2>2 DEF ReadRequests, Ending, Labels
  <2>3. CASE DrainEnd(e)
    BY <2>3 DEF DrainEnd, AfterDrain, Ending, Labels
  <2>4. CASE Dequeue(e) \/ addTrack(e) \/ start(e) \/ AwaitMuxer(e) \/ writeSampleData(e)
    BY <2>4 DEF Dequeue, addTrack, start, AwaitMuxer, writeSampleData, Ending, Labels
  <2>5. CASE signalEndOfInputStream(e) \/ release(e) \/ stop(e) \/ Leave(e)
    BY <2>5 DEF signalEndOfInputStream, release, stop, Leave, Ending, Labels
  <2> QED
    BY <2>1, <2>2, <2>3, <2>4, <2>5 DEF EncoderStep
<1> QED
  BY <1>1, <1>2

LEMMA NoticedByFeeder ==
    ASSUME IndInv, Noticed, NEW e \in Encoders, FeedStep(e)
    PROVE  Noticed'
<1> USE Names DEF IndInv, TypeOK, Noticed
<1>1. UNCHANGED phase /\ \A x \in Encoders : pc'[x] = pc[x] \/ pc[x] = "parked"
  <2>1. CASE FeedBegin(e) \/ encode(e)
    BY <2>1 DEF FeedBegin, encode
  <2>2. CASE frameAvailableSoon(e)
    BY <2>2, Zenon DEF frameAvailableSoon, Notify
  <2> QED
    BY <2>1, <2>2 DEF FeedStep
<1> QED
  BY <1>1 DEF Ending

\* What stands between a noticed request and the encoder's end is never a wait
\* that nobody ends: the encoder does not sleep any more, and the muxer it
\* waits for may still start or has started, but has not stopped.
StopGoesOn ==
    \A e \in Encoders :
        /\ phase[e] # "run" => pc[e] \notin {"none", "born", "loop", "window", "parked"}
        /\ pc[e] = "await muxer" => mMediaMuxer # "stopped"

\* run leaves its loop for good at the request to stop, and the last of the
\* encoders to end, not an earlier one, stops the muxer the others wait for.
THEOREM StopIsFollowed == Spec => []StopGoesOn
<1>1. IndInv /\ Noticed => StopGoesOn
  <2> SUFFICES ASSUME IndInv, Noticed, NEW e \in Encoders, pc[e] = "await muxer"
               PROVE  mMediaMuxer # "stopped"
    BY DEF StopGoesOn, Noticed, Ending
  <2>1. e \in Counted
    BY DEF IndInv, Tracks, Counted
  <2> QED
    BY <2>1 DEF IndInv, Muxing
<1>2. Init => Noticed
  BY DEF Init, Noticed
<1>3. IndInv /\ Noticed /\ [Next]_vars => Noticed'
  <2>1. ASSUME Noticed, UNCHANGED vars PROVE Noticed'
    BY <2>1 DEF Noticed, vars
  <2> QED
    BY <2>1, Names, NoticedByHandler, NoticedByEncoder, NoticedByFeeder DEF Next
<1> QED
  BY <1>1, <1>2, <1>3, Inductive, PTL DEF Spec
=============================================================================

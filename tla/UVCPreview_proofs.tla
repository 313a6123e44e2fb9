------------------------- MODULE UVCPreview_proofs --------------------------
(***************************************************************************)
(* Proofs about UVCPreview, for any number of buffers, windows, callbacks  *)
(* and capture threads and any MAX_FRAME.                                  *)
(***************************************************************************)
EXTENDS UVCPreview, FiniteSetTheorems, SequenceTheorems, TLAPS

\* What a thread's position says of its local variables and of the call it
\* is in: the buffers it is going to use are there.
ThreadState ==
    /\ pc[Ctrl] \in {"parked", "woken"} =>
         \/ op = "display" /\ arg \in CaptureWindows \cup {NULL}
         \/ op \in {"callback", "stop", "close"} /\ arg \in Callbacks \cup {NULL}
    /\ pc[Usb] \in {"add", "undo"} => local[<<"frame", Usb>>] \in Frames
    /\ pc[Pv] \in {"decode", "decoded", "undecodable", "draw", "show", "add"}
         => local[<<"frame", Pv>>] \in Frames
    /\ Alive /\ pc[Pv] \in {"decoded", "undecodable", "show"}
         => local[<<"converted", Pv>>] \in Frames
    /\ \A t \in CaptureThreads :
         /\ pc[t] \in {"convert", "window", "copying", "callback", "converted",
                       "call", "onFrame", "recycle"} => local[<<"frame", t>>] \in Frames
         /\ pc[t] = "converted" => local[<<"callback_frame", t>>] \in Frames

IndInv == TypeOK /\ ThreadState
-----------------------------------------------------------------------------
(* The pool operations.                                                    *)

LEMMA ThreadNames ==
    /\ Ctrl \in Threads /\ Usb \in Threads /\ Pv \in Threads
    /\ CaptureThreads \subseteq Threads
    /\ Ctrl # Usb /\ Ctrl # Pv /\ Usb # Pv
    /\ \A t \in CaptureThreads : t # Ctrl /\ t # Usb /\ t # Pv /\ t # NULL
BY ConstantsAssumption DEF Threads, Ctrl, Usb, Pv

LEMMA SubsetsAreFinite == \A S \in SUBSET Frames : IsFiniteSet(S) /\ Cardinality(S) \in Nat
BY ConstantsAssumption, FS_Subset, FS_CardinalityType

LEMMA PoolSize == MaxFrame \in Nat /\ FRAME_POOL_SZ \in Nat
BY ConstantsAssumption DEF FRAME_POOL_SZ

\* recycle_frame keeps the pool within its limit and frees only what it is given.
LEMMA RecycleTypes ==
    ASSUME BufferTypes, NEW S \in SUBSET Frames, recycle_frame(S)
    PROVE  /\ mFramePool' \in SUBSET Frames /\ Cardinality(mFramePool') <= FRAME_POOL_SZ
           /\ mFramePool' \subseteq mFramePool \cup S
           /\ allocated' \in SUBSET Frames
           /\ allocated \ S \subseteq allocated'
           /\ mFramePool' \ mFramePool \subseteq S
           /\ mFramePool \subseteq mFramePool'
           /\ allocated' \subseteq allocated
           /\ \A f \in S : f \in allocated => f \in mFramePool' \/ f \notin allocated'
<1>1. PICK kept \in SUBSET S :
        /\ \/ kept = S /\ Cardinality(mFramePool \cup S) <= FRAME_POOL_SZ
           \/ /\ Cardinality(mFramePool \cup S) > FRAME_POOL_SZ
              /\ Cardinality(mFramePool \cup kept) = FRAME_POOL_SZ
        /\ mFramePool' = mFramePool \cup kept
        /\ allocated' = allocated \ (S \ kept)
  BY DEF recycle_frame
<1>2. Cardinality(mFramePool') <= FRAME_POOL_SZ
  <2>1. CASE kept = S /\ Cardinality(mFramePool \cup S) <= FRAME_POOL_SZ
    BY <1>1, <2>1
  <2>2. CASE Cardinality(mFramePool \cup kept) = FRAME_POOL_SZ
    BY <1>1, <2>2, PoolSize
  <2> QED
    BY <1>1, <2>1, <2>2
<1> QED
  BY <1>1, <1>2 DEF BufferTypes

\* get_frame gives a buffer nobody has, or NULL.
LEMMA GetFrameTypes ==
    ASSUME BufferTypes, NEW f, get_frame(f)
    PROVE  /\ f \in Frames \cup {NULL}
           /\ f # NULL => f \in mFramePool \/ f \notin allocated
           /\ mFramePool' = mFramePool \ {f}
           /\ mFramePool' \in SUBSET Frames /\ Cardinality(mFramePool') <= FRAME_POOL_SZ
           /\ allocated' \in SUBSET Frames
           /\ allocated \subseteq allocated'
           /\ f # NULL => f \in allocated'
<1>1. /\ f \in Frames \cup {NULL} /\ mFramePool' = mFramePool \ {f}
      /\ allocated' = allocated \cup (IF f = NULL THEN {} ELSE {f})
      /\ f # NULL => f \in mFramePool \/ f \notin allocated
  BY ConstantsAssumption DEF get_frame, Available, NotNull, BufferTypes
<1>2. IsFiniteSet(mFramePool) /\ Cardinality(mFramePool) \in Nat
  BY SubsetsAreFinite DEF BufferTypes
<1>3. Cardinality(mFramePool') <= Cardinality(mFramePool) /\ Cardinality(mFramePool') \in Nat
  BY <1>1, <1>2, FS_Subset, FS_CardinalityType
<1>4. Cardinality(mFramePool') <= FRAME_POOL_SZ
  BY <1>2, <1>3, PoolSize DEF BufferTypes
<1> QED
  BY <1>1, <1>4 DEF BufferTypes
-----------------------------------------------------------------------------
(* Types and thread positions, one lemma for each thread.                  *)

LEMMA QueuedTypes ==
    BufferTypes => /\ Queued \in SUBSET Frames
                   /\ \A i \in 1..Len(previewFrames) : previewFrames[i] \in Queued
                   /\ previewFrames # <<>> => Len(previewFrames) \in Nat \ {0}
BY DEF BufferTypes, Queued

LEMMA EmptyQueue == <<>> \in Seq(Frames) /\ Len(<<>>) <= MaxFrame
BY PoolSize

\* waitPreviewFrame's removal of the oldest frame keeps the others in order.
Taken == SubSeq(previewFrames, 1, NextFrame - 1)
           \o SubSeq(previewFrames, NextFrame + 1, Len(previewFrames))

LEMMA TakeOldest ==
    ASSUME BufferTypes, previewFrames # <<>>
    PROVE  /\ previewFrames[NextFrame] \in Frames
           /\ Taken \in Seq(Frames)
           /\ Len(Taken) \in Nat /\ Len(Taken) = Len(previewFrames) - 1
           /\ Len(Taken) <= MaxFrame
           /\ \A i \in 1..Len(Taken) : Taken[i] = previewFrames[i + 1]
<1>1. /\ previewFrames \in Seq(Frames) /\ Len(previewFrames) \in Nat \ {0}
      /\ Len(previewFrames) <= MaxFrame
  BY DEF BufferTypes
<1>2. /\ Tail(previewFrames) \in Seq(Frames)
      /\ Len(Tail(previewFrames)) = Len(previewFrames) - 1
      /\ \A i \in 1..Len(Tail(previewFrames)) :
            Tail(previewFrames)[i] = previewFrames[i + 1]
  BY <1>1, HeadTailProperties, Zenon
<1>3. Taken = Tail(previewFrames)
  <2>1. NextFrame - 1 = 0 /\ NextFrame + 1 = 2
    BY DEF NextFrame
  <2>2. SubSeq(previewFrames, 1, 0) = <<>>
    BY SubSeqEmpty
  <2>3. SubSeq(previewFrames, 2, Len(previewFrames)) = Tail(previewFrames)
    BY <1>1, TailIsSubSeq
  <2>4. <<>> \o Tail(previewFrames) = Tail(previewFrames)
    BY <1>2, ConcatEmptySeq
  <2> QED
    BY <2>1, <2>2, <2>3, <2>4, Zenon DEF Taken
<1>4. previewFrames[NextFrame] \in Frames
  BY <1>1 DEF NextFrame
<1>5. Len(previewFrames) - 1 \in Nat /\ Len(previewFrames) - 1 <= MaxFrame
  BY <1>1, PoolSize
<1> HIDE DEF Taken
<1> QED
  BY <1>2, <1>3, <1>4, <1>5

LEMMA InitInd == Init => IndInv
<1> SUFFICES ASSUME Init PROVE IndInv
  OBVIOUS
<1>1. FieldTypes
  BY DEF Init, FieldTypes
<1>2. BufferTypes
  BY PoolSize, FS_EmptySet, ConstantsAssumption DEF Init, BufferTypes
<1>3. PcTypes /\ ThreadState
  BY ThreadNames DEF Init, PcTypes, ThreadState, CtrlLabels, UsbLabels, PvLabels, CapLabels
<1> QED
  BY <1>1, <1>2, <1>3 DEF IndInv, TypeOK

LEMMA CtrlCallInd ==
    ASSUME IndInv, Alive, CtrlCall
    PROVE  IndInv'
<1> USE ThreadNames DEF IndInv, TypeOK, Alive, Jump, Goto, JumpAndWake, JumpAndSignal
<1>1. CASE \E w \in PreviewWindows \cup {NULL} : setPreviewDisplay(w)
  <2>1. FieldTypes' BY <1>1 DEF setPreviewDisplay, FieldTypes, fields, windows, call, others
  <2>2. BufferTypes' BY <1>1 DEF setPreviewDisplay, BufferTypes, buffers, pool, queues
  <2>3. PcTypes' /\ ThreadState'
    BY <1>1 DEF setPreviewDisplay, PcTypes, ThreadState, CaptureWaiters, PreviewWaiters, buffers, pool, queues, call, others,
           CtrlLabels, UsbLabels, PvLabels, CapLabels
  <2> QED BY <2>1, <2>2, <2>3
<1>2. CASE \E w \in CaptureWindows \cup {NULL} : setCaptureDisplay(w)
  <2>0. PICK w \in CaptureWindows \cup {NULL} : setCaptureDisplay(w)
    BY <1>2
  <2>1. FieldTypes' BY <2>0 DEF setCaptureDisplay, WaitFinishCapturing, FieldTypes, fields, windows, call, others
  <2>2. BufferTypes' BY <2>0 DEF setCaptureDisplay, WaitFinishCapturing, BufferTypes, buffers, pool, queues
  <2>3. PcTypes' /\ ThreadState'
    BY <2>0 DEF setCaptureDisplay, WaitFinishCapturing, PcTypes, ThreadState, CaptureWaiters, PreviewWaiters, buffers, pool, queues, call, others,
           CtrlLabels, UsbLabels, PvLabels, CapLabels
  <2> QED BY <2>1, <2>2, <2>3
<1>3. CASE \E o \in Callbacks \cup {NULL} :
            sets < MaxSets /\ sets' = sets + 1 /\ setFrameCallback("callback", o)
  <2>1. FieldTypes' BY <1>3 DEF setFrameCallback, WaitFinishCapturing, AfterCallback, FieldTypes, fields, windows, call, others
  <2>2. BufferTypes' BY <1>3 DEF setFrameCallback, WaitFinishCapturing, AfterCallback, BufferTypes, buffers, pool, queues
  <2>3. PcTypes' /\ ThreadState'
    BY <1>3 DEF setFrameCallback, WaitFinishCapturing, AfterCallback, PcTypes, ThreadState, CaptureWaiters, PreviewWaiters, buffers, pool, queues, call, others,
           CtrlLabels, UsbLabels, PvLabels, CapLabels
  <2> QED BY <2>1, <2>2, <2>3
<1>4. CASE \E c \in {"stop", "close"} : setFrameCallback(c, NULL) /\ UNCHANGED sets
  <2>1. FieldTypes' BY <1>4 DEF setFrameCallback, WaitFinishCapturing, AfterCallback, FieldTypes, fields, windows, call, others
  <2>2. BufferTypes' BY <1>4 DEF setFrameCallback, WaitFinishCapturing, AfterCallback, BufferTypes, buffers, pool, queues
  <2>3. PcTypes' /\ ThreadState'
    BY <1>4 DEF setFrameCallback, WaitFinishCapturing, AfterCallback, PcTypes, ThreadState, CaptureWaiters, PreviewWaiters, buffers, pool, queues, call, others,
           CtrlLabels, UsbLabels, PvLabels, CapLabels
  <2> QED BY <2>1, <2>2, <2>3
<1>5. CASE startPreview
  <2>1. FieldTypes' BY <1>5 DEF startPreview, FieldTypes, fields, windows, call, others
  <2>2. BufferTypes' BY <1>5 DEF startPreview, BufferTypes, buffers, pool, queues
  <2>3. PcTypes' /\ ThreadState'
    BY <1>5 DEF startPreview, PcTypes, ThreadState, CaptureWaiters, PreviewWaiters, buffers, pool, queues, call, others,
           CtrlLabels, UsbLabels, PvLabels, CapLabels
  <2> QED BY <2>1, <2>2, <2>3
<1> QED
  BY <1>1, <1>2, <1>3, <1>4, <1>5 DEF CtrlCall

LEMMA CtrlStepInd ==
    ASSUME IndInv, Alive, CtrlStep
    PROVE  IndInv'
<1> USE ThreadNames DEF IndInv, TypeOK, Alive, Jump, Goto, JumpAndWake, JumpAndSignal
<1>1. CASE StartCreate
  <2>1. FieldTypes' BY <1>1 DEF StartCreate, FieldTypes, fields, windows, call, others
  <2>2. BufferTypes' BY <1>1 DEF StartCreate, BufferTypes, buffers, pool, queues
  <2>3. PcTypes' /\ ThreadState'
    BY <1>1 DEF StartCreate, PcTypes, ThreadState, CaptureWaiters, PreviewWaiters, buffers, pool, queues, call, others,
           CtrlLabels, UsbLabels, PvLabels, CapLabels
  <2> QED BY <2>1, <2>2, <2>3
<1>2. CASE FinishSetCaptureDisplay
  <2>1. FieldTypes' BY <1>2 DEF FinishSetCaptureDisplay, FieldTypes, fields, windows, call, others, PcTypes, ThreadState
  <2>2. BufferTypes' BY <1>2 DEF FinishSetCaptureDisplay, BufferTypes, buffers, pool, queues
  <2>3. PcTypes' /\ ThreadState'
    BY <1>2 DEF FinishSetCaptureDisplay, PcTypes, ThreadState, CaptureWaiters, PreviewWaiters, buffers, pool, queues, call, others,
           CtrlLabels, UsbLabels, PvLabels, CapLabels
  <2> QED BY <2>1, <2>2, <2>3
<1>3. CASE FinishSetFrameCallback
  <2>1. FieldTypes' BY <1>3, <1>3 DEF FinishSetFrameCallback, AfterCallback, FieldTypes, fields, windows, call, others, PcTypes, ThreadState
  <2>2. BufferTypes' BY <1>3 DEF FinishSetFrameCallback, AfterCallback, BufferTypes, buffers, pool, queues
  <2>3. PcTypes' /\ ThreadState'
    BY <1>3 DEF FinishSetFrameCallback, AfterCallback, PcTypes, ThreadState, CaptureWaiters, PreviewWaiters, buffers, pool, queues, call, others,
           CtrlLabels, UsbLabels, PvLabels, CapLabels
  <2> QED BY <2>1, <2>2, <2>3
<1>4. CASE stopPreview
  <2>1. FieldTypes' BY <1>4 DEF stopPreview, FieldTypes, fields, windows, call, others
  <2>2. BufferTypes' BY <1>4 DEF stopPreview, BufferTypes, buffers, pool, queues
  <2>3. PcTypes' /\ ThreadState'
    BY <1>4 DEF stopPreview, PcTypes, ThreadState, CaptureWaiters, PreviewWaiters, buffers, pool, queues, call, others,
           CtrlLabels, UsbLabels, PvLabels, CapLabels
  <2> QED BY <2>1, <2>2, <2>3
<1>5. CASE StopWaits
  <2>1. FieldTypes' BY <1>5 DEF StopWaits, StopJoinCapture, StopJoinPreview, Joined, FieldTypes, fields, windows, call, others
  <2>2. BufferTypes' BY <1>5 DEF StopWaits, StopJoinCapture, StopJoinPreview, Joined, BufferTypes, buffers, pool, queues
  <2>3. PcTypes' /\ ThreadState'
    BY <1>5 DEF StopWaits, StopJoinCapture, StopJoinPreview, Joined, PcTypes, ThreadState, CaptureWaiters, PreviewWaiters, buffers, pool, queues, call, others,
           CtrlLabels, UsbLabels, PvLabels, CapLabels
  <2> QED BY <2>1, <2>2, <2>3
<1>6. CASE StopClears
  <2>1. FieldTypes' BY <1>6 DEF StopClears, clearPreviewFrame, clearCaptureFrame, FieldTypes, fields, windows, call, others
  <2>2. BufferTypes' BY <1>6, RecycleTypes, EmptyQueue, QueuedTypes DEF StopClears, clearPreviewFrame, clearCaptureFrame, BufferTypes, buffers, pool, queues, NotNull
  <2>3. PcTypes' /\ ThreadState'
    BY <1>6 DEF StopClears, clearPreviewFrame, clearCaptureFrame, PcTypes, ThreadState, CaptureWaiters, PreviewWaiters, buffers, pool, queues, call, others,
           CtrlLabels, UsbLabels, PvLabels, CapLabels
  <2> QED BY <2>1, <2>2, <2>3
<1>7. CASE StopReleaseWindows
  <2>1. FieldTypes' BY <1>7 DEF StopReleaseWindows, FieldTypes, fields, windows, call, others
  <2>2. BufferTypes' BY <1>7 DEF StopReleaseWindows, BufferTypes, buffers, pool, queues
  <2>3. PcTypes' /\ ThreadState'
    BY <1>7 DEF StopReleaseWindows, PcTypes, ThreadState, CaptureWaiters, PreviewWaiters, buffers, pool, queues, call, others,
           CtrlLabels, UsbLabels, PvLabels, CapLabels
  <2> QED BY <2>1, <2>2, <2>3
<1>8. CASE Delete
  <2>1. FieldTypes' BY <1>8 DEF Delete, FieldTypes, fields, windows, call, others
  <2>2. BufferTypes' BY <1>8, FS_EmptySet, PoolSize DEF Delete, BufferTypes, buffers, pool, queues
  <2>3. PcTypes' /\ ThreadState'
    BY <1>8 DEF Delete, PcTypes, ThreadState, CaptureWaiters, PreviewWaiters, buffers, pool, queues, call, others,
           CtrlLabels, UsbLabels, PvLabels, CapLabels
  <2> QED BY <2>1, <2>2, <2>3
<1> QED
  BY <1>1, <1>2, <1>3, <1>4, <1>5, <1>6, <1>7, <1>8 DEF CtrlStep

LEMMA UsbInd ==
    ASSUME IndInv, Alive, UsbFrame \/ UsbStep
    PROVE  IndInv'
<1> USE ThreadNames DEF IndInv, TypeOK, Alive, Jump, Goto, JumpAndWake, JumpAndSignal
<1>1. CASE UsbFrame
  <2>1. FieldTypes' BY <1>1 DEF UsbFrame, FieldTypes, fields, windows, call, others
  <2>2. BufferTypes' BY <1>1 DEF UsbFrame, BufferTypes, buffers, pool, queues
  <2>3. PcTypes' /\ ThreadState'
    BY <1>1 DEF UsbFrame, PcTypes, ThreadState, CaptureWaiters, PreviewWaiters, buffers, pool, queues, call, others,
           CtrlLabels, UsbLabels, PvLabels, CapLabels
  <2> QED BY <2>1, <2>2, <2>3
<1>2. CASE UsbCopy
  <2>0. PICK f \in Frames \cup {NULL} :
           /\ get_frame(f)
           /\ local' = [local EXCEPT ![<<"frame", Usb>>] = f]
           /\ content' = [g \in Frames |-> IF g = f THEN seq ELSE content[g]]
           /\ \/ Goto(Usb, IF f = NULL THEN "idle" ELSE "add")
              \/ f # NULL /\ allocated = Frames /\ Goto(Usb, "undo")
           /\ UNCHANGED <<op, arg, process, previewFrames, captureQueu>>
    BY <1>2 DEF UsbCopy, others, call, queues, fields, windows
  <2>g. /\ mFramePool' \in SUBSET Frames /\ Cardinality(mFramePool') <= FRAME_POOL_SZ
        /\ allocated' \in SUBSET Frames
    BY <2>0, GetFrameTypes
  <2>1. FieldTypes' BY <1>2, <2>0 DEF UsbCopy, FieldTypes, fields, windows, call, others
  <2>2. BufferTypes' BY <1>2, <2>0, <2>g DEF UsbCopy, BufferTypes, buffers, pool, queues, FieldTypes
  <2>3. PcTypes'
    BY <2>0 DEF PcTypes, CtrlLabels, UsbLabels, PvLabels, CapLabels
  <2>4. ThreadState'
    BY <2>0 DEF ThreadState, PcTypes, BufferTypes, Locals
  <2> QED BY <2>1, <2>2, <2>3, <2>4
<1>3. CASE addPreviewFrame
  <2>0. local[<<"frame", Usb>>] \in Frames
    BY <1>3 DEF addPreviewFrame, ThreadState
  <2>a. previewFrames' \in Seq(Frames) /\ Len(previewFrames') <= MaxFrame
    BY <1>3, <2>0, PoolSize DEF addPreviewFrame, RoomInQueue, BufferTypes
  <2>1. FieldTypes' BY <1>3 DEF addPreviewFrame, RoomInQueue, WokenByPreviewFrame, FieldTypes, fields, windows, call, others
  <2>2. BufferTypes' BY <1>3, <2>a DEF addPreviewFrame, RoomInQueue, WokenByPreviewFrame, BufferTypes, buffers, pool, queues
  <2>3. PcTypes' /\ ThreadState'
    BY <1>3 DEF addPreviewFrame, RoomInQueue, WokenByPreviewFrame, PcTypes, ThreadState, CaptureWaiters, PreviewWaiters, buffers, pool, queues, call, others,
           CtrlLabels, UsbLabels, PvLabels, CapLabels, BufferTypes, Locals
  <2> QED BY <2>1, <2>2, <2>3
<1>4. CASE UsbRefused
  <2>1. FieldTypes' BY <1>4 DEF UsbRefused, FieldTypes, fields, windows, call, others
  <2>2. BufferTypes' BY <1>4 DEF UsbRefused, BufferTypes, buffers, pool, queues
  <2>3. PcTypes' /\ ThreadState'
    BY <1>4 DEF UsbRefused, PcTypes, ThreadState, CaptureWaiters, PreviewWaiters, buffers, pool, queues, call, others,
           CtrlLabels, UsbLabels, PvLabels, CapLabels
  <2> QED BY <2>1, <2>2, <2>3
<1>5. CASE UsbRecycle
  <2>1. FieldTypes' BY <1>5 DEF UsbRecycle, FieldTypes, fields, windows, call, others
  <2>2. BufferTypes' BY <1>5, RecycleTypes DEF UsbRecycle, BufferTypes, buffers, pool, queues, ThreadState
  <2>3. PcTypes' /\ ThreadState'
    BY <1>5 DEF UsbRecycle, PcTypes, ThreadState, CaptureWaiters, PreviewWaiters, buffers, pool, queues, call, others,
           CtrlLabels, UsbLabels, PvLabels, CapLabels, BufferTypes, Locals
  <2> QED BY <2>1, <2>2, <2>3
<1> QED
  BY <1>1, <1>2, <1>3, <1>4, <1>5 DEF UsbStep

LEMMA PvInd ==
    ASSUME IndInv, Alive, PvStep
    PROVE  IndInv'
<1> USE ThreadNames DEF IndInv, TypeOK, Alive, Jump, Goto, JumpAndWake, JumpAndSignal
<1>1. CASE PvOpenStream
  <2>1. FieldTypes' BY <1>1 DEF PvOpenStream, FieldTypes, fields, windows, call, others
  <2>2. BufferTypes' BY <1>1 DEF PvOpenStream, BufferTypes, buffers, pool, queues
  <2>3. PcTypes'
    BY <1>1 DEF PvOpenStream, PcTypes, CaptureWaiters, PreviewWaiters, CtrlLabels, UsbLabels, PvLabels, CapLabels
  <2>4. ThreadState'
    BY <1>1 DEF PvOpenStream, ThreadState, PcTypes, BufferTypes, Locals, buffers, queues, call, others,
           CaptureWaiters, PreviewWaiters
  <2> QED BY <2>1, <2>2, <2>3, <2>4
<1>2. CASE PvClear
  <2>1. FieldTypes' BY <1>2 DEF PvClear, FieldTypes, fields, windows, call, others
  <2>2. BufferTypes' BY <1>2, RecycleTypes, EmptyQueue, QueuedTypes DEF PvClear, clearPreviewFrame, BufferTypes, buffers, pool, queues
  <2>3. PcTypes'
    BY <1>2 DEF PvClear, PcTypes, CaptureWaiters, PreviewWaiters, CtrlLabels, UsbLabels, PvLabels, CapLabels
  <2>4. ThreadState'
    BY <1>2 DEF PvClear, ThreadState, PcTypes, BufferTypes, Locals, buffers, queues, call, others,
           CaptureWaiters, PreviewWaiters
  <2> QED BY <2>1, <2>2, <2>3, <2>4
<1>3. CASE PvCreateCaptureThread
  <2>1. FieldTypes' BY <1>3 DEF PvCreateCaptureThread, FieldTypes, fields, windows, call, others
  <2>2. BufferTypes' BY <1>3 DEF PvCreateCaptureThread, BufferTypes, buffers, pool, queues
  <2>3. PcTypes'
    BY <1>3 DEF PvCreateCaptureThread, PcTypes, CaptureWaiters, PreviewWaiters, CtrlLabels, UsbLabels, PvLabels, CapLabels
  <2>4. ThreadState'
    BY <1>3 DEF PvCreateCaptureThread, ThreadState, PcTypes, BufferTypes, Locals, buffers, queues, call, others,
           CaptureWaiters, PreviewWaiters
  <2> QED BY <2>1, <2>2, <2>3, <2>4
<1>4. CASE PvLoop
  <2>1. FieldTypes' BY <1>4 DEF PvLoop, FieldTypes, fields, windows, call, others
  <2>2. BufferTypes' BY <1>4 DEF PvLoop, BufferTypes, buffers, pool, queues
  <2>3. PcTypes'
    BY <1>4 DEF PvLoop, PcTypes, CaptureWaiters, PreviewWaiters, CtrlLabels, UsbLabels, PvLabels, CapLabels
  <2>4. ThreadState'
    BY <1>4 DEF PvLoop, ThreadState, PcTypes, BufferTypes, Locals, buffers, queues, call, others,
           CaptureWaiters, PreviewWaiters
  <2> QED BY <2>1, <2>2, <2>3, <2>4
<1>5. CASE PvTake
  <2>t. previewFrames # <<>> =>
           /\ previewFrames[NextFrame] \in Frames
           /\ Taken \in Seq(Frames) /\ Len(Taken) <= MaxFrame
    BY TakeOldest
  <2>p. \/ /\ previewFrames # <<>> /\ previewFrames' = Taken
           /\ local' = [local EXCEPT ![<<"frame", Pv>>] = previewFrames[NextFrame]]
           /\ Goto(Pv, IF MJPEG THEN "decode" ELSE "draw")
        \/ Goto(Pv, "loop") /\ UNCHANGED <<local, previewFrames>>
    BY <1>5 DEF PvTake, Taken
  <2>u. /\ previewFrames' \in Seq(Frames) /\ Len(previewFrames') <= MaxFrame
        /\ local' \in [Locals \X Threads -> Frames \cup {NULL}]
    BY <2>t, <2>p DEF BufferTypes, Locals
  <2>v. UNCHANGED <<mFramePool, allocated, captureQueu, content, op, arg, process>>
    BY <1>5 DEF PvTake, pool, call, others
  <2>1. FieldTypes' BY <1>5 DEF PvTake, FieldTypes, fields, windows, call, others
  <2>2. BufferTypes' BY <2>u, <2>v DEF BufferTypes
  <2>3. PcTypes'
    BY <2>p DEF PcTypes, CtrlLabels, UsbLabels, PvLabels, CapLabels
  <2>4. ThreadState'
    BY <2>p, <2>t, <2>v DEF ThreadState, PcTypes, BufferTypes, Locals
  <2> QED BY <2>1, <2>2, <2>3, <2>4
<1>6. CASE PvDecode
  <2>0. PICK f \in Frames \cup {NULL} :
           /\ get_frame(f)
           /\ local' = [local EXCEPT ![<<"converted", Pv>>] = f]
           /\ content' = [g \in Frames |-> IF g = f THEN content[local[<<"frame", Pv>>]]
                                                    ELSE content[g]]
           /\ process' = (IF f = NULL THEN "aborted" ELSE process)
           /\ \E next \in {"decoded", "undecodable"} : Goto(Pv, next)
           /\ pc[Pv] = "decode"
           /\ UNCHANGED <<op, arg, previewFrames, captureQueu>>
    BY <1>6 DEF PvDecode, others, call, queues, fields, windows
  <2>g. /\ mFramePool' \in SUBSET Frames /\ Cardinality(mFramePool') <= FRAME_POOL_SZ
        /\ allocated' \in SUBSET Frames
    BY <2>0, GetFrameTypes
  <2>1. FieldTypes' BY <1>6, <2>0 DEF PvDecode, ThreadState, FieldTypes, fields, windows, call, others
  <2>2. BufferTypes' BY <1>6, <2>0, <2>g DEF PvDecode, ThreadState, BufferTypes, buffers, pool, queues, FieldTypes
  <2>3. PcTypes'
    BY <2>0 DEF PcTypes, CtrlLabels, UsbLabels, PvLabels, CapLabels
  <2>4. ThreadState'
    BY <2>0 DEF ThreadState, PcTypes, BufferTypes, Locals
  <2> QED BY <2>1, <2>2, <2>3, <2>4
<1>7. CASE PvDecoded
  <2>s. local[<<"frame", Pv>>] \in Frames /\ local[<<"converted", Pv>>] \in Frames
    BY <1>7 DEF PvDecoded, ThreadState
  <2>1. FieldTypes' BY <1>7 DEF PvDecoded, FieldTypes, fields, windows, call, others
  <2>2. BufferTypes' BY <1>7, <2>s, RecycleTypes DEF PvDecoded, BufferTypes, buffers, pool, queues
  <2>3. PcTypes'
    BY <1>7 DEF PvDecoded, PcTypes, CaptureWaiters, PreviewWaiters, CtrlLabels, UsbLabels, PvLabels, CapLabels
  <2>4. ThreadState'
    BY <1>7, <2>s DEF PvDecoded, ThreadState, PcTypes, BufferTypes, Locals, buffers, queues, call, others,
           CaptureWaiters, PreviewWaiters
  <2> QED BY <2>1, <2>2, <2>3, <2>4
<1>8. CASE draw_preview_one
  <2>a. /\ mFramePool' \in SUBSET Frames /\ Cardinality(mFramePool') <= FRAME_POOL_SZ
        /\ allocated' \in SUBSET Frames
    <3>1. CASE UNCHANGED pool
      BY <3>1 DEF pool, BufferTypes
    <3>2. CASE \E f \in Frames \cup {NULL} : get_frame(f)
      BY <3>2, GetFrameTypes
    <3>3. CASE pc[Pv] = "show" /\ recycle_frame({local[<<"converted", Pv>>]})
      BY <3>3, RecycleTypes DEF ThreadState
    <3> QED
      BY <1>8, <3>1, <3>2, <3>3 DEF draw_preview_one, pool
  <2>b. /\ \E f \in Frames \cup {NULL} :
              \/ UNCHANGED local
              \/ local' = [local EXCEPT ![<<"converted", Pv>>] = f]
        /\ UNCHANGED <<previewFrames, captureQueu, content, op, arg, process>>
    BY <1>8 DEF draw_preview_one, queues, call, others
  <2>1. FieldTypes' BY <1>8 DEF draw_preview_one, FieldTypes, fields, windows, call, others
  <2>2. BufferTypes' BY <2>a, <2>b DEF BufferTypes
  <2>3. PcTypes'
    BY <1>8 DEF draw_preview_one, PcTypes, CtrlLabels, UsbLabels, PvLabels, CapLabels
  <2>4. ThreadState'
    <3>1. ASSUME NEW f \in Frames \cup {NULL},
                 local' = [local EXCEPT ![<<"converted", Pv>>] = f],
                 pc' = [pc EXCEPT ![Pv] = IF f = NULL THEN "add" ELSE "show"],
                 pc[Pv] = "draw"
          PROVE  ThreadState'
      BY <2>b, <3>1 DEF ThreadState, PcTypes, BufferTypes, Locals
    <3>2. CASE local' = local /\ pc' = [pc EXCEPT ![Pv] = "add"] /\ pc[Pv] = "draw"
      BY <2>b, <3>2 DEF ThreadState, PcTypes, BufferTypes, Locals
    <3>3. CASE /\ local' = [local EXCEPT ![<<"converted", Pv>>] = NULL]
               /\ pc' = [pc EXCEPT ![Pv] = "add"] /\ pc[Pv] = "show"
      BY <2>b, <3>3 DEF ThreadState, PcTypes, BufferTypes, Locals
    <3> QED
      BY <1>8, <3>1, <3>2, <3>3 DEF draw_preview_one
  <2> QED BY <2>1, <2>2, <2>3, <2>4
<1>9. CASE addCaptureFrame
  <2>s. local[<<"frame", Pv>>] \in Frames
    BY <1>9 DEF addCaptureFrame, ThreadState
  <2>k. NotNull(captureQueu) \in SUBSET Frames
    BY DEF NotNull, BufferTypes
  <2>1. FieldTypes' BY <1>9 DEF addCaptureFrame, FieldTypes, fields, windows, call, others
  <2>2. BufferTypes' BY <1>9, <2>s, <2>k, RecycleTypes DEF addCaptureFrame, KeepOnlyLatest, BufferTypes, buffers, pool, queues
  <2>3. PcTypes'
    BY <1>9 DEF addCaptureFrame, WokenByCaptureFrame, PcTypes, CaptureWaiters, PreviewWaiters, CtrlLabels, UsbLabels, PvLabels, CapLabels
  <2>4. ThreadState'
    BY <1>9 DEF addCaptureFrame, WokenByCaptureFrame, ThreadState, PcTypes, BufferTypes, Locals, buffers, queues, call, others,
           CaptureWaiters, PreviewWaiters
  <2> QED BY <2>1, <2>2, <2>3, <2>4
<1>10. CASE PvStopStreaming
  <2>1. FieldTypes' BY <1>10 DEF PvStopStreaming, FieldTypes, fields, windows, call, others
  <2>2. BufferTypes' BY <1>10 DEF PvStopStreaming, BufferTypes, buffers, pool, queues
  <2>3. PcTypes'
    BY <1>10 DEF PvStopStreaming, PcTypes, CaptureWaiters, PreviewWaiters, CtrlLabels, UsbLabels, PvLabels, CapLabels
  <2>4. ThreadState'
    BY <1>10 DEF PvStopStreaming, ThreadState, PcTypes, BufferTypes, Locals, buffers, queues, call, others,
           CaptureWaiters, PreviewWaiters
  <2> QED BY <2>1, <2>2, <2>3, <2>4
<1> QED
  BY <1>1, <1>2, <1>3, <1>4, <1>5, <1>6, <1>7, <1>8, <1>9, <1>10 DEF PvStep

LEMMA CapInd ==
    ASSUME IndInv, Alive, NEW t \in CaptureThreads, CapStep(t)
    PROVE  IndInv'
<1> USE ThreadNames DEF IndInv, TypeOK, Alive, Jump, Goto, JumpAndWake, JumpAndSignal
<1>1. CASE CapClear(t)
  <2>k. NotNull(captureQueu) \in SUBSET Frames
    BY DEF NotNull, BufferTypes
  <2>1. FieldTypes' BY <1>1 DEF CapClear, FieldTypes, fields, windows, call, others
  <2>2. BufferTypes' BY <1>1, <2>k, RecycleTypes DEF CapClear, clearCaptureFrame, BufferTypes, buffers, pool, queues
  <2>3. PcTypes'
    BY <1>1 DEF CapClear, PcTypes, CaptureWaiters, PreviewWaiters, CtrlLabels, UsbLabels, PvLabels, CapLabels
  <2>4. ThreadState'
    BY <1>1 DEF CapClear, clearCaptureFrame, ThreadState, PcTypes, BufferTypes, Locals, buffers, queues, call, others,
           CaptureWaiters, PreviewWaiters
  <2> QED BY <2>1, <2>2, <2>3, <2>4
<1>2. CASE do_capture(t)
  <2>1. FieldTypes' BY <1>2 DEF do_capture, FieldTypes, fields, windows, call, others
  <2>2. BufferTypes' BY <1>2 DEF do_capture, BufferTypes, buffers, pool, queues
  <2>3. PcTypes'
    BY <1>2 DEF do_capture, PcTypes, CaptureWaiters, PreviewWaiters, CtrlLabels, UsbLabels, PvLabels, CapLabels
  <2>4. ThreadState'
    BY <1>2 DEF do_capture, ThreadState, PcTypes, BufferTypes, Locals, buffers, queues, call, others,
           CaptureWaiters, PreviewWaiters
  <2> QED BY <2>1, <2>2, <2>3, <2>4
<1>3. CASE CapChoose(t)
  <2>1. FieldTypes' BY <1>3 DEF CapChoose, FieldTypes, fields, windows, call, others
  <2>2. BufferTypes' BY <1>3 DEF CapChoose, BufferTypes, buffers, pool, queues
  <2>3. PcTypes'
    BY <1>3 DEF CapChoose, PcTypes, CaptureWaiters, PreviewWaiters, CtrlLabels, UsbLabels, PvLabels, CapLabels
  <2>4. ThreadState'
    BY <1>3 DEF CapChoose, ThreadState, PcTypes, BufferTypes, Locals, buffers, queues, call, others,
           CaptureWaiters, PreviewWaiters
  <2> QED BY <2>1, <2>2, <2>3, <2>4
<1>4. CASE CapLoop(t)
  <2>1. FieldTypes' BY <1>4 DEF CapLoop, FieldTypes, fields, windows, call, others
  <2>2. BufferTypes' BY <1>4 DEF CapLoop, BufferTypes, buffers, pool, queues
  <2>3. PcTypes'
    BY <1>4 DEF CapLoop, PcTypes, CaptureWaiters, PreviewWaiters, CtrlLabels, UsbLabels, PvLabels, CapLabels
  <2>4. ThreadState'
    BY <1>4 DEF CapLoop, ThreadState, PcTypes, BufferTypes, Locals, buffers, queues, call, others,
           CaptureWaiters, PreviewWaiters
  <2> QED BY <2>1, <2>2, <2>3, <2>4
<1>5. CASE waitCaptureFrame(t)
  <2>1. FieldTypes' BY <1>5 DEF waitCaptureFrame, MoveCaptureFrame, FieldTypes, fields, windows, call, others
  <2>2. BufferTypes' BY <1>5 DEF waitCaptureFrame, MoveCaptureFrame, BufferTypes, buffers, pool, queues
  <2>3. PcTypes'
    BY <1>5 DEF waitCaptureFrame, MoveCaptureFrame, PcTypes, CaptureWaiters, PreviewWaiters, CtrlLabels, UsbLabels, PvLabels, CapLabels
  <2>4. ThreadState'
    BY ZenonT(60), <1>5 DEF waitCaptureFrame, MoveCaptureFrame, ThreadState, PcTypes, BufferTypes, Locals, buffers, queues, call, others,
           CaptureWaiters, PreviewWaiters
  <2> QED BY <2>1, <2>2, <2>3, <2>4
<1>6. CASE CapConvert(t)
  <2>0. \/ /\ \E next \in {"window", "callback"} : Jump(t, "convert", next)
           /\ UNCHANGED <<pool, local>>
        \/ \E f \in Frames \cup {NULL} :
              /\ get_frame(f)
              /\ local' = [local EXCEPT ![<<"converted", t>>] = f]
              /\ \E next \in {"window", "callback"} : Jump(t, "convert", next)
    BY <1>6 DEF CapConvert
  <2>a. /\ mFramePool' \in SUBSET Frames /\ Cardinality(mFramePool') <= FRAME_POOL_SZ
        /\ allocated' \in SUBSET Frames
    <3>1. CASE UNCHANGED pool
      BY <3>1 DEF pool, BufferTypes
    <3>2. CASE \E f \in Frames \cup {NULL} : get_frame(f)
      BY <3>2, GetFrameTypes
    <3> QED
      BY <2>0, <3>1, <3>2 DEF pool
  <2>b. UNCHANGED <<previewFrames, captureQueu, content, op, arg, process>>
    BY <1>6 DEF CapConvert, queues, call, others
  <2>c. \E f \in Frames \cup {NULL} :
          local' = local \/ local' = [local EXCEPT ![<<"converted", t>>] = f]
    BY <2>0 DEF BufferTypes
  <2>d. /\ pc[t] = "convert"
        /\ \E next \in {"window", "callback"} : pc' = [pc EXCEPT ![t] = next]
    BY <2>0
  <2>1. FieldTypes' BY <1>6 DEF CapConvert, FieldTypes, fields, windows, call, others
  <2>2. BufferTypes' BY <2>a, <2>b, <2>c DEF BufferTypes
  <2>3. PcTypes'
    BY <2>d DEF PcTypes, CtrlLabels, UsbLabels, PvLabels, CapLabels
  <2>4. ThreadState'
    BY <2>b, <2>c, <2>d DEF ThreadState, PcTypes, BufferTypes, Locals
  <2> QED BY <2>1, <2>2, <2>3, <2>4
<1>7. CASE CapCopyToSurface(t)
  <2>1. FieldTypes' BY <1>7 DEF CapCopyToSurface, FieldTypes, fields, windows, call, others
  <2>2. BufferTypes' BY <1>7 DEF CapCopyToSurface, BufferTypes, buffers, pool, queues
  <2>3. PcTypes'
    BY <1>7 DEF CapCopyToSurface, PcTypes, CaptureWaiters, PreviewWaiters, CtrlLabels, UsbLabels, PvLabels, CapLabels
  <2>4. ThreadState'
    BY <1>7 DEF CapCopyToSurface, ThreadState, PcTypes, BufferTypes, Locals, buffers, queues, call, others,
           CaptureWaiters, PreviewWaiters
  <2> QED BY <2>1, <2>2, <2>3, <2>4
<1>8. CASE CapCallback(t)
  <2>0. /\ pc[t] = "callback" /\ local[<<"frame", t>>] \in Frames
        /\ UNCHANGED <<previewFrames, captureQueu, op, arg, process>>
    BY <1>8 DEF CapCallback, ThreadState, queues, call, others
  <2>f. FieldTypes' BY <1>8 DEF CapCallback, FieldTypes, fields, windows, call, others
  <2>1. CASE /\ \E next \in {"recycle", "call"} : Goto(t, next)
             /\ UNCHANGED <<pool, local, content>>
    <3>1. BufferTypes' BY <2>0, <2>1 DEF BufferTypes, pool
    <3>2. PcTypes' BY <2>1 DEF PcTypes, CtrlLabels, UsbLabels, PvLabels, CapLabels
    <3>3. ThreadState' BY <2>0, <2>1 DEF ThreadState, PcTypes
    <3> QED BY <2>f, <3>1, <3>2, <3>3
  <2>2. ASSUME NEW f \in Frames \cup {NULL},
               get_frame(f),
               local' = [local EXCEPT ![<<"callback_frame", t>>] = f],
               content' = [g \in Frames |-> IF g = f THEN content[local[<<"frame", t>>]]
                                                     ELSE content[g]],
               Goto(t, IF f = NULL THEN "recycle" ELSE "converted")
        PROVE  IndInv'
    <3>1. BufferTypes' BY <2>0, <2>2, GetFrameTypes DEF BufferTypes
    <3>2. PcTypes' BY <2>2 DEF PcTypes, CtrlLabels, UsbLabels, PvLabels, CapLabels
    <3>3. ThreadState' BY <2>0, <2>2 DEF ThreadState, PcTypes, BufferTypes, Locals
    <3> QED BY <2>f, <3>1, <3>2, <3>3
  <2> QED BY <1>8, <2>1, <2>2 DEF CapCallback
<1>9. CASE CapConverted(t)
  <2>s. local[<<"frame", t>>] \in Frames /\ local[<<"callback_frame", t>>] \in Frames
    BY <1>9 DEF CapConverted, ThreadState
  <2>1. FieldTypes' BY <1>9 DEF CapConverted, FieldTypes, fields, windows, call, others
  <2>2. BufferTypes' BY <1>9, <2>s, RecycleTypes DEF CapConverted, BufferTypes, buffers, pool, queues
  <2>3. PcTypes'
    BY <1>9 DEF CapConverted, PcTypes, CaptureWaiters, PreviewWaiters, CtrlLabels, UsbLabels, PvLabels, CapLabels
  <2>4. ThreadState'
    BY <1>9, <2>s DEF CapConverted, ThreadState, PcTypes, BufferTypes, Locals, buffers, queues, call, others,
           CaptureWaiters, PreviewWaiters
  <2> QED BY <2>1, <2>2, <2>3, <2>4
<1>10. CASE CapCall(t)
  <2>s. local[<<"frame", t>>] \in Frames
    BY <1>10 DEF CapCall, ThreadState
  <2>1. FieldTypes' BY <1>10, <2>s DEF CapCall, BufferTypes, FieldTypes, fields, windows, call, others
  <2>2. BufferTypes' BY <1>10 DEF CapCall, BufferTypes, buffers, pool, queues
  <2>3. PcTypes'
    BY <1>10 DEF CapCall, PcTypes, CaptureWaiters, PreviewWaiters, CtrlLabels, UsbLabels, PvLabels, CapLabels
  <2>4. ThreadState'
    BY <1>10 DEF CapCall, Alive, ThreadState, PcTypes, BufferTypes, Locals, buffers, queues, call, others,
           CaptureWaiters, PreviewWaiters
  <2> QED BY <2>1, <2>2, <2>3, <2>4
<1>11. CASE CapReturn(t)
  <2>1. FieldTypes' BY <1>11 DEF CapReturn, FieldTypes, fields, windows, call, others
  <2>2. BufferTypes' BY <1>11 DEF CapReturn, BufferTypes, buffers, pool, queues
  <2>3. PcTypes'
    BY <1>11 DEF CapReturn, PcTypes, CaptureWaiters, PreviewWaiters, CtrlLabels, UsbLabels, PvLabels, CapLabels
  <2>4. ThreadState'
    BY <1>11 DEF CapReturn, ThreadState, PcTypes, BufferTypes, Locals, buffers, queues, call, others,
           CaptureWaiters, PreviewWaiters
  <2> QED BY <2>1, <2>2, <2>3, <2>4
<1>12. CASE CapRecycle(t)
  <2>s. local[<<"frame", t>>] \in Frames
    BY <1>12 DEF CapRecycle, ThreadState
  <2>1. FieldTypes' BY <1>12 DEF CapRecycle, FieldTypes, fields, windows, call, others
  <2>2. BufferTypes' BY <1>12, <2>s, RecycleTypes DEF CapRecycle, BufferTypes, buffers, pool, queues
  <2>3. PcTypes'
    BY <1>12 DEF CapRecycle, PcTypes, CaptureWaiters, PreviewWaiters, CtrlLabels, UsbLabels, PvLabels, CapLabels
  <2>4. ThreadState'
    BY <1>12 DEF CapRecycle, ThreadState, PcTypes, BufferTypes, Locals, buffers, queues, call, others,
           CaptureWaiters, PreviewWaiters
  <2> QED BY <2>1, <2>2, <2>3, <2>4
<1>13. CASE CapLeave(t)
  <2>k. NotNull(local[<<"converted", t>>]) \in SUBSET Frames
    BY DEF NotNull, BufferTypes, Locals
  <2>1. FieldTypes' BY <1>13 DEF CapLeave, FieldTypes, fields, windows, call, others
  <2>2. BufferTypes' BY <1>13, <2>k, RecycleTypes DEF CapLeave, BufferTypes, buffers, pool, queues
  <2>3. PcTypes'
    BY <1>13 DEF CapLeave, PcTypes, CaptureWaiters, PreviewWaiters, CtrlLabels, UsbLabels, PvLabels, CapLabels
  <2>4. ThreadState'
    BY <1>13 DEF CapLeave, ThreadState, PcTypes, BufferTypes, Locals, buffers, queues, call, others,
           CaptureWaiters, PreviewWaiters
  <2> QED BY <2>1, <2>2, <2>3, <2>4
<1>14. CASE CapForget(t)
  <2>1. FieldTypes' BY <1>14 DEF CapForget, FieldTypes, fields, windows, call, others
  <2>2. BufferTypes' BY <1>14 DEF CapForget, BufferTypes, buffers, pool, queues
  <2>3. PcTypes'
    BY <1>14 DEF CapForget, PcTypes, CaptureWaiters, PreviewWaiters, CtrlLabels, UsbLabels, PvLabels, CapLabels
  <2>4. ThreadState'
    BY <1>14 DEF CapForget, ThreadState, PcTypes, BufferTypes, Locals, buffers, queues, call, others,
           CaptureWaiters, PreviewWaiters
  <2> QED BY <2>1, <2>2, <2>3, <2>4
<1>15. CASE CapBroadcast(t)
  <2>1. FieldTypes' BY <1>15 DEF CapBroadcast, FieldTypes, fields, windows, call, others
  <2>2. BufferTypes' BY <1>15 DEF CapBroadcast, BufferTypes, buffers, pool, queues
  <2>3. PcTypes'
    BY <1>15 DEF CapBroadcast, PcTypes, CaptureWaiters, PreviewWaiters, CtrlLabels, UsbLabels, PvLabels, CapLabels
  <2>4. ThreadState'
    BY <1>15 DEF CapBroadcast, ThreadState, PcTypes, BufferTypes, Locals, buffers, queues, call, others,
           CaptureWaiters, PreviewWaiters
  <2> QED BY <2>1, <2>2, <2>3, <2>4
<1> QED
  BY <1>1, <1>2, <1>3, <1>4, <1>5, <1>6, <1>7, <1>8, <1>9, <1>10, <1>11, <1>12, <1>13, <1>14, <1>15 DEF CapStep

LEMMA SpuriousInd ==
    ASSUME IndInv, SpuriousWakeup
    PROVE  IndInv'
<1> USE ThreadNames DEF IndInv, TypeOK, Jump, Goto
<1>1. FieldTypes' BY DEF SpuriousWakeup, FieldTypes, fields, windows, call, others
<1>2. BufferTypes' BY DEF SpuriousWakeup, BufferTypes, buffers, pool, queues
<1>3. PcTypes'
  BY DEF SpuriousWakeup, PcTypes, CtrlLabels, UsbLabels, PvLabels, CapLabels
<1>4. ThreadState'
  BY DEF SpuriousWakeup, ThreadState, PcTypes, Alive, buffers, queues, call, others
<1> QED BY <1>1, <1>2, <1>3, <1>4

LEMMA StutterInd == IndInv /\ UNCHANGED vars => IndInv'
<1> SUFFICES ASSUME IndInv, UNCHANGED vars PROVE IndInv'
  OBVIOUS
<1> USE DEF IndInv, TypeOK, vars
<1>1. FieldTypes' BY DEF FieldTypes, fields, windows, call, others
<1>2. BufferTypes' BY DEF BufferTypes, buffers, pool, queues
<1>3. PcTypes' /\ ThreadState'
  BY DEF PcTypes, ThreadState, Alive, buffers, queues, call, others
<1> QED BY <1>1, <1>2, <1>3

LEMMA NextInd == IndInv /\ [Next]_vars => IndInv'
<1> SUFFICES ASSUME IndInv, [Next]_vars PROVE IndInv'
  OBVIOUS
<1>1. CASE UNCHANGED vars
  BY <1>1, StutterInd
<1>2. CASE Next
  BY <1>2, CtrlCallInd, CtrlStepInd, UsbInd, PvInd, CapInd, SpuriousInd DEF Next
<1> QED BY <1>1, <1>2

\* Type correctness: previewFrames never holds more than MAX_FRAME buffers,
\* the pool never more than FRAME_POOL_SZ, and no thread ever works on a
\* buffer it does not have.
THEOREM TypeCorrect == Spec => []TypeOK
<1>1. IndInv => TypeOK
  BY DEF IndInv
<1> QED
  BY InitInd, NextInd, <1>1, PTL DEF Spec
-----------------------------------------------------------------------------
(* startPreview finds nothing of the previous session: no preview thread,   *)
(* no stream, no buffer in a queue.                                        *)

Quiet == pc[Pv] = "off" /\ pc[Usb] = "off" /\ previewFrames = <<>> /\ captureQueu = NULL

\* libuvc's callback thread lives inside the preview thread's stream.
StreamInside ==
    pc[Usb] # "off" =>
        pc[Pv] \in PvLabels \ {"off", "prepare", "stream", "exit"}

\* What Ctrl's place in stopPreview and startPreview says of the other threads.
Stopping ==
    /\ pc[Ctrl] \in {"parked", "woken", "create"} => mIsRunning
    /\ pc[Ctrl] \in {"signal_preview", "signal_capture", "join_capture", "join_preview"}
         => ~mIsRunning
    /\ pc[Ctrl] \in {"create", "delete"} => Quiet
    /\ pc[Ctrl] \in {"idle", "stop"} /\ ~mIsRunning => Quiet
    /\ pc[Ctrl] \in {"clear_preview", "clear_capture", "release", "delete"}
         => ~mIsRunning /\ pc[Pv] = "off"
    /\ pc[Ctrl] \in {"clear_capture", "release"} => previewFrames = <<>>
    /\ pc[Ctrl] = "release" => captureQueu = NULL

QuietInv == TypeOK /\ StreamInside /\ Stopping

LEMMA InitQuiet == Init => StreamInside /\ Stopping
BY ThreadNames DEF Init, StreamInside, Stopping, Quiet

\* A step of Ctrl.
LEMMA CtrlQuiet ==
    ASSUME QuietInv, CtrlCall \/ CtrlStep
    PROVE  StreamInside' /\ Stopping'
<1> USE ThreadNames DEF Jump, Goto, JumpAndWake, JumpAndSignal, PreviewWaiters, CaptureWaiters
<1> USE DEF QuietInv, TypeOK, PcTypes, StreamInside, Stopping, Quiet, PvLabels
<1>1. CASE CtrlCall
  <2>1. CASE \E w \in PreviewWindows \cup {NULL} : setPreviewDisplay(w)
    BY <2>1 DEF setPreviewDisplay, buffers, queues
  <2>2. CASE \E w \in CaptureWindows \cup {NULL} : setCaptureDisplay(w)
    BY <2>2 DEF setCaptureDisplay, WaitFinishCapturing, buffers, queues
  <2>3. ASSUME NEW c, NEW o, setFrameCallback(c, o)
        PROVE  StreamInside' /\ Stopping'
    BY <2>3 DEF setFrameCallback, WaitFinishCapturing, AfterCallback, buffers, queues
  <2>4. CASE startPreview
    BY <2>4 DEF startPreview, buffers, queues
  <2> QED
    BY <1>1, <2>1, <2>2, <2>3, <2>4 DEF CtrlCall
<1>2. CASE StartCreate \/ FinishSetCaptureDisplay \/ FinishSetFrameCallback
  BY <1>2 DEF StartCreate, FinishSetCaptureDisplay, FinishSetFrameCallback,
              AfterCallback, buffers, queues
<1>3. CASE stopPreview \/ Delete
  BY <1>3 DEF stopPreview, Delete, buffers, queues
<1>6. CASE StopReleaseWindows
  <2>1. \E next \in {"idle", "stop", "delete"} : Jump(Ctrl, "release", next)
    BY <1>6 DEF StopReleaseWindows
  <2> QED
    BY <1>6, <2>1 DEF StopReleaseWindows, buffers, queues
<1>4. CASE StopWaits
  BY <1>4 DEF StopWaits, StopJoinCapture, StopJoinPreview, Joined,
              buffers, queues, fields
<1>5. CASE StopClears
  BY <1>5 DEF StopClears, clearPreviewFrame, clearCaptureFrame,
              fields
<1> QED
  BY <1>1, <1>2, <1>3, <1>4, <1>5, <1>6 DEF CtrlStep

LEMMA UsbQuiet ==
    ASSUME QuietInv, UsbFrame \/ UsbStep
    PROVE  StreamInside' /\ Stopping'
<1> USE ThreadNames DEF Jump, Goto, JumpAndWake, WokenByPreviewFrame, PreviewWaiters
<1>1. pc[Usb] # "off" /\ pc[Pv] # "off" /\ ~Quiet
  BY DEF QuietInv, UsbFrame, UsbStep, UsbCopy, addPreviewFrame, UsbRefused, UsbRecycle,
         StreamInside, Quiet, PvLabels
<1>2. pc'[Ctrl] = pc[Ctrl] /\ UNCHANGED mIsRunning
  BY DEF QuietInv, TypeOK, PcTypes, UsbFrame, UsbStep, UsbCopy, addPreviewFrame, UsbRefused,
         UsbRecycle, fields
<1>3. pc'[Pv] = pc[Pv] \/ pc'[Pv] = "woken"
  BY DEF QuietInv, TypeOK, PcTypes, UsbFrame, UsbStep, UsbCopy, addPreviewFrame, UsbRefused, UsbRecycle
<1> QED
  BY <1>1, <1>2, <1>3 DEF QuietInv, StreamInside, Stopping, PvLabels

LEMMA PvQuiet ==
    ASSUME QuietInv, PvStep
    PROVE  StreamInside' /\ Stopping'
<1> USE ThreadNames DEF Jump, Goto, JumpAndWake, JumpAndSignal, CaptureWaiters, WokenByCaptureFrame
<1>1. pc[Pv] # "off"
  BY DEF PvStep, PvOpenStream, PvClear, PvCreateCaptureThread, PvLoop, PvTake, PvDecode, PvDecoded,
         draw_preview_one, addCaptureFrame, PvStopStreaming
<1>2. UNCHANGED mIsRunning
  BY DEF PvStep, PvOpenStream, PvClear, PvCreateCaptureThread, PvLoop, PvTake, PvDecode, PvDecoded,
         draw_preview_one, addCaptureFrame, PvStopStreaming, fields
<1>3. pc'[Ctrl] = pc[Ctrl] \/ (pc[Ctrl] = "parked" /\ pc'[Ctrl] = "woken")
  BY DEF QuietInv, TypeOK, PcTypes, PvStep, PvOpenStream, PvClear, PvCreateCaptureThread, PvLoop, PvTake,
         PvDecode, PvDecoded, draw_preview_one, addCaptureFrame, PvStopStreaming
<1>4. StreamInside'
  BY DEF QuietInv, TypeOK, PcTypes, PvStep, PvOpenStream, PvClear, PvCreateCaptureThread, PvLoop, PvTake,
         PvDecode, PvDecoded, draw_preview_one, addCaptureFrame, PvStopStreaming, StreamInside, PvLabels
<1> QED
  BY <1>1, <1>2, <1>3, <1>4 DEF QuietInv, Stopping, Quiet

\* A capture thread empties captureQueu and wakes Ctrl: no more.
LEMMA CapQuiet ==
    ASSUME QuietInv, NEW t \in CaptureThreads, CapStep(t)
    PROVE  StreamInside' /\ Stopping'
<1> USE ThreadNames DEF Jump, Goto, JumpAndWake, CaptureWaiters
<1>1. UNCHANGED <<mIsRunning, previewFrames>> /\ (captureQueu' = captureQueu \/ captureQueu' = NULL)
  BY DEF CapStep, CapClear, do_capture, CapChoose, CapLoop, waitCaptureFrame, CapConvert, CapCopyToSurface,
         CapCallback, CapConverted, CapCall, CapReturn, CapRecycle, CapLeave, CapForget, CapBroadcast,
         clearCaptureFrame, MoveCaptureFrame, fields, buffers, queues
<1>2. /\ pc'[Pv] = pc[Pv] /\ pc'[Usb] = pc[Usb]
      /\ pc'[Ctrl] = pc[Ctrl] \/ (pc[Ctrl] = "parked" /\ pc'[Ctrl] = "woken")
  BY DEF QuietInv, TypeOK, PcTypes,
         CapStep, CapClear, do_capture, CapChoose, CapLoop, waitCaptureFrame, CapConvert, CapCopyToSurface,
         CapCallback, CapConverted, CapCall, CapReturn, CapRecycle, CapLeave, CapForget, CapBroadcast
<1> QED
  BY <1>1, <1>2 DEF QuietInv, StreamInside, Stopping, Quiet

LEMMA StillQuiet ==
    ASSUME QuietInv, UNCHANGED vars \/ SpuriousWakeup
    PROVE  StreamInside' /\ Stopping'
BY ThreadNames DEF QuietInv, TypeOK, PcTypes, SpuriousWakeup, Jump, Goto, vars, buffers, queues, fields,
                   StreamInside, Stopping, Quiet, PvLabels

LEMMA NextQuiet ==
    ASSUME IndInv, QuietInv, [Next]_vars
    PROVE  QuietInv'
<1>1. StreamInside' /\ Stopping'
  BY CtrlQuiet, UsbQuiet, PvQuiet, CapQuiet, StillQuiet DEF Next
<1> QED
  BY <1>1, NextInd DEF QuietInv, IndInv

\* stopPreview returns, and startPreview creates a thread, only when the old
\* preview thread is joined, the stream is stopped and the queues are empty:
\* two sessions never overlap, whatever the capture threads do.
THEOREM SessionsApart == Spec => []QuietWhenStopped
<1>1. Init => IndInv /\ QuietInv
  BY InitInd, InitQuiet DEF QuietInv, IndInv
<1>2. IndInv /\ QuietInv /\ [Next]_vars => (IndInv /\ QuietInv)'
  BY NextInd, NextQuiet
<1>3. QuietInv => QuietWhenStopped
  BY DEF QuietInv, Stopping, Quiet, QuietWhenStopped
<1> QED
  BY <1>1, <1>2, <1>3, PTL DEF Spec
-----------------------------------------------------------------------------
(* One owner: a buffer never has two owners and is never freed while it    *)
(* has one. Every action is a composition of a few moves of buffers        *)
(* between places; each move is a lemma over explicit places, so that a    *)
(* step that moves a buffer and then recycles another can be followed in   *)
(* two.                                                                    *)

Places == Locals \X Threads

\* FrameOwnership over explicit values: pool P, queue q, captured c,
\* local variables l, memory A.
Owns(P, q, c, l, A) ==
    /\ \A i \in 1..Len(q) : q[i] \in A \ P /\ q[i] # c
    /\ \A i, j \in 1..Len(q) : q[i] = q[j] => i = j
    /\ c \in (A \cup {NULL}) \ P
    /\ \A x \in Places :
         /\ l[x] \in (A \cup {NULL}) \ P
         /\ \A i \in 1..Len(q) : l[x] # q[i]
         /\ l[x] = c => l[x] = NULL
         /\ \A y \in Places : l[x] = l[y] => x = y \/ l[x] = NULL
    /\ P \subseteq A

\* Nobody of q, c and l has a buffer of S.
Unowned(S, q, c, l) ==
    /\ \A i \in 1..Len(q) : q[i] \notin S
    /\ c \notin S
    /\ \A x \in Places : l[x] \notin S

Values(q, l) == q \in Seq(Frames) /\ l \in [Places -> Frames \cup {NULL}]

LEMMA OwnsNow ==
    BufferTypes => (FrameOwnership <=>
        Owns(mFramePool, previewFrames, captureQueu, local, allocated))
<1> SUFFICES ASSUME BufferTypes
             PROVE FrameOwnership <=>
                 Owns(mFramePool, previewFrames, captureQueu, local, allocated)
  OBVIOUS
<1> USE ConstantsAssumption DEF BufferTypes
<1>1. ASSUME FrameOwnership
      PROVE  Owns(mFramePool, previewFrames, captureQueu, local, allocated)
  BY <1>1 DEF FrameOwnership, Owns, Places, Queued, NotNull
<1>2. ASSUME Owns(mFramePool, previewFrames, captureQueu, local, allocated)
      PROVE  FrameOwnership
  BY <1>2 DEF FrameOwnership, Owns, Places, Queued, NotNull
<1> QED
  BY <1>1, <1>2

LEMMA OwnsNext ==
    BufferTypes' => (FrameOwnership' <=>
        Owns(mFramePool', previewFrames', captureQueu', local', allocated'))
<1> SUFFICES ASSUME BufferTypes'
             PROVE FrameOwnership' <=>
                 Owns(mFramePool', previewFrames', captureQueu', local', allocated')
  OBVIOUS
<1> USE ConstantsAssumption DEF BufferTypes
<1>1. ASSUME FrameOwnership'
      PROVE  Owns(mFramePool', previewFrames', captureQueu', local', allocated')
  BY <1>1 DEF FrameOwnership, Owns, Places, Queued, NotNull
<1>2. ASSUME Owns(mFramePool', previewFrames', captureQueu', local', allocated')
      PROVE  FrameOwnership'
  BY <1>2 DEF FrameOwnership, Owns, Places, Queued, NotNull
<1> QED
  BY <1>1, <1>2
-----------------------------------------------------------------------------
(* The moves.                                                              *)

\* recycle_frame of buffers nobody has any more.
LEMMA Recycled ==
    ASSUME BufferTypes, NEW q, NEW c, NEW l, NEW S \in SUBSET Frames,
           Owns(mFramePool, q, c, l, allocated), Unowned(S, q, c, l),
           S \subseteq allocated \ mFramePool, recycle_frame(S)
    PROVE  Owns(mFramePool', q, c, l, allocated')
<1>1. PICK kept \in SUBSET S : /\ mFramePool' = mFramePool \cup kept
                              /\ allocated' = allocated \ (S \ kept)
  BY DEF recycle_frame
<1> QED
  BY <1>1, ConstantsAssumption DEF Owns, Unowned

\* get_frame into a local variable.
LEMMA Got ==
    ASSUME BufferTypes, NEW q, NEW c, NEW l \in [Places -> Frames \cup {NULL}],
           NEW x \in Places, NEW f, get_frame(f),
           Owns(mFramePool, q, c, l, allocated)
    PROVE  Owns(mFramePool', q, c, [l EXCEPT ![x] = f], allocated')
<1>1. /\ f = NULL \/ f \in mFramePool \/ f \notin allocated
      /\ mFramePool' = mFramePool \ {f}
      /\ allocated' = allocated \cup NotNull(f)
      /\ NULL \notin mFramePool \cup allocated
  BY GetFrameTypes, ConstantsAssumption DEF get_frame, BufferTypes
<1>2. Owns(mFramePool', q, c, l, allocated')
  BY <1>1 DEF Owns, NotNull
<1>3. f # NULL => Unowned({f}, q, c, l) /\ f \in allocated' \ mFramePool'
  BY <1>1 DEF Owns, Unowned, NotNull
<1>4. CASE f = NULL
  BY <1>1, <1>2, <1>4 DEF Owns, NotNull
<1>5. CASE f # NULL
  BY <1>2, <1>3, <1>5 DEF Owns, Unowned
<1> QED
  BY <1>4, <1>5

\* A local variable lets go of its buffer.
LEMMA LetGo ==
    ASSUME NEW P, NEW q, NEW c, NEW l \in [Places -> Frames \cup {NULL}], NEW A,
           NEW x \in Places, Owns(P, q, c, l, A), NULL \notin A, l[x] # NULL
    PROVE  /\ Owns(P, q, c, [l EXCEPT ![x] = NULL], A)
           /\ Unowned({l[x]}, q, c, [l EXCEPT ![x] = NULL])
           /\ {l[x]} \subseteq A \ P
BY ConstantsAssumption DEF Owns, Unowned

\* A local variable lets go of its buffer, which is recycled.
LEMMA Dropped ==
    ASSUME BufferTypes, NEW q, NEW c, NEW l \in [Places -> Frames \cup {NULL}],
           NEW x \in Places, l[x] \in Frames,
           Owns(mFramePool, q, c, l, allocated), recycle_frame({l[x]})
    PROVE  Owns(mFramePool', q, c, [l EXCEPT ![x] = NULL], allocated')
<1> DEFINE m == [l EXCEPT ![x] = NULL]
<1>1. NULL \notin allocated /\ l[x] # NULL /\ {l[x]} \in SUBSET Frames
  BY ConstantsAssumption DEF BufferTypes
<1>2. /\ Owns(mFramePool, q, c, m, allocated)
      /\ Unowned({l[x]}, q, c, m)
      /\ {l[x]} \subseteq allocated \ mFramePool
  BY <1>1, LetGo
<1> HIDE DEF m
<1>3. Owns(mFramePool', q, c, m, allocated')
  BY <1>1, <1>2, Recycled
<1> QED
  BY <1>3 DEF m

\* A buffer moves from one local variable to another.
LEMMA Moved ==
    ASSUME NEW P, NEW q, NEW c, NEW l \in [Places -> Frames \cup {NULL}], NEW A,
           NEW x \in Places, NEW y \in Places, x # y, Owns(P, q, c, l, A),
           NULL \notin P \cup A
    PROVE  Owns(P, q, c, [l EXCEPT ![x] = l[y], ![y] = NULL], A)
BY ConstantsAssumption DEF Owns

\* A local variable's buffer is recycled and another one takes its place.
LEMMA Replaced ==
    ASSUME BufferTypes, NEW q, NEW c, NEW l \in [Places -> Frames \cup {NULL}],
           NEW x \in Places, NEW y \in Places, x # y, l[x] \in Frames,
           Owns(mFramePool, q, c, l, allocated), recycle_frame({l[x]})
    PROVE  Owns(mFramePool', q, c, [l EXCEPT ![x] = l[y], ![y] = NULL], allocated')
<1> DEFINE m == [l EXCEPT ![x] = NULL]
<1>1. Owns(mFramePool', q, c, m, allocated')
  BY Dropped
<1>2. NULL \notin mFramePool' \cup allocated' /\ {l[x]} \in SUBSET Frames
  BY ConstantsAssumption, RecycleTypes DEF BufferTypes
<1>3. m \in [Places -> Frames \cup {NULL}]
  OBVIOUS
<1>4. [m EXCEPT ![x] = m[y], ![y] = NULL] = [l EXCEPT ![x] = l[y], ![y] = NULL]
  OBVIOUS
<1> HIDE DEF m
<1>5. Owns(mFramePool', q, c, [m EXCEPT ![x] = m[y], ![y] = NULL], allocated')
  BY <1>1, <1>2, <1>3, Moved
<1> QED
  BY <1>4, <1>5

\* Two local variables let go of their buffers, which are recycled.
LEMMA BothDropped ==
    ASSUME BufferTypes, NEW q, NEW c, NEW l \in [Places -> Frames \cup {NULL}],
           NEW x \in Places, NEW y \in Places, x # y, l[x] \in Frames, l[y] \in Frames,
           Owns(mFramePool, q, c, l, allocated), recycle_frame({l[x], l[y]})
    PROVE  Owns(mFramePool', q, c, [l EXCEPT ![x] = NULL, ![y] = NULL], allocated')
<1> DEFINE m == [l EXCEPT ![x] = NULL, ![y] = NULL]
<1>1. NULL \notin allocated /\ {l[x], l[y]} \in SUBSET Frames
  BY ConstantsAssumption DEF BufferTypes
<1>2. /\ Owns(mFramePool, q, c, m, allocated)
      /\ Unowned({l[x], l[y]}, q, c, m)
      /\ {l[x], l[y]} \subseteq allocated \ mFramePool
  BY <1>1, ConstantsAssumption DEF Owns, Unowned
<1> HIDE DEF m
<1>3. Owns(mFramePool', q, c, m, allocated')
  BY <1>1, <1>2, Recycled
<1> QED
  BY <1>3 DEF m

\* waitCaptureFrame: from captureQueu to a local variable.
LEMMA Captured ==
    ASSUME NEW P, NEW q, NEW c \in Frames \cup {NULL},
           NEW l \in [Places -> Frames \cup {NULL}], NEW A,
           NEW x \in Places, Owns(P, q, c, l, A), NULL \notin P \cup A
    PROVE  Owns(P, q, NULL, [l EXCEPT ![x] = c], A)
BY ConstantsAssumption DEF Owns

\* addCaptureFrame: from a local variable to captureQueu.
LEMMA Offered ==
    ASSUME NEW P, NEW q, NEW c, NEW l \in [Places -> Frames \cup {NULL}], NEW A,
           NEW x \in Places, Owns(P, q, c, l, A), NULL \notin P \cup A,
           l[x] # NULL
    PROVE  /\ Owns(P, q, l[x], [l EXCEPT ![x] = NULL], A)
           /\ c # NULL => c \in A \ P /\ Unowned({c}, q, l[x], [l EXCEPT ![x] = NULL])
BY DEF Owns, Unowned

\* clearCaptureFrame and clearPreviewFrame empty a queue.
LEMMA CaptureEmptied ==
    ASSUME NEW P, NEW q, NEW c, NEW l, NEW A,
           Owns(P, q, c, l, A), NULL \notin P \cup A
    PROVE  /\ Owns(P, q, NULL, l, A)
           /\ c # NULL => c \in A \ P /\ Unowned({c}, q, NULL, l)
BY DEF Owns, Unowned

LEMMA PreviewEmptied ==
    ASSUME NEW P, NEW q \in Seq(Frames), NEW c, NEW l, NEW A, Owns(P, q, c, l, A)
    PROVE  /\ Owns(P, <<>>, c, l, A)
           /\ {q[i] : i \in 1..Len(q)} \subseteq A \ P
           /\ Unowned({q[i] : i \in 1..Len(q)}, <<>>, c, l)
<1>1. \A i \in 1..Len(<<>>) : FALSE
  OBVIOUS
<1> QED
  BY <1>1 DEF Owns, Unowned

\* addPreviewFrame: from a local variable to the end of the queue.
LEMMA Appended ==
    ASSUME NEW P, NEW q \in Seq(Frames), NEW c,
           NEW l \in [Places -> Frames \cup {NULL}], NEW A,
           NEW x \in Places, Owns(P, q, c, l, A), NULL \notin A, l[x] \in Frames
    PROVE  Owns(P, Append(q, l[x]), c, [l EXCEPT ![x] = NULL], A)
<1> DEFINE r == Append(q, l[x])
<1>1. /\ Len(q) \in Nat /\ Len(r) = Len(q) + 1 /\ r[Len(q) + 1] = l[x]
      /\ \A i \in 1..Len(q) : r[i] = q[i]
  OBVIOUS
<1>2. /\ \A i \in 1..Len(r) : i \in 1..Len(q) \/ i = Len(q) + 1
      /\ Len(q) + 1 \notin 1..Len(q)
  BY <1>1
<1>3. l[x] \in A \ P /\ l[x] # c /\ l[x] # NULL /\ \A i \in 1..Len(q) : l[x] # q[i]
  BY ConstantsAssumption DEF Owns
<1> HIDE DEF r
<1>4. /\ \A i \in 1..Len(r) : r[i] \in A \ P /\ r[i] # c
      /\ \A i, j \in 1..Len(r) : r[i] = r[j] => i = j
  BY <1>1, <1>2, <1>3 DEF Owns
<1>5. \A y \in Places : y # x => \A i \in 1..Len(r) : l[y] # r[i]
  BY <1>1, <1>2, <1>3 DEF Owns
<1>6. Owns(P, r, c, [l EXCEPT ![x] = NULL], A)
  BY <1>3, <1>4, <1>5 DEF Owns
<1> QED
  BY <1>6 DEF r

\* waitPreviewFrame: from the front of the queue to a local variable.
LEMMA TakenOwns ==
    ASSUME BufferTypes, previewFrames # <<>>, NEW P, NEW c,
           NEW l \in [Places -> Frames \cup {NULL}], NEW A,
           NEW x \in Places, Owns(P, previewFrames, c, l, A)
    PROVE  Owns(P, Taken, c, [l EXCEPT ![x] = previewFrames[NextFrame]], A)
<1>1. /\ Len(Taken) \in Nat /\ Len(previewFrames) = Len(Taken) + 1
      /\ \A i \in 1..Len(Taken) : Taken[i] = previewFrames[i + 1]
      /\ previewFrames[NextFrame] \in Frames
  BY TakeOldest DEF BufferTypes
<1>2. \A i \in 1..Len(Taken) :
        i + 1 \in 1..Len(previewFrames) /\ i + 1 # NextFrame /\ i \in Int
  BY <1>1 DEF NextFrame
<1>3. NextFrame \in 1..Len(previewFrames)
  BY <1>1 DEF NextFrame
<1>4. /\ \A i \in 1..Len(Taken) : Taken[i] \in A \ P /\ Taken[i] # c
      /\ \A i \in 1..Len(Taken) : Taken[i] # previewFrames[NextFrame]
      /\ \A y \in Places, i \in 1..Len(Taken) : l[y] # Taken[i]
  BY <1>1, <1>2, <1>3 DEF Owns
<1>5. \A i, j \in 1..Len(Taken) : Taken[i] = Taken[j] => i = j
  <2>1. SUFFICES ASSUME NEW i \in 1..Len(Taken), NEW j \in 1..Len(Taken), Taken[i] = Taken[j]
                 PROVE  i = j
    OBVIOUS
  <2>2. i + 1 = j + 1
    BY <1>1, <1>2, <2>1 DEF Owns
  <2> QED
    BY <2>2
<1>6. /\ previewFrames[NextFrame] \in A \ P /\ previewFrames[NextFrame] # c
      /\ \A y \in Places : l[y] # previewFrames[NextFrame]
  BY <1>3 DEF Owns
<1> QED
  BY <1>4, <1>5, <1>6 DEF Owns
-----------------------------------------------------------------------------
(* The steps.                                                              *)

\* A step that moves no buffer.
Untouched == UNCHANGED <<mFramePool, previewFrames, captureQueu, local, allocated>>

LEMMA CtrlOwns ==
    ASSUME IndInv, FrameOwnership, Alive, IndInv', CtrlCall \/ CtrlStep
    PROVE  FrameOwnership'
<1> USE ThreadNames
<1>o. Owns(mFramePool, previewFrames, captureQueu, local, allocated)
  BY OwnsNow DEF IndInv, TypeOK
<1>t. /\ BufferTypes
      /\ NULL \notin mFramePool \cup allocated
      /\ previewFrames \in Seq(Frames) /\ captureQueu \in Frames \cup {NULL}
      /\ local \in [Places -> Frames \cup {NULL}]
  BY ConstantsAssumption DEF IndInv, TypeOK, BufferTypes, Places
<1> SUFFICES Owns(mFramePool', previewFrames', captureQueu', local', allocated')
  BY OwnsNext DEF IndInv, TypeOK
<1>1. CASE Untouched
  BY <1>1, <1>o DEF Untouched
<1>2. ASSUME clearPreviewFrame, UNCHANGED <<captureQueu, local>>
      PROVE  Owns(mFramePool', previewFrames', captureQueu', local', allocated')
  <2>1. /\ Owns(mFramePool, <<>>, captureQueu, local, allocated)
        /\ Queued \subseteq allocated \ mFramePool
        /\ Unowned(Queued, <<>>, captureQueu, local)
    BY ZenonT(60), <1>o, <1>t, PreviewEmptied DEF Queued
  <2>2. Queued \in SUBSET Frames
    BY <1>t, QueuedTypes
  <2>3. Owns(mFramePool', <<>>, captureQueu, local, allocated')
    BY <1>2, <1>t, <2>1, <2>2, Recycled DEF clearPreviewFrame
  <2> QED
    BY <1>2, <2>3 DEF clearPreviewFrame
<1>3. ASSUME clearCaptureFrame, UNCHANGED <<previewFrames, local>>
      PROVE  Owns(mFramePool', previewFrames', captureQueu', local', allocated')
  <2>1. NotNull(captureQueu) \in SUBSET Frames
    BY <1>t DEF NotNull
  <2>2. /\ Owns(mFramePool, previewFrames, NULL, local, allocated)
        /\ NotNull(captureQueu) \subseteq allocated \ mFramePool
        /\ Unowned(NotNull(captureQueu), previewFrames, NULL, local)
    BY <1>o, <1>t, CaptureEmptied DEF NotNull, Unowned
  <2> QED
    BY <1>3, <1>t, <2>1, <2>2, Recycled DEF clearCaptureFrame
<1>4. CASE Delete
  <2>1. \A i \in 1..Len(<<>>) : FALSE
    OBVIOUS
  <2>2. /\ mFramePool' = {} /\ previewFrames' = <<>> /\ captureQueu' = NULL /\ local' = local
        /\ allocated' = allocated \ (mFramePool \cup Queued \cup NotNull(captureQueu))
    BY <1>4 DEF Delete
  <2>3. \A x \in Places : local[x] \in allocated' \cup {NULL}
    BY <1>o, <2>2 DEF Owns, Queued, NotNull
  <2> QED
    BY <1>o, <2>1, <2>2, <2>3 DEF Owns
<1>5. CASE StopClears
  BY <1>2, <1>3, <1>5 DEF StopClears
<1>6. CASE CtrlCall
  BY <1>1, <1>6 DEF CtrlCall, setPreviewDisplay, setCaptureDisplay, setFrameCallback,
                    startPreview, Untouched, buffers, pool, queues
<1>7. CASE \/ StartCreate \/ FinishSetCaptureDisplay \/ FinishSetFrameCallback
           \/ stopPreview \/ StopWaits \/ StopReleaseWindows
  BY <1>1, <1>7 DEF StartCreate, FinishSetCaptureDisplay, FinishSetFrameCallback, stopPreview,
                    StopWaits, StopReleaseWindows, Untouched, buffers, pool, queues
<1> QED
  BY <1>4, <1>5, <1>6, <1>7 DEF CtrlStep

LEMMA UsbOwns ==
    ASSUME IndInv, FrameOwnership, Alive, IndInv', UsbFrame \/ UsbStep
    PROVE  FrameOwnership'
<1> USE ThreadNames
<1>o. Owns(mFramePool, previewFrames, captureQueu, local, allocated)
  BY OwnsNow DEF IndInv, TypeOK
<1>t. /\ BufferTypes
      /\ NULL \notin mFramePool \cup allocated
      /\ previewFrames \in Seq(Frames) /\ captureQueu \in Frames \cup {NULL}
      /\ local \in [Places -> Frames \cup {NULL}]
  BY ConstantsAssumption DEF IndInv, TypeOK, BufferTypes, Places
<1> SUFFICES Owns(mFramePool', previewFrames', captureQueu', local', allocated')
  BY OwnsNext DEF IndInv, TypeOK
<1> DEFINE x == <<"frame", Usb>>
<1>x. x \in Places
  BY DEF Places, Locals
<1>1. CASE Untouched
  BY <1>1, <1>o DEF Untouched
<1>2. CASE UsbCopy
  <2>1. PICK f \in Frames \cup {NULL} :
          get_frame(f) /\ local' = [local EXCEPT ![x] = f]
    BY <1>2 DEF UsbCopy
  <2>2. Owns(mFramePool', previewFrames, captureQueu, [local EXCEPT ![x] = f], allocated')
    BY <1>o, <1>t, <1>x, <2>1, Got
  <2> QED
    BY <1>2, <2>1, <2>2 DEF UsbCopy, queues
<1>3. CASE addPreviewFrame
  <2>1. local[x] \in Frames
    BY <1>3 DEF IndInv, ThreadState, addPreviewFrame, JumpAndWake
  <2> QED
    BY <1>3, <1>o, <1>t, <1>x, <2>1, Appended DEF addPreviewFrame, pool
<1>4. CASE UsbRecycle
  <2>1. local[x] \in Frames
    BY <1>4 DEF IndInv, ThreadState, UsbRecycle, Jump
  <2>2. Owns(mFramePool', previewFrames, captureQueu, [local EXCEPT ![x] = NULL], allocated')
    BY <1>4, <1>o, <1>t, <1>x, <2>1, Dropped DEF UsbRecycle
  <2> QED
    BY <1>4, <2>2 DEF UsbRecycle, queues
<1>5. CASE UsbFrame \/ UsbRefused
  BY <1>1, <1>5 DEF UsbFrame, UsbRefused, Untouched, buffers, pool, queues
<1> QED
  BY <1>2, <1>3, <1>4, <1>5 DEF UsbStep

LEMMA PvOwns ==
    ASSUME IndInv, FrameOwnership, Alive, IndInv', PvStep
    PROVE  FrameOwnership'
<1> USE ThreadNames
<1>o. Owns(mFramePool, previewFrames, captureQueu, local, allocated)
  BY OwnsNow DEF IndInv, TypeOK
<1>t. /\ BufferTypes
      /\ NULL \notin mFramePool \cup allocated
      /\ previewFrames \in Seq(Frames) /\ captureQueu \in Frames \cup {NULL}
      /\ local \in [Places -> Frames \cup {NULL}]
  BY ConstantsAssumption DEF IndInv, TypeOK, BufferTypes, Places
<1> SUFFICES Owns(mFramePool', previewFrames', captureQueu', local', allocated')
  BY OwnsNext DEF IndInv, TypeOK
<1> DEFINE x == <<"frame", Pv>>
           y == <<"converted", Pv>>
<1>x. x \in Places /\ y \in Places /\ x # y
  BY DEF Places, Locals
<1>1. CASE Untouched
  BY <1>1, <1>o DEF Untouched
<1>2. CASE PvClear
  <2>1. /\ Owns(mFramePool, <<>>, captureQueu, local, allocated)
        /\ Queued \subseteq allocated \ mFramePool
        /\ Unowned(Queued, <<>>, captureQueu, local)
    BY ZenonT(60), <1>o, <1>t, PreviewEmptied DEF Queued
  <2>2. Queued \in SUBSET Frames
    BY <1>t, QueuedTypes
  <2>3. Owns(mFramePool', <<>>, captureQueu, local, allocated')
    BY <1>2, <1>t, <2>1, <2>2, Recycled DEF PvClear, clearPreviewFrame
  <2> QED
    BY <1>2, <2>3 DEF PvClear, clearPreviewFrame
<1>3. CASE PvTake
  <2>1. CASE /\ previewFrames # <<>> /\ previewFrames' = Taken
             /\ local' = [local EXCEPT ![x] = previewFrames[NextFrame]]
    <3>1. Owns(mFramePool, Taken, captureQueu,
               [local EXCEPT ![x] = previewFrames[NextFrame]], allocated)
      BY <1>o, <1>t, <1>x, <2>1, TakenOwns
    <3> QED
      BY <1>3, <2>1, <3>1 DEF PvTake, pool
  <2>2. CASE Untouched
    BY <1>1, <2>2
  <2> QED
    BY <1>3, <2>1, <2>2 DEF PvTake, Taken, Untouched, pool
<1>4. ASSUME NEW f, get_frame(f), local' = [local EXCEPT ![y] = f], UNCHANGED queues
      PROVE  Owns(mFramePool', previewFrames', captureQueu', local', allocated')
  <2>1. Owns(mFramePool', previewFrames, captureQueu, [local EXCEPT ![y] = f], allocated')
    BY <1>4, <1>o, <1>t, <1>x, Got
  <2> QED
    BY <1>4, <2>1 DEF queues
<1>5. CASE PvDecode
  BY <1>4, <1>5 DEF PvDecode
<1>6. CASE PvDecoded
  <2>1. local[x] \in Frames /\ local[y] \in Frames
    BY <1>6 DEF IndInv, ThreadState, PvDecoded, Jump
  <2>2. CASE /\ recycle_frame({local[x]})
             /\ local' = [local EXCEPT ![x] = local[y], ![y] = NULL]
    <3>1. Owns(mFramePool', previewFrames, captureQueu,
               [local EXCEPT ![x] = local[y], ![y] = NULL], allocated')
      BY <1>o, <1>t, <1>x, <2>1, <2>2, Replaced
    <3> QED
      BY <1>6, <2>2, <3>1 DEF PvDecoded, queues
  <2>3. CASE /\ recycle_frame({local[x], local[y]})
             /\ local' = [local EXCEPT ![x] = NULL, ![y] = NULL]
    <3>1. Owns(mFramePool', previewFrames, captureQueu,
               [local EXCEPT ![x] = NULL, ![y] = NULL], allocated')
      BY <1>o, <1>t, <1>x, <2>1, <2>3, BothDropped
    <3> QED
      BY <1>6, <2>3, <3>1 DEF PvDecoded, queues
  <2> QED
    BY <1>6, <2>2, <2>3 DEF PvDecoded
<1>7. CASE draw_preview_one
  <2>1. CASE UNCHANGED <<pool, local>>
    BY <1>1, <1>7, <2>1 DEF draw_preview_one, Untouched, pool, queues
  <2>2. CASE /\ pc[Pv] = "show" /\ recycle_frame({local[y]})
             /\ local' = [local EXCEPT ![y] = NULL]
    <3>1. local[y] \in Frames
      BY <2>2 DEF IndInv, ThreadState
    <3>2. Owns(mFramePool', previewFrames, captureQueu, [local EXCEPT ![y] = NULL], allocated')
      BY <1>o, <1>t, <1>x, <2>2, <3>1, Dropped
    <3> QED
      BY <1>7, <2>2, <3>2 DEF draw_preview_one, queues
  <2> QED
    BY <1>4, <1>7, <2>1, <2>2 DEF draw_preview_one, Jump
<1>8. CASE addCaptureFrame
  <2>1. local[x] \in Frames /\ local[x] # NULL
    BY <1>8, ConstantsAssumption DEF IndInv, ThreadState, addCaptureFrame, Jump, JumpAndWake
  <2>0. local' = [local EXCEPT ![x] = NULL]
    BY <1>8 DEF addCaptureFrame
  <2>5. /\ Owns(mFramePool, previewFrames, captureQueu, [local EXCEPT ![x] = NULL], allocated)
        /\ Owns(mFramePool, previewFrames, local[x], [local EXCEPT ![x] = NULL], allocated)
        /\ captureQueu # NULL =>
              /\ captureQueu \in allocated \ mFramePool
              /\ Unowned({captureQueu}, previewFrames, local[x], [local EXCEPT ![x] = NULL])
    <3> HIDE DEF x
    <3>1. Owns(mFramePool, previewFrames, captureQueu, [local EXCEPT ![x] = NULL], allocated)
      BY <1>o, <1>t, <1>x, <2>1, LetGo
    <3> QED
      BY <1>o, <1>t, <1>x, <2>1, <3>1, Offered
  <2>2. CASE KeepOnlyLatest(local[x])
    <3>1. NotNull(captureQueu) \in SUBSET Frames
      BY <1>t DEF NotNull
    <3>2. /\ Owns(mFramePool, previewFrames, local[x], [local EXCEPT ![x] = NULL], allocated)
          /\ NotNull(captureQueu) \subseteq allocated \ mFramePool
          /\ Unowned(NotNull(captureQueu), previewFrames, local[x], [local EXCEPT ![x] = NULL])
      BY <2>5 DEF NotNull, Unowned
    <3>3. Owns(mFramePool', previewFrames, local[x], [local EXCEPT ![x] = NULL], allocated')
      BY <1>t, <2>2, <3>1, <3>2, Recycled DEF KeepOnlyLatest
    <3> QED
      BY <1>8, <2>0, <2>2, <3>3 DEF addCaptureFrame, KeepOnlyLatest
  <2>3. CASE UNCHANGED <<pool, captureQueu>>
    BY <1>8, <2>0, <2>3, <2>5 DEF addCaptureFrame, pool
  <2> QED
    BY <1>8, <2>2, <2>3 DEF addCaptureFrame
<1>9. CASE PvOpenStream \/ PvCreateCaptureThread \/ PvLoop \/ PvStopStreaming
  BY <1>1, <1>9 DEF PvOpenStream, PvCreateCaptureThread, PvLoop, PvStopStreaming,
                    Untouched, buffers, pool, queues
<1> QED
  BY <1>2, <1>3, <1>5, <1>6, <1>7, <1>8, <1>9 DEF PvStep

LEMMA CapOwns ==
    ASSUME IndInv, FrameOwnership, Alive, IndInv', NEW t \in CaptureThreads, CapStep(t)
    PROVE  FrameOwnership'
<1> USE ThreadNames
<1>o. Owns(mFramePool, previewFrames, captureQueu, local, allocated)
  BY OwnsNow DEF IndInv, TypeOK
<1>t. /\ BufferTypes
      /\ NULL \notin mFramePool \cup allocated
      /\ previewFrames \in Seq(Frames) /\ captureQueu \in Frames \cup {NULL}
      /\ local \in [Places -> Frames \cup {NULL}]
  BY ConstantsAssumption DEF IndInv, TypeOK, BufferTypes, Places
<1> SUFFICES Owns(mFramePool', previewFrames', captureQueu', local', allocated')
  BY OwnsNext DEF IndInv, TypeOK
<1> DEFINE x == <<"frame", t>>
           y == <<"converted", t>>
           z == <<"callback_frame", t>>
<1>x. x \in Places /\ y \in Places /\ z \in Places /\ x # y /\ x # z
  BY DEF Places, Locals
<1>1. CASE Untouched
  BY <1>1, <1>o DEF Untouched
<1>2. CASE CapClear(t)
  <2>1. NotNull(captureQueu) \in SUBSET Frames
    BY <1>t DEF NotNull
  <2>2. /\ Owns(mFramePool, previewFrames, NULL, local, allocated)
        /\ NotNull(captureQueu) \subseteq allocated \ mFramePool
        /\ Unowned(NotNull(captureQueu), previewFrames, NULL, local)
    BY <1>o, <1>t, CaptureEmptied DEF NotNull, Unowned
  <2>3. Owns(mFramePool', previewFrames, NULL, local, allocated')
    BY <1>2, <1>t, <2>1, <2>2, Recycled DEF CapClear, clearCaptureFrame
  <2> QED
    BY <1>2, <2>3 DEF CapClear, clearCaptureFrame
<1>3. CASE waitCaptureFrame(t)
  <2>1. Owns(mFramePool, previewFrames, NULL, [local EXCEPT ![x] = captureQueu], allocated)
    BY <1>o, <1>t, <1>x, Captured
  <2>2. CASE MoveCaptureFrame(t)
    BY <1>3, <2>1, <2>2 DEF waitCaptureFrame, MoveCaptureFrame, pool
  <2> QED
    BY <1>1, <1>3, <2>2 DEF waitCaptureFrame, Untouched, pool
<1>4. CASE CapConvert(t)
  <2>1. CASE UNCHANGED <<pool, local>>
    BY <1>1, <1>4, <2>1 DEF CapConvert, Untouched, pool, queues
  <2>2. ASSUME NEW f, get_frame(f), local' = [local EXCEPT ![y] = f]
        PROVE  Owns(mFramePool', previewFrames', captureQueu', local', allocated')
    <3>1. Owns(mFramePool', previewFrames, captureQueu, [local EXCEPT ![y] = f], allocated')
      BY <2>2, <1>o, <1>t, <1>x, Got
    <3> QED
      BY <1>4, <2>2, <3>1 DEF CapConvert, queues
  <2> QED
    BY <1>4, <2>1, <2>2 DEF CapConvert
<1>5. CASE CapCallback(t)
  <2>1. CASE UNCHANGED <<pool, local, content>>
    BY <1>1, <1>5, <2>1 DEF CapCallback, Untouched, pool, queues
  <2>2. ASSUME NEW f, get_frame(f), local' = [local EXCEPT ![z] = f]
        PROVE  Owns(mFramePool', previewFrames', captureQueu', local', allocated')
    <3>1. Owns(mFramePool', previewFrames, captureQueu, [local EXCEPT ![z] = f], allocated')
      BY <2>2, <1>o, <1>t, <1>x, Got
    <3> QED
      BY <1>5, <2>2, <3>1 DEF CapCallback, queues
  <2> QED
    BY <1>5, <2>1, <2>2 DEF CapCallback
<1>6. CASE CapConverted(t)
  <2>1. local[x] \in Frames
    BY <1>6 DEF IndInv, ThreadState, CapConverted, Jump
  <2>2. Owns(mFramePool', previewFrames, captureQueu,
             [local EXCEPT ![x] = local[z], ![z] = NULL], allocated')
    BY <1>6, <1>o, <1>t, <1>x, <2>1, Replaced DEF CapConverted
  <2> QED
    BY <1>6, <2>2 DEF CapConverted, queues
<1>7. CASE CapRecycle(t)
  <2>1. local[x] \in Frames
    BY <1>7 DEF IndInv, ThreadState, CapRecycle, Jump
  <2>2. Owns(mFramePool', previewFrames, captureQueu, [local EXCEPT ![x] = NULL], allocated')
    BY <1>7, <1>o, <1>t, <1>x, <2>1, Dropped DEF CapRecycle
  <2> QED
    BY <1>7, <2>2 DEF CapRecycle, queues
<1>8. CASE CapLeave(t)
  <2>1. CASE local[y] = NULL
    <3>1. [local EXCEPT ![y] = NULL] = local
      BY <1>t, <1>x, <2>1
    <3>2. NotNull(local[y]) = {} /\ {} \in SUBSET Frames
      BY <2>1 DEF NotNull
    <3>3. Unowned({}, previewFrames, captureQueu, local)
      BY DEF Unowned
    <3>4. Owns(mFramePool', previewFrames, captureQueu, local, allocated')
      BY <1>8, <1>o, <1>t, <3>2, <3>3, Recycled DEF CapLeave
    <3> QED
      BY <1>8, <3>1, <3>4 DEF CapLeave, queues
  <2>2. CASE local[y] # NULL
    <3>1. local[y] \in Frames /\ NotNull(local[y]) = {local[y]}
      BY <1>t, <1>x, <2>2 DEF NotNull
    <3>2. Owns(mFramePool', previewFrames, captureQueu, [local EXCEPT ![y] = NULL], allocated')
      BY <1>8, <1>o, <1>t, <1>x, <3>1, Dropped DEF CapLeave
    <3> QED
      BY <1>8, <3>2 DEF CapLeave, queues
  <2> QED
    BY <2>1, <2>2
<1>9. CASE \/ do_capture(t) \/ CapChoose(t) \/ CapLoop(t) \/ CapCopyToSurface(t)
           \/ CapCall(t) \/ CapReturn(t) \/ CapForget(t) \/ CapBroadcast(t)
  BY <1>1, <1>9 DEF do_capture, CapChoose, CapLoop, CapCopyToSurface, CapCall, CapReturn,
                    CapForget, CapBroadcast, Untouched, buffers, pool, queues
<1> QED
  BY <1>2, <1>3, <1>4, <1>5, <1>6, <1>7, <1>8, <1>9 DEF CapStep

LEMMA StillOwns ==
    ASSUME IndInv, FrameOwnership, IndInv', UNCHANGED vars \/ SpuriousWakeup
    PROVE  FrameOwnership'
<1>1. Untouched
  BY DEF vars, SpuriousWakeup, Untouched, buffers, pool, queues
<1> QED
  BY <1>1 DEF Untouched, FrameOwnership, Queued, NotNull

LEMMA InitOwns == Init => FrameOwnership
<1> SUFFICES ASSUME Init PROVE FrameOwnership
  OBVIOUS
<1>1. Queued = {}
  BY DEF Init, Queued
<1>2. 1..Len(previewFrames) = {}
  BY DEF Init
<1>3. \A x \in Locals \X Threads : local[x] = NULL
  BY DEF Init
<1> QED
  BY <1>1, <1>2, <1>3 DEF Init, FrameOwnership, NotNull

LEMMA NextOwns ==
    ASSUME IndInv, FrameOwnership, [Next]_vars
    PROVE  FrameOwnership'
<1>1. IndInv'
  BY NextInd
<1>2. CASE UNCHANGED vars
  BY <1>1, <1>2, StillOwns
<1>3. CASE Next
  BY <1>1, <1>3, CtrlOwns, UsbOwns, PvOwns, CapOwns, StillOwns DEF Next
<1> QED
  BY <1>2, <1>3

\* One buffer, one owner: whatever the interleaving of get_frame,
\* recycle_frame, addPreviewFrame, waitPreviewFrame, addCaptureFrame,
\* waitCaptureFrame and the two clears, no buffer is in two places and none
\* that is in a place has been freed.
THEOREM Ownership == Spec => []FrameOwnership
<1>1. Init => IndInv /\ FrameOwnership
  BY InitInd, InitOwns
<1>2. ASSUME IndInv, FrameOwnership, [Next]_vars
      PROVE  (IndInv /\ FrameOwnership)'
  BY <1>2, NextInd, NextOwns
<1> QED
  BY <1>1, <1>2, PTL DEF Spec
-----------------------------------------------------------------------------
(* Few leaks: a local variable that is overwritten is empty                *)
(* (EmptyHanded), so a buffer is lost only where the code drops one, in    *)
(* addCaptureFrame after stopPreview; once in a session, because Pv has    *)
(* one frame at a time (LeakInv).                                          *)

\* Where Pv has a frame, and where a capture thread has one.
PvHolds == {"decode", "decoded", "undecodable", "draw", "show", "add"}
CapHolds == {"convert", "window", "copying", "callback", "converted", "call", "onFrame", "recycle"}

\* A local variable that is about to be overwritten holds no buffer.
EmptyHanded ==
    /\ local[<<"frame", Usb>>] # NULL => pc[Usb] \in {"add", "undo"}
    /\ local[<<"frame", Pv>>] # NULL => pc[Pv] \in PvHolds
    /\ local[<<"converted", Pv>>] # NULL => pc[Pv] \in {"decoded", "undecodable", "show"}
    /\ \A t \in CaptureThreads :
         /\ local[<<"frame", t>>] # NULL => pc[t] \in CapHolds
         /\ local[<<"callback_frame", t>>] # NULL => pc[t] = "converted"

LEMMA InitEmpty == Init => EmptyHanded
BY ThreadNames DEF Init, EmptyHanded, Locals

\* Where a thread holds no buffer.
Elsewhere == {"off", "idle", "prepare", "clear", "parked", "woken", "exit"}

\* A step of t leaves the local variables of the others alone and moves the
\* others only where they hold nothing: it creates, wakes and joins them.
OnlyMoves(t) ==
    /\ \A x \in Places : x[2] # t => local'[x] = local[x]
    /\ \A u \in Threads \ {t} : pc'[u] = pc[u] \/ (pc[u] \in Elsewhere /\ pc'[u] \in Elsewhere)

LEMMA CtrlMoves ==
    ASSUME IndInv, QuietInv, CtrlCall \/ CtrlStep
    PROVE  OnlyMoves(Ctrl) /\ UNCHANGED local
<1> USE ThreadNames DEF IndInv, TypeOK, PcTypes, Jump, Goto, JumpAndWake, JumpAndSignal
<1>1. UNCHANGED local
  <2>1. CASE CtrlCall
    BY <2>1 DEF CtrlCall, setPreviewDisplay, setCaptureDisplay, setFrameCallback, startPreview,
                buffers
  <2>2. CASE StopWaits \/ StopClears \/ Delete
    BY <2>2 DEF StopWaits, StopClears, Delete, buffers
  <2>3. CASE \/ StartCreate \/ FinishSetCaptureDisplay \/ FinishSetFrameCallback \/ stopPreview
             \/ StopReleaseWindows
    BY <2>3 DEF StartCreate, FinishSetCaptureDisplay, FinishSetFrameCallback, stopPreview,
                StopReleaseWindows, buffers
  <2> QED
    BY <2>1, <2>2, <2>3 DEF CtrlStep
<1>2. \A u \in Threads \ {Ctrl} : pc'[u] = pc[u] \/ (pc[u] \in Elsewhere /\ pc'[u] \in Elsewhere)
  <2> USE DEF Elsewhere
  <2>1. CASE CtrlCall
    BY <2>1 DEF CtrlCall, setPreviewDisplay, setCaptureDisplay, setFrameCallback, startPreview,
                WaitFinishCapturing, CaptureWaiters
  <2>2. CASE StartCreate
    BY <2>2 DEF StartCreate, PreviewWaiters, QuietInv, Stopping, Quiet
  <2>3. CASE StopWaits
    BY <2>3 DEF StopWaits, StopJoinCapture, StopJoinPreview, Joined, PreviewWaiters, CaptureWaiters,
                FieldTypes
  <2>4. CASE StopClears \/ Delete
    BY <2>4 DEF StopClears, Delete
  <2>5. CASE FinishSetCaptureDisplay \/ FinishSetFrameCallback \/ stopPreview
    BY <2>5 DEF FinishSetCaptureDisplay, FinishSetFrameCallback, stopPreview
  <2>6. CASE StopReleaseWindows
    <3>1. \E next : Jump(Ctrl, "release", next)
      BY <2>6 DEF StopReleaseWindows
    <3> QED
      BY <3>1
  <2> QED
    BY <2>1, <2>2, <2>3, <2>4, <2>5, <2>6 DEF CtrlStep
<1> QED
  BY <1>1, <1>2 DEF OnlyMoves

LEMMA UsbMoves ==
    ASSUME IndInv, UsbFrame \/ UsbStep
    PROVE  OnlyMoves(Usb)
<1> USE ThreadNames DEF IndInv, TypeOK, PcTypes, Jump, Goto, JumpAndWake
<1>1. \A x \in Places : x[2] # Usb => local'[x] = local[x]
  BY DEF UsbFrame, UsbStep, UsbCopy, addPreviewFrame, UsbRefused, UsbRecycle, buffers, BufferTypes,
         Places
<1>2. \A u \in Threads \ {Usb} : pc'[u] = pc[u] \/ (u = Pv /\ pc[u] = "parked" /\ pc'[u] = "woken")
  BY DEF UsbFrame, UsbStep, UsbCopy, addPreviewFrame, UsbRefused, UsbRecycle, WokenByPreviewFrame,
         PreviewWaiters
<1> QED
  BY <1>1, <1>2 DEF OnlyMoves, Elsewhere

LEMMA PvMoves ==
    ASSUME IndInv, QuietInv, PvStep
    PROVE  OnlyMoves(Pv)
<1> USE ThreadNames DEF IndInv, TypeOK, PcTypes, Jump, Goto, JumpAndWake, JumpAndSignal
<1>1. \A x \in Places : x[2] # Pv => local'[x] = local[x]
  BY DEF PvStep, PvOpenStream, PvClear, PvCreateCaptureThread, PvLoop, PvTake, PvDecode, PvDecoded,
         draw_preview_one, addCaptureFrame, PvStopStreaming, buffers, BufferTypes, Places
<1>2. \A u \in Threads \ {Pv} : pc'[u] = pc[u] \/ (pc[u] \in Elsewhere /\ pc'[u] \in Elsewhere)
  <2> USE DEF Elsewhere
  <2>1. CASE PvOpenStream \/ PvClear \/ PvLoop \/ PvTake
    BY <2>1 DEF PvOpenStream, PvClear, PvLoop, PvTake, QuietInv, StreamInside
  <2>2. CASE PvDecode \/ PvDecoded \/ draw_preview_one \/ addCaptureFrame \/ PvStopStreaming
    BY <2>2 DEF PvDecode, PvDecoded, draw_preview_one, addCaptureFrame, PvStopStreaming,
                CaptureWaiters, WokenByCaptureFrame
  <2>3. CASE PvCreateCaptureThread
    <3>1. PICK u \in CaptureThreads :
            pc[u] = "off" /\ pc' = [pc EXCEPT ![Pv] = "loop", ![u] = "clear"]
      BY <2>3 DEF PvCreateCaptureThread
    <3> QED
      BY <3>1
  <2> QED
    BY <2>1, <2>2, <2>3 DEF PvStep
<1> QED
  BY <1>1, <1>2 DEF OnlyMoves

LEMMA CapMoves ==
    ASSUME IndInv, NEW t \in CaptureThreads, CapStep(t)
    PROVE  OnlyMoves(t)
<1> USE ThreadNames DEF IndInv, TypeOK, PcTypes, Jump, Goto, JumpAndWake
<1>1. \A x \in Places : x[2] # t => local'[x] = local[x]
  <2> USE DEF buffers, BufferTypes, Places
  <2>1. CASE CapClear(t) \/ do_capture(t) \/ CapChoose(t) \/ CapLoop(t) \/ waitCaptureFrame(t)
             \/ CapConvert(t) \/ CapCopyToSurface(t)
    BY <2>1 DEF CapClear, do_capture, CapChoose, CapLoop, waitCaptureFrame, MoveCaptureFrame,
                CapConvert, CapCopyToSurface
  <2>2. CASE CapCallback(t) \/ CapConverted(t) \/ CapCall(t) \/ CapReturn(t) \/ CapRecycle(t)
             \/ CapLeave(t) \/ CapForget(t) \/ CapBroadcast(t)
    BY <2>2 DEF CapCallback, CapConverted, CapCall, CapReturn, CapRecycle, CapLeave, CapForget,
                CapBroadcast
  <2> QED
    BY <2>1, <2>2 DEF CapStep
<1>2. \A u \in Threads \ {t} : pc'[u] = pc[u] \/ (pc[u] = "parked" /\ pc'[u] = "woken")
  <2>1. CASE CapClear(t) \/ do_capture(t) \/ CapChoose(t) \/ CapLoop(t) \/ waitCaptureFrame(t)
             \/ CapConvert(t) \/ CapCopyToSurface(t)
    BY <2>1 DEF CapClear, do_capture, CapChoose, CapLoop, waitCaptureFrame, CapConvert,
                CapCopyToSurface
  <2>2. CASE CapCallback(t) \/ CapConverted(t) \/ CapCall(t) \/ CapReturn(t) \/ CapRecycle(t)
             \/ CapLeave(t) \/ CapForget(t) \/ CapBroadcast(t)
    BY <2>2 DEF CapCallback, CapConverted, CapCall, CapReturn, CapRecycle, CapLeave, CapForget,
                CapBroadcast, CaptureWaiters
  <2> QED
    BY <2>1, <2>2 DEF CapStep
<1> QED
  BY <1>1, <1>2 DEF OnlyMoves, Elsewhere

\* What the others hold stays theirs, so that EmptyHanded is a matter of the
\* thread that moves.
LEMMA OthersEmpty ==
    ASSUME EmptyHanded, NEW s \in Threads, OnlyMoves(s)
    PROVE  /\ s # Usb => (local'[<<"frame", Usb>>] # NULL => pc'[Usb] \in {"add", "undo"})
           /\ s # Pv =>
                /\ local'[<<"frame", Pv>>] # NULL => pc'[Pv] \in PvHolds
                /\ local'[<<"converted", Pv>>] # NULL => pc'[Pv] \in {"decoded", "undecodable", "show"}
           /\ \A t \in CaptureThreads : s # t =>
                /\ local'[<<"frame", t>>] # NULL => pc'[t] \in CapHolds
                /\ local'[<<"callback_frame", t>>] # NULL => pc'[t] = "converted"
<1>1. \A v \in Locals, u \in Threads : <<v, u>> \in Places /\ <<v, u>>[2] = u
  BY DEF Places
<1> QED
  BY <1>1, ThreadNames DEF OnlyMoves, EmptyHanded, Elsewhere, PvHolds, CapHolds, Locals

LEMMA UsbEmpty ==
    ASSUME IndInv, EmptyHanded, UsbFrame \/ UsbStep
    PROVE  local'[<<"frame", Usb>>] # NULL => pc'[Usb] \in {"add", "undo"}
<1> USE ThreadNames DEF IndInv, TypeOK, PcTypes, Jump, Goto, JumpAndWake
<1>1. CASE UsbFrame \/ UsbRefused
  BY <1>1 DEF UsbFrame, UsbRefused, buffers, EmptyHanded
<1>2. CASE UsbCopy \/ addPreviewFrame \/ UsbRecycle
  BY <1>2 DEF UsbCopy, addPreviewFrame, UsbRecycle, BufferTypes, Locals
<1> QED
  BY <1>1, <1>2 DEF UsbStep

LEMMA PvEmpty ==
    ASSUME IndInv, EmptyHanded, Alive, PvStep
    PROVE  /\ local'[<<"frame", Pv>>] # NULL => pc'[Pv] \in PvHolds
           /\ local'[<<"converted", Pv>>] # NULL => pc'[Pv] \in {"decoded", "undecodable", "show"}
<1> USE ThreadNames DEF IndInv, TypeOK, PcTypes, Jump, Goto, JumpAndWake, JumpAndSignal
<1> USE DEF EmptyHanded, PvHolds, BufferTypes
<1>x. <<"frame", Pv>> \in Places /\ <<"converted", Pv>> \in Places
  BY DEF Places, Locals
<1>1. CASE PvOpenStream \/ PvClear \/ PvCreateCaptureThread \/ PvLoop \/ PvStopStreaming
  BY <1>1 DEF PvOpenStream, PvClear, PvCreateCaptureThread, PvLoop, PvStopStreaming, buffers
<1>2. CASE PvTake
  BY <1>2, <1>x DEF PvTake, Places
<1>3. CASE PvDecode
  BY <1>3, <1>x DEF PvDecode, Places
<1>4. CASE PvDecoded
  BY <1>4, <1>x DEF PvDecoded, Places
<1>5. CASE draw_preview_one
  BY <1>5, <1>x DEF draw_preview_one, Places
<1>6. CASE addCaptureFrame
  BY <1>6, <1>x DEF addCaptureFrame, Places, CaptureWaiters, WokenByCaptureFrame
<1> QED
  BY <1>1, <1>2, <1>3, <1>4, <1>5, <1>6 DEF PvStep

LEMMA CapEmpty ==
    ASSUME IndInv, EmptyHanded, NEW t \in CaptureThreads, CapStep(t)
    PROVE  /\ local'[<<"frame", t>>] # NULL => pc'[t] \in CapHolds
           /\ local'[<<"callback_frame", t>>] # NULL => pc'[t] = "converted"
<1> USE ThreadNames DEF IndInv, TypeOK, PcTypes, Jump, Goto, JumpAndWake
<1> USE DEF EmptyHanded, CapHolds, BufferTypes, Places
<1>x. {<<"frame", t>>, <<"converted", t>>, <<"callback_frame", t>>} \subseteq Places
  BY DEF Places, Locals
<1>1. CASE CapClear(t) \/ do_capture(t) \/ CapChoose(t) \/ CapLoop(t) \/ CapCopyToSurface(t)
  BY <1>1 DEF CapClear, do_capture, CapChoose, CapLoop, CapCopyToSurface, buffers
<1>2. CASE waitCaptureFrame(t)
  BY <1>2, <1>x DEF waitCaptureFrame, MoveCaptureFrame
<1>3. CASE CapConvert(t)
  BY <1>3, <1>x DEF CapConvert
<1>4. CASE CapCallback(t)
  BY <1>4, <1>x DEF CapCallback
<1>5. CASE CapConverted(t) \/ CapRecycle(t)
  BY <1>5, <1>x DEF CapConverted, CapRecycle
<1>6. CASE CapCall(t) \/ CapReturn(t) \/ CapForget(t) \/ CapBroadcast(t)
  BY <1>6 DEF CapCall, CapReturn, CapForget, CapBroadcast, buffers
<1>7. CASE CapLeave(t)
  BY <1>7, <1>x DEF CapLeave
<1> QED
  BY <1>1, <1>2, <1>3, <1>4, <1>5, <1>6, <1>7 DEF CapStep

LEMMA NextEmpty ==
    ASSUME IndInv, QuietInv, EmptyHanded, [Next]_vars
    PROVE  EmptyHanded'
<1> USE ThreadNames
<1>1. CASE UNCHANGED vars \/ SpuriousWakeup
  BY <1>1 DEF SpuriousWakeup, Jump, Goto, vars, buffers, EmptyHanded, PvHolds, CapHolds,
              IndInv, TypeOK, PcTypes
<1>2. CASE CtrlCall \/ CtrlStep
  BY <1>2, CtrlMoves, OthersEmpty DEF EmptyHanded
<1>3. CASE UsbFrame \/ UsbStep
  BY <1>3, UsbMoves, OthersEmpty, UsbEmpty DEF EmptyHanded
<1>4. CASE Alive /\ PvStep
  BY <1>4, PvMoves, OthersEmpty, PvEmpty DEF EmptyHanded
<1>5. ASSUME NEW t \in CaptureThreads, CapStep(t)
      PROVE  EmptyHanded'
  BY <1>5, CapMoves, OthersEmpty, CapEmpty DEF EmptyHanded
<1> QED
  BY <1>1, <1>2, <1>3, <1>4, <1>5 DEF Next

\* LeakBound's buffers, over explicit values: in memory and in no place.
Lost(P, q, c, l, A) ==
    {f \in A \ (P \cup {c}) : /\ \A i \in 1..Len(q) : q[i] # f
                              /\ \A x \in Places : l[x] # f}

LostNow == Lost(mFramePool, previewFrames, captureQueu, local, allocated)

LEMMA LostBuffers ==
    /\ BufferTypes => LostNow = allocated \ Owned
    /\ BufferTypes' => LostNow' = (allocated \ Owned)'
BY ConstantsAssumption DEF BufferTypes, LostNow, Lost, Owned, Queued, NotNull, Places

\* A buffer that get_frame puts into an empty local variable is not lost, nor
\* one that recycle_frame is given.
LEMMA GotNotLost ==
    ASSUME BufferTypes, NEW x \in Places, NEW f, get_frame(f), local[x] = NULL,
           local' = [local EXCEPT ![x] = f], UNCHANGED queues
    PROVE  LostNow' \subseteq LostNow
<1>1. /\ mFramePool' = mFramePool \ {f} /\ allocated' = allocated \cup NotNull(f)
      /\ f \in Frames \cup {NULL} /\ NULL \notin Frames /\ allocated \subseteq Frames
      /\ local \in [Places -> Frames \cup {NULL}]
  BY GetFrameTypes, ConstantsAssumption DEF get_frame, BufferTypes, Places
<1> QED
  BY <1>1 DEF LostNow, Lost, queues, NotNull

LEMMA DroppedNotLost ==
    ASSUME BufferTypes, NEW x \in Places, local[x] \in Frames, recycle_frame({local[x]}),
           local' = [local EXCEPT ![x] = NULL], UNCHANGED queues
    PROVE  LostNow' \subseteq LostNow
<1>1. /\ mFramePool \subseteq mFramePool' /\ allocated' \subseteq allocated
      /\ local[x] \in allocated => local[x] \in mFramePool' \/ local[x] \notin allocated'
      /\ local \in [Places -> Frames \cup {NULL}]
  BY RecycleTypes DEF BufferTypes, Places
<1> QED
  BY <1>1 DEF LostNow, Lost, queues

LEMMA ReplacedNotLost ==
    ASSUME BufferTypes, NEW x \in Places, NEW y \in Places, x # y, local[x] \in Frames,
           recycle_frame({local[x]}),
           local' = [local EXCEPT ![x] = local[y], ![y] = NULL], UNCHANGED queues
    PROVE  LostNow' \subseteq LostNow
<1>1. /\ mFramePool \subseteq mFramePool' /\ allocated' \subseteq allocated
      /\ local[x] \in allocated => local[x] \in mFramePool' \/ local[x] \notin allocated'
      /\ local \in [Places -> Frames \cup {NULL}]
  BY RecycleTypes DEF BufferTypes, Places
<1> QED
  BY <1>1 DEF LostNow, Lost, queues

LEMMA BothNotLost ==
    ASSUME BufferTypes, NEW x \in Places, NEW y \in Places, x # y,
           local[x] \in Frames, local[y] \in Frames, recycle_frame({local[x], local[y]}),
           local' = [local EXCEPT ![x] = NULL, ![y] = NULL], UNCHANGED queues
    PROVE  LostNow' \subseteq LostNow
<1>1. /\ mFramePool \subseteq mFramePool' /\ allocated' \subseteq allocated
      /\ \A f \in {local[x], local[y]} : f \in allocated => f \in mFramePool' \/ f \notin allocated'
      /\ local \in [Places -> Frames \cup {NULL}]
  BY RecycleTypes DEF BufferTypes, Places
<1> QED
  BY <1>1 DEF LostNow, Lost, queues

LEMMA EmptiedNotLost ==
    ASSUME BufferTypes,
           \/ clearPreviewFrame /\ UNCHANGED <<captureQueu, local>>
           \/ clearCaptureFrame /\ UNCHANGED <<previewFrames, local>>
    PROVE  LostNow' \subseteq LostNow
<1>1. CASE clearPreviewFrame /\ UNCHANGED <<captureQueu, local>>
  <2>1. /\ mFramePool \subseteq mFramePool' /\ allocated' \subseteq allocated
        /\ \A f \in Queued : f \in allocated => f \in mFramePool' \/ f \notin allocated'
    BY <1>1, RecycleTypes, QueuedTypes DEF clearPreviewFrame
  <2> QED
    BY <1>1, <2>1 DEF LostNow, Lost, Queued, clearPreviewFrame
<1>2. CASE clearCaptureFrame /\ UNCHANGED <<previewFrames, local>>
  <2>1. NotNull(captureQueu) \in SUBSET Frames
    BY DEF BufferTypes, NotNull
  <2>2. /\ mFramePool \subseteq mFramePool' /\ allocated' \subseteq allocated
        /\ \A f \in NotNull(captureQueu) : f \in allocated => f \in mFramePool' \/ f \notin allocated'
        /\ NULL \notin allocated
    BY <1>2, <2>1, RecycleTypes, ConstantsAssumption DEF clearCaptureFrame, BufferTypes
  <2> QED
    BY <1>2, <2>2 DEF LostNow, Lost, NotNull, clearCaptureFrame
<1> QED
  BY <1>1, <1>2

LEMMA CtrlLost ==
    ASSUME IndInv, CtrlCall \/ CtrlStep
    PROVE  LostNow' \subseteq LostNow
<1> USE DEF IndInv, TypeOK
<1>1. CASE Untouched
  BY <1>1 DEF Untouched, LostNow, Lost
<1>2. CASE StopClears
  BY <1>2, EmptiedNotLost DEF StopClears
<1>3. CASE Delete
  <2>1. /\ allocated' \subseteq allocated \ (mFramePool \cup Queued \cup NotNull(captureQueu))
        /\ local' = local /\ NULL \notin allocated
    BY <1>3, ConstantsAssumption DEF Delete, BufferTypes
  <2> QED
    BY <2>1 DEF LostNow, Lost, Queued, NotNull
<1>4. CASE CtrlCall
  BY <1>1, <1>4 DEF CtrlCall, setPreviewDisplay, setCaptureDisplay, setFrameCallback,
                    startPreview, Untouched, buffers, pool, queues
<1>5. CASE \/ StartCreate \/ FinishSetCaptureDisplay \/ FinishSetFrameCallback
           \/ stopPreview \/ StopWaits \/ StopReleaseWindows
  BY <1>1, <1>5 DEF StartCreate, FinishSetCaptureDisplay, FinishSetFrameCallback, stopPreview,
                    StopWaits, StopReleaseWindows, Untouched, buffers, pool, queues
<1> QED
  BY <1>2, <1>3, <1>4, <1>5 DEF CtrlStep

LEMMA UsbLost ==
    ASSUME IndInv, EmptyHanded, UsbFrame \/ UsbStep
    PROVE  LostNow' \subseteq LostNow
<1> USE DEF IndInv, TypeOK
<1> DEFINE x == <<"frame", Usb>>
<1>x. x \in Places
  BY ThreadNames DEF Places, Locals
<1>1. CASE UsbFrame \/ UsbRefused
  BY <1>1 DEF UsbFrame, UsbRefused, LostNow, Lost, buffers, pool, queues
<1>2. CASE UsbCopy
  BY <1>2, <1>x, GotNotLost DEF UsbCopy, EmptyHanded
<1>3. CASE addPreviewFrame
  <2>1. /\ previewFrames \in Seq(Frames) /\ local[x] \in Frames
        /\ local \in [Places -> Frames \cup {NULL}]
        /\ previewFrames' = Append(previewFrames, local[x])
        /\ local' = [local EXCEPT ![x] = NULL]
        /\ UNCHANGED <<mFramePool, allocated, captureQueu>>
    BY <1>3 DEF addPreviewFrame, JumpAndWake, ThreadState, BufferTypes, pool, Places
  <2>2. /\ Len(previewFrames) \in Nat /\ Len(previewFrames') = Len(previewFrames) + 1
        /\ previewFrames'[Len(previewFrames) + 1] = local[x]
        /\ \A i \in 1..Len(previewFrames) : previewFrames'[i] = previewFrames[i]
    BY <2>1
  <2> QED
    BY <1>x, <2>1, <2>2 DEF LostNow, Lost
<1>4. CASE UsbRecycle
  BY <1>4, <1>x, DroppedNotLost DEF UsbRecycle, Jump, ThreadState
<1> QED
  BY <1>1, <1>2, <1>3, <1>4 DEF UsbStep

\* Pv loses the frame it brings to addCaptureFrame after stopPreview, no other.
LEMMA PvLost ==
    ASSUME IndInv, EmptyHanded, Alive, PvStep
    PROVE  \/ LostNow' \subseteq LostNow
           \/ /\ addCaptureFrame /\ ~mIsRunning
              /\ LostNow' \subseteq LostNow \cup {local[<<"frame", Pv>>]}
<1> USE DEF IndInv, TypeOK
<1> DEFINE x == <<"frame", Pv>>
           y == <<"converted", Pv>>
<1>x. x \in Places /\ y \in Places /\ x # y
  BY ThreadNames DEF Places, Locals
<1>t. local \in [Places -> Frames \cup {NULL}] /\ NULL \notin allocated \cup Frames
  BY ConstantsAssumption DEF BufferTypes, Places
<1>1. CASE Untouched
  BY <1>1 DEF Untouched, LostNow, Lost
<1>2. CASE PvOpenStream \/ PvCreateCaptureThread \/ PvLoop \/ PvStopStreaming
  BY <1>1, <1>2 DEF PvOpenStream, PvCreateCaptureThread, PvLoop, PvStopStreaming,
                    Untouched, buffers, pool, queues
<1>3. CASE PvClear
  BY <1>3, EmptiedNotLost DEF PvClear
<1>4. CASE PvTake
  <2>1. CASE /\ previewFrames # <<>> /\ previewFrames' = Taken
             /\ local' = [local EXCEPT ![x] = previewFrames[NextFrame]]
    <3>1. /\ Len(Taken) \in Nat /\ Len(previewFrames) = Len(Taken) + 1
          /\ \A i \in 1..Len(Taken) : Taken[i] = previewFrames[i + 1]
      BY <2>1, TakeOldest
    <3>2. \A i \in 1..Len(previewFrames) :
            \/ previewFrames[i] = previewFrames[NextFrame]
            \/ i - 1 \in 1..Len(Taken) /\ Taken[i - 1] = previewFrames[i]
      BY <3>1 DEF NextFrame
    <3>3. local[x] = NULL /\ UNCHANGED <<mFramePool, allocated, captureQueu>>
      BY <1>4 DEF PvTake, EmptyHanded, PvHolds, pool
    <3> QED
      BY <1>t, <1>x, <2>1, <3>2, <3>3 DEF LostNow, Lost
  <2> QED
    BY <1>1, <1>4, <2>1 DEF PvTake, Taken, Untouched, pool
<1>5. CASE PvDecode
  BY <1>5, <1>x, GotNotLost DEF PvDecode, EmptyHanded
<1>6. CASE PvDecoded
  BY <1>6, <1>x, ReplacedNotLost, BothNotLost DEF PvDecoded, Jump, ThreadState
<1>7. CASE draw_preview_one
  <2>1. CASE UNCHANGED <<pool, local>>
    BY <1>1, <1>7, <2>1 DEF draw_preview_one, Untouched, pool, queues
  <2>2. CASE pc[Pv] = "draw"
    BY <1>7, <1>x, <2>1, <2>2, GotNotLost DEF draw_preview_one, EmptyHanded, Jump
  <2>3. CASE pc[Pv] = "show"
    BY <1>7, <1>x, <2>3, DroppedNotLost DEF draw_preview_one, Jump, ThreadState
  <2> QED
    BY <1>7, <2>2, <2>3 DEF draw_preview_one, Jump
<1>8. CASE addCaptureFrame
  <2>1. local' = [local EXCEPT ![x] = NULL] /\ previewFrames' = previewFrames
    BY <1>8 DEF addCaptureFrame
  <2>2. CASE KeepOnlyLatest(local[x])
    <3>1. NotNull(captureQueu) \in SUBSET Frames
      BY DEF NotNull, BufferTypes
    <3>2. /\ mFramePool \subseteq mFramePool' /\ allocated' \subseteq allocated
          /\ \A f \in NotNull(captureQueu) : f \in allocated => f \in mFramePool' \/ f \notin allocated'
          /\ captureQueu' = local[x]
      BY <2>2, <3>1, RecycleTypes DEF KeepOnlyLatest
    <3> QED
      BY <1>t, <1>x, <2>1, <3>2 DEF LostNow, Lost, NotNull
  <2>3. CASE ~mIsRunning /\ UNCHANGED <<pool, captureQueu>>
    BY <1>8, <1>t, <1>x, <2>1, <2>3 DEF LostNow, Lost, pool
  <2> QED
    BY <1>8, <2>2, <2>3 DEF addCaptureFrame
<1> QED
  BY <1>2, <1>3, <1>4, <1>5, <1>6, <1>7, <1>8 DEF PvStep

LEMMA CapLost ==
    ASSUME IndInv, EmptyHanded, NEW t \in CaptureThreads, CapStep(t)
    PROVE  LostNow' \subseteq LostNow
<1> USE ThreadNames DEF IndInv, TypeOK
<1> DEFINE x == <<"frame", t>>
           y == <<"converted", t>>
           z == <<"callback_frame", t>>
<1>x. x \in Places /\ y \in Places /\ z \in Places /\ x # y /\ x # z
  BY DEF Places, Locals
<1>t. local \in [Places -> Frames \cup {NULL}] /\ NULL \notin allocated \cup Frames
  BY ConstantsAssumption DEF BufferTypes, Places
<1>1. CASE Untouched
  BY <1>1 DEF Untouched, LostNow, Lost
<1>2. CASE \/ do_capture(t) \/ CapChoose(t) \/ CapLoop(t) \/ CapCopyToSurface(t)
           \/ CapCall(t) \/ CapReturn(t) \/ CapForget(t) \/ CapBroadcast(t)
  BY <1>1, <1>2 DEF do_capture, CapChoose, CapLoop, CapCopyToSurface, CapCall, CapReturn,
                    CapForget, CapBroadcast, Untouched, buffers, pool, queues
<1>3. CASE CapClear(t)
  BY <1>3, EmptiedNotLost DEF CapClear
<1>4. CASE waitCaptureFrame(t)
  <2>1. local[x] = NULL
    BY <1>4 DEF waitCaptureFrame, EmptyHanded, CapHolds
  <2>2. CASE MoveCaptureFrame(t)
    BY <1>4, <1>t, <1>x, <2>1, <2>2 DEF waitCaptureFrame, MoveCaptureFrame, LostNow, Lost, pool
  <2> QED
    BY <1>1, <1>4, <2>2 DEF waitCaptureFrame, Untouched, pool
<1>5. CASE CapConvert(t)
  BY <1>1, <1>5, <1>x, GotNotLost DEF CapConvert, Untouched, pool, queues
<1>6. CASE CapCallback(t)
  BY <1>1, <1>6, <1>x, GotNotLost DEF CapCallback, EmptyHanded, Untouched, pool, queues
<1>7. CASE CapConverted(t)
  BY <1>7, <1>x, ReplacedNotLost DEF CapConverted, Jump, ThreadState
<1>8. CASE CapRecycle(t)
  BY <1>8, <1>x, DroppedNotLost DEF CapRecycle, Jump, ThreadState
<1>9. CASE CapLeave(t)
  <2>1. CASE local[y] = NULL
    <3>1. /\ [local EXCEPT ![y] = NULL] = local
          /\ NotNull(local[y]) = {} /\ {} \in SUBSET Frames
      BY <1>t, <1>x, <2>1 DEF NotNull
    <3>2. mFramePool \subseteq mFramePool' /\ allocated' \subseteq allocated
      BY <1>9, <3>1, RecycleTypes DEF CapLeave
    <3> QED
      BY <1>9, <3>1, <3>2 DEF CapLeave, LostNow, Lost, queues
  <2>2. CASE local[y] # NULL
    <3>1. local[y] \in Frames /\ NotNull(local[y]) = {local[y]}
      BY <1>t, <1>x, <2>2 DEF NotNull
    <3> QED
      BY <1>9, <1>x, <3>1, DroppedNotLost DEF CapLeave
  <2> QED
    BY <2>1, <2>2
<1> QED
  BY <1>2, <1>3, <1>4, <1>5, <1>6, <1>7, <1>8, <1>9 DEF CapStep

\* A session is still to lose its buffer while it runs, and afterwards as long
\* as Pv has a frame.
Running == mIsRunning \/ pc[Pv] \in PvHolds

LeakInv == Cardinality(LostNow) + (IF Running THEN 1 ELSE 0) <= sessions

LEMMA NextRunning ==
    ASSUME IndInv, QuietInv, Next
    PROVE  \/ sessions' = sessions + 1 /\ UNCHANGED LostNow
           \/ sessions' = sessions /\ (Running' => Running)
<1> USE ThreadNames DEF IndInv, TypeOK, PcTypes, Jump, Goto, JumpAndWake, JumpAndSignal, Running
<1>1. CASE startPreview
  BY <1>1 DEF startPreview, LostNow, Lost, buffers, pool, queues
<1>2. CASE CtrlStep \/ (CtrlCall /\ ~startPreview)
  <2>1. sessions' = sessions /\ (mIsRunning' => mIsRunning)
    BY <1>2 DEF CtrlCall, setPreviewDisplay, setCaptureDisplay, setFrameCallback, CtrlStep,
                StartCreate, FinishSetCaptureDisplay, FinishSetFrameCallback, stopPreview,
                StopWaits, StopClears, StopReleaseWindows, Delete, fields, call
  <2>2. pc'[Pv] \in PvHolds => pc[Pv] \in PvHolds
    <3>1. CASE CtrlCall
      BY <3>1 DEF CtrlCall, setPreviewDisplay, setCaptureDisplay, setFrameCallback, startPreview,
                  WaitFinishCapturing, CaptureWaiters
    <3>2. CASE StartCreate
      BY <3>2 DEF StartCreate, PreviewWaiters, PvHolds
    <3>3. CASE StopWaits
      BY <3>3 DEF StopWaits, StopJoinCapture, StopJoinPreview, Joined, PreviewWaiters,
                  CaptureWaiters, FieldTypes, PvHolds
    <3>4. CASE StopClears \/ Delete
      BY <3>4 DEF StopClears, Delete
    <3>5. CASE FinishSetCaptureDisplay \/ FinishSetFrameCallback \/ stopPreview
      BY <3>5 DEF FinishSetCaptureDisplay, FinishSetFrameCallback, stopPreview
    <3>6. CASE StopReleaseWindows
      <4>1. \E next : Jump(Ctrl, "release", next)
        BY <3>6 DEF StopReleaseWindows
      <4> QED
        BY <4>1
    <3> QED
      BY <1>2, <3>1, <3>2, <3>3, <3>4, <3>5, <3>6 DEF CtrlStep
  <2> QED
    BY <2>1, <2>2
<1>3. CASE UsbFrame \/ UsbStep
  <2>1. UNCHANGED <<mIsRunning, sessions>> /\ (pc'[Pv] = pc[Pv] \/ pc'[Pv] = "woken")
    BY <1>3 DEF UsbFrame, UsbStep, UsbCopy, addPreviewFrame, UsbRefused, UsbRecycle, fields, call
  <2> QED
    BY <2>1 DEF PvHolds
<1>4. CASE PvStep
  <2>1. UNCHANGED <<mIsRunning, sessions>>
    BY <1>4 DEF PvStep, PvOpenStream, PvClear, PvCreateCaptureThread, PvLoop, PvTake, PvDecode,
                PvDecoded, draw_preview_one, addCaptureFrame, PvStopStreaming, fields, call
  <2>2. CASE PvOpenStream \/ PvClear \/ PvLoop \/ PvStopStreaming
    BY <2>1, <2>2 DEF PvOpenStream, PvClear, PvLoop, PvStopStreaming, CaptureWaiters, PvHolds
  <2>3. CASE PvTake
    BY <2>1, <2>3 DEF PvTake, PvHolds
  <2>4. CASE PvCreateCaptureThread
    <3>1. \E u \in CaptureThreads : pc' = [pc EXCEPT ![Pv] = "loop", ![u] = "clear"]
      BY <2>4 DEF PvCreateCaptureThread
    <3> QED
      BY <2>1, <3>1 DEF PvHolds
  <2>5. CASE PvDecode \/ PvDecoded \/ draw_preview_one \/ addCaptureFrame
    BY <2>1, <2>5 DEF PvDecode, PvDecoded, draw_preview_one, addCaptureFrame, PvHolds
  <2> QED
    BY <1>4, <2>2, <2>3, <2>4, <2>5 DEF PvStep
<1>5. ASSUME NEW t \in CaptureThreads, CapStep(t)
      PROVE  UNCHANGED <<mIsRunning, sessions>> /\ pc'[Pv] = pc[Pv]
  <2>1. CASE CapClear(t) \/ do_capture(t) \/ CapChoose(t) \/ CapLoop(t) \/ waitCaptureFrame(t)
             \/ CapConvert(t) \/ CapCopyToSurface(t)
    BY <1>5, <2>1 DEF CapClear, do_capture, CapChoose, CapLoop, waitCaptureFrame, CapConvert,
                      CapCopyToSurface, fields, call
  <2>2. CASE CapCallback(t) \/ CapConverted(t) \/ CapCall(t) \/ CapReturn(t) \/ CapRecycle(t)
             \/ CapLeave(t) \/ CapForget(t) \/ CapBroadcast(t)
    BY <1>5, <2>2 DEF CapCallback, CapConverted, CapCall, CapReturn, CapRecycle, CapLeave,
                      CapForget, CapBroadcast, CaptureWaiters, fields, call
  <2> QED
    BY <1>5, <2>1, <2>2 DEF CapStep
<1>6. CASE SpuriousWakeup
  BY <1>6 DEF SpuriousWakeup, fields, call, PvHolds
<1> QED
  BY <1>1, <1>2, <1>3, <1>4, <1>5, <1>6 DEF Next

LEMMA NextLost ==
    ASSUME IndInv, EmptyHanded, Next
    PROVE  \/ LostNow' \subseteq LostNow
           \/ /\ addCaptureFrame /\ ~mIsRunning
              /\ LostNow' \subseteq LostNow \cup {local[<<"frame", Pv>>]}
<1>1. CASE SpuriousWakeup
  BY <1>1 DEF SpuriousWakeup, LostNow, Lost, buffers, pool, queues
<1> QED
  BY <1>1, CtrlLost, UsbLost, PvLost, CapLost DEF Next

\* Numbers of lost buffers.
LEMMA LostSizes ==
    ASSUME BufferTypes, BufferTypes'
    PROVE  /\ Cardinality(LostNow) \in Nat /\ Cardinality(LostNow') \in Nat
           /\ LostNow' \subseteq LostNow => Cardinality(LostNow') <= Cardinality(LostNow)
           /\ \A f : LostNow' \subseteq LostNow \cup {f}
                       => Cardinality(LostNow') <= Cardinality(LostNow) + 1
<1>1. IsFiniteSet(LostNow) /\ IsFiniteSet(LostNow')
  BY SubsetsAreFinite DEF BufferTypes, LostNow, Lost
<1>2. /\ Cardinality(LostNow) \in Nat /\ Cardinality(LostNow') \in Nat
      /\ LostNow' \subseteq LostNow => Cardinality(LostNow') <= Cardinality(LostNow)
  BY <1>1, FS_Subset, FS_CardinalityType
<1>3. ASSUME NEW f, LostNow' \subseteq LostNow \cup {f}
      PROVE  Cardinality(LostNow') <= Cardinality(LostNow) + 1
  <2>1. /\ IsFiniteSet(LostNow \cup {f})
        /\ Cardinality(LostNow \cup {f}) \in {Cardinality(LostNow), Cardinality(LostNow) + 1}
    BY <1>1, <1>2, FS_AddElement
  <2>2. Cardinality(LostNow') <= Cardinality(LostNow \cup {f})
    BY <1>3, <2>1, FS_Subset
  <2> QED
    BY <1>2, <2>1, <2>2
<1> QED
  BY <1>2, <1>3

LEMMA InitLeak == Init => LeakInv
<1> SUFFICES ASSUME Init PROVE LeakInv
  OBVIOUS
<1>1. LostNow = {} /\ ~Running /\ sessions = 0
  BY ThreadNames DEF Init, LostNow, Lost, Running, PvHolds
<1> QED
  BY <1>1, FS_EmptySet DEF LeakInv

LEMMA NextLeak ==
    ASSUME IndInv, IndInv', QuietInv, EmptyHanded, LeakInv, [Next]_vars
    PROVE  LeakInv'
<1>1. /\ Cardinality(LostNow) \in Nat /\ Cardinality(LostNow') \in Nat /\ sessions \in Nat
      /\ LostNow' \subseteq LostNow => Cardinality(LostNow') <= Cardinality(LostNow)
      /\ \A f : LostNow' \subseteq LostNow \cup {f}
                  => Cardinality(LostNow') <= Cardinality(LostNow) + 1
  BY LostSizes DEF IndInv, TypeOK, FieldTypes
<1>2. CASE UNCHANGED vars
  BY <1>2 DEF vars, fields, buffers, pool, queues, call, LeakInv, LostNow, Lost, Running
<1>3. CASE Next /\ LostNow' \subseteq LostNow
  BY <1>1, <1>3, NextRunning DEF LeakInv
<1>4. CASE /\ addCaptureFrame /\ ~mIsRunning
           /\ LostNow' \subseteq LostNow \cup {local[<<"frame", Pv>>]}
  <2>1. Running /\ ~Running' /\ sessions' = sessions
    BY <1>4, ThreadNames DEF addCaptureFrame, Jump, Goto, IndInv, TypeOK, PcTypes, Running, PvHolds,
                             fields, call
  <2> QED
    BY <1>1, <1>4, <2>1 DEF LeakInv
<1> QED
  BY <1>2, <1>3, <1>4, NextLost DEF Next

\* However often the preview is started and stopped, at most one buffer is lost
\* in each session: the one Pv brings to addCaptureFrame after stopPreview
\* has cleared mIsRunning.  No other path of the engine loses a buffer.
THEOREM OneLostPerSession == Spec => []LeakBound
<1>1. Init => IndInv /\ QuietInv /\ EmptyHanded /\ LeakInv
  BY InitInd, InitQuiet, InitEmpty, InitLeak DEF QuietInv, IndInv
<1>2. ASSUME IndInv, QuietInv, EmptyHanded, LeakInv, [Next]_vars
      PROVE  (IndInv /\ QuietInv /\ EmptyHanded /\ LeakInv)'
  BY <1>2, NextInd, NextQuiet, NextEmpty, NextLeak
<1>3. IndInv /\ LeakInv => LeakBound
  <2> SUFFICES ASSUME IndInv, LeakInv PROVE LeakBound
    OBVIOUS
  <2>1. LostNow = allocated \ Owned /\ Cardinality(LostNow) \in Nat /\ sessions \in Nat
    BY LostBuffers, SubsetsAreFinite DEF IndInv, TypeOK, FieldTypes, BufferTypes, LostNow, Lost
  <2> QED
    BY <2>1 DEF LeakInv, LeakBound
<1> QED
  BY <1>1, <1>2, <1>3, PTL DEF Spec
-----------------------------------------------------------------------------
(* One delivery: the buffers that stand for a frame of the camera on its   *)
(* way have frames of their own (Apart), and a frame that was given to     *)
(* onFrame is nowhere but in the hands of the thread that gave it          *)
(* (Given).                                                                *)

FramePlaces == {<<"frame", t>> : t \in Threads}

\* The buffers that stand for a frame of the camera on its way.  A second
\* buffer that a frame is being converted into does not count until it takes
\* the place of the first.
Live(q, c, l) ==
    {f \in Frames : \/ \E i \in 1..Len(q) : q[i] = f
                    \/ c = f
                    \/ \E x \in FramePlaces : l[x] = f}

LiveNow == Live(previewFrames, captureQueu, local)

\* Every live buffer has a camera frame of its own, older than the one Usb is
\* about to copy.
Apart ==
    /\ \A f, g \in LiveNow : content[f] = content[g] => f = g
    /\ \A f \in LiveNow : content[f] <= seq /\ (pc[Usb] = "copy" => content[f] < seq)

\* A frame that was given to onFrame is nowhere any more but in the hands of
\* the thread that gave it.
Given ==
    \A t \in CaptureThreads :
        /\ delivered[t] <= seq /\ (pc[Usb] = "copy" => delivered[t] < seq)
        /\ delivered[t] # 0 => \A f \in LiveNow : content[f] = delivered[t] => local[<<"frame", t>>] = f

\* A converted buffer has the camera frame of the one it was converted from.
Converted ==
    /\ Alive /\ pc[Pv] = "decoded"
         => content[local[<<"converted", Pv>>]] = content[local[<<"frame", Pv>>]]
    /\ \A t \in CaptureThreads : pc[t] = "converted"
         => content[local[<<"callback_frame", t>>]] = content[local[<<"frame", t>>]]

\* A camera frame Usb has in its hands has a number.
Counted == pc[Usb] = "copy" => seq # 0

DeliveryInv == Apart /\ Given /\ Converted /\ Counted /\ SingleDelivery

LEMMA InitDelivery == Init => DeliveryInv
<1> SUFFICES ASSUME Init PROVE DeliveryInv
  OBVIOUS
<1>1. LiveNow = {} /\ pc[Usb] # "copy" /\ pc[Pv] # "decoded" /\ \A t \in CaptureThreads : pc[t] # "converted"
  BY ConstantsAssumption, ThreadNames DEF Init, LiveNow, Live, FramePlaces, Locals
<1> QED
  BY <1>1 DEF Init, DeliveryInv, Apart, Given, Converted, Counted, SingleDelivery

\* Buffers only leave the way, and no thread changes the frame it holds for
\* another that stays on it.
LEMMA FewerLive ==
    ASSUME Apart, Given, SingleDelivery, LiveNow' \subseteq LiveNow,
           \A f \in LiveNow : content'[f] = content[f],
           UNCHANGED <<seq, delivered>>, pc'[Usb] = "copy" => pc[Usb] = "copy",
           \A t \in CaptureThreads :
              local[<<"frame", t>>] \in LiveNow' => local'[<<"frame", t>>] = local[<<"frame", t>>]
    PROVE  Apart' /\ Given' /\ SingleDelivery'
<1>1. Apart'
  BY DEF Apart
<1>2. Given'
  BY DEF Given
<1>3. SingleDelivery'
  BY DEF SingleDelivery
<1> QED
  BY <1>1, <1>2, <1>3

\* One buffer takes the place of another with the same camera frame.
LEMMA ReplacedLive ==
    ASSUME Apart, Given, SingleDelivery, NEW f \in LiveNow, NEW g, content[g] = content[f],
           LiveNow' \subseteq (LiveNow \ {f}) \cup {g},
           UNCHANGED <<content, seq, delivered>>, pc'[Usb] = "copy" => pc[Usb] = "copy",
           \A t \in CaptureThreads :
              /\ local[<<"frame", t>>] # f => local'[<<"frame", t>>] = local[<<"frame", t>>]
              /\ local[<<"frame", t>>] = f => local'[<<"frame", t>>] = g
    PROVE  Apart' /\ Given' /\ SingleDelivery'
<1>1. Apart'
  BY DEF Apart
<1>2. Given'
  BY DEF Given
<1>3. SingleDelivery'
  BY DEF SingleDelivery
<1> QED
  BY <1>1, <1>2, <1>3

\* No buffer somebody has is written to: get_frame gives one nobody has.
LEMMA NextContent ==
    ASSUME IndInv, FrameOwnership, Next
    PROVE  /\ \A f \in LiveNow : content'[f] = content[f]
           /\ \A x \in Places : local[x] \in Frames => content'[local[x]] = content[local[x]]
<1> USE DEF IndInv, TypeOK
<1>1. CASE UNCHANGED content
  BY <1>1
<1>2. ASSUME NEW f, get_frame(f), \A g \in Frames \ {f} : content'[g] = content[g]
      PROVE  /\ \A g \in LiveNow : content'[g] = content[g]
             /\ \A x \in Places : local[x] \in Frames => content'[local[x]] = content[local[x]]
  <2>1. f = NULL \/ f \in mFramePool \/ f \notin allocated
    BY <1>2, GetFrameTypes
  <2>2. Owns(mFramePool, previewFrames, captureQueu, local, allocated)
    BY OwnsNow
  <2>3. f \notin LiveNow /\ \A x \in Places : local[x] \in Frames => local[x] # f
    BY <2>1, <2>2, ConstantsAssumption DEF Owns, LiveNow, Live, FramePlaces, Places, Locals
  <2>4. LiveNow \subseteq Frames
    BY DEF LiveNow, Live
  <2> QED
    BY <1>2, <2>3, <2>4
<1>3. CASE UsbCopy
  BY <1>2, <1>3 DEF UsbCopy
<1>4. CASE PvDecode
  BY <1>2, <1>4 DEF PvDecode
<1>5. ASSUME NEW t \in CaptureThreads, CapCallback(t)
      PROVE  UNCHANGED content \/ \E f \in Frames \cup {NULL} :
                get_frame(f) /\ \A g \in Frames \ {f} : content'[g] = content[g]
  BY <1>5 DEF CapCallback
<1>6. CASE CtrlCall
  BY <1>1, <1>6 DEF CtrlCall, setPreviewDisplay, setCaptureDisplay, setFrameCallback, startPreview,
                    buffers
<1>7. CASE CtrlStep
  BY <1>1, <1>7 DEF CtrlStep, StartCreate, FinishSetCaptureDisplay, FinishSetFrameCallback,
                    stopPreview, StopWaits, StopClears, StopReleaseWindows, Delete, buffers
<1>8. CASE UsbFrame \/ UsbStep
  BY <1>1, <1>3, <1>8 DEF UsbFrame, UsbStep, addPreviewFrame, UsbRefused, UsbRecycle, buffers
<1>9. CASE PvStep
  BY <1>1, <1>4, <1>9 DEF PvStep, PvOpenStream, PvClear, PvCreateCaptureThread, PvLoop, PvTake,
                          PvDecoded, draw_preview_one, addCaptureFrame, PvStopStreaming, buffers
<1>10. ASSUME NEW t \in CaptureThreads, CapStep(t), ~CapCallback(t)
       PROVE  UNCHANGED content
  BY <1>10 DEF CapStep, CapClear, do_capture, CapChoose, CapLoop, waitCaptureFrame, CapConvert,
               CapCopyToSurface, CapConverted, CapCall, CapReturn, CapRecycle, CapLeave, CapForget,
               CapBroadcast, buffers
<1>11. CASE SpuriousWakeup
  BY <1>1, <1>11 DEF SpuriousWakeup, buffers
<1> QED
  BY <1>1, <1>2, <1>5, <1>6, <1>7, <1>8, <1>9, <1>10, <1>11 DEF Next

LEMMA CtrlLive ==
    ASSUME IndInv, CtrlCall \/ CtrlStep
    PROVE  LiveNow' \subseteq LiveNow /\ UNCHANGED <<local, seq, delivered>> /\ pc'[Usb] = pc[Usb]
<1> USE ThreadNames DEF IndInv, TypeOK, PcTypes
<1>1. CASE CtrlCall
  BY <1>1 DEF CtrlCall, setPreviewDisplay, setCaptureDisplay, setFrameCallback, startPreview, buffers,
              queues, others, LiveNow, Live, WaitFinishCapturing, Jump, Goto, JumpAndSignal,
              JumpAndWake, CaptureWaiters
<1>2. CASE StopClears \/ Delete
  <2>1. \A i \in 1..Len(<<>>) : FALSE
    OBVIOUS
  <2>2. /\ previewFrames' \in {previewFrames, <<>>} /\ captureQueu' \in {captureQueu, NULL}
        /\ UNCHANGED <<local, seq, delivered>> /\ pc'[Usb] = pc[Usb]
    BY <1>2 DEF StopClears, Delete, clearPreviewFrame, clearCaptureFrame, others, Jump, Goto
  <2> QED
    BY <2>1, <2>2, ConstantsAssumption DEF LiveNow, Live
<1>3. CASE StartCreate \/ FinishSetCaptureDisplay \/ FinishSetFrameCallback \/ stopPreview
  BY <1>3 DEF StartCreate, FinishSetCaptureDisplay, FinishSetFrameCallback, stopPreview,
              buffers, queues, others, LiveNow, Live, Jump, Goto, JumpAndWake, PreviewWaiters
<1>4. CASE StopWaits
  BY <1>4 DEF StopWaits, StopJoinCapture, StopJoinPreview, Joined, buffers, queues, others, LiveNow,
              Live, Jump, Goto, JumpAndSignal, JumpAndWake, PreviewWaiters, CaptureWaiters, FieldTypes
<1>5. CASE StopReleaseWindows
  <2>1. \E next : Jump(Ctrl, "release", next)
    BY <1>5 DEF StopReleaseWindows
  <2> QED
    BY <1>5, <2>1 DEF StopReleaseWindows, buffers, queues, others, LiveNow, Live, Jump, Goto
<1> QED
  BY <1>1, <1>2, <1>3, <1>4, <1>5 DEF CtrlStep

LEMMA CtrlDelivery ==
    ASSUME IndInv, FrameOwnership, DeliveryInv, Alive, CtrlCall \/ CtrlStep
    PROVE  Apart' /\ Given' /\ SingleDelivery' /\ Counted'
<1>1. LiveNow' \subseteq LiveNow /\ UNCHANGED <<local, seq, delivered>> /\ pc'[Usb] = pc[Usb]
  BY CtrlLive
<1>2. \A f \in LiveNow : content'[f] = content[f]
  BY NextContent DEF Next
<1>3. Apart' /\ Given' /\ SingleDelivery'
  BY <1>1, <1>2, FewerLive DEF DeliveryInv
<1> QED
  BY <1>1, <1>3 DEF DeliveryInv, Counted

\* What is on its way is older than the frame Usb begins to copy, and the
\* buffer Usb copies it into was not on its way.
LEMMA UsbDelivery ==
    ASSUME ~Endless, IndInv, FrameOwnership, EmptyHanded, DeliveryInv, Alive, UsbFrame \/ UsbStep
    PROVE  Apart' /\ Given' /\ SingleDelivery' /\ Counted'
<1> USE ThreadNames DEF IndInv, TypeOK, PcTypes, Jump, Goto, JumpAndWake
<1> DEFINE x == <<"frame", Usb>>
<1>x. /\ x \in Places /\ x \in FramePlaces
      /\ \A t \in CaptureThreads : <<"frame", t>> \in Places /\ <<"frame", t>> # x
      /\ FramePlaces \subseteq Places
      /\ local \in [Places -> Frames \cup {NULL}] /\ NULL \notin Frames
  BY ConstantsAssumption DEF Places, Locals, FramePlaces, BufferTypes
<1>n. /\ seq \in Nat /\ \A f \in LiveNow : content[f] \in Nat
      /\ \A t \in CaptureThreads : delivered[t] \in Nat
      /\ LiveNow \subseteq Frames
  BY DEF FieldTypes, BufferTypes, LiveNow, Live
<1>1. CASE UsbFrame
  <2>1. /\ UNCHANGED <<LiveNow, content, local, delivered>> /\ seq' = seq + 1
    BY <1>1 DEF UsbFrame, LiveNow, Live, buffers, queues
  <2> QED
    BY <1>n, <2>1 DEF DeliveryInv, Apart, Given, SingleDelivery, Counted
<1>2. CASE UsbCopy
  <2>1. PICK f \in Frames \cup {NULL} :
          /\ get_frame(f) /\ local' = [local EXCEPT ![x] = f]
          /\ content' = [g \in Frames |-> IF g = f THEN seq ELSE content[g]]
    BY <1>2 DEF UsbCopy
  <2>2. /\ UNCHANGED <<previewFrames, captureQueu, seq, delivered>>
        /\ pc[Usb] = "copy" /\ pc'[Usb] # "copy" /\ local[x] = NULL
    BY <1>2 DEF UsbCopy, queues, others, EmptyHanded
  <2>3. LiveNow' \subseteq LiveNow \cup {f} /\ LiveNow' \subseteq Frames
    BY <1>x, <2>1, <2>2 DEF LiveNow, Live
  <2>4. f \notin LiveNow
    <3>1. Owns(mFramePool, previewFrames, captureQueu, local, allocated)
      BY OwnsNow
    <3>2. f = NULL \/ f \in mFramePool \/ f \notin allocated
      BY <2>1, GetFrameTypes
    <3> QED
      BY <1>x, <3>1, <3>2 DEF Owns, LiveNow, Live
  <2>5. \A g \in LiveNow' : \/ g \in LiveNow /\ content'[g] = content[g] /\ content'[g] < seq
                            \/ g = f /\ content'[g] = seq
    BY <2>1, <2>2, <2>3, <2>4 DEF DeliveryInv, Apart
  <2>6. \A t \in CaptureThreads : local'[<<"frame", t>>] = local[<<"frame", t>>] /\ delivered[t] < seq
    BY <1>x, <2>1, <2>2 DEF DeliveryInv, Given
  <2>7. Apart'
    BY <1>n, <2>2, <2>5 DEF DeliveryInv, Apart
  <2>8. Given'
    <3>1. ASSUME NEW t \in CaptureThreads PROVE delivered'[t] <= seq'
      <4>1. delivered'[t] = delivered[t] /\ seq' = seq /\ delivered[t] \in Nat /\ seq \in Nat
        BY <1>n, <2>2
      <4>2. delivered[t] < seq
        BY <2>6
      <4> QED
        BY <4>1, <4>2
    <3>2. ASSUME NEW t \in CaptureThreads, delivered'[t] # 0,
                 NEW g \in LiveNow', content'[g] = delivered'[t]
          PROVE  local'[<<"frame", t>>] = g
      <4>1. g \in LiveNow /\ content[g] = delivered[t]
        <5>1. delivered'[t] = delivered[t] /\ delivered[t] \in Nat /\ delivered[t] < seq /\ seq \in Nat
          BY <1>n, <2>2, <2>6
        <5>2. content'[g] # seq
          BY <3>2, <5>1
        <5> QED
          BY <2>5, <3>2, <5>1, <5>2
      <4> QED
        BY <2>2, <2>6, <3>2, <4>1 DEF DeliveryInv, Given
    <3> QED
      BY <2>2, <3>1, <3>2 DEF Given
  <2> QED
    BY <2>2, <2>7, <2>8 DEF DeliveryInv, SingleDelivery, Counted
<1>3. CASE addPreviewFrame \/ UsbRefused \/ UsbRecycle
  <2>1. /\ UNCHANGED <<captureQueu, content, seq, delivered>>
        /\ pc'[Usb] # "copy"
        /\ \A y \in Places : y # x => local'[y] = local[y]
    BY <1>3, <1>x DEF addPreviewFrame, UsbRefused, UsbRecycle, queues, others, buffers
  <2>2. LiveNow' \subseteq LiveNow
    <3>1. CASE addPreviewFrame
      <4>1. /\ previewFrames \in Seq(Frames) /\ local[x] \in Frames
            /\ previewFrames' = Append(previewFrames, local[x])
            /\ local' = [local EXCEPT ![x] = NULL]
        BY <3>1 DEF addPreviewFrame, ThreadState, BufferTypes
      <4>2. \A i \in 1..Len(previewFrames') :
              \/ previewFrames'[i] = local[x]
              \/ i \in 1..Len(previewFrames) /\ previewFrames'[i] = previewFrames[i]
        <5>1. /\ Len(previewFrames) \in Nat /\ Len(previewFrames') = Len(previewFrames) + 1
              /\ previewFrames'[Len(previewFrames) + 1] = local[x]
              /\ \A i \in 1..Len(previewFrames) : previewFrames'[i] = previewFrames[i]
          BY <4>1
        <5>2. \A i \in 1..Len(previewFrames') :
                i \in 1..Len(previewFrames) \/ i = Len(previewFrames) + 1
          BY <5>1
        <5> QED
          BY <5>1, <5>2
      <4> QED
        BY <1>x, <2>1, <4>1, <4>2 DEF LiveNow, Live
    <3>2. CASE UsbRefused
      BY <3>2 DEF UsbRefused, buffers, queues, LiveNow, Live
    <3>3. CASE UsbRecycle
      BY <1>x, <3>3 DEF UsbRecycle, queues, LiveNow, Live
    <3> QED
      BY <1>3, <3>1, <3>2, <3>3
  <2>3. Apart' /\ Given' /\ SingleDelivery'
    BY <1>x, <2>1, <2>2, FewerLive DEF DeliveryInv
  <2> QED
    BY <2>1, <2>3 DEF Counted
<1> QED
  BY <1>1, <1>2, <1>3 DEF UsbStep

LEMMA PvDelivery ==
    ASSUME IndInv, FrameOwnership, EmptyHanded, DeliveryInv, Alive, PvStep
    PROVE  Apart' /\ Given' /\ SingleDelivery' /\ Counted'
<1> USE ThreadNames DEF IndInv, TypeOK, PcTypes, Jump, Goto, JumpAndWake, JumpAndSignal
<1> DEFINE x == <<"frame", Pv>>
           y == <<"converted", Pv>>
<1>x. /\ x \in Places /\ x \in FramePlaces /\ y \in Places /\ y \notin FramePlaces
      /\ \A t \in CaptureThreads : <<"frame", t>> \in Places /\ <<"frame", t>> \notin {x, y}
      /\ FramePlaces \subseteq Places
      /\ local \in [Places -> Frames \cup {NULL}] /\ NULL \notin Frames
  BY ConstantsAssumption DEF Places, Locals, FramePlaces, BufferTypes
<1>u. UNCHANGED <<seq, delivered>> /\ (pc'[Usb] = "copy" => pc[Usb] = "copy")
  <2>1. CASE PvOpenStream \/ PvClear \/ PvLoop \/ PvTake \/ PvDecode \/ PvDecoded
    BY <2>1 DEF PvOpenStream, PvClear, PvLoop, PvTake, PvDecode, PvDecoded, others
  <2>2. CASE PvCreateCaptureThread
    <3>1. /\ \E u \in CaptureThreads : pc' = [pc EXCEPT ![Pv] = "loop", ![u] = "clear"]
          /\ UNCHANGED others
      BY <2>2 DEF PvCreateCaptureThread
    <3> QED
      BY <3>1 DEF others
  <2>3. CASE draw_preview_one \/ addCaptureFrame \/ PvStopStreaming
    BY <2>3 DEF draw_preview_one, addCaptureFrame, PvStopStreaming, others, CaptureWaiters,
                WokenByCaptureFrame
  <2> QED
    BY <2>1, <2>2, <2>3 DEF PvStep
<1>c. Counted'
  BY <1>u DEF DeliveryInv, Counted
<1>a. \A f \in LiveNow : content'[f] = content[f]
  BY NextContent DEF Next
<1> SUFFICES Apart' /\ Given' /\ SingleDelivery'
  BY <1>c
<1>f. ASSUME LiveNow' \subseteq LiveNow, \A z \in Places : z \notin {x, y} => local'[z] = local[z]
      PROVE  Apart' /\ Given' /\ SingleDelivery'
  BY <1>a, <1>f, <1>u, <1>x, FewerLive DEF DeliveryInv
<1>1. CASE UNCHANGED <<queues, local>>
  BY <1>1, <1>f DEF queues, LiveNow, Live
<1>2. CASE PvOpenStream \/ PvCreateCaptureThread \/ PvLoop \/ PvStopStreaming
  BY <1>1, <1>2 DEF PvOpenStream, PvCreateCaptureThread, PvLoop, PvStopStreaming, buffers
<1>3. CASE PvClear
  <2>1. \A i \in 1..Len(<<>>) : FALSE
    OBVIOUS
  <2>2. LiveNow' \subseteq LiveNow /\ local' = local
    BY <1>3, <2>1 DEF PvClear, clearPreviewFrame, LiveNow, Live
  <2> QED
    BY <1>f, <2>2
<1>4. CASE PvTake
  <2>1. CASE /\ previewFrames # <<>> /\ previewFrames' = Taken
             /\ local' = [local EXCEPT ![x] = previewFrames[NextFrame]]
    <3>1. /\ Len(Taken) \in Nat /\ Len(previewFrames) = Len(Taken) + 1
          /\ \A i \in 1..Len(Taken) : Taken[i] = previewFrames[i + 1]
      BY <2>1, TakeOldest
    <3>2. /\ NextFrame \in 1..Len(previewFrames)
          /\ \A i \in 1..Len(Taken) : i + 1 \in 1..Len(previewFrames)
      BY <3>1 DEF NextFrame
    <3>3. LiveNow' \subseteq LiveNow
      BY <1>4, <1>x, <2>1, <3>1, <3>2 DEF PvTake, LiveNow, Live
    <3> QED
      BY <1>f, <1>x, <2>1, <3>3
  <2> QED
    BY <1>1, <1>4, <2>1 DEF PvTake, Taken, queues
<1>5. ASSUME UNCHANGED queues, \A z \in Places : z # y => local'[z] = local[z]
      PROVE  Apart' /\ Given' /\ SingleDelivery'
  <2>1. LiveNow' \subseteq LiveNow
    BY <1>5, <1>x DEF LiveNow, Live, queues
  <2> QED
    BY <1>5, <1>f, <2>1
<1>6. CASE PvDecode
  BY <1>5, <1>6, <1>x DEF PvDecode
<1>7. CASE draw_preview_one
  BY <1>5, <1>7, <1>x DEF draw_preview_one
<1>8. CASE PvDecoded
  <2>1. CASE local' = [local EXCEPT ![x] = NULL, ![y] = NULL]
    <3>1. LiveNow' \subseteq LiveNow
      BY <1>8, <1>x, <2>1 DEF PvDecoded, LiveNow, Live, queues
    <3> QED
      BY <1>f, <1>x, <2>1, <3>1
  <2>2. CASE pc[Pv] = "decoded" /\ local' = [local EXCEPT ![x] = local[y], ![y] = NULL]
    <3>1. /\ local[x] \in Frames /\ local[x] \in LiveNow
          /\ content[local[y]] = content[local[x]]
      BY <1>x, <2>2 DEF ThreadState, DeliveryInv, Converted, LiveNow, Live
    <3>2. UNCHANGED <<previewFrames, captureQueu, content>>
      BY <1>8 DEF PvDecoded, queues
    <3>3. Owns(mFramePool, previewFrames, captureQueu, local, allocated)
      BY OwnsNow
    <3>4. LiveNow' \subseteq (LiveNow \ {local[x]}) \cup {local[y]}
      BY <1>x, <2>2, <3>1, <3>2, <3>3 DEF LiveNow, Live, Owns
    <3>5. \A t \in CaptureThreads : /\ local[<<"frame", t>>] # local[x]
                                    /\ local'[<<"frame", t>>] = local[<<"frame", t>>]
      BY <1>x, <2>2, <3>1, <3>3 DEF Owns
    <3> HIDE DEF x, y
    <3> QED
      BY <1>u, <3>1, <3>2, <3>4, <3>5, ReplacedLive DEF DeliveryInv
  <2> QED
    BY <1>8, <2>1, <2>2 DEF PvDecoded
<1>9. CASE addCaptureFrame
  <2>1. /\ local' = [local EXCEPT ![x] = NULL] /\ previewFrames' = previewFrames
        /\ captureQueu' \in {captureQueu, local[x]}
    BY <1>9 DEF addCaptureFrame, KeepOnlyLatest
  <2>2. LiveNow' \subseteq LiveNow
    BY <1>x, <2>1 DEF LiveNow, Live
  <2> QED
    BY <1>f, <1>x, <2>1, <2>2
<1> QED
  BY <1>2, <1>3, <1>4, <1>6, <1>7, <1>8, <1>9 DEF PvStep

\* CapCall gives the frame of t, and nobody else has it or was given it.
LEMMA CapDelivery ==
    ASSUME IndInv, FrameOwnership, EmptyHanded, DeliveryInv, Alive,
           NEW t \in CaptureThreads, CapStep(t)
    PROVE  Apart' /\ Given' /\ SingleDelivery' /\ Counted'
<1> USE ThreadNames DEF IndInv, TypeOK, Jump, Goto
<1> DEFINE x == <<"frame", t>>
           y == <<"converted", t>>
           z == <<"callback_frame", t>>
<1>x. /\ {x, y, z} \subseteq Places /\ x \in FramePlaces /\ y \notin FramePlaces /\ z \notin FramePlaces
      /\ \A u \in CaptureThreads : <<"frame", u>> \in Places /\ (u # t => <<"frame", u>> # x)
      /\ FramePlaces \subseteq Places
      /\ local \in [Places -> Frames \cup {NULL}] /\ NULL \notin Frames
  BY ConstantsAssumption DEF Places, Locals, FramePlaces, BufferTypes
<1>o. Owns(mFramePool, previewFrames, captureQueu, local, allocated)
  BY OwnsNow
<1>p. pc'[Usb] = "copy" => pc[Usb] = "copy"
  BY CapMoves DEF OnlyMoves, Elsewhere
<1>u. seq' = seq /\ (delivered' = delivered \/ CapCall(t))
  BY DEF CapStep, CapClear, do_capture, CapChoose, CapLoop, waitCaptureFrame, CapConvert,
         CapCopyToSurface, CapCallback, CapConverted, CapReturn, CapRecycle, CapLeave, CapForget,
         CapBroadcast, CapCall, others
<1>c. Counted'
  BY <1>p, <1>u DEF DeliveryInv, Counted
<1>a. \A f \in LiveNow : content'[f] = content[f]
  BY NextContent DEF Next
<1> SUFFICES Apart' /\ Given' /\ SingleDelivery'
  BY <1>c
<1>f. ASSUME delivered' = delivered, LiveNow' \subseteq LiveNow,
             \A u \in CaptureThreads :
                local[<<"frame", u>>] \in LiveNow' => local'[<<"frame", u>>] = local[<<"frame", u>>]
      PROVE  Apart' /\ Given' /\ SingleDelivery'
  BY <1>a, <1>f, <1>p, <1>u, FewerLive DEF DeliveryInv
<1>1. ASSUME delivered' = delivered, UNCHANGED queues,
             \A p \in Places : p \notin {y, z} => local'[p] = local[p]
      PROVE  Apart' /\ Given' /\ SingleDelivery'
  <2>1. LiveNow' \subseteq LiveNow
    BY <1>1, <1>x DEF LiveNow, Live, queues
  <2> QED
    BY <1>1, <1>f, <1>x, <2>1
<1>2. CASE \/ do_capture(t) \/ CapChoose(t) \/ CapLoop(t) \/ CapCopyToSurface(t)
           \/ CapReturn(t) \/ CapForget(t) \/ CapBroadcast(t)
  BY <1>1, <1>2 DEF do_capture, CapChoose, CapLoop, CapCopyToSurface, CapReturn, CapForget,
                    CapBroadcast, buffers, others
<1>3. CASE CapConvert(t) \/ CapCallback(t) \/ CapLeave(t)
  BY <1>1, <1>3, <1>x DEF CapConvert, CapCallback, CapLeave, others
<1>4. CASE CapClear(t)
  BY <1>4, <1>f, <1>x DEF CapClear, clearCaptureFrame, others, LiveNow, Live
<1>5. CASE waitCaptureFrame(t)
  <2>1. local[x] = NULL
    BY <1>5 DEF waitCaptureFrame, EmptyHanded, CapHolds
  <2>2. CASE MoveCaptureFrame(t)
    <3>1. LiveNow' \subseteq LiveNow
      BY <1>5, <1>x, <2>2 DEF waitCaptureFrame, MoveCaptureFrame, LiveNow, Live
    <3>2. local[x] \notin LiveNow'
      BY <1>x, <2>1 DEF LiveNow, Live
    <3> QED
      BY <1>5, <1>f, <1>x, <2>2, <3>1, <3>2 DEF waitCaptureFrame, MoveCaptureFrame, others
  <2> QED
    BY <1>1, <1>5, <2>2 DEF waitCaptureFrame, others, queues
<1>6. CASE CapRecycle(t)
  <2>1. local' = [local EXCEPT ![x] = NULL] /\ UNCHANGED <<queues, delivered>>
    BY <1>6 DEF CapRecycle, others
  <2>2. LiveNow' \subseteq LiveNow
    BY <1>x, <2>1 DEF LiveNow, Live, queues
  <2>3. local[x] \notin LiveNow'
    BY <1>o, <1>x, <2>1 DEF Owns, LiveNow, Live, queues
  <2> QED
    BY <1>f, <1>x, <2>1, <2>2, <2>3
<1>7. CASE CapConverted(t)
  <2>1. /\ pc[t] = "converted" /\ local' = [local EXCEPT ![x] = local[z], ![z] = NULL]
        /\ UNCHANGED <<previewFrames, captureQueu, content, seq, delivered>>
    BY <1>7 DEF CapConverted, queues, others
  <2>2. /\ local[x] \in Frames /\ local[x] \in LiveNow
        /\ content[local[z]] = content[local[x]]
    BY <1>x, <2>1 DEF ThreadState, DeliveryInv, Converted, LiveNow, Live
  <2>3. LiveNow' \subseteq (LiveNow \ {local[x]}) \cup {local[z]}
    BY <1>o, <1>x, <2>1, <2>2 DEF LiveNow, Live, Owns
  <2>4. \A u \in CaptureThreads :
          /\ local[<<"frame", u>>] # local[x] => local'[<<"frame", u>>] = local[<<"frame", u>>]
          /\ local[<<"frame", u>>] = local[x] => local'[<<"frame", u>>] = local[z]
    BY <1>o, <1>x, <2>1, <2>2 DEF Owns
  <2>5. PICK f \in LiveNow, g \in {local[z]} : f = local[x]
    BY <2>2
  <2>6. \A u \in CaptureThreads :
          /\ local[<<"frame", u>>] # f => local'[<<"frame", u>>] = local[<<"frame", u>>]
          /\ local[<<"frame", u>>] = f => local'[<<"frame", u>>] = g
    BY <2>4, <2>5
  <2>7. content[g] = content[f] /\ LiveNow' \subseteq (LiveNow \ {f}) \cup {g}
    BY <2>2, <2>3, <2>5
  <2>8. /\ Apart /\ Given /\ SingleDelivery /\ (pc'[Usb] = "copy" => pc[Usb] = "copy")
        /\ UNCHANGED <<content, seq, delivered>>
    BY <1>p, <2>1 DEF DeliveryInv
  <2> HIDE DEF IndInv, TypeOK, Jump, Goto
  <2> QED
    BY <2>6, <2>7, <2>8, ReplacedLive
<1>8. CASE CapCall(t)
  <2>1. UNCHANGED <<LiveNow, local, content>> /\ pc[t] = "call"
    BY <1>8 DEF CapCall, buffers, queues, LiveNow, Live
  <2>2. CASE delivered' = delivered
    BY <1>f, <2>1, <2>2
  <2>3. CASE delivered' = [delivered EXCEPT ![t] = content[local[x]]]
    <3>1. local[x] \in Frames /\ local[x] \in LiveNow /\ delivered \in [CaptureThreads -> Nat]
      BY <1>x, <2>1 DEF ThreadState, LiveNow, Live, FieldTypes
    <3>2. ASSUME NEW u \in CaptureThreads, u # t
          PROVE  delivered'[u] = delivered[u] /\ (delivered[u] = content[local[x]] => delivered[u] = 0)
      <4>1. delivered'[u] = delivered[u]
        BY <2>3, <3>1, <3>2
      <4>2. local[<<"frame", u>>] # local[x]
        BY <1>o, <1>x, <3>1, <3>2 DEF Owns
      <4> QED
        BY <3>1, <4>1, <4>2 DEF DeliveryInv, Given
    <3>3. delivered'[t] = content[local[x]]
      BY <2>3, <3>1
    <3>4. Apart'
      BY <1>p, <1>u, <2>1 DEF DeliveryInv, Apart
    <3>5. SingleDelivery'
      BY <3>2, <3>3 DEF DeliveryInv, SingleDelivery
    <3>6. Given'
      BY <1>p, <1>u, <2>1, <3>1, <3>2, <3>3 DEF DeliveryInv, Given, Apart
    <3> QED
      BY <3>4, <3>5, <3>6
  <2> QED
    BY <1>8, <2>2, <2>3 DEF CapCall
<1> QED
  BY <1>2, <1>3, <1>4, <1>5, <1>6, <1>7, <1>8 DEF CapStep

\* What the threads that do not move have converted stays as it is.
LEMMA KeptConverted ==
    ASSUME IndInv, FrameOwnership, Converted, Next, NEW s \in Threads, OnlyMoves(s)
    PROVE  /\ s # Pv /\ pc'[Pv] = "decoded"
                => content'[local'[<<"converted", Pv>>]] = content'[local'[<<"frame", Pv>>]]
           /\ \A t \in CaptureThreads : s # t /\ pc'[t] = "converted"
                => content'[local'[<<"callback_frame", t>>]] = content'[local'[<<"frame", t>>]]
<1> USE ThreadNames
<1>1. \A p \in Places : local[p] \in Frames => content'[local[p]] = content[local[p]]
  BY NextContent
<1>2. \A v \in Locals, u \in Threads : <<v, u>> \in Places /\ <<v, u>>[2] = u
  BY DEF Places
<1>3. Alive /\ {"frame", "converted", "callback_frame"} \subseteq Locals
  BY DEF Next, Locals
<1>4. ASSUME s # Pv, pc'[Pv] = "decoded"
      PROVE  content'[local'[<<"converted", Pv>>]] = content'[local'[<<"frame", Pv>>]]
  <2>1. pc[Pv] = "decoded"
    BY <1>4 DEF OnlyMoves, Elsewhere
  <2>2. /\ local'[<<"converted", Pv>>] = local[<<"converted", Pv>>]
        /\ local'[<<"frame", Pv>>] = local[<<"frame", Pv>>]
    BY <1>2, <1>3, <1>4 DEF OnlyMoves
  <2> QED
    BY <1>1, <1>2, <1>3, <2>1, <2>2 DEF Converted, IndInv, ThreadState
<1>5. ASSUME NEW t \in CaptureThreads, s # t, pc'[t] = "converted"
      PROVE  content'[local'[<<"callback_frame", t>>]] = content'[local'[<<"frame", t>>]]
  <2>1. pc[t] = "converted"
    BY <1>5 DEF OnlyMoves, Elsewhere
  <2>2. /\ local'[<<"callback_frame", t>>] = local[<<"callback_frame", t>>]
        /\ local'[<<"frame", t>>] = local[<<"frame", t>>]
    BY <1>2, <1>3, <1>5 DEF OnlyMoves
  <2> QED
    BY <1>1, <1>2, <1>3, <2>1, <2>2 DEF Converted, IndInv, ThreadState
<1> QED
  BY <1>4, <1>5

LEMMA PvConverted ==
    ASSUME IndInv, FrameOwnership, Alive, PvStep, Alive', pc'[Pv] = "decoded"
    PROVE  content'[local'[<<"converted", Pv>>]] = content'[local'[<<"frame", Pv>>]]
<1> USE ThreadNames DEF IndInv, TypeOK, PcTypes, Jump, Goto, JumpAndWake, JumpAndSignal
<1>1. PvDecode
  <2>1. ~PvCreateCaptureThread
    <3>1. PvCreateCaptureThread =>
            \E u \in CaptureThreads : pc' = [pc EXCEPT ![Pv] = "loop", ![u] = "clear"]
      BY DEF PvCreateCaptureThread
    <3> QED
      BY <3>1
  <2> QED
    BY <2>1 DEF PvStep, PvOpenStream, PvClear, PvLoop, PvTake, PvDecoded, draw_preview_one,
                addCaptureFrame, PvStopStreaming
<1> DEFINE x == <<"frame", Pv>>
           y == <<"converted", Pv>>
<1>2. /\ x \in Places /\ y \in Places /\ x # y
      /\ local \in [Places -> Frames \cup {NULL}] /\ local[x] \in Frames
  BY <1>1 DEF PvDecode, Places, Locals, BufferTypes, ThreadState
<1>3. PICK f \in Frames \cup {NULL} :
        /\ get_frame(f) /\ local' = [local EXCEPT ![y] = f]
        /\ content' = [g \in Frames |-> IF g = f THEN content[local[x]] ELSE content[g]]
        /\ process' = (IF f = NULL THEN "aborted" ELSE process)
  BY <1>1 DEF PvDecode
<1>4. f \in Frames
  BY <1>3 DEF Alive
<1>5. content'[local[x]] = content[local[x]]
  BY <1>2, <1>3
<1> QED
  BY <1>2, <1>3, <1>4, <1>5

LEMMA CapConvertedKept ==
    ASSUME IndInv, NEW t \in CaptureThreads, CapStep(t), pc'[t] = "converted"
    PROVE  content'[local'[<<"callback_frame", t>>]] = content'[local'[<<"frame", t>>]]
<1> USE ThreadNames DEF IndInv, TypeOK, PcTypes, Jump, Goto, JumpAndWake
<1>1. CapCallback(t)
  BY DEF CapStep, CapClear, do_capture, CapChoose, CapLoop, waitCaptureFrame, CapConvert,
         CapCopyToSurface, CapConverted, CapCall, CapReturn, CapRecycle, CapLeave, CapForget,
         CapBroadcast
<1> DEFINE x == <<"frame", t>>
           z == <<"callback_frame", t>>
<1>2. /\ x \in Places /\ z \in Places /\ x # z /\ pc[t] = "callback"
      /\ local \in [Places -> Frames \cup {NULL}] /\ local[x] \in Frames
  BY <1>1 DEF CapCallback, Places, Locals, BufferTypes, ThreadState
<1>3. PICK f \in Frames \cup {NULL} :
        /\ local' = [local EXCEPT ![z] = f]
        /\ content' = [g \in Frames |-> IF g = f THEN content[local[x]] ELSE content[g]]
        /\ pc' = [pc EXCEPT ![t] = IF f = NULL THEN "recycle" ELSE "converted"]
  BY <1>1 DEF CapCallback
<1>4. f \in Frames
  BY <1>3
<1>5. content'[local[x]] = content[local[x]]
  BY <1>2, <1>3
<1> QED
  BY <1>2, <1>3, <1>4, <1>5

LEMMA NextConverted ==
    ASSUME IndInv, QuietInv, FrameOwnership, Converted, Next
    PROVE  Converted'
<1> USE ThreadNames
<1>1. CASE SpuriousWakeup
  BY <1>1 DEF SpuriousWakeup, Jump, Goto, IndInv, TypeOK, PcTypes, buffers, others, Converted, Alive
<1>2. CASE CtrlCall \/ CtrlStep
  BY <1>2, CtrlMoves, KeptConverted DEF Converted
<1>3. CASE UsbFrame \/ UsbStep
  BY <1>3, UsbMoves, KeptConverted DEF Converted
<1>4. CASE PvStep
  BY <1>4, PvMoves, KeptConverted, PvConverted DEF Converted, Next
<1>5. ASSUME NEW t \in CaptureThreads, CapStep(t)
      PROVE  Converted'
  BY <1>5, CapMoves, KeptConverted, CapConvertedKept DEF Converted
<1> QED
  BY <1>1, <1>2, <1>3, <1>4, <1>5 DEF Next

LEMMA NextDelivery ==
    ASSUME ~Endless, IndInv, QuietInv, FrameOwnership, EmptyHanded, DeliveryInv, [Next]_vars
    PROVE  DeliveryInv'
<1>1. CASE UNCHANGED vars
  <2>1. UNCHANGED <<LiveNow, local, content, seq, delivered, pc, process>>
    BY <1>1 DEF vars, buffers, queues, others, LiveNow, Live
  <2> QED
    BY <2>1 DEF DeliveryInv, Apart, Given, Converted, Counted, SingleDelivery, Alive
<1>2. CASE Next
  <2>1. Converted'
    BY <1>2, NextConverted DEF DeliveryInv
  <2>2. CASE SpuriousWakeup
    <3>1. /\ UNCHANGED <<LiveNow, local, content, seq, delivered>>
          /\ pc'[Usb] = "copy" => pc[Usb] = "copy"
      BY <2>2, ThreadNames DEF SpuriousWakeup, Jump, Goto, IndInv, TypeOK, PcTypes, buffers, queues,
                               others, LiveNow, Live
    <3> QED
      BY <2>1, <3>1 DEF DeliveryInv, Apart, Given, Counted, SingleDelivery
  <2> QED
    BY <1>2, <2>1, <2>2, CtrlDelivery, UsbDelivery, PvDelivery, CapDelivery DEF Next, DeliveryInv
<1> QED
  BY <1>1, <1>2

\* Two capture threads at work together never give onFrame the same frame of
\* the camera: waitCaptureFrame empties captureQueu, and a buffer that is
\* converted into another keeps the frame in one of the two.  Endless repeats a
\* number on purpose and is left out.
THEOREM NoFrameTwice == ASSUME ~Endless PROVE Spec => []SingleDelivery
<1>1. Init => IndInv /\ QuietInv /\ FrameOwnership /\ EmptyHanded /\ DeliveryInv
  BY InitInd, InitQuiet, InitOwns, InitEmpty, InitDelivery DEF QuietInv, IndInv
<1>2. ASSUME IndInv, QuietInv, FrameOwnership, EmptyHanded, DeliveryInv, [Next]_vars
      PROVE  (IndInv /\ QuietInv /\ FrameOwnership /\ EmptyHanded /\ DeliveryInv)'
  BY <1>2, NextInd, NextQuiet, NextOwns, NextEmpty, NextDelivery
<1>3. DeliveryInv => SingleDelivery
  BY DEF DeliveryInv
<1> QED
  BY <1>1, <1>2, <1>3, PTL DEF Spec
-----------------------------------------------------------------------------
(* Frames are announced: the safety part of CaptureTaken.                   *)

\* A thread that waits for a frame has an empty queue before it.
Announced ==
    /\ pc[Pv] = "parked" => previewFrames = <<>>
    /\ \A t \in CaptureThreads : pc[t] = "parked" => captureQueu = NULL

\* What keeps it: a queue that gets a frame has nobody parked before it.
KeepsAnnounced ==
    /\ pc'[Pv] = "parked" => previewFrames' = <<>> \/ (pc[Pv] = "parked" /\ UNCHANGED previewFrames)
    /\ \A t \in CaptureThreads : pc'[t] = "parked" =>
          captureQueu' = NULL \/ (pc[t] = "parked" /\ UNCHANGED captureQueu)

LEMMA CtrlAnnounced ==
    ASSUME IndInv, CtrlCall \/ CtrlStep
    PROVE  KeepsAnnounced
<1> USE ThreadNames DEF IndInv, TypeOK, PcTypes, KeepsAnnounced, Jump, Goto, JumpAndWake, JumpAndSignal
<1> USE DEF PreviewWaiters, CaptureWaiters
<1>1. CASE CtrlCall
  <2>1. UNCHANGED <<previewFrames, captureQueu>>
    BY <1>1 DEF CtrlCall, setPreviewDisplay, setCaptureDisplay, setFrameCallback, startPreview,
                buffers, queues
  <2>2. \A u \in Threads \ {Ctrl} : pc'[u] = "parked" => pc[u] = "parked"
    BY <1>1 DEF CtrlCall, setPreviewDisplay, setCaptureDisplay, setFrameCallback, startPreview,
                WaitFinishCapturing
  <2> QED
    BY <2>1, <2>2
<1>2. CASE CtrlStep
  <2>1. \A u \in Threads \ {Ctrl} : pc'[u] = "parked" => pc[u] = "parked"
    BY <1>2 DEF CtrlStep, StartCreate, FinishSetCaptureDisplay, FinishSetFrameCallback, stopPreview,
                StopWaits, StopJoinCapture, StopJoinPreview, StopClears, StopReleaseWindows, Delete
  <2>2. /\ previewFrames' \in {previewFrames, <<>>} /\ captureQueu' \in {captureQueu, NULL}
    BY <1>2 DEF CtrlStep, StartCreate, FinishSetCaptureDisplay, FinishSetFrameCallback, stopPreview,
                StopWaits, StopClears, StopReleaseWindows, Delete, clearPreviewFrame,
                clearCaptureFrame, buffers, queues
  <2> QED
    BY <2>1, <2>2
<1> QED
  BY <1>1, <1>2

\* addPreviewFrame wakes the preview thread, whatever it finds in the queue.
LEMMA UsbAnnounced ==
    ASSUME IndInv, UsbFrame \/ UsbStep
    PROVE  KeepsAnnounced
<1> USE ThreadNames DEF IndInv, TypeOK, PcTypes, KeepsAnnounced, Jump, Goto, JumpAndWake
<1>1. CASE addPreviewFrame
  BY <1>1 DEF addPreviewFrame, WokenByPreviewFrame, PreviewWaiters
<1>2. CASE UsbFrame \/ UsbCopy \/ UsbRefused \/ UsbRecycle
  BY <1>2 DEF UsbFrame, UsbCopy, UsbRefused, UsbRecycle, buffers, queues
<1> QED
  BY <1>1, <1>2 DEF UsbStep

\* addCaptureFrame wakes every capture thread.
LEMMA PvAnnounced ==
    ASSUME IndInv, PvStep
    PROVE  KeepsAnnounced
<1> USE ThreadNames DEF IndInv, TypeOK, PcTypes, KeepsAnnounced, Jump, Goto, JumpAndWake, JumpAndSignal,
                        CaptureWaiters
<1>1. CASE addCaptureFrame
  <2>1. CASE mIsRunning
    BY <1>1, <2>1 DEF addCaptureFrame, WokenByCaptureFrame
  <2>2. CASE ~mIsRunning
    BY <1>1, <2>2 DEF addCaptureFrame
  <2> QED
    BY <2>1, <2>2
<1>2. CASE PvLoop \/ PvTake
  BY <1>2 DEF PvLoop, PvTake, buffers, queues
<1>3. CASE PvOpenStream \/ PvClear \/ PvCreateCaptureThread \/ PvStopStreaming
  BY <1>3 DEF PvOpenStream, PvClear, clearPreviewFrame, PvCreateCaptureThread, PvStopStreaming,
              buffers, queues
<1>4. CASE PvDecode \/ PvDecoded \/ draw_preview_one
  BY <1>4 DEF PvDecode, PvDecoded, draw_preview_one, queues
<1> QED
  BY <1>1, <1>2, <1>3, <1>4 DEF PvStep

LEMMA CapAnnounced ==
    ASSUME IndInv, NEW t \in CaptureThreads, CapStep(t)
    PROVE  KeepsAnnounced
<1> USE ThreadNames DEF IndInv, TypeOK, PcTypes, KeepsAnnounced, Jump, Goto, JumpAndWake
<1>1. UNCHANGED previewFrames /\ captureQueu' \in {captureQueu, NULL}
  BY DEF CapStep, CapClear, do_capture, CapChoose, CapLoop, waitCaptureFrame, CapConvert, CapCopyToSurface,
         CapCallback, CapConverted, CapCall, CapReturn, CapRecycle, CapLeave, CapForget, CapBroadcast,
         clearCaptureFrame, MoveCaptureFrame, buffers, queues
<1>2. /\ \A u \in Threads \ {t} : pc'[u] = "parked" => pc[u] = "parked"
      /\ pc'[t] = "parked" => pc[t] = "parked" \/ (captureQueu = NULL)
  BY DEF CapStep, CapClear, do_capture, CapChoose, CapLoop, waitCaptureFrame, CapConvert, CapCopyToSurface,
         CapCallback, CapConverted, CapCall, CapReturn, CapRecycle, CapLeave, CapForget, CapBroadcast,
         CaptureWaiters
<1> QED
  BY <1>1, <1>2

\* The preview thread and a capture thread are parked only before an empty
\* queue.  So the single pthread_cond_wait of waitPreviewFrame and of
\* waitCaptureFrame, which is not in a loop, misses no signal of the thread
\* that fills the queue.
THEOREM FramesAnnounced == Spec => [](/\ pc[Pv] = "parked" => previewFrames = <<>>
                                      /\ \A t \in CaptureThreads :
                                            pc[t] = "parked" => captureQueu = NULL)
<1>1. Init => Announced
  BY ThreadNames DEF Init, Announced
<1>2. IndInv /\ Announced /\ [Next]_vars => Announced'
  <2> SUFFICES ASSUME IndInv, Announced, [Next]_vars PROVE Announced'
    OBVIOUS
  <2>1. CASE Next /\ ~SpuriousWakeup
    <3>1. KeepsAnnounced
      BY <2>1, CtrlAnnounced, UsbAnnounced, PvAnnounced, CapAnnounced DEF Next
    <3> QED
      BY <3>1 DEF KeepsAnnounced, Announced
  <2>2. CASE SpuriousWakeup
    BY <2>2, ThreadNames DEF SpuriousWakeup, Announced, Jump, Goto, buffers, queues, IndInv, TypeOK, PcTypes
  <2>3. CASE UNCHANGED vars
    BY <2>3 DEF Announced, vars, buffers, queues
  <2> QED
    BY <2>1, <2>2, <2>3
<1>3. Announced => /\ pc[Pv] = "parked" => previewFrames = <<>>
                   /\ \A t \in CaptureThreads : pc[t] = "parked" => captureQueu = NULL
  BY DEF Announced
<1> QED
  BY InitInd, NextInd, <1>1, <1>2, <1>3, PTL DEF Spec
=============================================================================

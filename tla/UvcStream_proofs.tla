-------------------------- MODULE UvcStream_proofs --------------------------
(***************************************************************************)
(* Proofs about UvcStream, for any number of transfers, any length of a    *)
(* frame and every kind of stream: types, the order of closing, that the   *)
(* double buffer implements FrameChannel, and that the FID bit keeps the   *)
(* camera's frames apart.                                                  *)
(***************************************************************************)
EXTENDS UvcStream, TLAPS

\* A transfer is in its callback exactly while Ev works on it.
CallbackState ==
    /\ pc[Ev] # "poll" => transfer \in Transfers
    /\ \A t \in Transfers : transfers[t] = "callback" <=> pc[Ev] # "poll" /\ transfer = t

\* While User copies it has cb_mutex, so the frame it copies stays the one in
\* holdbuf, new and without a fault.
CopyState ==
    /\ cb_mutex = User <=> pc[User] = "populate"
    /\ pc[User] = "populate" => source = holdbuf /\ hold_seq # last_seq /\ ~hold_bfh_err

\* Before the start there is nothing.
StartState == pc[Ctl] = "off" => pc[User] = "off" /\ \A t \in Transfers : transfers[t] = "null"

IndInv == TypeOK /\ CallbackState /\ CopyState /\ StartState

LEMMA ThreadNames ==
    /\ Ctl \in Threads /\ Ev \in Threads /\ User \in Threads
    /\ Ctl # Ev /\ Ctl # User /\ Ev # User
    /\ User # NULL /\ NULL \notin Transfers
BY ConstantsAssumption DEF Threads, Ctl, Ev, User

LEMMA InitInd == Init => IndInv
<1> SUFFICES ASSUME Init PROVE IndInv
  OBVIOUS
<1> USE ConstantsAssumption, ThreadNames DEF Init
<1>1. StreamTypes
  BY DEF StreamTypes, CtlLabels, EvLabels, UserLabels
<1>2. AssemblyTypes
  <2>1. packet \in Packets
    <3>1. 0 \in Nat /\ 1 \in 1..Parts
      OBVIOUS
    <3> QED
      BY <3>1 DEF Packets
  <2>3. camera \in Packets
    BY DEF Packets
  <2>4. /\ fid \in {0, 1} /\ burst \in Nat /\ transfer = NULL
        /\ got_bytes \in Nat /\ seq \in Nat /\ hold_seq \in Nat /\ last_seq \in Nat
        /\ bfh_err \in BOOLEAN /\ hold_bfh_err \in BOOLEAN
    OBVIOUS
  <2>2. /\ outbuf \in Buffers /\ holdbuf \in Buffers /\ outbuf # holdbuf /\ source \in Buffers
        /\ content \in [Buffers -> SUBSET Packets] /\ frame \in SUBSET Packets
    BY DEF Buffers
  <2> QED
    BY ONLY <2>1, <2>2, <2>3, <2>4 DEF AssemblyTypes
<1>3. CallbackState /\ CopyState /\ StartState
  BY DEF CallbackState, CopyState, StartState
<1> QED
  BY <1>1, <1>2, <1>3 DEF IndInv, TypeOK

\* A step of Ctl leaves the frames alone.
LEMMA CtlInd ==
    ASSUME IndInv, uvc_stream_start \/ uvc_stop_streaming \/ CtlStep
    PROVE  IndInv'
<1> USE ConstantsAssumption, ThreadNames
<1> USE DEF IndInv, TypeOK, Jump, Goto, stream
<1>1. UNCHANGED <<cb_mutex, assembly, listener, transfer, delivery>>
  BY DEF uvc_stream_start, uvc_stop_streaming, CtlStep, SubmitTransfer, uvc_stream_stop,
         StopCancel, StopJoin, CloseFree
<1>2. AssemblyTypes'
  BY <1>1 DEF AssemblyTypes, assembly, listener, delivery
<1>3. /\ pc' \in [Threads -> CtlLabels \cup EvLabels \cup UserLabels]
      /\ pc'[Ctl] \in CtlLabels /\ pc'[Ev] = pc[Ev] /\ pc'[User] \in UserLabels
      /\ pc'[User] = "populate" <=> pc[User] = "populate"
      /\ pc'[Ctl] # "off"
  <2> USE DEF StreamTypes, StartState, CtlLabels, EvLabels, UserLabels
  <2>1. CASE uvc_stream_start
    BY <2>1 DEF uvc_stream_start
  <2>2. CASE uvc_stop_streaming
    BY <2>2 DEF uvc_stop_streaming
  <2>5. CASE uvc_stream_stop
    BY <2>5 DEF uvc_stream_stop
  <2>6. CASE StopJoin \/ CloseFree
    BY <2>6 DEF StopJoin, CloseFree
  <2>3. CASE SubmitTransfer
    BY <2>3 DEF SubmitTransfer
  <2>4. CASE StopCancel
    BY <2>4 DEF StopCancel, GotoAndBroadcast, Waiters
  <2> QED
    BY <2>1, <2>2, <2>3, <2>4, <2>5, <2>6 DEF CtlStep
<1>4. /\ handle' \in {"none", "open", "closed"} /\ running' \in BOOLEAN
      /\ transfers' \in [Transfers -> {"null", "idle", "inflight", "cancelled", "callback",
                                       "dropped"}]
      /\ \A t \in Transfers : transfers'[t] = "callback" <=> transfers[t] = "callback"
  <2> USE DEF StreamTypes
  <2>1. CASE uvc_stream_start
    BY <2>1 DEF uvc_stream_start, StartState
  <2>2. CASE uvc_stop_streaming \/ uvc_stream_stop \/ StopJoin \/ CloseFree
    BY <2>2 DEF uvc_stop_streaming, uvc_stream_stop, StopJoin, CloseFree
  <2>3. CASE SubmitTransfer
    BY <2>3 DEF SubmitTransfer
  <2>4. CASE StopCancel
    BY <2>4 DEF StopCancel, Cancelled
  <2> QED
    BY <2>1, <2>2, <2>3, <2>4 DEF CtlStep
<1>5. StreamTypes'
  BY <1>1, <1>3, <1>4 DEF StreamTypes
<1>6. CallbackState' /\ CopyState' /\ StartState'
  BY <1>1, <1>3, <1>4 DEF CallbackState, CopyState, StartState, assembly, listener
<1> QED
  BY <1>2, <1>5, <1>6

\* Facts about the operators of Ev's steps.
LEMMA SwapTypes ==
    ASSUME IndInv, NEW label \in EvLabels, _uvc_swap_buffers(label)
    PROVE  /\ outbuf' \in Buffers /\ holdbuf' \in Buffers /\ outbuf' # holdbuf'
           /\ got_bytes' \in Nat /\ seq' \in Nat /\ hold_seq' \in Nat
           /\ bfh_err' \in BOOLEAN /\ hold_bfh_err' \in BOOLEAN
           /\ cb_mutex = NULL
           /\ pc' \in [Threads -> CtlLabels \cup EvLabels \cup UserLabels]
           /\ pc'[Ctl] \in CtlLabels /\ pc'[Ev] = label /\ pc'[User] \in UserLabels
           /\ pc'[User] = "populate" <=> pc[User] = "populate"
           /\ pc[Ctl] # "off" => pc'[Ctl] # "off"
<1> USE ThreadNames DEF IndInv, TypeOK, _uvc_swap_buffers
<1>1. outbuf' \in Buffers /\ holdbuf' \in Buffers /\ outbuf' # holdbuf'
  BY DEF AssemblyTypes, Exchange
<1>3. got_bytes' \in Nat /\ seq' \in Nat /\ hold_seq' \in Nat
  BY DEF AssemblyTypes
<1>4. bfh_err' \in BOOLEAN /\ hold_bfh_err' \in BOOLEAN
  BY DEF AssemblyTypes
<1>2. /\ cb_mutex = NULL
      /\ pc' \in [Threads -> CtlLabels \cup EvLabels \cup UserLabels]
      /\ pc'[Ctl] \in CtlLabels /\ pc'[Ev] = label /\ pc'[User] \in UserLabels
      /\ pc'[User] = "populate" <=> pc[User] = "populate"
      /\ pc[Ctl] # "off" => pc'[Ctl] # "off"
  BY DEF StreamTypes, MaySwap, GotoAndBroadcast, WokenBySwap, Waiters, CtlLabels, UserLabels
<1> QED
  BY <1>1, <1>2, <1>3, <1>4

\* What every step of Ev does to the program counters.
EvOnly ==
    /\ pc' \in [Threads -> CtlLabels \cup EvLabels \cup UserLabels]
    /\ pc'[Ctl] \in CtlLabels /\ pc'[Ev] \in EvLabels /\ pc'[User] \in UserLabels
    /\ pc'[User] = "populate" <=> pc[User] = "populate"
    /\ pc[Ctl] # "off" => pc'[Ctl] # "off"

\* Ev works only after the start.
LEMMA EvStarted == IndInv /\ (pc[Ev] # "poll" \/ \E t \in Transfers : transfers[t] # "null")
                     => pc[Ctl] # "off"
BY DEF IndInv, CallbackState, StartState

LEMMA EvGoto ==
    ASSUME IndInv, NEW label \in EvLabels, Goto(Ev, label)
    PROVE  EvOnly /\ pc'[Ev] = label
BY ThreadNames DEF IndInv, TypeOK, StreamTypes, Goto, EvOnly

\* A transfer is taken up, with a packet or without.
LEMMA CallbackInd ==
    ASSUME IndInv, _uvc_stream_callback
    PROVE  IndInv'
<1> USE ConstantsAssumption, ThreadNames DEF IndInv, TypeOK
<1>1. ASSUME NEW t \in Transfers, NEW f \in Fates, Deliver(t, f)
      PROVE  IndInv'
  <2> USE <1>1
  <2>1. EvOnly /\ pc'[Ev] \in {"header", "next"}
    BY EvGoto DEF Deliver, EvLabels
  <2>2. transfer' = t /\ transfers' = [transfers EXCEPT ![t] = "callback"]
    BY DEF Deliver, Begin, CallbackState, StreamTypes
  <2>3. packet' \in Packets /\ camera' \in Packets /\ burst' \in Nat
    BY DEF Deliver, AssemblyTypes, NextPacket, Packets
  <2>4. StreamTypes'
    BY <2>1, <2>2 DEF Deliver, StreamTypes, EvOnly, stream
  <2>5. AssemblyTypes'
    BY <2>2, <2>3 DEF Deliver, AssemblyTypes, listener
  <2>6. CallbackState'
    BY <2>1, <2>2 DEF CallbackState, StreamTypes, Deliver, Begin
  <2>7. CopyState'
    BY <2>1 DEF CopyState, Deliver, EvOnly, listener
  <2>8. StartState'
    BY <2>1, EvStarted DEF StartState, EvOnly, Deliver, Begin
  <2> QED
    BY <2>4, <2>5, <2>6, <2>7, <2>8
<1>2. ASSUME NEW t \in Transfers, Unread(t) \/ NoDevice(t)
      PROVE  IndInv'
  <2> USE <1>2
  <2>1. EvOnly /\ pc'[Ev] \in {"finish", "delete"}
    BY EvGoto DEF Unread, NoDevice, EvLabels
  <2>2. /\ transfer' = t /\ transfers' = [transfers EXCEPT ![t] = "callback"]
        /\ pc[Ev] = "poll" /\ UNCHANGED <<handle, cb_mutex, assembly, listener, delivery>>
        /\ running' \in BOOLEAN /\ pc[Ctl] # "off"
    BY EvStarted DEF Unread, NoDevice, Begin, stream, StreamTypes
  <2>3. StreamTypes'
    BY <2>1, <2>2 DEF StreamTypes, EvOnly
  <2>4. AssemblyTypes'
    BY <2>2 DEF AssemblyTypes, assembly, listener, delivery
  <2>5. CallbackState' /\ CopyState' /\ StartState'
    BY <2>1, <2>2 DEF CallbackState, CopyState, StartState, StreamTypes, EvOnly, assembly, listener
  <2> QED
    BY <2>3, <2>4, <2>5
<1> QED
  BY <1>1, <1>2 DEF _uvc_stream_callback

\* A packet is processed, a transfer resubmitted or deleted.
LEMMA EvInd ==
    ASSUME IndInv, EvStep
    PROVE  IndInv'
<1> USE ConstantsAssumption, ThreadNames DEF IndInv, TypeOK
<1>1. CASE Header
  <2> USE <1>1
  <2>1. /\ UNCHANGED <<stream, transfers, cb_mutex, content, listener, transfer, delivery>>
        /\ fid' \in {0, 1}
    BY DEF Header, AssemblyTypes, Packets
  <2>2. /\ outbuf' \in Buffers /\ holdbuf' \in Buffers /\ outbuf' # holdbuf'
        /\ got_bytes' \in Nat /\ seq' \in Nat /\ hold_seq' \in Nat
        /\ bfh_err' \in BOOLEAN /\ hold_bfh_err' \in BOOLEAN
        /\ EvOnly /\ pc'[Ev] = "data"
        /\ pc[User] = "populate" => UNCHANGED <<holdbuf, hold_seq, hold_bfh_err>>
    <3>1. CASE _uvc_swap_buffers("data")
      BY <3>1, SwapTypes DEF EvOnly, EvLabels, CopyState
    <3>2. CASE Goto(Ev, "data") /\ UNCHANGED <<outbuf, holdbuf, got_bytes, seq, bfh_err,
                                             hold_seq, hold_bfh_err>>
      BY <3>2, EvGoto DEF AssemblyTypes, EvLabels
    <3> QED
      BY <3>1, <3>2 DEF Header
  <2>3. StreamTypes' /\ AssemblyTypes'
    BY <2>1, <2>2 DEF StreamTypes, AssemblyTypes, EvOnly, stream, listener, delivery
  <2>4. CallbackState' /\ CopyState' /\ StartState'
    BY <2>1, <2>2, EvStarted DEF Header, CallbackState, CopyState, StartState, EvOnly, listener
  <2> QED
    BY <2>3, <2>4
<1>2. CASE Data
  <2> USE <1>2
  <2>1. /\ UNCHANGED <<stream, transfers, cb_mutex, outbuf, holdbuf, fid, seq, hold_seq,
                       hold_bfh_err, listener, transfer, delivery>>
        /\ EvOnly /\ pc'[Ev] # "poll"
    BY EvGoto DEF Data, EvLabels
  <2>2. got_bytes' \in Nat /\ bfh_err' \in BOOLEAN
    <3>1. got_bytes' \in Nat
      BY DEF Data, AssemblyTypes
    <3>2. bfh_err' = TRUE \/ bfh_err' = bfh_err
      BY DEF Data
    <3> QED
      BY <3>1, <3>2 DEF AssemblyTypes
  <2>3. content' \in [Buffers -> SUBSET Packets]
    BY DEF Data, AssemblyTypes
  <2>4. StreamTypes' /\ AssemblyTypes'
    BY <2>1, <2>2, <2>3 DEF StreamTypes, AssemblyTypes, EvOnly, stream, listener, delivery
  <2>5. CallbackState' /\ CopyState' /\ StartState'
    BY <2>1, EvStarted DEF Data, CallbackState, CopyState, StartState, EvOnly, listener
  <2> QED
    BY <2>4, <2>5
<1>3. CASE EndOfFrame
  <2> USE <1>3
  <2>1. UNCHANGED <<stream, transfers, cb_mutex, content, fid, listener, transfer, delivery>>
    BY DEF EndOfFrame
  <2>2. /\ outbuf' \in Buffers /\ holdbuf' \in Buffers /\ outbuf' # holdbuf'
        /\ got_bytes' \in Nat /\ seq' \in Nat /\ hold_seq' \in Nat
        /\ bfh_err' \in BOOLEAN /\ hold_bfh_err' \in BOOLEAN
        /\ EvOnly /\ pc'[Ev] = "next"
        /\ pc[User] = "populate" => UNCHANGED <<holdbuf, hold_seq, hold_bfh_err>>
    <3>1. CASE _uvc_swap_buffers("next")
      BY <3>1, SwapTypes DEF EvOnly, EvLabels, CopyState
    <3>2. CASE Goto(Ev, "next") /\ UNCHANGED <<outbuf, holdbuf, got_bytes, seq, bfh_err,
                                             hold_seq, hold_bfh_err>>
      BY <3>2, EvGoto DEF AssemblyTypes, EvLabels
    <3> QED
      BY <3>1, <3>2 DEF EndOfFrame
  <2>3. StreamTypes' /\ AssemblyTypes'
    BY <2>1, <2>2 DEF StreamTypes, AssemblyTypes, EvOnly, stream, listener, delivery
  <2>4. CallbackState' /\ CopyState' /\ StartState'
    BY <2>1, <2>2, EvStarted DEF EndOfFrame, CallbackState, CopyState, StartState, EvOnly,
                                 listener
  <2> QED
    BY <2>3, <2>4
<1>4. CASE Resubmit
  <2> USE <1>4
  <2>1. /\ UNCHANGED <<stream, cb_mutex, assembly, listener, transfer, delivery>>
        /\ EvOnly /\ pc[Ev] # "poll"
    BY EvGoto DEF Resubmit, Jump, EvLabels
  <2>2. \/ pc'[Ev] # "poll" /\ transfers' = transfers
        \/ /\ pc'[Ev] = "poll"
           /\ \E s \in {"inflight", "dropped"} : transfers' = [transfers EXCEPT ![transfer] = s]
    BY EvGoto DEF Resubmit, Jump, EvLabels
  <2>3. StreamTypes'
    BY <2>1, <2>2 DEF StreamTypes, EvOnly, stream
  <2>4. AssemblyTypes'
    BY <2>1 DEF AssemblyTypes, assembly, listener, delivery
  <2>5. CallbackState'
    BY <2>1, <2>2 DEF CallbackState, StreamTypes
  <2>6. CopyState' /\ StartState'
    BY <2>1, EvStarted DEF CopyState, StartState, EvOnly, assembly, listener
  <2> QED
    BY <2>3, <2>4, <2>5, <2>6
<1>5. CASE _uvc_delete_transfer
  <2> USE <1>5
  <2>1. /\ UNCHANGED <<stream, cb_mutex, assembly, listener, transfer, delivery>>
        /\ pc[Ev] = "delete" /\ pc'[Ev] = "poll" /\ EvOnly
        /\ transfers' = [transfers EXCEPT ![transfer] = "null"]
    BY DEF _uvc_delete_transfer, GotoAndBroadcast, WokenByDelete, Waiters, EvOnly, StreamTypes,
           CtlLabels, EvLabels, UserLabels
  <2>2. StreamTypes'
    BY <2>1 DEF StreamTypes, EvOnly, stream
  <2>3. AssemblyTypes'
    BY <2>1 DEF AssemblyTypes, assembly, listener, delivery
  <2>4. CallbackState'
    BY <2>1 DEF CallbackState, StreamTypes
  <2>5. CopyState' /\ StartState'
    BY <2>1, EvStarted DEF CopyState, StartState, EvOnly, assembly, listener
  <2> QED
    BY <2>2, <2>3, <2>4, <2>5
<1> QED
  BY <1>1, <1>2, <1>3, <1>4, <1>5 DEF EvStep

LEMMA UserInd ==
    ASSUME IndInv, UserStep \/ SpuriousWakeup
    PROVE  IndInv'
<1> USE ConstantsAssumption, ThreadNames DEF IndInv, TypeOK, Goto, Jump
<1>1. /\ UNCHANGED <<stream, transfers, assembly, transfer, delivery>>
      /\ pc' \in [Threads -> CtlLabels \cup EvLabels \cup UserLabels]
      /\ pc'[Ctl] \in CtlLabels /\ pc'[Ev] = pc[Ev] /\ pc'[User] \in UserLabels
      /\ pc'[Ctl] = "off" => pc[Ctl] = "off" /\ UNCHANGED pc
  <2> USE DEF StreamTypes, CtlLabels, UserLabels, StartState
  <2>1. CASE UserLook
    BY <2>1 DEF UserLook
  <2>2. CASE _uvc_populate_frame \/ UserTest \/ UserReturn
    BY <2>2 DEF _uvc_populate_frame, UserTest, UserReturn, listener
  <2>3. CASE SpuriousWakeup
    BY <2>3 DEF SpuriousWakeup
  <2> QED
    BY <2>1, <2>2, <2>3 DEF UserStep
<1>2. cb_mutex' \in {User, NULL} /\ last_seq' \in Nat /\ source' \in Buffers
      /\ frame' \in SUBSET Packets
  <2> USE DEF StreamTypes, AssemblyTypes
  <2>1. CASE UserLook
    BY <2>1 DEF UserLook
  <2>2. CASE _uvc_populate_frame
    BY <2>2 DEF _uvc_populate_frame
  <2>3. CASE UserTest \/ UserReturn \/ SpuriousWakeup
    BY <2>3 DEF UserTest, UserReturn, SpuriousWakeup, listener
  <2> QED
    BY <2>1, <2>2, <2>3 DEF UserStep
<1>3. CopyState'
  <2> USE DEF CopyState, StreamTypes, UserLabels, CtlLabels, assembly
  <2>1. CASE UserLook
    BY <2>1 DEF UserLook
  <2>2. CASE _uvc_populate_frame
    BY <2>2 DEF _uvc_populate_frame
  <2>3. CASE UserTest \/ UserReturn \/ SpuriousWakeup
    BY <2>3 DEF UserTest, UserReturn, SpuriousWakeup, listener
  <2> QED
    BY <2>1, <2>2, <2>3 DEF UserStep
<1>4. StreamTypes'
  BY <1>1, <1>2 DEF StreamTypes, stream
<1>5. AssemblyTypes'
  BY <1>1, <1>2 DEF AssemblyTypes, assembly, delivery
<1>6. CallbackState' /\ StartState'
  BY <1>1 DEF CallbackState, StartState
<1> QED
  BY <1>3, <1>4, <1>5, <1>6

LEMMA NextInd == IndInv /\ [Next]_vars => IndInv'
<1>1. ASSUME IndInv, Next PROVE IndInv'
  BY <1>1, CtlInd, CallbackInd, EvInd, UserInd DEF Next
<1>2. ASSUME IndInv, UNCHANGED vars PROVE IndInv'
  BY <1>2 DEF IndInv, TypeOK, StreamTypes, AssemblyTypes, CallbackState, CopyState, StartState,
              vars, stream, assembly, listener, delivery
<1> QED
  BY <1>1, <1>2

LEMMA Inductive == Spec => []IndInv
BY InitInd, NextInd, PTL DEF Spec

\* Every variable of a stream keeps its type, and the buffer presented to the
\* listeners is never the one _uvc_process_payload fills.
THEOREM TypeCorrect == Spec => []TypeOK
<1>1. IndInv => TypeOK
  BY DEF IndInv
<1> QED
  BY <1>1, Inductive, PTL
-----------------------------------------------------------------------------
(* The order of closing.                                                   *)

Gone == \A t \in Transfers : transfers[t] = "null"

\* What Ctl's place says of the others when nothing but Ctl clears running.
Closing ==
    /\ handle = "closed" => pc[Ctl] = "closed"
    /\ pc[Ctl] \in {"submit", "streaming", "stop"} => running
    /\ pc[Ctl] \in {"join", "free", "closed"} => Gone
    /\ pc[Ctl] \in {"free", "closed"} => pc[User] \in {"off", "exit"}

LEMMA ClosingInit == Init => Closing
BY ThreadNames DEF Init, Closing

LEMMA ClosingCtl ==
    ASSUME IndInv, Closing, ~SubmitFails, uvc_stream_start \/ uvc_stop_streaming \/ CtlStep
    PROVE  Closing'
<1> USE ThreadNames DEF IndInv, TypeOK, StreamTypes, CtlLabels, UserLabels, Closing, Jump, Goto,
                        stream
<1>1. CASE uvc_stream_start
  BY <1>1 DEF uvc_stream_start, StartState, Gone
<1>2. CASE uvc_stop_streaming \/ uvc_stream_stop
  BY <1>2 DEF uvc_stop_streaming, uvc_stream_stop
<1>3. CASE SubmitTransfer
  <2>1. /\ handle' = handle /\ running' = running
        /\ pc[Ctl] = "submit" /\ pc'[Ctl] \in {"submit", "streaming"}
    BY <1>3 DEF SubmitTransfer
  <2> QED
    BY <2>1
<1>4. CASE StopCancel
  <2>1. handle' = handle /\ pc'[Ctl] \in {"join", "parked"}
    BY <1>4 DEF StopCancel, GotoAndBroadcast
  <2>2. pc'[Ctl] = "join" => Gone'
    BY <1>4 DEF StopCancel, Drained, Cancelled, Gone
  <2> QED
    BY <1>4, <2>1, <2>2 DEF StopCancel
<1>5. CASE StopJoin \/ CloseFree
  BY <1>5 DEF StopJoin, CloseFree, Gone
<1> QED
  BY <1>1, <1>2, <1>3, <1>4, <1>5 DEF CtlStep

\* Ev has nothing to do any more once the transfers are gone.
LEMMA EvIdle == IndInv /\ Gone => ~_uvc_stream_callback /\ ~EvStep
BY DEF IndInv, CallbackState, Gone, _uvc_stream_callback, Deliver, Unread, NoDevice, Begin,
       EvStep, Header, Data, EndOfFrame, Resubmit, Jump, _uvc_delete_transfer

LEMMA ClosingEv ==
    ASSUME IndInv, Closing, ~Unplug, _uvc_stream_callback \/ EvStep
    PROVE  Closing'
<1> USE ThreadNames DEF IndInv, TypeOK, StreamTypes, Goto, Jump
<1>1. ~Gone
  BY EvIdle
<1>2. UNCHANGED <<handle, running>>
  BY DEF _uvc_stream_callback, Deliver, Unread, NoDevice, EvStep, Header, Data, EndOfFrame,
         Resubmit, _uvc_delete_transfer, stream
<1>3. pc'[Ctl] = pc[Ctl] \/ (pc[Ctl] = "parked" /\ pc'[Ctl] = "woken")
  <2> USE DEF GotoAndBroadcast, Waiters, WokenBySwap, WokenByDelete, _uvc_swap_buffers
  <2>1. CASE _uvc_stream_callback
    BY <2>1 DEF _uvc_stream_callback, Deliver, Unread, NoDevice
  <2>2. CASE Header \/ EndOfFrame
    BY <2>2 DEF Header, EndOfFrame
  <2>3. CASE Data \/ Resubmit \/ _uvc_delete_transfer
    BY <2>3 DEF Data, Resubmit, _uvc_delete_transfer
  <2> QED
    BY <2>1, <2>2, <2>3 DEF EvStep
<1> QED
  BY <1>1, <1>2, <1>3 DEF Closing

LEMMA ClosingUser ==
    ASSUME IndInv, Closing, UserStep \/ SpuriousWakeup
    PROVE  Closing'
<1> USE ThreadNames DEF IndInv, TypeOK, StreamTypes, Goto, Jump, Closing, Gone, stream
<1>1. CASE UserLook
  BY <1>1 DEF UserLook
<1>2. CASE _uvc_populate_frame \/ UserTest \/ UserReturn
  BY <1>2 DEF _uvc_populate_frame, UserTest, UserReturn
<1>3. CASE SpuriousWakeup
  BY <1>3 DEF SpuriousWakeup
<1> QED
  BY <1>1, <1>2, <1>3 DEF UserStep

LEMMA ClosingNext ==
    ASSUME ~Unplug, ~SubmitFails
    PROVE  IndInv /\ Closing /\ [Next]_vars => Closing'
<1>1. ASSUME IndInv, Closing, Next PROVE Closing'
  BY <1>1, ClosingCtl, ClosingEv, ClosingUser DEF Next
<1>2. ASSUME Closing, UNCHANGED vars PROVE Closing'
  BY <1>2 DEF Closing, Gone, vars, stream
<1> QED
  BY <1>1, <1>2

\* When no transfer reports an unplugged device and every transfer of the start
\* is submitted, uvc_stream_close frees a handle nobody uses any more.
THEOREM CloseIsLast ==
    ASSUME ~Unplug, ~SubmitFails
    PROVE  Spec => []CloseEndsEverything
<1>1. IndInv /\ Closing => CloseEndsEverything
  BY DEF IndInv, CallbackState, Closing, Gone, CloseEndsEverything
<1>2. IndInv /\ Closing /\ [Next]_vars => Closing'
  BY ClosingNext
<1> QED
  BY <1>1, <1>2, ClosingInit, Inductive, PTL DEF Spec
-----------------------------------------------------------------------------
(* The double buffer implements FrameChannel.                              *)

\* Where each step of the channel comes from.
LEMMA SwapPublishes ==
    ASSUME IndInv, NEW label \in EvLabels, _uvc_swap_buffers(label),
           UNCHANGED <<content, listener>>
    PROVE  Channel!Publish
<1> USE DEF IndInv, TypeOK, AssemblyTypes, _uvc_swap_buffers, Exchange, listener
<1>1. hold_seq' = seq /\ hold_bfh_err' \in BOOLEAN /\ content'[holdbuf'] \in SUBSET Packets
  BY SwapTypes
<1> QED
  BY <1>1 DEF Channel!Publish

LEMMA StepImplements ==
    ASSUME IndInv, Next
    PROVE  Channel!Next \/ UNCHANGED <<seq, hold_seq, content[holdbuf], hold_bfh_err, last_seq,
                                      frame>>
<1> USE DEF IndInv, TypeOK, assembly, listener
<1>1. CASE uvc_stream_start \/ uvc_stop_streaming \/ CtlStep
  BY <1>1 DEF uvc_stream_start, uvc_stop_streaming, CtlStep, SubmitTransfer, uvc_stream_stop,
              StopCancel, StopJoin, CloseFree
<1>2. CASE _uvc_stream_callback
  BY <1>2 DEF _uvc_stream_callback, Deliver, Unread, NoDevice
<1>3. CASE Header
  BY <1>3, SwapPublishes DEF Header, Channel!Next, EvLabels
<1>4. CASE EndOfFrame
  BY <1>4, SwapPublishes DEF EndOfFrame, Channel!Next, EvLabels
<1>5. CASE Data
  BY <1>5 DEF Data, AssemblyTypes
<1>6. CASE Resubmit \/ _uvc_delete_transfer \/ SpuriousWakeup
  BY <1>6 DEF Resubmit, _uvc_delete_transfer, SpuriousWakeup
<1>7. CASE UserLook
  BY <1>7 DEF UserLook, Channel!Next, Channel!Take
<1>8. CASE _uvc_populate_frame
  <2>1. /\ hold_seq # last_seq /\ ~hold_bfh_err /\ last_seq' = hold_seq
        /\ frame' = content[holdbuf] /\ content' = content
        /\ UNCHANGED <<seq, hold_seq, holdbuf, hold_bfh_err>>
    BY <1>8 DEF _uvc_populate_frame, Jump, CopyState
  <2> QED
    BY <2>1 DEF Channel!Next, Channel!Take
<1>9. CASE UserTest \/ UserReturn
  BY <1>9 DEF UserTest, UserReturn
<1> QED
  BY <1>1, <1>2, <1>3, <1>4, <1>5, <1>6, <1>7, <1>8, <1>9 DEF Next, EvStep, UserStep

\* The double buffer refines a place for one frame that is overwritten and
\* copied in one piece each (ImplementsChannel): _uvc_swap_buffers publishes,
\* and the copy the user thread makes under cb_mutex is one Take.
THEOREM ChannelImplemented == Spec => ImplementsChannel
<1>1. Init => Channel!Init
  BY DEF Init, Channel!Init, Buffers
<1>2. IndInv /\ [Next]_vars =>
          [Channel!Next]_<<seq, [seq |-> hold_seq, content |-> content[holdbuf],
                                faulty |-> hold_bfh_err], last_seq, frame>>
  <2>1. ASSUME UNCHANGED vars PROVE UNCHANGED <<seq, hold_seq, content[holdbuf], hold_bfh_err,
                                                last_seq, frame>>
    BY <2>1 DEF vars, assembly, listener
  <2> QED
    BY <2>1, StepImplements
<1> QED
  BY <1>1, <1>2, Inductive, PTL DEF Spec, ImplementsChannel, Channel!Spec
-----------------------------------------------------------------------------
(* The FID bit alone keeps the camera's frames apart.                      *)

OneFrame(S) == \A p, q \in S : p[1] = q[1]

\* The camera is still in frame n, or has begun the next one and sent none of
\* its packets but the last burst ones, whose headers were not read.
Recent(n) == camera[1] = n \/ (camera[1] = n + 1 /\ camera[2] <= burst + 1)

AtPacket == {"header", "data", "eof"}

\* Both buffers and the listener's copy hold packets of one frame each.
Uniform == OneFrame(content[outbuf]) /\ OneFrame(content[holdbuf]) /\ OneFrame(frame)

\* Where the camera is, and which FID was seen last, compared with the packet
\* Ev works on.
Current ==
    /\ burst <= MaxBurst
    /\ pc[Ev] \in AtPacket => burst = 0 /\ Recent(packet[1])
    /\ pc[Ev] \in {"data", "eof"} => fid = packet[1] % 2

\* ... and compared with the packets waiting in outbuf.
Waiting ==
    got_bytes # 0 => \A p \in content[outbuf] :
        /\ fid = p[1] % 2
        /\ pc[Ev] = "header" => packet[1] \in {p[1], p[1] + 1}
        /\ pc[Ev] \in {"data", "eof"} => packet[1] = p[1]
        /\ pc[Ev] \notin AtPacket => Recent(p[1])

Assembling == Uniform /\ Current /\ Waiting

LEMMA InitAssembling == Init => Assembling
BY ConstantsAssumption, ThreadNames
   DEF Init, Assembling, Uniform, Current, Waiting, OneFrame, AtPacket, Buffers

\* A step that leaves the frames and the camera alone, and Ev between packets
\* or where it is.
LEMMA ElsewhereAssembling ==
    ASSUME Assembling, UNCHANGED <<outbuf, holdbuf, content, got_bytes, fid, packet, camera, burst>>,
           frame' = frame \/ frame' = content[holdbuf],
           pc'[Ev] = pc[Ev] \/ (pc[Ev] \notin AtPacket /\ pc'[Ev] \notin AtPacket)
    PROVE  Assembling'
BY DEF Assembling, Uniform, Current, Waiting, OneFrame, Recent, AtPacket

\* The camera sends a packet: after at most MaxBurst unread headers, fewer
\* than a frame has packets, it is still in the same frame or in the next.
LEMMA DeliverAssembling ==
    ASSUME IndInv, Assembling, MaxBurst < Parts, NEW t \in Transfers, NEW f \in Fates, Deliver(t, f)
    PROVE  Assembling'
<1> USE ConstantsAssumption, ThreadNames
<1>1. /\ camera[1] \in Nat /\ camera[2] \in 1..Parts /\ burst \in Nat
      /\ content[outbuf] \subseteq Packets
      /\ \A p \in Packets : p[1] \in Nat
  BY DEF IndInv, TypeOK, AssemblyTypes, Packets
<1>2. /\ UNCHANGED <<outbuf, holdbuf, content, frame, got_bytes, fid>>
      /\ pc[Ev] \notin AtPacket /\ packet' = camera
      /\ camera' = NextPacket(camera)
      /\ \/ pc'[Ev] = "header" /\ burst' = 0
         \/ pc'[Ev] = "next" /\ burst' = burst + 1 /\ burst < MaxBurst
  BY DEF Deliver, Begin, AtPacket, listener, IndInv, TypeOK, StreamTypes, Goto
<1>3. /\ camera[2] = Parts => camera'[1] = camera[1] + 1 /\ camera'[2] = 1
      /\ camera[2] # Parts => camera'[1] = camera[1] /\ camera'[2] = camera[2] + 1
  BY <1>2 DEF NextPacket
<1>4. Uniform'
  BY <1>2 DEF Assembling, Uniform
<1>5. Current'
  BY <1>1, <1>2, <1>3 DEF Assembling, Current, Recent, AtPacket
<1>6. Waiting'
  <2> SUFFICES ASSUME got_bytes # 0, NEW p \in content[outbuf]
               PROVE  /\ fid = p[1] % 2
                      /\ pc'[Ev] = "header" => camera[1] \in {p[1], p[1] + 1}
                      /\ pc'[Ev] = "next" => Recent(p[1])'
    BY <1>2 DEF Waiting, AtPacket
  <2>1. fid = p[1] % 2 /\ Recent(p[1]) /\ p[1] \in Nat
    BY <1>1, <1>2 DEF Assembling, Waiting
  <2> QED
    BY <1>1, <1>2, <1>3, <2>1 DEF Assembling, Current, Recent
<1> QED
  BY <1>4, <1>5, <1>6 DEF Assembling

LEMMA CallbackAssembling ==
    ASSUME IndInv, Assembling, MaxBurst < Parts, _uvc_stream_callback
    PROVE  Assembling'
<1>1. ASSUME NEW t \in Transfers, Unread(t) \/ NoDevice(t)
      PROVE  Assembling'
  <2>1. /\ UNCHANGED <<assembly, listener, delivery>>
        /\ pc[Ev] = "poll" /\ pc'[Ev] \in {"finish", "delete"}
    BY <1>1, EvGoto DEF Unread, NoDevice, Begin, EvLabels
  <2> QED
    BY <2>1, ElsewhereAssembling DEF assembly, listener, delivery, AtPacket
<1> QED
  BY <1>1, DeliverAssembling DEF _uvc_stream_callback

\* A frame is presented only when packets wait in it.
LEMMA SwapAssembling ==
    ASSUME IndInv, Uniform, NEW label \in EvLabels, _uvc_swap_buffers(label),
           UNCHANGED <<content, frame>>
    PROVE  Uniform' /\ got_bytes' = 0 /\ pc'[Ev] = label
BY SwapTypes DEF Uniform, _uvc_swap_buffers, Exchange

LEMMA ParityOfNext == \A n \in Nat : (n + 1) % 2 # n % 2
OBVIOUS

\* The header's FID differs from the last one exactly when the packets that
\* wait belong to the frame before.
LEMMA HeaderAssembling ==
    ASSUME IndInv, Assembling, Header
    PROVE  Assembling'
<1>1. /\ UNCHANGED <<content, frame, packet, camera, burst>> /\ fid' = packet[1] % 2
      /\ pc[Ev] = "header"
  BY DEF Header, listener, delivery
<1>2. CASE _uvc_swap_buffers("data")
  <2>1. Uniform' /\ got_bytes' = 0 /\ pc'[Ev] = "data"
    BY <1>1, <1>2, SwapAssembling DEF Assembling, EvLabels
  <2> QED
    BY <1>1, <2>1 DEF Assembling, Current, Waiting, Recent, AtPacket
<1>3. CASE ~Flipped(packet[1]) /\ Goto(Ev, "data") /\ UNCHANGED <<outbuf, holdbuf, got_bytes>>
  <2>1. pc'[Ev] = "data" /\ Uniform' /\ Current'
    BY <1>1, <1>3, EvGoto DEF Assembling, Uniform, Current, Recent, AtPacket, EvLabels
  <2>2. ASSUME got_bytes # 0, NEW p \in content[outbuf]
        PROVE  packet[1] = p[1]
    <3>1. fid = p[1] % 2 /\ packet[1] \in {p[1], p[1] + 1} /\ fid = packet[1] % 2
      BY <1>1, <1>3, <2>2 DEF Assembling, Waiting, Flipped
    <3>2. p[1] \in Nat
      BY <2>2 DEF IndInv, TypeOK, AssemblyTypes, Packets
    <3> QED
      BY <3>1, <3>2, ParityOfNext
  <2>3. Waiting'
    BY <1>1, <1>3, <2>1, <2>2 DEF Waiting, AtPacket
  <2> QED
    BY <2>1, <2>3 DEF Assembling
<1> QED
  BY <1>2, <1>3 DEF Header

\* Data is added to a frame it belongs to, or begins one.
LEMMA DataAssembling ==
    ASSUME IndInv, Assembling, Data
    PROVE  Assembling'
<1>1. /\ UNCHANGED <<outbuf, holdbuf, fid, frame, packet, camera, burst>>
      /\ pc[Ev] = "data" /\ outbuf # holdbuf
      /\ pc'[Ev] \in {"next", "eof"}
  BY EvGoto DEF Data, listener, delivery, EvLabels, IndInv, TypeOK, AssemblyTypes
<1>2. /\ fid = packet[1] % 2 /\ Recent(packet[1])
      /\ got_bytes # 0 => \A p \in content[outbuf] : packet[1] = p[1]
  BY <1>1 DEF Assembling, Current, Waiting, AtPacket
<1>3. Current'
  BY <1>1 DEF Assembling, Current, Recent, AtPacket
<1>4. /\ content'[holdbuf] = content[holdbuf]
      /\ OneFrame(content'[outbuf])
      /\ got_bytes' # 0 => \A p \in content'[outbuf] : packet[1] = p[1]
  <2>1. CASE UNCHANGED <<content, got_bytes>>
    BY <1>2, <2>1 DEF Assembling, Uniform
  <2>2. CASE content' = [content EXCEPT ![outbuf] =
                            {packet} \cup (IF got_bytes = 0 THEN {} ELSE @)]
    <3>1. content'[outbuf] = {packet} \cup (IF got_bytes = 0 THEN {} ELSE content[outbuf])
      BY <2>2 DEF IndInv, TypeOK, AssemblyTypes
    <3>2. \A p \in content'[outbuf] : packet[1] = p[1]
      BY <1>2, <3>1
    <3> QED
      BY <1>1, <2>2, <3>2 DEF OneFrame, IndInv, TypeOK, AssemblyTypes
  <2> QED
    BY <2>1, <2>2 DEF Data
<1>5. Uniform'
  BY <1>1, <1>4 DEF Assembling, Uniform
<1>6. Waiting'
  BY <1>1, <1>2, <1>4 DEF Waiting, AtPacket, Recent
<1> QED
  BY <1>3, <1>5, <1>6 DEF Assembling

LEMMA EndAssembling ==
    ASSUME IndInv, Assembling, EndOfFrame
    PROVE  Assembling'
<1>1. /\ UNCHANGED <<content, frame, fid, packet, camera, burst>> /\ pc[Ev] = "eof"
  BY DEF EndOfFrame, listener, delivery
<1>2. CASE _uvc_swap_buffers("next")
  <2>1. Uniform' /\ got_bytes' = 0 /\ pc'[Ev] = "next"
    BY <1>1, <1>2, SwapAssembling DEF Assembling, EvLabels
  <2> QED
    BY <1>1, <2>1 DEF Assembling, Current, Waiting, AtPacket
<1>3. CASE Goto(Ev, "next") /\ UNCHANGED <<outbuf, holdbuf, got_bytes>>
  <2>1. pc'[Ev] = "next"
    BY <1>3, EvGoto DEF EvLabels
  <2> QED
    BY <1>1, <1>3, <2>1 DEF Assembling, Uniform, Current, Waiting, Recent, AtPacket
<1> QED
  BY <1>2, <1>3 DEF EndOfFrame

LEMMA NextAssembling ==
    ASSUME IndInv, Assembling, MaxBurst < Parts, Next
    PROVE  Assembling'
<1> USE ThreadNames DEF assembly, listener, delivery
<1>1. CASE uvc_stream_start \/ uvc_stop_streaming \/ CtlStep \/ UserTest \/ UserReturn \/ SpuriousWakeup
  <2>1. UNCHANGED <<assembly, listener, delivery>> /\ pc'[Ev] = pc[Ev]
    BY <1>1 DEF uvc_stream_start, uvc_stop_streaming, CtlStep, SubmitTransfer, uvc_stream_stop,
                StopCancel, StopJoin, CloseFree, UserTest, UserReturn, SpuriousWakeup,
                Jump, Goto, GotoAndBroadcast, Waiters, IndInv, TypeOK, StreamTypes
  <2> QED
    BY <2>1, ElsewhereAssembling
<1>2. CASE Resubmit \/ _uvc_delete_transfer
  <2>1. /\ UNCHANGED <<assembly, listener, delivery>>
        /\ pc[Ev] \notin AtPacket /\ pc'[Ev] \notin AtPacket
    BY <1>2, EvGoto DEF Resubmit, _uvc_delete_transfer, Jump, GotoAndBroadcast, WokenByDelete,
                        EvLabels, AtPacket, Waiters, IndInv, TypeOK, StreamTypes
  <2> QED
    BY <2>1, ElsewhereAssembling
<1>3. CASE UserLook \/ _uvc_populate_frame
  <2>1. /\ UNCHANGED <<assembly, delivery>> /\ pc'[Ev] = pc[Ev]
        /\ frame' = frame \/ frame' = content[holdbuf]
    BY <1>3 DEF UserLook, _uvc_populate_frame, Jump, Goto, CopyState, IndInv, TypeOK, StreamTypes
  <2> QED
    BY <2>1, ElsewhereAssembling
<1> QED
  BY <1>1, <1>2, <1>3, CallbackAssembling, HeaderAssembling, DataAssembling, EndAssembling
     DEF Next, EvStep, UserStep

\* No frame given to user_cb mixes two frames of the camera, whether the camera
\* marks the end of a frame or not, as long as fewer headers are lost in a row
\* than a frame has packets: the FID bit has two values, so that a whole frame
\* lost unnoticed makes the one after it look like the one before.
THEOREM FramesApart ==
    ASSUME MaxBurst < Parts
    PROVE  Spec => []NoMixedFrame
<1>1. IndInv /\ Assembling /\ [Next]_vars => Assembling'
  <2>1. ASSUME Assembling, UNCHANGED vars PROVE Assembling'
    BY <2>1, ElsewhereAssembling DEF vars, assembly, listener, delivery
  <2> QED
    BY <2>1, NextAssembling
<1>2. Assembling => NoMixedFrame
  BY DEF Assembling, Uniform, OneFrame, NoMixedFrame
<1> QED
  BY <1>1, <1>2, InitAssembling, Inductive, PTL DEF Spec
-----------------------------------------------------------------------------
(* Nobody waits for a broadcast that is past: the safety part of StopReturns *)
(* and FrameSeen.                                                            *)

Stopping == {"cancel", "parked", "woken", "join"}

\* Where Ctl is after the start, every transfer has been submitted and User
\* runs; uvc_stream_stop has cleared running, waits only while a transfer is
\* left, and wakes User with itself.
StopState ==
    /\ pc[Ctl] \in Stopping \cup {"submit", "streaming", "stop"} => pc[User] # "off"
    /\ pc[Ctl] \in Stopping \cup {"streaming", "stop"} => \A t \in Transfers : transfers[t] # "idle"
    /\ pc[Ctl] \in Stopping => ~running
    /\ pc[Ctl] = "parked" => ~Drained
    /\ pc[Ctl] = "join" => pc[User] # "parked"

\* User waits on cb_cond only for a frame that is not there yet.
FrameWait == pc[User] = "parked" => hold_seq = last_seq

LEMMA InitWaits == Init => StopState /\ FrameWait
BY ThreadNames DEF Init, StopState, FrameWait, Stopping

LEMMA CtlWaits ==
    ASSUME IndInv, StopState, FrameWait, uvc_stream_start \/ uvc_stop_streaming \/ CtlStep
    PROVE  StopState' /\ FrameWait'
<1> USE ThreadNames DEF IndInv, TypeOK, StreamTypes, Jump, Goto
<1>1. UNCHANGED <<assembly, listener>> /\ (pc'[User] = "parked" => pc[User] = "parked")
  BY DEF uvc_stream_start, uvc_stop_streaming, CtlStep, SubmitTransfer, uvc_stream_stop,
         StopCancel, StopJoin, CloseFree, GotoAndBroadcast, Waiters
<1>2. FrameWait'
  BY <1>1 DEF FrameWait, assembly, listener
<1> USE DEF StopState, Stopping
<1>3. CASE uvc_stream_start
  BY <1>2, <1>3 DEF uvc_stream_start
<1>4. CASE uvc_stop_streaming \/ uvc_stream_stop \/ StopJoin \/ CloseFree
  BY <1>2, <1>4 DEF uvc_stop_streaming, uvc_stream_stop, StopJoin, CloseFree, stream
<1>5. CASE SubmitTransfer
  BY <1>2, <1>5 DEF SubmitTransfer
<1>6. CASE StopCancel
  <2>1. /\ running' = running /\ ~running /\ pc[User] # "off"
        /\ \A t \in Transfers : transfers[t] # "idle"
        /\ pc'[Ctl] \in {"join", "parked"} /\ pc'[User] # "off"
        /\ \A t \in Transfers : transfers'[t] # "idle"
    BY <1>6 DEF StopCancel, stream, GotoAndBroadcast, Cancelled
  <2>2. pc'[Ctl] = "parked" => ~Drained'
    BY <1>6 DEF StopCancel, GotoAndBroadcast, Cancelled, Drained
  <2>3. pc'[Ctl] = "join" => pc'[User] # "parked"
    BY <1>6 DEF StopCancel, GotoAndBroadcast, Waiters
  <2> QED
    BY <1>2, <2>1, <2>2, <2>3
<1> QED
  BY <1>3, <1>4, <1>5, <1>6 DEF CtlStep

\* What a broadcast of Ev does to the places of the others.
Woken == pc'[Ctl] # "parked" /\ pc'[User] # "parked"

LEMMA EvWaits ==
    ASSUME IndInv, StopState, FrameWait, _uvc_stream_callback \/ EvStep
    PROVE  StopState' /\ FrameWait'
<1> USE ThreadNames DEF IndInv, TypeOK, StreamTypes, Jump, Goto
<1>1. /\ running' = running \/ running' = FALSE
      /\ pc'[Ctl] = pc[Ctl] \/ (pc[Ctl] = "parked" /\ pc'[Ctl] = "woken")
      /\ pc'[User] = pc[User] \/ (pc[User] = "parked" /\ pc'[User] = "woken")
      /\ UNCHANGED last_seq
      /\ UNCHANGED hold_seq \/ Woken
      /\ UNCHANGED transfers \/ Woken \/ (\E s \in {"callback", "inflight", "dropped"}, t \in Transfers :
              transfers' = [transfers EXCEPT ![t] = s])
      /\ \A t \in Transfers : transfers'[t] = "idle" => transfers[t] = "idle"
  <2> USE DEF stream, assembly, listener
  <2>1. CASE _uvc_stream_callback
    BY <2>1 DEF _uvc_stream_callback, Deliver, Unread, NoDevice, Begin
  <2>2. CASE Header \/ EndOfFrame
    BY <2>2 DEF Header, EndOfFrame, _uvc_swap_buffers, GotoAndBroadcast, WokenBySwap, Waiters, Woken
  <2>3. CASE Data
    BY <2>3 DEF Data
  <2>4. CASE Resubmit
    BY <2>4 DEF Resubmit, CallbackState
  <2>5. CASE _uvc_delete_transfer
    BY <2>5 DEF _uvc_delete_transfer, GotoAndBroadcast, WokenByDelete, Waiters, Woken
  <2> QED
    BY <2>1, <2>2, <2>3, <2>4, <2>5 DEF EvStep
<1>2. pc'[Ctl] = "parked" => ~Drained'
  BY <1>1 DEF StopState, Drained, Woken
<1> QED
  BY <1>1, <1>2 DEF StopState, Stopping, FrameWait, Woken

LEMMA UserWaits ==
    ASSUME IndInv, StopState, FrameWait, UserStep \/ SpuriousWakeup
    PROVE  StopState' /\ FrameWait'
<1> USE ThreadNames DEF IndInv, TypeOK, StreamTypes, Jump, Goto
<1>1. /\ UNCHANGED <<stream, transfers, assembly>>
      /\ pc'[Ctl] = pc[Ctl] \/ (pc[Ctl] = "parked" /\ pc'[Ctl] = "woken")
      /\ pc'[User] = "off" => pc[User] = "off"
      /\ pc'[User] = "parked" => (pc[User] = "parked" \/ running) /\ hold_seq' = last_seq'
  <2> USE DEF assembly, listener, FrameWait
  <2>1. CASE UserLook
    BY <2>1 DEF UserLook
  <2>2. CASE _uvc_populate_frame \/ UserTest \/ UserReturn
    BY <2>2 DEF _uvc_populate_frame, UserTest, UserReturn
  <2>3. CASE SpuriousWakeup
    BY <2>3 DEF SpuriousWakeup
  <2> QED
    BY <2>1, <2>2, <2>3 DEF UserStep
<1> QED
  BY <1>1 DEF StopState, Stopping, FrameWait, stream, Drained

LEMMA Waits == Spec => [](IndInv /\ StopState /\ FrameWait)
<1>1. IndInv /\ StopState /\ FrameWait /\ [Next]_vars => StopState' /\ FrameWait'
  <2>1. ASSUME StopState, FrameWait, UNCHANGED vars PROVE StopState' /\ FrameWait'
    BY <2>1 DEF StopState, Stopping, FrameWait, Drained, vars, stream, assembly, listener
  <2> QED
    BY <2>1, CtlWaits, EvWaits, UserWaits DEF Next
<1> QED
  BY <1>1, InitWaits, Inductive, PTL DEF Spec

\* _uvc_user_caller is parked on cb_cond only while there is no frame it has
\* not seen: the broadcast of _uvc_swap_buffers cannot fall between its look
\* and its wait.  This is the safety part of FrameSeen.
THEOREM FrameAnnounced == Spec => [](pc[User] = "parked" => hold_seq = last_seq)
<1>1. FrameWait => (pc[User] = "parked" => hold_seq = last_seq)
  BY DEF FrameWait
<1> QED
  BY <1>1, Waits, PTL

\* No transfer gets lost by a failed submission.
NoneDropped == \A t \in Transfers : transfers[t] # "dropped"

LEMMA NextNoneDropped ==
    ASSUME ~ResubmitFails
    PROVE  IndInv /\ NoneDropped /\ [Next]_vars => NoneDropped'
<1>1. ASSUME IndInv, NoneDropped, Next PROVE NoneDropped'
  <2> USE <1>1 DEF IndInv, TypeOK, StreamTypes, NoneDropped
  <2>1. CASE uvc_stream_start \/ uvc_stop_streaming \/ CtlStep
    BY <2>1 DEF uvc_stream_start, uvc_stop_streaming, CtlStep, SubmitTransfer, uvc_stream_stop,
                StopCancel, StopJoin, CloseFree, Cancelled
  <2>2. CASE _uvc_stream_callback
    BY <2>2 DEF _uvc_stream_callback, Deliver, Unread, NoDevice, Begin
  <2>3. CASE EvStep
    BY <2>3 DEF EvStep, Header, Data, EndOfFrame, Resubmit, _uvc_delete_transfer
  <2>4. CASE UserStep \/ SpuriousWakeup
    BY <2>4 DEF UserStep, UserLook, _uvc_populate_frame, UserTest, UserReturn, SpuriousWakeup
  <2> QED
    BY <2>1, <2>2, <2>3, <2>4 DEF Next
<1>2. ASSUME NoneDropped, UNCHANGED vars PROVE NoneDropped'
  BY <1>2 DEF NoneDropped, vars
<1> QED
  BY <1>1, <1>2

\* While uvc_stream_stop is parked a transfer is with libusb, which ends it, or
\* in its callback, whose end wakes it; while it joins the user thread, that
\* one is not parked and leaves at its next look.
StopServed ==
    /\ pc[Ctl] = "parked" =>
        \E t \in Transfers : transfers[t] \in {"inflight", "cancelled", "callback"}
    /\ pc[Ctl] = "join" => ~running /\ pc[User] \notin {"off", "parked"}

\* When no resubmission fails, uvc_stream_stop never waits for something that
\* cannot come any more.  This is the safety part of StopReturns.
THEOREM StopIsServed ==
    ASSUME ~ResubmitFails
    PROVE  Spec => []StopServed
<1>1. IndInv /\ StopState /\ NoneDropped => StopServed
  BY DEF IndInv, TypeOK, StreamTypes, StopState, Stopping, NoneDropped, Drained, StopServed
<1>2. Init => NoneDropped
  BY DEF Init, NoneDropped
<1>3. IndInv /\ NoneDropped /\ [Next]_vars => NoneDropped'
  BY NextNoneDropped
<1> QED
  BY <1>1, <1>2, <1>3, Waits, PTL DEF Spec
=============================================================================

----------------------------- MODULE UvcStream ------------------------------
(***************************************************************************)
(* One video stream of libuvc, libuvc/src/stream.c.                        *)
(*                                                                         *)
(*   Ctl   the thread in uvc_start_streaming_bandwidth and later in        *)
(*         uvc_stop_streaming (UVCPreview's preview thread);               *)
(*   Ev    libusb's event thread, which runs _uvc_stream_callback for one  *)
(*         completed transfer after the other and builds frames in outbuf; *)
(*   User  _uvc_user_caller, which copies holdbuf and calls user_cb.       *)
(*                                                                         *)
(* Every start opens a handle of its own with calloc, so one handle from   *)
(* its opening to its closing is all there is to a stream.  The camera     *)
(* sends numbered frames of Parts packets; a buffer's content is the set   *)
(* of packets in its first got_bytes bytes.                                *)
(***************************************************************************)
EXTENDS Integers, FiniteSets

CONSTANTS
    Transfers,      \* LIBUVC_NUM_TRANSFER_BUFS of them, 10 in the code
    NULL,
    Parts,          \* packets of one camera frame
    Eof,            \* TRUE: the camera sets UVC_STREAM_EOF in the last packet
    Bulk,           \* bulk or isochronous transfers
    Unplug,         \* TRUE: transfers may end with LIBUSB_TRANSFER_NO_DEVICE
    SubmitFails,    \* TRUE: libusb_submit_transfer may fail in the start
    ResubmitFails,  \* TRUE: ... and in _uvc_stream_callback
    MaxBurst,       \* most packets in a row whose header is not read
    MaxFrames       \* bound: camera frames sent

Ctl == "ctl"
Ev == "ev"
User == "user"
Threads == {Ctl, Ev, User}
Buffers == {"A", "B"}

ASSUME ConstantsAssumption ==
    /\ IsFiniteSet(Transfers) /\ NULL \notin Transfers \cup Threads
    /\ Parts \in Nat \ {0} /\ MaxBurst \in Nat /\ MaxFrames \in Nat
    /\ {Eof, Bulk, Unplug, SubmitFails, ResubmitFails} \subseteq BOOLEAN

Packets == Nat \X (1..Parts)

VARIABLES
    handle,          \* "none", "open" or "closed" (freed)
    running,
    transfers,       \* "null", "idle", "inflight", "cancelled", "callback", "dropped"
    cb_mutex,        \* the thread inside cb_mutex across several steps, or NULL
    outbuf, holdbuf, content,
    got_bytes,       \* packets in outbuf
    fid, seq, bfh_err,
    hold_seq, hold_bfh_err,
    last_seq, source, frame,  \* User's: last_seq, holdbuf it copies from, strmh->frame
    transfer,        \* Ev's transfer
    packet, fate,    \* its packet, and what has become of it on the way
    pc,
    camera, burst    \* next packet of the camera; headers lost in a row

stream == <<handle, running>>
assembly == <<outbuf, holdbuf, content, got_bytes, fid, seq, bfh_err, hold_seq, hold_bfh_err>>
listener == <<last_seq, source, frame>>
delivery == <<packet, fate, camera, burst>>
vars == <<stream, transfers, cb_mutex, assembly, listener, transfer, delivery, pc>>

Goto(t, label) == pc' = [pc EXCEPT ![t] = label]
Jump(t, from, to) == pc[t] = from /\ Goto(t, to)

\* t goes on to label and everybody waiting on cb_cond is woken.
GotoAndBroadcast(t, label, woken) ==
    pc' = [u \in Threads |-> IF u = t THEN label ELSE IF u \in woken THEN "woken" ELSE pc[u]]

Waiters == {t \in {Ctl, User} : pc[t] = "parked"}

Init ==
    /\ handle = "none" /\ running = FALSE
    /\ transfers = [t \in Transfers |-> "null"]
    /\ cb_mutex = NULL
    /\ outbuf = "A" /\ holdbuf = "B" /\ content = [b \in Buffers |-> {}]
    /\ got_bytes = 0 /\ fid = 0 /\ seq = 0 /\ bfh_err = FALSE
    /\ hold_seq = 0 /\ hold_bfh_err = FALSE
    /\ last_seq = 0 /\ source = "B" /\ frame = {}
    /\ transfer = NULL /\ packet = <<0, 1>> /\ fate = "lost"
    /\ pc = [t \in Threads |-> IF t = Ev THEN "poll" ELSE "off"]
    /\ camera \in {0, 1} \X (1..Parts) /\ burst = 0
-----------------------------------------------------------------------------
(* Forms of the operators below that a plausible slip would give; the      *)
(* checked properties must reject them.                                    *)

\* The FID bit of the camera's frame n differs from the one seen last while
\* image data is waiting.
FlippedNever(n) == FALSE
Flipped(n) == fid # n % 2 /\ got_bytes # 0

\* _uvc_swap_buffers takes cb_mutex.
MaySwapUnlocked == TRUE
MaySwap == cb_mutex = NULL

ExchangeForgotten == holdbuf' = outbuf /\ UNCHANGED outbuf
Exchange == holdbuf' = outbuf /\ outbuf' = holdbuf

\* uvc_stream_stop waits until every transfer is deleted.
DrainedAtOnce == TRUE
Drained == \A t \in Transfers : transfers[t] = "null"

\* Whom the broadcasts of _uvc_swap_buffers and _uvc_delete_transfer wake.
WokenBySwapNone == {}
WokenBySwap == Waiters
WokenByDeleteNone == {}
WokenByDelete == Waiters
-----------------------------------------------------------------------------
(* Ctl: uvc_start_streaming_bandwidth, then uvc_stop_streaming.            *)

\* Open and start as far as the submission.  A failure before the transfers
\* are set up closes the stream at once.
uvc_stream_start ==
    /\ pc[Ctl] = "off"
    /\ handle' = "open"
    /\ \/ /\ running' = TRUE
          /\ transfers' = [t \in Transfers |-> "idle"]
          /\ pc' = [pc EXCEPT ![Ctl] = "submit", ![User] = "lock"]
       \/ /\ Goto(Ctl, "free")
          /\ UNCHANGED <<running, transfers>>
    /\ UNCHANGED <<cb_mutex, assembly, listener, transfer, delivery>>

\* A failure leaves the transfers submitted before it, and User, as they are.
SubmitTransfer ==
    /\ pc[Ctl] = "submit"
    /\ \E t \in Transfers :
        /\ transfers[t] = "idle"
        /\ \/ /\ transfers' = [transfers EXCEPT ![t] = "inflight"]
              /\ Goto(Ctl, IF \A u \in Transfers \ {t} : transfers[u] # "idle"
                           THEN "streaming" ELSE "submit")
              /\ UNCHANGED running
           \/ /\ SubmitFails
              /\ running' = FALSE
              /\ Goto(Ctl, "free")
              /\ UNCHANGED transfers
    /\ UNCHANGED <<handle, cb_mutex, assembly, listener, transfer, delivery>>

\* uvc_stream_close tests running, uvc_stream_stop tests it again.
uvc_stop_streaming ==
    /\ Jump(Ctl, "streaming", IF running THEN "stop" ELSE "free")
    /\ UNCHANGED <<stream, transfers, cb_mutex, assembly, listener, transfer, delivery>>

uvc_stream_stop ==
    /\ Jump(Ctl, "stop", IF running THEN "cancel" ELSE "free")
    /\ running' = FALSE
    /\ UNCHANGED <<handle, transfers, cb_mutex, assembly, listener, transfer, delivery>>

Cancelled == [t \in Transfers |-> IF transfers[t] = "inflight" THEN "cancelled" ELSE transfers[t]]

\* A transfer in its callback is not found by libusb_cancel_transfer.
StopCancel ==
    /\ \/ pc[Ctl] = "cancel" /\ transfers' = Cancelled
       \/ pc[Ctl] = "woken" /\ UNCHANGED transfers
    /\ cb_mutex = NULL
    /\ \/ Drained /\ GotoAndBroadcast(Ctl, "join", Waiters)
       \/ ~Drained /\ Goto(Ctl, "parked")
    /\ UNCHANGED <<stream, cb_mutex, assembly, listener, transfer, delivery>>

StopJoin ==
    /\ Jump(Ctl, "join", "free") /\ pc[User] = "exit"
    /\ UNCHANGED <<stream, transfers, cb_mutex, assembly, listener, transfer, delivery>>

\* The rest of uvc_stream_close frees the buffers and the handle.
CloseFree ==
    /\ Jump(Ctl, "free", "closed")
    /\ handle' = "closed"
    /\ UNCHANGED <<running, transfers, cb_mutex, assembly, listener, transfer, delivery>>

CtlStep == SubmitTransfer \/ uvc_stream_stop \/ StopCancel \/ StopJoin \/ CloseFree
-----------------------------------------------------------------------------
(* Ev: _uvc_stream_callback.                                               *)

Begin(t) ==
    /\ pc[Ev] = "poll" /\ transfers[t] \in {"inflight", "cancelled"}
    /\ transfers' = [transfers EXCEPT ![t] = "callback"]
    /\ transfer' = t

NextPacket(c) == IF c[2] = Parts THEN <<c[1] + 1, 1>> ELSE <<c[1], c[2] + 1>>

\* A packet carries a header and data ("good"), or a header alone ("empty").
\* "error_bit": the same as "good" when bulk, dropped when isochronous.
\* "bogus": isochronous and shorter than its header, which is read all the
\* same.  "fault": bad status or no buffer, or bulk and shorter than its
\* header.  "lost": it brings nothing.
Fates == {"good", "empty", "error_bit", "fault", "lost"} \cup (IF Bulk THEN {} ELSE {"bogus"})
HeaderRead(f) == f \in {"good", "empty", "bogus"} \/ (f = "error_bit" /\ Bulk)

\* The first packet of a completed transfer, or the next one of an
\* isochronous transfer, which has up to 32.
Deliver(t, f) ==
    /\ \/ Begin(t)
       \/ /\ pc[Ev] = "next" /\ transfer = t /\ ~Bulk
          /\ UNCHANGED <<transfers, transfer>>
    /\ camera[1] <= MaxFrames
    /\ HeaderRead(f) \/ burst < MaxBurst
    /\ burst' = IF HeaderRead(f) THEN 0 ELSE burst + 1
    /\ packet' = camera /\ fate' = f
    /\ camera' = NextPacket(camera)
    /\ Goto(Ev, IF HeaderRead(f) THEN "header" ELSE "next")
    /\ bfh_err' = (bfh_err \/ f = "fault")
    /\ UNCHANGED <<stream, cb_mutex, outbuf, holdbuf, content, got_bytes, fid, seq,
                   hold_seq, hold_bfh_err, listener>>

\* Time-out, stall or overflow: resubmitted.  Error or cancelled: deleted.
Unread(t) ==
    /\ Begin(t)
    /\ \E next \in {"finish", "delete"} : Goto(Ev, next)
    /\ UNCHANGED <<stream, cb_mutex, assembly, listener, delivery>>

NoDevice(t) ==
    /\ Unplug /\ Begin(t)
    /\ running' = FALSE
    /\ Goto(Ev, "delete")
    /\ UNCHANGED <<handle, cb_mutex, assembly, listener, delivery>>

_uvc_swap_buffers(label) ==
    /\ MaySwap
    /\ Exchange
    /\ hold_bfh_err' = bfh_err /\ hold_seq' = seq
    /\ seq' = seq + 1 /\ got_bytes' = 0 /\ bfh_err' = FALSE
    /\ GotoAndBroadcast(Ev, label, WokenBySwap)

Header ==
    /\ pc[Ev] = "header"
    /\ \/ Flipped(packet[1]) /\ _uvc_swap_buffers("data")
       \/ /\ ~Flipped(packet[1]) /\ Goto(Ev, "data")
          /\ UNCHANGED <<outbuf, holdbuf, got_bytes, seq, bfh_err, hold_seq, hold_bfh_err>>
    /\ fid' = packet[1] % 2
    /\ UNCHANGED <<stream, transfers, cb_mutex, content, listener, transfer, delivery>>

Data ==
    /\ pc[Ev] = "data"
    /\ \/ /\ fate = "bogus" /\ Goto(Ev, "next")
          /\ bfh_err' = TRUE
          /\ UNCHANGED <<content, got_bytes>>
       \/ /\ fate = "empty" /\ Goto(Ev, "eof")
          /\ UNCHANGED <<content, got_bytes, bfh_err>>
       \/ /\ fate \in {"good", "error_bit"} /\ Goto(Ev, "eof")
          /\ content' = [content EXCEPT ![outbuf] =
                           {packet} \cup (IF got_bytes = 0 THEN {} ELSE @)]
          /\ got_bytes' = got_bytes + 1
          /\ UNCHANGED bfh_err
    /\ UNCHANGED <<stream, transfers, cb_mutex, outbuf, holdbuf, fid, seq, hold_seq,
                   hold_bfh_err, listener, transfer, delivery>>

\* A bulk payload without data has its EOF bit ignored.
EndOfFrame ==
    /\ pc[Ev] = "eof"
    /\ IF Eof /\ packet[2] = Parts /\ got_bytes # 0 /\ ~(Bulk /\ fate = "empty")
       THEN _uvc_swap_buffers("next")
       ELSE /\ Goto(Ev, "next")
            /\ UNCHANGED <<outbuf, holdbuf, got_bytes, seq, bfh_err, hold_seq, hold_bfh_err>>
    /\ UNCHANGED <<stream, transfers, cb_mutex, content, fid, listener, transfer, delivery>>

\* running is read first, the transfer is submitted in a later step; the
\* result of libusb_submit_transfer is not looked at.
Resubmit ==
    /\ \/ /\ pc[Ev] \in {"next", "finish"}
          /\ Goto(Ev, IF running THEN "resubmit" ELSE "delete")
          /\ UNCHANGED transfers
       \/ /\ Jump(Ev, "resubmit", "poll")
          /\ \E s \in {"inflight"} \cup (IF ResubmitFails THEN {"dropped"} ELSE {}) :
               transfers' = [transfers EXCEPT ![transfer] = s]
    /\ UNCHANGED <<stream, cb_mutex, assembly, listener, transfer, delivery>>

_uvc_delete_transfer ==
    /\ pc[Ev] = "delete" /\ cb_mutex = NULL
    /\ transfers' = [transfers EXCEPT ![transfer] = "null"]
    /\ GotoAndBroadcast(Ev, "poll", WokenByDelete)
    /\ UNCHANGED <<stream, cb_mutex, assembly, listener, transfer, delivery>>

_uvc_stream_callback ==
    \E t \in Transfers : (\E f \in Fates : Deliver(t, f)) \/ Unread(t) \/ NoDevice(t)

EvStep == Header \/ Data \/ EndOfFrame \/ Resubmit \/ _uvc_delete_transfer
-----------------------------------------------------------------------------
(* User: _uvc_user_caller.                                                 *)

\* Both the wait's predicate and what follows it, under cb_mutex.
UserLook ==
    /\ pc[User] \in {"lock", "woken"} /\ cb_mutex = NULL
    /\ \/ /\ ~running /\ Goto(User, "exit")
          /\ UNCHANGED <<cb_mutex, last_seq, source>>
       \/ /\ running /\ hold_seq = last_seq /\ Goto(User, "parked")
          /\ UNCHANGED <<cb_mutex, last_seq, source>>
       \/ /\ running /\ hold_seq # last_seq /\ hold_bfh_err /\ Goto(User, "skip")
          /\ last_seq' = hold_seq
          /\ UNCHANGED <<cb_mutex, source>>
       \/ /\ running /\ hold_seq # last_seq /\ ~hold_bfh_err /\ Goto(User, "populate")
          /\ cb_mutex' = User /\ source' = holdbuf
          /\ UNCHANGED last_seq
    /\ UNCHANGED <<stream, transfers, assembly, frame, transfer, delivery>>

\* The end of _uvc_populate_frame's memcpy.  last_seq, a local of this thread,
\* changes with it.
_uvc_populate_frame ==
    /\ Jump(User, "populate", "test")
    /\ frame' = content[source] /\ last_seq' = hold_seq
    /\ cb_mutex' = NULL
    /\ UNCHANGED <<stream, transfers, assembly, source, transfer, delivery>>

\* hold_bfh_err is read once more, now without cb_mutex.
UserTest ==
    /\ pc[User] \in {"test", "skip"}
    /\ Goto(User, IF hold_bfh_err THEN "lock" ELSE "call")
    /\ UNCHANGED <<stream, transfers, cb_mutex, assembly, listener, transfer, delivery>>

\* user_cb returns.
UserReturn ==
    /\ Jump(User, "call", "lock")
    /\ UNCHANGED <<stream, transfers, cb_mutex, assembly, listener, transfer, delivery>>

UserStep == UserLook \/ _uvc_populate_frame \/ UserTest \/ UserReturn
-----------------------------------------------------------------------------
SpuriousWakeup ==
    /\ \E t \in {Ctl, User} : Jump(t, "parked", "woken")
    /\ UNCHANGED <<stream, transfers, cb_mutex, assembly, listener, transfer, delivery>>

\* What happens to a freed handle is not defined.
Next ==
    /\ handle # "closed"
    /\ \/ uvc_stream_start \/ uvc_stop_streaming \/ CtlStep
       \/ _uvc_stream_callback \/ EvStep
       \/ UserStep
       \/ SpuriousWakeup

Spec == Init /\ [][Next]_vars

\* Each thread is scheduled, user_cb returns, and libusb ends every submitted
\* transfer sooner or later: with data, by its 5 s time-out or cancelled.
Fairness ==
    /\ WF_vars(handle # "closed" /\ CtlStep)
    /\ WF_vars(handle # "closed" /\ EvStep)
    /\ WF_vars(handle # "closed" /\ UserStep)
    /\ \A t \in Transfers : SF_vars(handle # "closed" /\ Unread(t))

FairSpec == Spec /\ Fairness
-----------------------------------------------------------------------------
CtlLabels == {"off", "submit", "streaming", "stop", "cancel", "parked", "woken", "join",
              "free", "closed"}
EvLabels == {"poll", "header", "data", "eof", "next", "finish", "resubmit",
             "delete"}
UserLabels == {"off", "lock", "parked", "woken", "populate", "test", "skip", "call", "exit"}

StreamTypes ==
    /\ handle \in {"none", "open", "closed"} /\ running \in BOOLEAN
    /\ transfers \in [Transfers -> {"null", "idle", "inflight", "cancelled", "callback", "dropped"}]
    /\ cb_mutex \in {User, NULL}
    /\ pc \in [Threads -> CtlLabels \cup EvLabels \cup UserLabels]
    /\ pc[Ctl] \in CtlLabels /\ pc[Ev] \in EvLabels /\ pc[User] \in UserLabels

AssemblyTypes ==
    /\ outbuf \in Buffers /\ holdbuf \in Buffers /\ outbuf # holdbuf
    /\ content \in [Buffers -> SUBSET Packets]
    /\ got_bytes \in Nat /\ seq \in Nat /\ hold_seq \in Nat /\ last_seq \in Nat
    /\ bfh_err \in BOOLEAN /\ hold_bfh_err \in BOOLEAN /\ fid \in {0, 1}
    /\ source \in Buffers /\ frame \in SUBSET Packets
    /\ transfer \in Transfers \cup {NULL} /\ packet \in Packets
    /\ camera \in Packets /\ burst \in Nat

\* Every variable has its type, and the buffer presented is never the one
\* being filled (_uvc_swap_buffers).
TypeOK == StreamTypes /\ AssemblyTypes

\* A frame handed to user_cb is made of packets of one camera frame: the FID
\* bit separates frames even when the packet with the EOF bit is missing, as
\* long as fewer headers are lost in a row than a frame has packets.
NoMixedFrame ==
    pc[User] = "call" => \A p, q \in frame : p[1] = q[1]

\* uvc_stream_close frees the handle only when no transfer of it is left, the
\* event thread is not in its callback and the user thread has ended.
CloseEndsEverything ==
    handle = "closed" =>
        /\ \A t \in Transfers : transfers[t] \in {"null", "idle"}
        /\ pc[Ev] = "poll" /\ pc[User] \in {"off", "exit"}

\* uvc_stream_stop, once begun, ends and the handle is freed: every transfer
\* is cancelled, completed or resubmitted once more and then deleted.
StopReturns == pc[Ctl] = "cancel" ~> handle = "closed"

\* _uvc_user_caller misses no broadcast of _uvc_swap_buffers: a frame it has
\* not seen is seen, or replaced by a later one that is.
FrameSeen == hold_seq # last_seq /\ running ~> hold_seq = last_seq \/ ~running

\* The double buffer, the sequence numbers and the copy in two steps under
\* cb_mutex implement a place for one frame with an atomic copy.
Channel ==
    INSTANCE FrameChannel WITH
        Contents <- SUBSET Packets,
        count <- seq,
        latest <- [seq |-> hold_seq, content |-> content[holdbuf], faulty |-> hold_bfh_err],
        last <- last_seq,
        copy <- frame
ImplementsChannel == Channel!Spec
=============================================================================

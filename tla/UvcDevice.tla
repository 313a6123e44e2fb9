------------------------------ MODULE UvcDevice -------------------------------
(***************************************************************************)
(* The life of a UVCCamera object and of the libuvc device, handle and     *)
(* event thread under it: connect, release and the destructor, and the     *)
(* status and button callbacks.                                            *)
(*                                                                         *)
(* Each camera is used by one thread at a time: open, close and destroy of *)
(* the Java object are synchronized.  With it runs the event thread of its *)
(* context.  All cameras, and the rest of the process, share the file      *)
(* descriptors, of which 0 is taken from the start.  Streaming, which is   *)
(* UvcStream's, is here no more than its transfers being in flight.        *)
(***************************************************************************)
EXTENDS Integers, FiniteSets

CONSTANTS
    Cameras,
    MaxFd,         \* bound on descriptors
    MaxOther,      \* bound on those of the rest of the process
    MaxOpens       \* bound on calls of open of each camera

Other == "other"
Fds == 0..MaxFd

ASSUME ConstantsAssumption ==
    /\ IsFiniteSet(Cameras) /\ Cameras \cap {Other, "free"} = {}
    /\ MaxFd \in Nat /\ MaxOther \in Nat /\ MaxOpens \in [Cameras -> Nat]

VARIABLES
    fds,                  \* who holds each descriptor
    mNativePtr, mContext, mUsbFs, mDevice,  \* TRUE: not null
    mFd,
    ref,                  \* count of the uvc_device; 0: freed, or none
    devh,                 \* the handle: "none", "open", or "closed" to libusb
    status_xfer,          \* "none", "submitted", or "done" while not submitted again
    kill_handler_thread,
    objects,              \* the callback objects that exist
    callbacks,            \* those that the handle points to
    streaming,            \* its transfers: "off", "on" or "cancelled"
    pc, op, fd,           \* where the camera's caller is, in which method, with which descriptor
    ev,                   \* where the event thread is
    opens,                \* counted against MaxOpens
    used                  \* a handle of this context has been closed

camera == <<mNativePtr, mContext, mUsbFs, mDevice, mFd>>
handle == <<devh, callbacks>>
caller == <<pc, op, fd>>
counters == <<opens, used>>
vars == <<fds, camera, ref, handle, status_xfer, kill_handler_thread, objects, streaming, caller,
          ev, counters>>

Kinds == {"status", "button"}
Of(f, c, value) == [f EXCEPT ![c] = value]
Goto(c, label) == pc' = Of(pc, c, label)
Jump(c, from, to) == pc[c] = from /\ Goto(c, to)

Init ==
    /\ fds = [n \in Fds |-> IF n = 0 THEN Other ELSE "free"]
    /\ mNativePtr = [c \in Cameras |-> TRUE]
    /\ mContext = [c \in Cameras |-> FALSE] /\ mUsbFs = [c \in Cameras |-> FALSE]
    /\ mDevice = [c \in Cameras |-> FALSE] /\ mFd = [c \in Cameras |-> 0]
    /\ ref = [c \in Cameras |-> 0]
    /\ devh = [c \in Cameras |-> "none"] /\ callbacks = [c \in Cameras |-> {}]
    /\ status_xfer = [c \in Cameras |-> "none"]
    /\ kill_handler_thread = [c \in Cameras |-> FALSE]
    /\ objects = [c \in Cameras |-> {}]
    /\ streaming = [c \in Cameras |-> "off"]
    /\ pc = [c \in Cameras |-> "idle"] /\ op = [c \in Cameras |-> "none"]
    /\ fd = [c \in Cameras |-> 0]
    /\ ev = [c \in Cameras |-> "none"]
    /\ opens = [c \in Cameras |-> 0] /\ used = [c \in Cameras |-> FALSE]

-----------------------------------------------------------------------------
(* Forms of the operators below that a plausible slip would give; the      *)
(* checked properties must reject them.                                    *)

\* release forgets the descriptor it has closed.
Remembered(c) == mFd[c]
Forgotten(c) == 0

\* uvc_open counts the handle once libusb has opened the device.
CountedAnyway(c, isOpen) == ref' = Of(ref, c, ref[c] + 1)
CountedWhenOpen(c, isOpen) == ref' = IF isOpen THEN Of(ref, c, ref[c] + 1) ELSE ref

\* It starts the event thread when no other device of the context is open yet.
AddedBefore(c) == FALSE
IsFirst(c) == devh[c] = "open"

\* uvc_close waits for libusb and for the event thread before it frees the handle.
FreedAtOnce == "free"
AfterKill == "libusb_close"

\* release forgets the device, which destroy would unreference once more.
StillKnown(c) == mDevice
NoDevice(c) == Of(mDevice, c, FALSE)

\* uvc_close tells the event thread to end.
Untold(c) == kill_handler_thread[c]
Told(c) == TRUE
-----------------------------------------------------------------------------
(* File descriptors.                                                       *)

Free == {n \in Fds : fds[n] = "free"}
NextFree(n) == n \in Free /\ \A k \in Free : n <= k
OthersHold == {n \in Fds : fds[n] = Other}

OtherOpens ==
    /\ Cardinality(OthersHold) < MaxOther
    /\ \E n \in Fds : NextFree(n) /\ fds' = [fds EXCEPT ![n] = Other]
    /\ UNCHANGED <<camera, ref, handle, status_xfer, kill_handler_thread, objects, streaming,
                   caller, ev, counters>>

OtherCloses ==
    /\ \E n \in OthersHold \ {0} : fds' = [fds EXCEPT ![n] = "free"]
    /\ UNCHANGED <<camera, ref, handle, status_xfer, kill_handler_thread, objects, streaming,
                   caller, ev, counters>>

\* close(2), of whoever holds the descriptor
CloseFd(n) == fds' = [fds EXCEPT ![n] = "free"]
-----------------------------------------------------------------------------
(* UVCCamera::connect.  On an open camera it only returns an error.        *)

Unref(c) == ref' = Of(ref, c, ref[c] - 1)

connect(c) ==
    /\ pc[c] = "idle" /\ mNativePtr[c] /\ devh[c] = "none"
    /\ opens[c] < MaxOpens[c] /\ opens' = Of(opens, c, opens[c] + 1)
    /\ mUsbFs' = Of(mUsbFs, c, TRUE)
    /\ \/ /\ ~mContext[c]       \* uvc_init2 fails
          /\ UNCHANGED <<mContext, fds, caller>>
       \/ /\ mContext' = Of(mContext, c, TRUE)
          /\ \E n \in Fds :     \* dup
               NextFree(n) /\ fds' = [fds EXCEPT ![n] = c] /\ fd' = Of(fd, c, n)
          /\ Goto(c, "get") /\ op' = Of(op, c, "connect")
    /\ UNCHANGED <<mNativePtr, mDevice, mFd, ref, handle, status_xfer, kill_handler_thread, objects,
                   streaming, ev, used>>

uvc_get_device_with_fd(c) ==
    /\ \/ /\ Jump(c, "get", "open")
          /\ ref' = Of(ref, c, 1) /\ mDevice' = Of(mDevice, c, TRUE)
       \/ Jump(c, "get", "abandon") /\ UNCHANGED <<ref, mDevice>>
    /\ UNCHANGED <<fds, mNativePtr, mContext, mUsbFs, mFd, handle, status_xfer, kill_handler_thread,
                   objects, streaming, op, fd, ev, counters>>

\* libusb takes descriptor 0 for none and tries, without the right to, to open
\* the device's file.
uvc_open(c) ==
    /\ \/ /\ Jump(c, "open", "claim") /\ fd[c] # 0
          /\ devh' = Of(devh, c, "open") /\ CountedWhenOpen(c, TRUE)
       \/ /\ Jump(c, "open", "failed")
          /\ CountedWhenOpen(c, FALSE) /\ UNCHANGED devh
    /\ UNCHANGED <<fds, camera, callbacks, status_xfer, kill_handler_thread, objects, streaming,
                   op, fd, ev, counters>>

\* The descriptors cannot be read, the interface cannot be claimed or the
\* status transfer not be submitted.
OpenFails(c) ==
    /\ Jump(c, "claim", "failed")
    /\ Unref(c) /\ devh' = Of(devh, c, "none")
    /\ UNCHANGED <<fds, camera, callbacks, status_xfer, kill_handler_thread, objects, streaming,
                   op, fd, ev, counters>>

\* The device may have no status endpoint.
OpenSucceeds(c) ==
    /\ Jump(c, "claim", "status")
    /\ \E x \in {"submitted", "none"} : status_xfer' = Of(status_xfer, c, x)
    /\ ev' = IF IsFirst(c) THEN Of(ev, c, IF kill_handler_thread[c] THEN "ended" ELSE "events")
             ELSE ev
    /\ UNCHANGED <<fds, camera, ref, handle, kill_handler_thread, objects, streaming,
                   op, fd, counters>>

ConnectUnref(c) ==
    /\ Jump(c, "failed", "abandon")
    /\ Unref(c) /\ mDevice' = Of(mDevice, c, FALSE)
    /\ UNCHANGED <<fds, mNativePtr, mContext, mUsbFs, mFd, handle, status_xfer, kill_handler_thread,
                   objects, streaming, op, fd, ev, counters>>

Abandon(c) ==
    /\ Jump(c, "abandon", "idle") /\ op' = Of(op, c, "none")
    /\ CloseFd(fd[c]) /\ fd' = Of(fd, c, 0)
    /\ UNCHANGED <<camera, ref, handle, status_xfer, kill_handler_thread, objects, streaming,
                   ev, counters>>

\* status_mutex, which the event thread holds in a callback
MutexFree(c) == ev[c] \notin Kinds

\* new UVCStatusCallback, new UVCButtonCallback: uvc_set_status_callback and
\* uvc_set_button_callback
NewCallback(c, kind, next) ==
    /\ Jump(c, kind, next) /\ MutexFree(c)
    /\ objects' = Of(objects, c, objects[c] \cup {kind})
    /\ callbacks' = Of(callbacks, c, callbacks[c] \cup {kind})
    /\ mFd' = Of(mFd, c, fd[c])
    /\ op' = IF next = "idle" THEN Of(op, c, "none") ELSE op
    /\ fd' = IF next = "idle" THEN Of(fd, c, 0) ELSE fd
    /\ UNCHANGED <<fds, mNativePtr, mContext, mUsbFs, mDevice, ref, devh, status_xfer,
                   kill_handler_thread, streaming, ev, counters>>

startPreview(c) ==
    /\ pc[c] = "idle" /\ devh[c] = "open" /\ streaming[c] = "off"
    /\ streaming' = Of(streaming, c, "on")
    /\ UNCHANGED <<fds, camera, ref, handle, status_xfer, kill_handler_thread, objects, caller,
                   ev, counters>>
-----------------------------------------------------------------------------
(* UVCCamera::release, called by close, and twice by destroy.              *)

close(c) ==
    /\ pc[c] = "idle" /\ mNativePtr[c]
    /\ mUsbFs[c]                \* otherwise it does nothing
    /\ Goto(c, "stop") /\ op' = Of(op, c, "close")
    /\ UNCHANGED <<fds, camera, ref, handle, status_xfer, kill_handler_thread, objects, streaming,
                   fd, ev, counters>>

destroy(c) ==
    /\ pc[c] = "idle" /\ mNativePtr[c]
    /\ Goto(c, "stop") /\ op' = Of(op, c, "destroy")
    /\ UNCHANGED <<fds, camera, ref, handle, status_xfer, kill_handler_thread, objects, streaming,
                   fd, ev, counters>>

\* stopPreview: cancel the transfers, and wait for the event thread to see
\* their ends
StopPreview(c) ==
    /\ Jump(c, "stop", "stopping")
    /\ streaming' = IF streaming[c] = "on" THEN Of(streaming, c, "cancelled") ELSE streaming
    /\ UNCHANGED <<fds, camera, ref, handle, status_xfer, kill_handler_thread, objects, op, fd,
                   ev, counters>>

Stopped(c) ==
    /\ streaming[c] = "off"
    /\ Jump(c, "stopping", IF devh[c] = "none" THEN "unref" ELSE "delete status")
    /\ UNCHANGED <<fds, camera, ref, handle, status_xfer, kill_handler_thread, objects, streaming,
                   op, fd, ev, counters>>

\* The handle keeps pointing to the object.
DeleteCallback(c, from, kind, next) ==
    /\ Jump(c, from, next)
    /\ objects' = Of(objects, c, objects[c] \ {kind})
    /\ UNCHANGED <<fds, camera, ref, handle, status_xfer, kill_handler_thread, streaming,
                   op, fd, ev, counters>>

uvc_close(c) ==
    /\ Jump(c, "uvc_close", AfterKill)
    /\ kill_handler_thread' = Of(kill_handler_thread, c, Told(c))
    /\ UNCHANGED <<fds, camera, ref, handle, status_xfer, objects, streaming, op, fd, ev, counters>>

\* It takes the lock under which events are handled, and the transfer out of
\* those in flight.
libusb_close(c) ==
    /\ Jump(c, "libusb_close", "join")
    /\ ev[c] \notin Kinds \cup {"resubmit"}
    /\ devh' = Of(devh, c, "closed")
    /\ UNCHANGED <<fds, camera, ref, callbacks, status_xfer, kill_handler_thread, objects,
                   streaming, op, fd, ev, counters>>

Join(c) ==
    /\ Jump(c, "join", "free") /\ ev[c] = "ended"
    /\ ev' = Of(ev, c, "none")
    /\ UNCHANGED <<fds, camera, ref, handle, status_xfer, kill_handler_thread, objects, streaming,
                   op, fd, counters>>

\* uvc_unref_device and uvc_free_devh
FreeHandle(c) ==
    /\ Jump(c, "free", "unref")
    /\ Unref(c)
    /\ devh' = Of(devh, c, "none") /\ callbacks' = Of(callbacks, c, {})
    /\ status_xfer' = Of(status_xfer, c, "none")
    /\ used' = Of(used, c, TRUE)
    /\ UNCHANGED <<fds, camera, kill_handler_thread, objects, streaming, op, fd, ev, opens>>

ReleaseUnref(c) ==
    /\ Jump(c, "unref", "close fd")
    /\ IF mDevice[c] THEN Unref(c) /\ mDevice' = NoDevice(c) ELSE UNCHANGED <<ref, mDevice>>
    /\ UNCHANGED <<fds, mNativePtr, mContext, mUsbFs, mFd, handle, status_xfer, kill_handler_thread,
                   objects, streaming, op, fd, ev, counters>>

\* The end of release.  destroy goes on to the destructor, which releases once
\* more and closes the context.
ReleaseFd(c) ==
    /\ IF mUsbFs[c]
       THEN /\ CloseFd(mFd[c])
            /\ mFd' = Of(mFd, c, Forgotten(c)) /\ mUsbFs' = Of(mUsbFs, c, FALSE)
       ELSE UNCHANGED <<fds, mFd, mUsbFs>>
    /\ \/ /\ op[c] = "destroy" /\ op' = Of(op, c, "destructor")
          /\ Jump(c, "close fd", "stop") /\ UNCHANGED <<mContext, mNativePtr>>
       \/ /\ op[c] # "destroy" /\ op' = Of(op, c, "none")
          /\ Jump(c, "close fd", "idle")
          /\ IF op[c] = "close" THEN UNCHANGED <<mContext, mNativePtr>>
             ELSE mContext' = Of(mContext, c, FALSE) /\ mNativePtr' = Of(mNativePtr, c, FALSE)
    /\ UNCHANGED <<mDevice, ref, handle, status_xfer, kill_handler_thread, objects, streaming,
                   fd, ev, counters>>
-----------------------------------------------------------------------------
(* The event thread: _uvc_handle_events                                    *)

EventKeeps == <<fds, camera, ref, handle, kill_handler_thread, objects, caller, counters>>

\* The loop ends when it sees the flag, between two rounds of libusb_handle_events.
End(c) ==
    /\ ev[c] = "events" /\ kill_handler_thread[c]
    /\ ev' = Of(ev, c, "ended")
    /\ UNCHANGED <<EventKeeps, status_xfer, streaming>>

\* The ends of the cancelled transfers
Reap(c) ==
    /\ ev[c] = "events" /\ streaming[c] = "cancelled"
    /\ streaming' = Of(streaming, c, "off")
    /\ UNCHANGED <<EventKeeps, ev, status_xfer>>

\* _uvc_status_callback: an error ends it; anything else is submitted again,
\* after a call when it is a status or a button and somebody listens.
_uvc_status_callback(c) ==
    /\ ev[c] = "events" /\ status_xfer[c] = "submitted" /\ devh[c] = "open"
    /\ status_xfer' = Of(status_xfer, c, "done")
    /\ \E place \in callbacks[c] \cup {"resubmit", "events"} : ev' = Of(ev, c, place)
    /\ UNCHANGED <<EventKeeps, streaming>>

\* The object's callback returns.
Notified(c) ==
    /\ ev[c] \in Kinds /\ ev' = Of(ev, c, "resubmit")
    /\ UNCHANGED <<EventKeeps, status_xfer, streaming>>

Resubmit(c) ==
    /\ ev[c] = "resubmit" /\ ev' = Of(ev, c, "events")
    /\ \E x \in {"submitted", "done"} : status_xfer' = Of(status_xfer, c, x)
    /\ UNCHANGED <<EventKeeps, streaming>>
-----------------------------------------------------------------------------
Call(c) == connect(c) \/ startPreview(c) \/ close(c) \/ destroy(c)

CallerStep(c) ==
    \/ uvc_get_device_with_fd(c) \/ uvc_open(c) \/ OpenFails(c) \/ OpenSucceeds(c)
    \/ ConnectUnref(c) \/ Abandon(c)
    \/ NewCallback(c, "status", "button") \/ NewCallback(c, "button", "idle")
    \/ StopPreview(c) \/ Stopped(c)
    \/ DeleteCallback(c, "delete status", "status", "delete button")
    \/ DeleteCallback(c, "delete button", "button", "uvc_close")
    \/ uvc_close(c) \/ libusb_close(c) \/ Join(c) \/ FreeHandle(c)
    \/ ReleaseUnref(c) \/ ReleaseFd(c)

EventStep(c) ==
    End(c) \/ Reap(c) \/ _uvc_status_callback(c) \/ Notified(c) \/ Resubmit(c)

Next ==
    \/ OtherOpens \/ OtherCloses
    \/ \E c \in Cameras : Call(c) \/ CallerStep(c) \/ EventStep(c)

Spec == Init /\ [][Next]_vars

\* The threads run and the application's callbacks return; a round of events
\* sees all that has ended, and is followed by a look at the flag.
Fairness ==
    \A c \in Cameras :
        WF_vars(CallerStep(c)) /\ WF_vars(EventStep(c)) /\ SF_vars(Reap(c) \/ End(c))

FairSpec == Spec /\ Fairness
-----------------------------------------------------------------------------
Labels == {"idle", "get", "open", "claim", "failed", "abandon", "status", "button", "stop",
           "stopping", "delete status", "delete button", "uvc_close", "libusb_close", "join",
           "free", "unref", "close fd"}

TypeOK ==
    /\ fds \in [Fds -> {"free", Other} \cup Cameras]
    /\ {mNativePtr, mContext, mUsbFs, mDevice, kill_handler_thread} \subseteq [Cameras -> BOOLEAN]
    /\ {mFd, fd} \subseteq [Cameras -> Fds]
    /\ ref \in [Cameras -> 0..2]
    /\ devh \in [Cameras -> {"none", "open", "closed"}]
    /\ {callbacks, objects} \subseteq [Cameras -> SUBSET Kinds]
    /\ status_xfer \in [Cameras -> {"none", "submitted", "done"}]
    /\ streaming \in [Cameras -> {"off", "on", "cancelled"}]
    /\ pc \in [Cameras -> Labels]
    /\ op \in [Cameras -> {"none", "connect", "close", "destroy", "destructor"}]
    /\ ev \in [Cameras -> {"none", "events", "resubmit", "ended"} \cup Kinds]
    /\ opens \in [Cameras -> Nat] /\ used \in [Cameras -> BOOLEAN]

Connected(c) == pc[c] = "idle" /\ devh[c] = "open"
Released(c) == pc[c] = "idle" /\ devh[c] = "none"

\* The descriptor a connected camera talks to its device through is its own:
\* no failed connect, release or destructor of another camera closes it.  A
\* release after a failed connect does close a descriptor that is not its own,
\* but that is 0, with which no camera is connected.
DescriptorKept ==
    \A c \in Cameras : Connected(c) => fds[mFd[c]] = c

\* A camera that is not connected, because connect failed anywhere or because
\* it was released, holds nothing: no descriptor, no device, no transfer, no
\* callback object and no thread.
NothingLeft ==
    \A c \in Cameras : Released(c) =>
        /\ \A n \in Fds : fds[n] # c
        /\ ref[c] = 0 /\ ~mDevice[c]
        /\ status_xfer[c] = "none" /\ streaming[c] = "off"
        /\ objects[c] = {} /\ callbacks[c] = {} /\ ev[c] = "none"

\* "threads must have died" (uvc_free_devh): the event thread is in a callback
\* only with an open handle; and the object it calls exists, but between its
\* delete in release and libusb_close.
CallbackAlive ==
    \A c \in Cameras : ev[c] \in Kinds \cup {"resubmit"} =>
        /\ devh[c] = "open"
        /\ ev[c] \in objects[c] \cup {"resubmit"}
             \/ pc[c] \in {"delete button", "uvc_close", "libusb_close"}

\* The first handle of a context has an event thread as long as it is open.
\* A later one has none: kill_handler_thread stays 1.
EventsHandled ==
    \A c \in Cameras : Connected(c) /\ ~used[c] => ev[c] \notin {"none", "ended"}

\* close and destroy of the first handle return.  With a later one that streams
\* they wait for ever: nobody sees the end of its transfers.
ReleaseReturns ==
    \A c \in Cameras : pc[c] = "stop" /\ ~used[c] ~> pc[c] = "idle"
=============================================================================

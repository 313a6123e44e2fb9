--------------------------- MODULE UvcDevice_proofs ---------------------------
(***************************************************************************)
(* Proofs about UvcDevice, for any cameras, descriptors and calls.         *)
(*                                                                         *)
(* Each camera's invariant is local to it but for the descriptors, which   *)
(* are shared: what keeps a camera's descriptor is that every other camera *)
(* closes only its own or 0.                                               *)
(***************************************************************************)
EXTENDS UvcDevice, TLAPS

Opening == {"get", "open", "claim", "failed", "abandon", "status", "button"}

Types ==
    /\ fds \in [Fds -> {"free", Other} \cup Cameras]
    /\ mNativePtr \in [Cameras -> BOOLEAN] /\ mContext \in [Cameras -> BOOLEAN]
    /\ mUsbFs \in [Cameras -> BOOLEAN] /\ mDevice \in [Cameras -> BOOLEAN]
    /\ kill_handler_thread \in [Cameras -> BOOLEAN] /\ used \in [Cameras -> BOOLEAN]
    /\ mFd \in [Cameras -> Fds] /\ fd \in [Cameras -> Fds]
    /\ ref \in [Cameras -> Int]
    /\ devh \in [Cameras -> {"none", "open", "closed"}]
    /\ callbacks \in [Cameras -> SUBSET Kinds] /\ objects \in [Cameras -> SUBSET Kinds]
    /\ status_xfer \in [Cameras -> {"none", "submitted", "done"}]
    /\ streaming \in [Cameras -> {"off", "on", "cancelled"}]
    /\ pc \in [Cameras -> Labels]
    /\ op \in [Cameras -> {"none", "connect", "close", "destroy", "destructor"}]
    /\ ev \in [Cameras -> {"none", "events", "resubmit", "ended"} \cup Kinds]
    /\ opens \in [Cameras -> Nat]

\* The descriptor the camera has, or is about to have.
NumberOf(c) == IF pc[c] \in Opening THEN fd[c] ELSE mFd[c]

Descriptors(c) ==
    /\ NumberOf(c) # 0 => fds[NumberOf(c)] = c
    /\ \A n \in Fds : fds[n] = c => n = NumberOf(c) /\ (n = 0 => pc[c] \in Opening)
    /\ pc[c] \in Opening \ {"button"} => mFd[c] = 0
    /\ pc[c] = "button" => mFd[c] = fd[c]
    /\ pc[c] = "idle" /\ devh[c] = "none" => mFd[c] = 0
    /\ devh[c] = "open" => NumberOf(c) # 0
    /\ mFd[c] # 0 \/ pc[c] \in Opening => mUsbFs[c]

\* One reference for the pointer of the camera and one for the handle.
Count(c) ==
    ref[c] = (IF mDevice[c] THEN 1 ELSE 0) + (IF devh[c] # "none" THEN 1 ELSE 0)

Stage(c) ==
    /\ pc[c] \in {"get", "abandon", "close fd"} => ~mDevice[c] /\ devh[c] = "none"
    /\ pc[c] \in {"open", "failed"} => mDevice[c] /\ devh[c] = "none"
    /\ pc[c] \in {"claim", "status", "button", "delete status", "delete button", "uvc_close",
                  "libusb_close"} => mDevice[c] /\ devh[c] = "open"
    /\ pc[c] \in {"idle", "stop", "stopping"} =>
         devh[c] # "closed" /\ (mDevice[c] <=> devh[c] = "open")
    /\ pc[c] \in {"join", "free"} => mDevice[c] /\ devh[c] = "closed"
    /\ pc[c] = "unref" => devh[c] = "none"

References(c) == Count(c) /\ Stage(c)

Deleting == {"delete status", "delete button", "uvc_close", "libusb_close", "join", "free"}

Callbacks(c) ==
    /\ devh[c] = "none" \/ pc[c] = "claim" =>
         objects[c] = {} /\ callbacks[c] = {} /\ status_xfer[c] = "none" /\ ev[c] = "none"
    /\ devh[c] = "none" \/ pc[c] \in Deleting \cup Opening => streaming[c] = "off"
    /\ devh[c] = "open" /\ pc[c] \notin Deleting \ {"delete status"} => callbacks[c] \subseteq objects[c]
    /\ pc[c] = "delete button" => objects[c] \subseteq {"button"}
    /\ pc[c] \in {"uvc_close", "libusb_close", "join", "free"} => objects[c] = {}

EventThread(c) ==
    /\ pc[c] = "free" => ev[c] = "none"
    /\ ev[c] \in Kinds \cup {"resubmit"} => devh[c] = "open"
    /\ ev[c] \in Kinds => ev[c] \in callbacks[c]
    /\ kill_handler_thread[c] => used[c] \/ pc[c] \in {"libusb_close", "join", "free"}
    /\ ev[c] = "ended" => kill_handler_thread[c]
    /\ devh[c] = "open" /\ pc[c] # "claim" => ev[c] # "none"

IndInv ==
    /\ Types
    /\ \A c \in Cameras : Descriptors(c) /\ References(c) /\ Callbacks(c) /\ EventThread(c)
-----------------------------------------------------------------------------
Local(c) == Descriptors(c) /\ References(c) /\ Callbacks(c) /\ EventThread(c)

LEMMA InitInd == Init => IndInv
<1> SUFFICES ASSUME Init PROVE IndInv
  OBVIOUS
<1> USE ConstantsAssumption DEF Init
<1>1. 0 \in Fds
  BY DEF Fds
<1>2. Types
  BY <1>1 DEF Types, Labels
<1>3. ASSUME NEW c \in Cameras PROVE Local(c)
  BY DEF Local, Descriptors, NumberOf, References, Count, Stage, Callbacks, EventThread, Opening,
     Deleting, Kinds
<1> QED
  BY <1>2, <1>3 DEF IndInv, Local

\* Who changes nothing of another camera, and frees at most descriptor 0 of
\* those that are not its own, keeps the other's invariant.
LEMMA Others ==
  ASSUME IndInv, NEW c \in Cameras, NEW e \in Cameras, e # c,
         pc'[e] = pc[e], fd'[e] = fd[e], mFd'[e] = mFd[e], mUsbFs'[e] = mUsbFs[e],
         mDevice'[e] = mDevice[e], ref'[e] = ref[e], devh'[e] = devh[e],
         callbacks'[e] = callbacks[e], objects'[e] = objects[e], status_xfer'[e] = status_xfer[e],
         streaming'[e] = streaming[e], ev'[e] = ev[e], used'[e] = used[e],
         kill_handler_thread'[e] = kill_handler_thread[e],
         \A n \in Fds : \/ fds'[n] = fds[n]
                        \/ n = 0 /\ fds'[n] = "free"
                        \/ fds[n] # e /\ fds'[n] # e
  PROVE  Local(e)'
<1>1. NumberOf(e)' = NumberOf(e) /\ NumberOf(e) \in Fds
  BY DEF NumberOf, IndInv, Types
<1>2. e # "free"
  BY ConstantsAssumption
<1>3. Descriptors(e)'
  BY <1>1, <1>2 DEF IndInv, Descriptors
<1>4. References(e)' /\ Callbacks(e)' /\ EventThread(e)'
  BY ZenonT(60) DEF IndInv, References, Count, Stage, Callbacks, EventThread
<1> QED
  BY <1>3, <1>4 DEF Local

LEMMA Zero == 0 \in Fds
BY ConstantsAssumption DEF Fds

LEMMA Updated ==
  ASSUME NEW S, NEW f \in [Cameras -> S], NEW c \in Cameras, NEW v \in S
  PROVE  Of(f, c, v) \in [Cameras -> S]
BY DEF Of

\* The steps of a camera's caller.
CallerMove(c) ==
    \/ connect(c) \/ uvc_get_device_with_fd(c) \/ uvc_open(c) \/ OpenFails(c) \/ OpenSucceeds(c)
    \/ ConnectUnref(c) \/ Abandon(c) \/ startPreview(c)
    \/ NewCallback(c, "status", "button") \/ NewCallback(c, "button", "idle")
    \/ close(c) \/ destroy(c) \/ StopPreview(c) \/ Stopped(c)
    \/ DeleteCallback(c, "delete status", "status", "delete button")
    \/ DeleteCallback(c, "delete button", "button", "uvc_close")
    \/ uvc_close(c) \/ libusb_close(c) \/ Join(c) \/ FreeHandle(c)
    \/ ReleaseUnref(c) \/ ReleaseFd(c)

LEMMA CallerTypes == ASSUME Types, NEW c \in Cameras, CallerMove(c) PROVE Types'
<1>0. opens[c] + 1 \in Nat
      /\ \A k \in {1, ref[c] + 1, ref[c] - 1} : Of(ref, c, k) \in [Cameras -> Int]
  BY DEF Types, Of
<1> USE DEF CallerMove, connect, uvc_get_device_with_fd, uvc_open, OpenFails, OpenSucceeds, ConnectUnref, Abandon,
     startPreview, NewCallback, close, destroy, StopPreview, Stopped, DeleteCallback, uvc_close, libusb_close,
     Join, FreeHandle, ReleaseUnref, ReleaseFd, camera, handle, caller, counters, Jump, CountedWhenOpen, Unref, CloseFd
<1>1. pc' \in [Cameras -> Labels]
  <2>1. pc \in [Cameras -> Labels] /\ \A l \in Labels : Of(pc, c, l) \in [Cameras -> Labels]
    BY Updated DEF Types
  <2> QED
    BY ZenonT(60), <2>1 DEF Labels, Goto, AfterKill
<1>2. ref' \in [Cameras -> Int]
  <2> DEFINE T == [Cameras -> Int]
  <2>2. ref \in T /\ Of(ref, c, 1) \in T /\ Of(ref, c, ref[c] + 1) \in T
        /\ Of(ref, c, ref[c] - 1) \in T
    BY <1>0 DEF Types
  <2> HIDE DEF T
  <2>3. ref' \in T
    BY <2>2
  <2> QED
    BY <2>3 DEF T
<1>3. ev' \in [Cameras -> {"none", "events", "resubmit", "ended"} \cup Kinds]
  <2> DEFINE T == [Cameras -> {"none", "events", "resubmit", "ended"} \cup Kinds]
  <2>2. ev \in T /\ Of(ev, c, "ended") \in T /\ Of(ev, c, "events") \in T /\ Of(ev, c, "none") \in T
    BY Updated DEF Types
  <2> HIDE DEF T
  <2>3. ev' \in T
    BY <2>2
  <2> QED
    BY <2>3 DEF T
<1>4. fds' \in [Fds -> {"free", Other} \cup Cameras]
  BY DEF Types
<1>5. mFd' \in [Cameras -> Fds] /\ fd' \in [Cameras -> Fds]
  <2> DEFINE T == [Cameras -> Fds]
  <2>2. mFd \in T /\ fd \in T /\ Of(mFd, c, 0) \in T /\ Of(mFd, c, fd[c]) \in T
        /\ Of(fd, c, 0) \in T
        /\ \A n \in Fds : Of(fd, c, n) \in T
    BY Updated, Zero DEF Types
  <2> HIDE DEF T
  <2>3. mFd' \in T /\ fd' \in T
    BY <2>2 DEF Forgotten
  <2> QED
    BY <2>3 DEF T
<1>6. opens' \in [Cameras -> Nat]
  <2> DEFINE T == [Cameras -> Nat]
  <2>2. opens \in T /\ Of(opens, c, opens[c] + 1) \in T
    BY <1>0, Updated DEF Types
  <2> HIDE DEF T
  <2>3. opens' \in T
    BY <2>2
  <2> QED
    BY <2>3 DEF T
<1>7. /\ mNativePtr' \in [Cameras -> BOOLEAN] /\ mContext' \in [Cameras -> BOOLEAN]
      /\ mUsbFs' \in [Cameras -> BOOLEAN] /\ mDevice' \in [Cameras -> BOOLEAN]
      /\ kill_handler_thread' \in [Cameras -> BOOLEAN] /\ used' \in [Cameras -> BOOLEAN]
  <2> DEFINE T == [Cameras -> BOOLEAN]
  <2>1. \A f \in T : Of(f, c, TRUE) \in T /\ Of(f, c, FALSE) \in T
    BY Updated
  <2>2. {mNativePtr, mContext, mUsbFs, mDevice, kill_handler_thread, used} \subseteq T
    BY DEF Types
  <2> HIDE DEF T
  <2>3. mNativePtr' \in T /\ mContext' \in T
    BY <2>1, <2>2
  <2>4. mUsbFs' \in T /\ mDevice' \in T
    BY <2>1, <2>2 DEF NoDevice
  <2>5. kill_handler_thread' \in T /\ used' \in T
    BY <2>1, <2>2 DEF Told
  <2> QED
    BY <2>3, <2>4, <2>5 DEF T
<1>8. devh' \in [Cameras -> {"none", "open", "closed"}]
  <2> DEFINE T == [Cameras -> {"none", "open", "closed"}]
  <2>2. devh \in T /\ Of(devh, c, "none") \in T /\ Of(devh, c, "open") \in T
        /\ Of(devh, c, "closed") \in T
    BY Updated DEF Types
  <2> HIDE DEF T
  <2>3. devh' \in T
    BY <2>2
  <2> QED
    BY <2>3 DEF T
<1>9. callbacks' \in [Cameras -> SUBSET Kinds] /\ objects' \in [Cameras -> SUBSET Kinds]
  <2> DEFINE T == [Cameras -> SUBSET Kinds]
  <2>1. \A f \in T, k \in Kinds : f[c] \cup {k} \in SUBSET Kinds /\ f[c] \ {k} \in SUBSET Kinds
    OBVIOUS
  <2>2. /\ \A f \in T, k \in Kinds : Of(f, c, f[c] \cup {k}) \in T /\ Of(f, c, f[c] \ {k}) \in T
        /\ \A f \in T : Of(f, c, {}) \in T
    BY <2>1, Updated
  <2>3. callbacks \in T /\ objects \in T /\ "status" \in Kinds /\ "button" \in Kinds
    BY DEF Types, Kinds
  <2> HIDE DEF T
  <2>4. callbacks' \in T /\ objects' \in T
    BY <2>2, <2>3
  <2> QED
    BY <2>4 DEF T
<1>10. status_xfer' \in [Cameras -> {"none", "submitted", "done"}]
  <2> DEFINE T == [Cameras -> {"none", "submitted", "done"}]
  <2>2. status_xfer \in T /\ Of(status_xfer, c, "none") \in T
        /\ Of(status_xfer, c, "submitted") \in T
    BY Updated DEF Types
  <2> HIDE DEF T
  <2>3. status_xfer' \in T
    BY <2>2
  <2> QED
    BY <2>3 DEF T
<1>11. streaming' \in [Cameras -> {"off", "on", "cancelled"}]
  <2> DEFINE T == [Cameras -> {"off", "on", "cancelled"}]
  <2>2. streaming \in T /\ Of(streaming, c, "on") \in T /\ Of(streaming, c, "cancelled") \in T
    BY Updated DEF Types
  <2> HIDE DEF T
  <2>3. streaming' \in T
    BY <2>2
  <2> QED
    BY <2>3 DEF T
<1>12. op' \in [Cameras -> {"none", "connect", "close", "destroy", "destructor"}]
  <2> DEFINE T == [Cameras -> {"none", "connect", "close", "destroy", "destructor"}]
  <2>2. op \in T /\ Of(op, c, "none") \in T /\ Of(op, c, "connect") \in T
        /\ Of(op, c, "close") \in T
        /\ Of(op, c, "destroy") \in T /\ Of(op, c, "destructor") \in T
    BY Updated DEF Types
  <2> HIDE DEF T
  <2>3. op' \in T
    BY <2>2
  <2> QED
    BY <2>3 DEF T
<1> QED
  BY <1>1, <1>2, <1>3, <1>4, <1>5, <1>6, <1>7, <1>8, <1>9, <1>10, <1>11, <1>12 DEF Types
LEMMA Written == ASSUME NEW f, NEW c \in DOMAIN f, NEW v PROVE Of(f, c, v)[c] = v
BY DEF Of

LEMMA WrittenFlag ==
  ASSUME NEW f \in [Cameras -> BOOLEAN], NEW c \in Cameras
  PROVE  Of(f, c, TRUE)[c] /\ ~Of(f, c, FALSE)[c]
BY DEF Of

LEMMA Domains ==
  ASSUME Types, NEW c \in Cameras
  PROVE  /\ c \in DOMAIN pc /\ c \in DOMAIN op /\ c \in DOMAIN fd /\ c \in DOMAIN mFd
         /\ c \in DOMAIN mUsbFs /\ c \in DOMAIN mDevice /\ c \in DOMAIN ref
         /\ c \in DOMAIN devh /\ c \in DOMAIN callbacks /\ c \in DOMAIN objects
         /\ c \in DOMAIN status_xfer /\ c \in DOMAIN kill_handler_thread
         /\ c \in DOMAIN streaming /\ c \in DOMAIN ev /\ c \in DOMAIN used
BY DEF Types

LEMMA CallerLocal ==
  ASSUME IndInv, NEW c \in Cameras, CallerMove(c)
  PROVE  Local(c)'
<1>d. Types /\ Descriptors(c) /\ References(c) /\ Callbacks(c) /\ EventThread(c)
  BY DEF IndInv
<1>f. Of(mDevice, c, TRUE)[c] /\ ~Of(mDevice, c, FALSE)[c] /\ Of(mUsbFs, c, TRUE)[c] /\ ~Of(mUsbFs, c, FALSE)[c]
  BY <1>d, WrittenFlag DEF Types
<1>t. /\ fds \in [Fds -> {"free", Other} \cup Cameras] /\ mFd[c] \in Fds /\ fd[c] \in Fds
      /\ ref[c] \in Int /\ objects[c] \subseteq Kinds /\ c # "free" /\ c # Other
      /\ mDevice[c] \in BOOLEAN /\ mUsbFs[c] \in BOOLEAN
      /\ devh[c] \in {"none", "open", "closed"}
  BY <1>d, ConstantsAssumption DEF Types
<1>1. CASE connect(c)
  <2>0. /\ pc[c] = "idle" /\ devh[c] = "none" /\ mUsbFs'[c]
        /\ \/ pc'[c] = "idle" /\ fds' = fds /\ fd'[c] = fd[c]
           \/ /\ pc'[c] = "get" /\ fd'[c] \in Fds /\ fds[fd'[c]] = "free"
              /\ fds' = [fds EXCEPT ![fd'[c]] = c]
    <3>1. pc[c] = "idle" /\ devh[c] = "none" /\ mUsbFs'[c]
      BY <1>1, <1>d, <1>f, Domains, Written DEF connect, NextFree, Free, Goto, caller
    <3>2. ASSUME fds' = fds, fd' = fd, pc' = pc PROVE pc'[c] = "idle" /\ fds' = fds /\ fd'[c] = fd[c]
      BY <1>1, <1>d, <1>f, Domains, Written, <3>1, <3>2 DEF connect, NextFree, Free, Goto, caller
    <3>3. ASSUME pc' = Of(pc, c, "get"), NEW n \in Fds, NextFree(n), fds' = [fds EXCEPT ![n] = c], fd' = Of(fd, c, n)
           PROVE  pc'[c] = "get" /\ fd'[c] \in Fds /\ fds[fd'[c]] = "free" /\ fds' = [fds EXCEPT ![fd'[c]] = c]
      <4>1. pc'[c] = "get" /\ fd'[c] = n
        BY <3>3, <1>d, Domains, Written
      <4> QED
        BY <4>1, <3>3 DEF NextFree, Free
    <3>4. CASE UNCHANGED <<mContext, fds, caller>>
      <4>1. fds' = fds /\ fd' = fd /\ pc' = pc
        BY <3>4 DEF caller
      <4> QED
        BY <3>1, <3>2, <4>1
    <3>5. CASE ~UNCHANGED <<mContext, fds, caller>>
      <4>1. PICK n \in Fds : NextFree(n) /\ fds' = [fds EXCEPT ![n] = c] /\ fd' = Of(fd, c, n)
        BY <1>1, <3>5 DEF connect
      <4>2. pc' = Of(pc, c, "get")
        BY <1>1, <3>5 DEF connect, Goto
      <4> QED
        BY <3>1, <3>3, <4>1, <4>2
    <3> QED
      BY <3>4, <3>5
  <2>1. Descriptors(c)'
    BY <1>1, <1>d, <1>t, <2>0, Zero DEF connect, caller, handle, counters, Descriptors, NumberOf,
       Opening, References, Stage
  <2>2. References(c)'
    <3>1. Count(c)'
      BY <1>1, <1>d, <1>t, <2>0 DEF connect, caller, handle, counters, References, Count, Stage
    <3>2. Stage(c)'
      BY <1>1, <1>d, <2>0 DEF connect, caller, handle, counters, References, Stage
    <3> QED
      BY <3>1, <3>2 DEF References
  <2>3. Callbacks(c)'
    BY <1>1, <1>d, <1>t, <2>0 DEF connect, caller, handle, counters, Callbacks, References, Stage,
       EventThread, Deleting, Opening
  <2>4. EventThread(c)'
    BY <1>1, <1>d, <1>t, <2>0 DEF connect, caller, handle, counters, EventThread, Callbacks,
       References, Stage, Kinds
  <2> QED
    BY <2>1, <2>2, <2>3, <2>4 DEF Local
<1>2. CASE uvc_get_device_with_fd(c)
  <2>0. /\ pc[c] = "get"
        /\ \/ pc'[c] = "open" /\ ref'[c] = 1 /\ mDevice'[c]
           \/ pc'[c] = "abandon" /\ ref' = ref /\ mDevice' = mDevice
    <3>1. pc[c] = "get"
      BY <1>2, <1>d, <1>f, Domains, Written DEF uvc_get_device_with_fd, Jump, Goto
    <3>2. ASSUME pc' = Of(pc, c, "open"), ref' = Of(ref, c, 1), mDevice' = Of(mDevice, c, TRUE)
         PROVE  pc'[c] = "open" /\ ref'[c] = 1 /\ mDevice'[c]
      BY <3>2, <1>d, <1>f, Domains, Written
    <3>3. ASSUME pc' = Of(pc, c, "abandon") PROVE pc'[c] = "abandon"
      BY <3>3, <1>d, Domains, Written
    <3>4. CASE Goto(c, "open") /\ ref' = Of(ref, c, 1) /\ mDevice' = Of(mDevice, c, TRUE)
      BY <3>1, <3>2, <3>4 DEF Goto
    <3>5. CASE Goto(c, "abandon") /\ ref' = ref /\ mDevice' = mDevice
      BY <3>1, <3>3, <3>5 DEF Goto
    <3> QED
      BY <3>4, <3>5, <1>2 DEF uvc_get_device_with_fd, Jump
  <2>1. Descriptors(c)'
    BY <1>2, <1>d, <1>t, <2>0, Zero DEF uvc_get_device_with_fd, handle, counters, Descriptors,
       NumberOf, Opening, References, Stage
  <2>2. References(c)'
    <3>1. Count(c)'
      BY <1>2, <1>d, <1>t, <2>0 DEF uvc_get_device_with_fd, handle, counters, References, Count,
         Stage
    <3>2. Stage(c)'
      BY <1>2, <1>d, <2>0 DEF uvc_get_device_with_fd, handle, counters, References, Stage
    <3> QED
      BY <3>1, <3>2 DEF References
  <2>3. Callbacks(c)'
    BY <1>2, <1>d, <1>t, <2>0 DEF uvc_get_device_with_fd, handle, counters, Callbacks, References,
       Stage, EventThread, Deleting, Opening
  <2>4. EventThread(c)'
    BY <1>2, <1>d, <1>t, <2>0 DEF uvc_get_device_with_fd, handle, counters, EventThread,
       Callbacks, References, Stage, Kinds
  <2> QED
    BY <2>1, <2>2, <2>3, <2>4 DEF Local
<1>3. CASE uvc_open(c)
  <2>0. /\ pc[c] = "open"
        /\ \/ pc'[c] = "claim" /\ fd[c] # 0 /\ devh'[c] = "open" /\ ref'[c] = ref[c] + 1
           \/ pc'[c] = "failed" /\ devh' = devh /\ ref' = ref
    <3>1. pc[c] = "open"
      BY <1>3, <1>d, <1>f, Domains, Written DEF uvc_open, Jump, Goto, CountedWhenOpen
    <3>2. ASSUME pc' = Of(pc, c, "claim"), ref' = Of(ref, c, ref[c] + 1), devh' = Of(devh, c, "open")
         PROVE  pc'[c] = "claim" /\ ref'[c] = ref[c] + 1 /\ devh'[c] = "open"
      BY <3>2, <1>d, Domains, Written
    <3>3. ASSUME pc' = Of(pc, c, "failed") PROVE pc'[c] = "failed"
      BY <3>3, <1>d, Domains, Written
    <3>4. CASE Goto(c, "claim") /\ fd[c] # 0 /\ devh' = Of(devh, c, "open")
          /\ CountedWhenOpen(c, TRUE)
      BY <3>1, <3>2, <3>4 DEF Goto, CountedWhenOpen
    <3>5. CASE Goto(c, "failed") /\ devh' = devh /\ CountedWhenOpen(c, FALSE)
      BY <3>1, <3>3, <3>5 DEF Goto, CountedWhenOpen
    <3> QED
      BY <3>4, <3>5, <1>3 DEF uvc_open, Jump
  <2>1. Descriptors(c)'
    BY <1>3, <1>d, <1>t, <2>0, Zero DEF uvc_open, camera, counters, Descriptors, NumberOf,
       Opening, References, Stage
  <2>2. References(c)'
    <3>1. Count(c)'
      BY <1>3, <1>d, <1>t, <2>0 DEF uvc_open, camera, counters, References, Count, Stage
    <3>2. Stage(c)'
      BY <1>3, <1>d, <2>0 DEF uvc_open, camera, counters, References, Stage
    <3> QED
      BY <3>1, <3>2 DEF References
  <2>3. Callbacks(c)'
    BY <1>3, <1>d, <1>t, <2>0 DEF uvc_open, camera, counters, Callbacks, References, Stage,
       EventThread, Deleting, Opening
  <2>4. EventThread(c)'
    BY <1>3, <1>d, <1>t, <2>0 DEF uvc_open, camera, counters, EventThread, Callbacks, References,
       Stage, Kinds
  <2> QED
    BY <2>1, <2>2, <2>3, <2>4 DEF Local
<1>4. CASE OpenFails(c)
  <2>0. pc[c] = "claim" /\ pc'[c] = "failed" /\ devh'[c] = "none" /\ ref'[c] = ref[c] - 1
    BY <1>4, <1>d, <1>f, Domains, Written DEF OpenFails, Jump, Goto, Unref
  <2>1. Descriptors(c)'
    BY <1>4, <1>d, <1>t, <2>0, Zero DEF OpenFails, camera, counters, Descriptors, NumberOf,
       Opening, References, Stage
  <2>2. References(c)'
    <3>1. Count(c)'
      BY <1>4, <1>d, <1>t, <2>0 DEF OpenFails, camera, counters, References, Count, Stage
    <3>2. Stage(c)'
      BY <1>4, <1>d, <2>0 DEF OpenFails, camera, counters, References, Stage
    <3> QED
      BY <3>1, <3>2 DEF References
  <2>3. Callbacks(c)'
    BY <1>4, <1>d, <1>t, <2>0 DEF OpenFails, camera, counters, Callbacks, References, Stage,
       EventThread, Deleting, Opening
  <2>4. EventThread(c)'
    BY <1>4, <1>d, <1>t, <2>0 DEF OpenFails, camera, counters, EventThread, Callbacks, References,
       Stage, Kinds
  <2> QED
    BY <2>1, <2>2, <2>3, <2>4 DEF Local
<1>5. CASE OpenSucceeds(c)
  <2>0. pc[c] = "claim" /\ pc'[c] = "status" /\ (devh[c] = "open" => ev'[c] = IF kill_handler_thread[c] THEN "ended" ELSE "events")
    BY <1>5, <1>d, <1>f, Domains, Written DEF OpenSucceeds, Jump, Goto, IsFirst
  <2>1. Descriptors(c)'
    BY <1>5, <1>d, <1>t, <2>0, Zero DEF OpenSucceeds, camera, handle, counters, Descriptors,
       NumberOf, Opening, References, Stage
  <2>2. References(c)'
    <3>1. Count(c)'
      BY <1>5, <1>d, <1>t, <2>0 DEF OpenSucceeds, camera, handle, counters, References, Count, Stage
    <3>2. Stage(c)'
      BY <1>5, <1>d, <2>0 DEF OpenSucceeds, camera, handle, counters, References, Stage
    <3> QED
      BY <3>1, <3>2 DEF References
  <2>3. Callbacks(c)'
    BY <1>5, <1>d, <1>t, <2>0 DEF OpenSucceeds, camera, handle, counters, Callbacks, References,
       Stage, EventThread, Deleting, Opening
  <2>4. EventThread(c)'
    BY <1>5, <1>d, <1>t, <2>0 DEF OpenSucceeds, camera, handle, counters, EventThread, Callbacks,
       References, Stage, Kinds
  <2> QED
    BY <2>1, <2>2, <2>3, <2>4 DEF Local
<1>6. CASE ConnectUnref(c)
  <2>0. pc[c] = "failed" /\ pc'[c] = "abandon" /\ ref'[c] = ref[c] - 1 /\ ~mDevice'[c]
    BY <1>6, <1>d, <1>f, Domains, Written DEF ConnectUnref, Jump, Goto, Unref
  <2>1. Descriptors(c)'
    BY <1>6, <1>d, <1>t, <2>0, Zero DEF ConnectUnref, handle, counters, Descriptors, NumberOf,
       Opening, References, Stage
  <2>2. References(c)'
    <3>1. Count(c)'
      BY <1>6, <1>d, <1>t, <2>0 DEF ConnectUnref, handle, counters, References, Count, Stage
    <3>2. Stage(c)'
      BY <1>6, <1>d, <2>0 DEF ConnectUnref, handle, counters, References, Stage
    <3> QED
      BY <3>1, <3>2 DEF References
  <2>3. Callbacks(c)'
    BY <1>6, <1>d, <1>t, <2>0 DEF ConnectUnref, handle, counters, Callbacks, References, Stage,
       EventThread, Deleting, Opening
  <2>4. EventThread(c)'
    BY <1>6, <1>d, <1>t, <2>0 DEF ConnectUnref, handle, counters, EventThread, Callbacks,
       References, Stage, Kinds
  <2> QED
    BY <2>1, <2>2, <2>3, <2>4 DEF Local
<1>7. CASE Abandon(c)
  <2>0. pc[c] = "abandon" /\ pc'[c] = "idle" /\ fds' = [fds EXCEPT ![fd[c]] = "free"]
    BY <1>7, <1>d, <1>f, Domains, Written DEF Abandon, Jump, Goto, CloseFd
  <2>1. Descriptors(c)'
    BY <1>7, <1>d, <1>t, <2>0, Zero DEF Abandon, camera, handle, counters, Descriptors, NumberOf,
       Opening, References, Stage
  <2>2. References(c)'
    <3>1. Count(c)'
      BY <1>7, <1>d, <1>t, <2>0 DEF Abandon, camera, handle, counters, References, Count, Stage
    <3>2. Stage(c)'
      BY <1>7, <1>d, <2>0 DEF Abandon, camera, handle, counters, References, Stage
    <3> QED
      BY <3>1, <3>2 DEF References
  <2>3. Callbacks(c)'
    BY <1>7, <1>d, <1>t, <2>0 DEF Abandon, camera, handle, counters, Callbacks, References, Stage,
       EventThread, Deleting, Opening
  <2>4. EventThread(c)'
    BY <1>7, <1>d, <1>t, <2>0 DEF Abandon, camera, handle, counters, EventThread, Callbacks,
       References, Stage, Kinds
  <2> QED
    BY <2>1, <2>2, <2>3, <2>4 DEF Local
<1>8. CASE startPreview(c)
  <2>0. pc[c] = "idle" /\ devh[c] = "open" /\ streaming'[c] = "on"
    BY <1>8, <1>d, <1>f, Domains, Written DEF startPreview
  <2>1. Descriptors(c)'
    BY <1>8, <1>d, <1>t, <2>0, Zero DEF startPreview, camera, handle, caller, counters,
       Descriptors, NumberOf, Opening, References, Stage
  <2>2. References(c)'
    <3>1. Count(c)'
      BY <1>8, <1>d, <1>t, <2>0 DEF startPreview, camera, handle, caller, counters, References,
         Count, Stage
    <3>2. Stage(c)'
      BY <1>8, <1>d, <2>0 DEF startPreview, camera, handle, caller, counters, References, Stage
    <3> QED
      BY <3>1, <3>2 DEF References
  <2>3. Callbacks(c)'
    BY <1>8, <1>d, <1>t, <2>0 DEF startPreview, camera, handle, caller, counters, Callbacks,
       References, Stage, EventThread, Deleting, Opening
  <2>4. EventThread(c)'
    BY <1>8, <1>d, <1>t, <2>0 DEF startPreview, camera, handle, caller, counters, EventThread,
       Callbacks, References, Stage, Kinds
  <2> QED
    BY <2>1, <2>2, <2>3, <2>4 DEF Local
<1>9. CASE NewCallback(c, "status", "button")
  <2>0. pc[c] = "status" /\ pc'[c] = "button" /\ objects'[c] = objects[c] \cup {"status"}
        /\ callbacks'[c] = callbacks[c] \cup {"status"} /\ mFd'[c] = fd[c]
    BY <1>9, <1>d, <1>f, Domains, Written DEF NewCallback, Jump, Goto
  <2>1. Descriptors(c)'
    BY <1>9, <1>d, <1>t, <2>0, Zero DEF NewCallback, counters, Descriptors, NumberOf, Opening,
       References, Stage
  <2>2. References(c)'
    <3>1. Count(c)'
      BY <1>9, <1>d, <1>t, <2>0 DEF NewCallback, counters, References, Count, Stage
    <3>2. Stage(c)'
      BY <1>9, <1>d, <2>0 DEF NewCallback, counters, References, Stage
    <3> QED
      BY <3>1, <3>2 DEF References
  <2>3. Callbacks(c)'
    BY <1>9, <1>d, <1>t, <2>0 DEF NewCallback, counters, Callbacks, References, Stage,
       EventThread, Deleting, Opening
  <2>4. EventThread(c)'
    BY <1>9, <1>d, <1>t, <2>0 DEF NewCallback, counters, EventThread, Callbacks, References,
       Stage, Kinds
  <2> QED
    BY <2>1, <2>2, <2>3, <2>4 DEF Local
<1>10. CASE NewCallback(c, "button", "idle")
  <2>0. pc[c] = "button" /\ pc'[c] = "idle" /\ objects'[c] = objects[c] \cup {"button"}
        /\ callbacks'[c] = callbacks[c] \cup {"button"} /\ mFd'[c] = fd[c]
    BY <1>10, <1>d, <1>f, Domains, Written DEF NewCallback, Jump, Goto
  <2>1. Descriptors(c)'
    BY <1>10, <1>d, <1>t, <2>0, Zero DEF NewCallback, counters, Descriptors, NumberOf, Opening,
       References, Stage
  <2>2. References(c)'
    <3>1. Count(c)'
      BY <1>10, <1>d, <1>t, <2>0 DEF NewCallback, counters, References, Count, Stage
    <3>2. Stage(c)'
      BY <1>10, <1>d, <2>0 DEF NewCallback, counters, References, Stage
    <3> QED
      BY <3>1, <3>2 DEF References
  <2>3. Callbacks(c)'
    BY <1>10, <1>d, <1>t, <2>0 DEF NewCallback, counters, Callbacks, References, Stage,
       EventThread, Deleting, Opening
  <2>4. EventThread(c)'
    BY <1>10, <1>d, <1>t, <2>0 DEF NewCallback, counters, EventThread, Callbacks, References,
       Stage, Kinds
  <2> QED
    BY <2>1, <2>2, <2>3, <2>4 DEF Local
<1>11. CASE close(c)
  <2>0. pc[c] = "idle" /\ pc'[c] = "stop"
    BY <1>11, <1>d, <1>f, Domains, Written DEF close, Goto
  <2>1. Descriptors(c)'
    BY <1>11, <1>d, <1>t, <2>0, Zero DEF close, camera, handle, counters, Descriptors, NumberOf,
       Opening, References, Stage
  <2>2. References(c)'
    <3>1. Count(c)'
      BY <1>11, <1>d, <1>t, <2>0 DEF close, camera, handle, counters, References, Count, Stage
    <3>2. Stage(c)'
      BY <1>11, <1>d, <2>0 DEF close, camera, handle, counters, References, Stage
    <3> QED
      BY <3>1, <3>2 DEF References
  <2>3. Callbacks(c)'
    BY <1>11, <1>d, <1>t, <2>0 DEF close, camera, handle, counters, Callbacks, References, Stage,
       EventThread, Deleting, Opening
  <2>4. EventThread(c)'
    BY <1>11, <1>d, <1>t, <2>0 DEF close, camera, handle, counters, EventThread, Callbacks,
       References, Stage, Kinds
  <2> QED
    BY <2>1, <2>2, <2>3, <2>4 DEF Local
<1>12. CASE destroy(c)
  <2>0. pc[c] = "idle" /\ pc'[c] = "stop"
    BY <1>12, <1>d, <1>f, Domains, Written DEF destroy, Goto
  <2>1. Descriptors(c)'
    BY <1>12, <1>d, <1>t, <2>0, Zero DEF destroy, camera, handle, counters, Descriptors, NumberOf,
       Opening, References, Stage
  <2>2. References(c)'
    <3>1. Count(c)'
      BY <1>12, <1>d, <1>t, <2>0 DEF destroy, camera, handle, counters, References, Count, Stage
    <3>2. Stage(c)'
      BY <1>12, <1>d, <2>0 DEF destroy, camera, handle, counters, References, Stage
    <3> QED
      BY <3>1, <3>2 DEF References
  <2>3. Callbacks(c)'
    BY <1>12, <1>d, <1>t, <2>0 DEF destroy, camera, handle, counters, Callbacks, References,
       Stage, EventThread, Deleting, Opening
  <2>4. EventThread(c)'
    BY <1>12, <1>d, <1>t, <2>0 DEF destroy, camera, handle, counters, EventThread, Callbacks,
       References, Stage, Kinds
  <2> QED
    BY <2>1, <2>2, <2>3, <2>4 DEF Local
<1>13. CASE StopPreview(c)
  <2>0. pc[c] = "stop" /\ pc'[c] = "stopping"
    BY <1>13, <1>d, <1>f, Domains, Written DEF StopPreview, Jump, Goto
  <2>1. Descriptors(c)'
    BY <1>13, <1>d, <1>t, <2>0, Zero DEF StopPreview, camera, handle, counters, Descriptors,
       NumberOf, Opening, References, Stage
  <2>2. References(c)'
    <3>1. Count(c)'
      BY <1>13, <1>d, <1>t, <2>0 DEF StopPreview, camera, handle, counters, References, Count, Stage
    <3>2. Stage(c)'
      BY <1>13, <1>d, <2>0 DEF StopPreview, camera, handle, counters, References, Stage
    <3> QED
      BY <3>1, <3>2 DEF References
  <2>3. Callbacks(c)'
    BY <1>13, <1>d, <1>t, <2>0 DEF StopPreview, camera, handle, counters, Callbacks, References,
       Stage, EventThread, Deleting, Opening
  <2>4. EventThread(c)'
    BY <1>13, <1>d, <1>t, <2>0 DEF StopPreview, camera, handle, counters, EventThread, Callbacks,
       References, Stage, Kinds
  <2> QED
    BY <2>1, <2>2, <2>3, <2>4 DEF Local
<1>14. CASE Stopped(c)
  <2>0. pc[c] = "stopping" /\ streaming[c] = "off" /\ pc'[c] = IF devh[c] = "none" THEN "unref" ELSE "delete status"
    BY ZenonT(60), <1>14, <1>d, <1>f, Domains, Written DEF Stopped, Jump, Goto
  <2>1. Descriptors(c)'
    BY <1>14, <1>d, <1>t, <2>0, Zero DEF Stopped, camera, handle, counters, Descriptors, NumberOf,
       Opening, References, Stage
  <2>2. References(c)'
    <3>1. Count(c)'
      BY <1>14, <1>d, <1>t, <2>0 DEF Stopped, camera, handle, counters, References, Count, Stage
    <3>2. Stage(c)'
      BY <1>14, <1>d, <1>t, <2>0 DEF Stopped, camera, handle, counters, References, Stage
    <3> QED
      BY <3>1, <3>2 DEF References
  <2>3. Callbacks(c)'
    BY <1>14, <1>d, <1>t, <2>0 DEF Stopped, camera, handle, counters, Callbacks, References,
       Stage, EventThread, Deleting, Opening
  <2>4. EventThread(c)'
    BY <1>14, <1>d, <1>t, <2>0 DEF Stopped, camera, handle, counters, EventThread, Callbacks,
       References, Stage, Kinds
  <2> QED
    BY <2>1, <2>2, <2>3, <2>4 DEF Local
<1>15. CASE DeleteCallback(c, "delete status", "status", "delete button")
  <2>0. pc[c] = "delete status" /\ pc'[c] = "delete button" /\ objects'[c] = objects[c] \ {"status"}
    <3>1. pc[c] = "delete status" /\ pc'[c] = "delete button"
      BY <1>15, <1>d, <1>f, Domains, Written DEF DeleteCallback, Jump, Goto
    <3>2. objects' = Of(objects, c, objects[c] \ {"status"}) /\ c \in DOMAIN objects
      BY <1>15, <1>d, <1>f, Domains, Written DEF DeleteCallback, Jump, Goto
    <3>3. objects'[c] = objects[c] \ {"status"}
      BY <3>2, Written
    <3> QED
      BY <3>1, <3>2, <3>3
  <2>1. Descriptors(c)'
    BY <1>15, <1>d, <1>t, <2>0, Zero DEF DeleteCallback, camera, handle, counters, Descriptors,
       NumberOf, Opening, References, Stage
  <2>2. References(c)'
    <3>1. Count(c)'
      BY <1>15, <1>d, <1>t, <2>0 DEF DeleteCallback, camera, handle, counters, References, Count,
         Stage
    <3>2. Stage(c)'
      BY <1>15, <1>d, <2>0 DEF DeleteCallback, camera, handle, counters, References, Stage
    <3> QED
      BY <3>1, <3>2 DEF References
  <2>3. Callbacks(c)'
    <3>1. devh[c] = "open" /\ devh' = devh /\ objects'[c] \subseteq {"button"}
      BY <1>15, <1>d, <1>t, <2>0 DEF DeleteCallback, handle, References, Stage, Kinds
    <3>2. UNCHANGED <<streaming, ev, callbacks, status_xfer>>
      BY <1>15 DEF DeleteCallback, handle
    <3> QED
      BY <1>d, <2>0, <3>1, <3>2 DEF Callbacks, Deleting, Opening
  <2>4. EventThread(c)'
    BY <1>15, <1>d, <1>t, <2>0 DEF DeleteCallback, camera, handle, counters, EventThread,
       Callbacks, References, Stage, Kinds
  <2> QED
    BY <2>1, <2>2, <2>3, <2>4 DEF Local
<1>16. CASE DeleteCallback(c, "delete button", "button", "uvc_close")
  <2>0. pc[c] = "delete button" /\ pc'[c] = "uvc_close" /\ objects'[c] = objects[c] \ {"button"}
    <3>1. pc[c] = "delete button" /\ pc'[c] = "uvc_close"
      BY <1>16, <1>d, <1>f, Domains, Written DEF DeleteCallback, Jump, Goto
    <3>2. objects' = Of(objects, c, objects[c] \ {"button"}) /\ c \in DOMAIN objects
      BY <1>16, <1>d, <1>f, Domains, Written DEF DeleteCallback, Jump, Goto
    <3>3. objects'[c] = objects[c] \ {"button"}
      BY <3>2, Written
    <3> QED
      BY <3>1, <3>2, <3>3
  <2>1. Descriptors(c)'
    BY <1>16, <1>d, <1>t, <2>0, Zero DEF DeleteCallback, camera, handle, counters, Descriptors,
       NumberOf, Opening, References, Stage
  <2>2. References(c)'
    <3>1. Count(c)'
      BY <1>16, <1>d, <1>t, <2>0 DEF DeleteCallback, camera, handle, counters, References, Count,
         Stage
    <3>2. Stage(c)'
      BY <1>16, <1>d, <2>0 DEF DeleteCallback, camera, handle, counters, References, Stage
    <3> QED
      BY <3>1, <3>2 DEF References
  <2>3. Callbacks(c)'
    BY <1>16, <1>d, <1>t, <2>0 DEF DeleteCallback, camera, handle, counters, Callbacks,
       References, Stage, EventThread, Deleting, Opening
  <2>4. EventThread(c)'
    BY <1>16, <1>d, <1>t, <2>0 DEF DeleteCallback, camera, handle, counters, EventThread,
       Callbacks, References, Stage, Kinds
  <2> QED
    BY <2>1, <2>2, <2>3, <2>4 DEF Local
<1>17. CASE uvc_close(c)
  <2>0. pc[c] = "uvc_close" /\ pc'[c] = "libusb_close" /\ kill_handler_thread'[c]
    BY <1>17, <1>d, <1>f, Domains, Written DEF uvc_close, Jump, Goto, AfterKill, Told
  <2>1. Descriptors(c)'
    BY <1>17, <1>d, <1>t, <2>0, Zero DEF uvc_close, camera, handle, counters, Descriptors,
       NumberOf, Opening, References, Stage
  <2>2. References(c)'
    <3>1. Count(c)'
      BY <1>17, <1>d, <1>t, <2>0 DEF uvc_close, camera, handle, counters, References, Count, Stage
    <3>2. Stage(c)'
      BY <1>17, <1>d, <2>0 DEF uvc_close, camera, handle, counters, References, Stage
    <3> QED
      BY <3>1, <3>2 DEF References
  <2>3. Callbacks(c)'
    BY <1>17, <1>d, <1>t, <2>0 DEF uvc_close, camera, handle, counters, Callbacks, References,
       Stage, EventThread, Deleting, Opening
  <2>4. EventThread(c)'
    BY <1>17, <1>d, <1>t, <2>0 DEF uvc_close, camera, handle, counters, EventThread, Callbacks,
       References, Stage, Kinds
  <2> QED
    BY <2>1, <2>2, <2>3, <2>4 DEF Local
<1>18. CASE libusb_close(c)
  <2>0. pc[c] = "libusb_close" /\ pc'[c] = "join" /\ devh'[c] = "closed"
        /\ ev[c] \notin Kinds \cup {"resubmit"}
    BY <1>18, <1>d, <1>f, Domains, Written DEF libusb_close, Jump, Goto
  <2>1. Descriptors(c)'
    BY <1>18, <1>d, <1>t, <2>0, Zero DEF libusb_close, camera, counters, Descriptors, NumberOf,
       Opening, References, Stage
  <2>2. References(c)'
    <3>1. Count(c)'
      BY <1>18, <1>d, <1>t, <2>0 DEF libusb_close, camera, counters, References, Count, Stage
    <3>2. Stage(c)'
      BY <1>18, <1>d, <2>0 DEF libusb_close, camera, counters, References, Stage
    <3> QED
      BY <3>1, <3>2 DEF References
  <2>3. Callbacks(c)'
    BY <1>18, <1>d, <1>t, <2>0 DEF libusb_close, camera, counters, Callbacks, References, Stage,
       EventThread, Deleting, Opening
  <2>4. EventThread(c)'
    BY <1>18, <1>d, <1>t, <2>0 DEF libusb_close, camera, counters, EventThread, Callbacks,
       References, Stage, Kinds
  <2> QED
    BY <2>1, <2>2, <2>3, <2>4 DEF Local
<1>19. CASE Join(c)
  <2>0. pc[c] = "join" /\ pc'[c] = "free" /\ ev'[c] = "none"
    BY <1>19, <1>d, <1>f, Domains, Written DEF Join, Jump, Goto
  <2>1. Descriptors(c)'
    BY <1>19, <1>d, <1>t, <2>0, Zero DEF Join, camera, handle, counters, Descriptors, NumberOf,
       Opening, References, Stage
  <2>2. References(c)'
    <3>1. Count(c)'
      BY <1>19, <1>d, <1>t, <2>0 DEF Join, camera, handle, counters, References, Count, Stage
    <3>2. Stage(c)'
      BY <1>19, <1>d, <2>0 DEF Join, camera, handle, counters, References, Stage
    <3> QED
      BY <3>1, <3>2 DEF References
  <2>3. Callbacks(c)'
    BY <1>19, <1>d, <1>t, <2>0 DEF Join, camera, handle, counters, Callbacks, References, Stage,
       EventThread, Deleting, Opening
  <2>4. EventThread(c)'
    BY <1>19, <1>d, <1>t, <2>0 DEF Join, camera, handle, counters, EventThread, Callbacks,
       References, Stage, Kinds
  <2> QED
    BY <2>1, <2>2, <2>3, <2>4 DEF Local
<1>20. CASE FreeHandle(c)
  <2>0. pc[c] = "free" /\ pc'[c] = "unref" /\ ref'[c] = ref[c] - 1 /\ devh'[c] = "none"
        /\ callbacks'[c] = {} /\ status_xfer'[c] = "none" /\ used'[c]
    BY <1>20, <1>d, <1>f, Domains, Written DEF FreeHandle, Jump, Goto, Unref
  <2>1. Descriptors(c)'
    BY <1>20, <1>d, <1>t, <2>0, Zero DEF FreeHandle, camera, Descriptors, NumberOf, Opening,
       References, Stage
  <2>2. References(c)'
    <3>1. Count(c)'
      BY <1>20, <1>d, <1>t, <2>0 DEF FreeHandle, camera, References, Count, Stage
    <3>2. Stage(c)'
      BY <1>20, <1>d, <2>0 DEF FreeHandle, camera, References, Stage
    <3> QED
      BY <3>1, <3>2 DEF References
  <2>3. Callbacks(c)'
    BY <1>20, <1>d, <1>t, <2>0 DEF FreeHandle, camera, Callbacks, References, Stage, EventThread,
       Deleting, Opening
  <2>4. EventThread(c)'
    BY <1>20, <1>d, <1>t, <2>0 DEF FreeHandle, camera, EventThread, Callbacks, References, Stage,
       Kinds
  <2> QED
    BY <2>1, <2>2, <2>3, <2>4 DEF Local
<1>21. CASE ReleaseUnref(c)
  <2>0. pc[c] = "unref" /\ pc'[c] = "close fd" /\ ~mDevice'[c] /\ ref'[c] = IF mDevice[c] THEN ref[c] - 1 ELSE ref[c]
    <3>1. pc[c] = "unref" /\ pc'[c] = "close fd"
      BY <1>21, <1>d, <1>f, Domains, Written DEF ReleaseUnref, Jump, Goto, Unref, NoDevice
    <3>2. ASSUME mDevice[c] PROVE ~mDevice'[c] /\ ref'[c] = ref[c] - 1
      <4>1. mDevice' = Of(mDevice, c, FALSE) /\ ref' = Of(ref, c, ref[c] - 1)
        BY <1>21, <3>2 DEF ReleaseUnref, Unref, NoDevice
      <4> QED
        BY <4>1, <1>d, <1>f, Domains, Written
    <3>3. ASSUME ~mDevice[c] PROVE mDevice' = mDevice /\ ref' = ref
      BY <1>21, <3>3 DEF ReleaseUnref
    <3> QED
      BY <3>1, <3>2, <3>3
  <2>1. Descriptors(c)'
    BY <1>21, <1>d, <1>t, <2>0, Zero DEF ReleaseUnref, handle, counters, Descriptors, NumberOf,
       Opening, References, Stage
  <2>2. References(c)'
    <3>1. Count(c)'
      <4>1. devh[c] = "none" /\ devh' = devh
        BY <1>21, <1>d, <2>0 DEF ReleaseUnref, handle, References, Stage
      <4>2. ref[c] = IF mDevice[c] THEN 1 ELSE 0
        BY <1>d, <4>1 DEF References, Count
      <4>3. ASSUME mDevice[c] PROVE ref'[c] = 0
        <5>1. ref[c] = 1 /\ ref'[c] = ref[c] - 1
          BY <4>2, <4>3, <2>0
        <5> QED
          BY <5>1
      <4>4. ASSUME ~mDevice[c] PROVE ref'[c] = 0
        BY <4>2, <4>4, <2>0
      <4>5. ref'[c] = 0
        BY <4>3, <4>4
      <4>6. ~mDevice'[c] /\ devh'[c] = "none"
        BY <4>1, <2>0
      <4> QED
        BY <4>5, <4>6 DEF Count
    <3>2. Stage(c)'
      BY <1>21, <1>d, <2>0 DEF ReleaseUnref, handle, counters, References, Stage
    <3> QED
      BY <3>1, <3>2 DEF References
  <2>3. Callbacks(c)'
    BY <1>21, <1>d, <1>t, <2>0 DEF ReleaseUnref, handle, counters, Callbacks, References, Stage,
       EventThread, Deleting, Opening
  <2>4. EventThread(c)'
    BY <1>21, <1>d, <1>t, <2>0 DEF ReleaseUnref, handle, counters, EventThread, Callbacks,
       References, Stage, Kinds
  <2> QED
    BY <2>1, <2>2, <2>3, <2>4 DEF Local
<1>22. CASE ReleaseFd(c)
  <2>0. /\ pc[c] = "close fd" /\ pc'[c] \in {"idle", "stop"}
        /\ \/ mUsbFs[c] /\ mFd'[c] = 0 /\ ~mUsbFs'[c] /\ fds' = [fds EXCEPT ![mFd[c]] = "free"]
           \/ ~mUsbFs[c] /\ mFd' = mFd /\ mUsbFs' = mUsbFs /\ fds' = fds
    <3>1. pc[c] = "close fd"
      BY <1>22 DEF ReleaseFd, Jump
    <3>2. ASSUME pc' = Of(pc, c, "idle") \/ pc' = Of(pc, c, "stop") PROVE pc'[c] \in {"idle", "stop"}
      BY <3>2, <1>d, Domains, Written
    <3>3. pc'[c] \in {"idle", "stop"}
      BY <1>22, <3>2 DEF ReleaseFd, Jump, Goto
    <3>4. ASSUME mUsbFs[c] PROVE mFd'[c] = 0 /\ ~mUsbFs'[c] /\ fds' = [fds EXCEPT ![mFd[c]] = "free"]
      <4>1. mUsbFs' = Of(mUsbFs, c, FALSE) /\ mFd' = Of(mFd, c, 0)
            /\ fds' = [fds EXCEPT ![mFd[c]] = "free"]
        BY <1>22, <3>4 DEF ReleaseFd, CloseFd, Forgotten
      <4> QED
        BY <4>1, <1>d, <1>f, Domains, Written
    <3>5. ASSUME ~mUsbFs[c] PROVE mFd' = mFd /\ mUsbFs' = mUsbFs /\ fds' = fds
      BY <1>22, <3>5 DEF ReleaseFd
    <3>6. CASE mUsbFs[c]
      BY <3>1, <3>3, <3>4, <3>6
    <3>7. CASE ~mUsbFs[c]
      BY <3>1, <3>3, <3>5, <3>7
    <3> QED
      BY <3>6, <3>7
  <2>1. Descriptors(c)'
    BY <1>22, <1>d, <1>t, <2>0, Zero DEF ReleaseFd, handle, counters, Descriptors, NumberOf,
       Opening, References, Stage
  <2>2. References(c)'
    <3>1. Count(c)'
      BY <1>22, <1>d, <1>t, <2>0 DEF ReleaseFd, handle, counters, References, Count, Stage
    <3>2. Stage(c)'
      BY <1>22, <1>d, <2>0 DEF ReleaseFd, handle, counters, References, Stage
    <3> QED
      BY <3>1, <3>2 DEF References
  <2>3. Callbacks(c)'
    BY <1>22, <1>d, <1>t, <2>0 DEF ReleaseFd, handle, counters, Callbacks, References, Stage,
       EventThread, Deleting, Opening
  <2>4. EventThread(c)'
    BY <1>22, <1>d, <1>t, <2>0 DEF ReleaseFd, handle, counters, EventThread, Callbacks,
       References, Stage, Kinds
  <2> QED
    BY <2>1, <2>2, <2>3, <2>4 DEF Local
<1> QED
  BY <1>1, <1>2, <1>3, <1>4, <1>5, <1>6, <1>7, <1>8, <1>9, <1>10, <1>11, <1>12, <1>13, <1>14,
     <1>15, <1>16, <1>17, <1>18, <1>19, <1>20, <1>21, <1>22 DEF CallerMove

LEMMA Untouched == ASSUME NEW f, NEW c, NEW v, NEW e \in DOMAIN f, e # c PROVE Of(f, c, v)[e] = f[e]
BY DEF Of

\* What a camera's caller does to the descriptors of others.
LEMMA CallerFds ==
  ASSUME IndInv, NEW c \in Cameras, NEW e \in Cameras, e # c, CallerMove(c), NEW n \in Fds
  PROVE  \/ fds'[n] = fds[n]
         \/ n = 0 /\ fds'[n] = "free"
         \/ fds[n] # e /\ fds'[n] # e
<1>1. /\ fds \in [Fds -> {"free", Other} \cup Cameras] /\ mFd[c] \in Fds /\ fd[c] \in Fds
      /\ e # "free" /\ Descriptors(c)
  BY ConstantsAssumption DEF IndInv, Types
<1>2. CASE connect(c)
  BY <1>1, <1>2 DEF connect, NextFree, Free
<1>3. CASE Abandon(c)
  <2>1. fds' = [fds EXCEPT ![fd[c]] = "free"] /\ pc[c] = "abandon"
    BY <1>3 DEF Abandon, CloseFd, Jump
  <2>2. fd[c] = 0 \/ fds[fd[c]] = c
    BY <1>1, <2>1 DEF Descriptors, NumberOf, Opening
  <2> QED
    BY <1>1, <2>1, <2>2
<1>4. CASE ReleaseFd(c)
  <2>1. fds' = fds \/ fds' = [fds EXCEPT ![mFd[c]] = "free"]
    BY <1>4 DEF ReleaseFd, CloseFd
  <2>2. mFd[c] = 0 \/ fds[mFd[c]] = c
    BY <1>1, <1>4 DEF Descriptors, NumberOf, Opening, ReleaseFd, Jump
  <2> QED
    BY <1>1, <2>1, <2>2
<1>5. CASE ~connect(c) /\ ~Abandon(c) /\ ~ReleaseFd(c)
  BY <1>5 DEF CallerMove, uvc_get_device_with_fd, uvc_open, OpenFails, OpenSucceeds, ConnectUnref,
      startPreview, NewCallback, close, destroy, StopPreview, Stopped, DeleteCallback, uvc_close,
      libusb_close, Join, FreeHandle, ReleaseUnref
<1> QED
  BY <1>2, <1>3, <1>4, <1>5

LEMMA CallerFrame ==
  ASSUME IndInv, NEW c \in Cameras, NEW e \in Cameras, e # c, CallerMove(c)
  PROVE  Local(e)'
<1>1. Types
  BY DEF IndInv
<1>2. UNCHANGED <<pc[e], fd[e], mFd[e], mUsbFs[e], mDevice[e], ref[e], devh[e], callbacks[e],
                  objects[e], status_xfer[e], streaming[e], ev[e], used[e], kill_handler_thread[e]>>
  <2> USE DEF CallerMove, connect, uvc_get_device_with_fd, uvc_open,
      OpenFails, OpenSucceeds, ConnectUnref, Abandon, startPreview, NewCallback, close, destroy,
      StopPreview, Stopped, DeleteCallback, uvc_close, libusb_close, Join, FreeHandle,
      ReleaseUnref, ReleaseFd, camera, handle, caller, counters, Jump, Goto
  <2>1. pc'[e] = pc[e]
    <3>1. \A v : Of(pc, c, v)[e] = pc[e]
      BY <1>1, Domains, Untouched
    <3> QED
      BY <3>1
  <2>2. fd'[e] = fd[e]
    <3>1. \A v : Of(fd, c, v)[e] = fd[e]
      BY <1>1, Domains, Untouched
    <3> QED
      BY <3>1
  <2>3. mFd'[e] = mFd[e]
    <3>1. \A v : Of(mFd, c, v)[e] = mFd[e]
      BY <1>1, Domains, Untouched
    <3> QED
      BY <3>1
  <2>4. mUsbFs'[e] = mUsbFs[e]
    <3>1. \A v : Of(mUsbFs, c, v)[e] = mUsbFs[e]
      BY <1>1, Domains, Untouched
    <3> QED
      BY <3>1
  <2>5. mDevice'[e] = mDevice[e]
    <3>1. \A v : Of(mDevice, c, v)[e] = mDevice[e]
      BY <1>1, Domains, Untouched
    <3> QED
      BY <3>1 DEF NoDevice
  <2>6. ref'[e] = ref[e]
    <3>1. \A v : Of(ref, c, v)[e] = ref[e]
      BY <1>1, Domains, Untouched
    <3> QED
      BY <3>1 DEF CountedWhenOpen, Unref
  <2>7. devh'[e] = devh[e]
    <3>1. \A v : Of(devh, c, v)[e] = devh[e]
      BY <1>1, Domains, Untouched
    <3> QED
      BY <3>1
  <2>8. callbacks'[e] = callbacks[e]
    <3>1. \A v : Of(callbacks, c, v)[e] = callbacks[e]
      BY <1>1, Domains, Untouched
    <3> QED
      BY <3>1
  <2>9. objects'[e] = objects[e]
    <3>1. \A v : Of(objects, c, v)[e] = objects[e]
      BY <1>1, Domains, Untouched
    <3> QED
      BY <3>1
  <2>10. status_xfer'[e] = status_xfer[e]
    <3>1. \A v : Of(status_xfer, c, v)[e] = status_xfer[e]
      BY <1>1, Domains, Untouched
    <3> QED
      BY <3>1
  <2>11. streaming'[e] = streaming[e]
    <3>1. \A v : Of(streaming, c, v)[e] = streaming[e]
      BY <1>1, Domains, Untouched
    <3> QED
      BY <3>1
  <2>12. ev'[e] = ev[e]
    <3>1. \A v : Of(ev, c, v)[e] = ev[e]
      BY <1>1, Domains, Untouched
    <3> QED
      BY <3>1
  <2>13. used'[e] = used[e]
    <3>1. \A v : Of(used, c, v)[e] = used[e]
      BY <1>1, Domains, Untouched
    <3> QED
      BY <3>1
  <2>14. kill_handler_thread'[e] = kill_handler_thread[e]
    <3>1. \A v : Of(kill_handler_thread, c, v)[e] = kill_handler_thread[e]
      BY <1>1, Domains, Untouched
    <3> QED
      BY <3>1
  <2> QED
    BY <2>1, <2>2, <2>3, <2>4, <2>5, <2>6, <2>7, <2>8, <2>9, <2>10, <2>11, <2>12, <2>13, <2>14
<1> QED
  BY <1>2, CallerFds, Others

LEMMA EventTypes ==
  ASSUME Types, NEW c \in Cameras, EventStep(c)
  PROVE  Types'
<1> USE DEF EventStep, End, Reap, _uvc_status_callback, Notified, Resubmit, EventKeeps
<1>1. ev' \in [Cameras -> {"none", "events", "resubmit", "ended"} \cup Kinds]
  <2> DEFINE T == [Cameras -> {"none", "events", "resubmit", "ended"} \cup Kinds]
  <2>1. ev \in T /\ Of(ev, c, "ended") \in T /\ Of(ev, c, "events") \in T
        /\ Of(ev, c, "resubmit") \in T
    BY Updated DEF Types
  <2>2. \A x \in callbacks[c] \cup {"resubmit", "events"} : Of(ev, c, x) \in T
    BY Updated DEF Types
  <2> HIDE DEF T
  <2>3. ev' \in T
    BY <2>1, <2>2
  <2> QED
    BY <2>3 DEF T
<1>2. status_xfer' \in [Cameras -> {"none", "submitted", "done"}]
  <2> DEFINE T == [Cameras -> {"none", "submitted", "done"}]
  <2>1. status_xfer \in T /\ Of(status_xfer, c, "done") \in T
        /\ Of(status_xfer, c, "submitted") \in T
    BY Updated DEF Types
  <2> HIDE DEF T
  <2>2. status_xfer' \in T
    BY <2>1
  <2> QED
    BY <2>2 DEF T
<1>3. streaming' \in [Cameras -> {"off", "on", "cancelled"}]
  <2> DEFINE T == [Cameras -> {"off", "on", "cancelled"}]
  <2>1. streaming \in T /\ Of(streaming, c, "off") \in T
    BY Updated DEF Types
  <2> HIDE DEF T
  <2>2. streaming' \in T
    BY <2>1
  <2> QED
    BY <2>2 DEF T
<1>4. UNCHANGED <<fds, camera, ref, handle, kill_handler_thread, objects, caller, counters>>
  OBVIOUS
<1> QED
  BY ONLY Types, <1>1, <1>2, <1>3, <1>4 DEF Types, camera, handle, caller, counters

LEMMA EventLocal ==
  ASSUME IndInv, NEW c \in Cameras, EventStep(c)
  PROVE  Types' /\ \A e \in Cameras : Local(e)'
<1>1. Types /\ Descriptors(c) /\ References(c) /\ Callbacks(c) /\ EventThread(c)
  BY DEF IndInv
<1>2. /\ UNCHANGED <<fds, camera, ref, handle, kill_handler_thread, objects, caller, counters>>
      /\ \E x, y, z : /\ ev' = Of(ev, c, x) \/ ev' = ev
                      /\ streaming' = Of(streaming, c, y) \/ streaming' = streaming
                      /\ status_xfer' = Of(status_xfer, c, z) \/ status_xfer' = status_xfer
  BY DEF EventStep, End, Reap, _uvc_status_callback, Notified, Resubmit, EventKeeps
<1>3. ASSUME NEW e \in Cameras, e # c PROVE Local(e)'
  <2>1. ev'[e] = ev[e] /\ streaming'[e] = streaming[e] /\ status_xfer'[e] = status_xfer[e]
    BY <1>1, <1>2, <1>3, Domains, Untouched
  <2> QED
    BY <1>2, <1>3, <2>1, Others DEF camera, handle, caller, counters
<1>4.
      /\ UNCHANGED <<fds, mUsbFs, mDevice, mFd, fd, ref, devh, callbacks, kill_handler_thread, objects, pc, used>>
  BY <1>2 DEF camera, handle, caller, counters
<1>5. Descriptors(c)' /\ References(c)'
  BY <1>1, <1>4 DEF Descriptors, NumberOf, References, Count, Stage
\* The thread runs with an open handle only, and not while it is being made.
<1>6. ASSUME ev[c] \in {"events", "resubmit"} \cup Kinds PROVE devh[c] # "none" /\ pc[c] \notin {"claim", "free"}
  BY <1>1, <1>6 DEF Callbacks, EventThread, Kinds
<1>7. Callbacks(c)' /\ EventThread(c)'
  <2>1. CASE End(c)
    <3>1. ev[c] = "events" /\ kill_handler_thread[c] /\ ev'[c] = "ended"
      BY <1>1, <2>1, Domains, Written DEF End
    <3>2. UNCHANGED <<status_xfer, streaming>>
      BY <2>1 DEF End
    <3> QED
      BY <1>1, <1>4, <1>6, <3>1, <3>2 DEF Callbacks, EventThread, Kinds
  <2>2. CASE Reap(c)
    <3>1. ev[c] = "events" /\ streaming'[c] = "off"
      BY <1>1, <2>2, Domains, Written DEF Reap
    <3>2. UNCHANGED <<ev, status_xfer>>
      BY <2>2 DEF Reap
    <3> QED
      BY <1>1, <1>4, <3>1, <3>2 DEF Callbacks, EventThread
  <2>3. CASE _uvc_status_callback(c)
    <3>1. ev[c] = "events" /\ devh[c] = "open"
          /\ ev'[c] \in callbacks[c] \cup {"resubmit", "events"}
      BY <1>1, <2>3, Domains, Written DEF _uvc_status_callback
    <3>2. UNCHANGED streaming
      BY <2>3 DEF _uvc_status_callback
    <3>3. "ended" \notin callbacks[c] /\ "none" \notin callbacks[c]
      BY <1>1 DEF Types, Kinds
    <3> QED
      BY <1>1, <1>4, <1>6, <3>1, <3>2, <3>3 DEF Callbacks, EventThread, Kinds
  <2>4. CASE Notified(c)
    <3>1. ev[c] \in Kinds /\ ev'[c] = "resubmit"
      BY <1>1, <2>4, Domains, Written DEF Notified
    <3>2. UNCHANGED <<status_xfer, streaming>>
      BY <2>4 DEF Notified
    <3> QED
      BY <1>1, <1>4, <1>6, <3>1, <3>2 DEF Callbacks, EventThread, Kinds
  <2>5. CASE Resubmit(c)
    <3>1. ev[c] = "resubmit" /\ ev'[c] = "events"
      BY <1>1, <2>5, Domains, Written DEF Resubmit
    <3>2. UNCHANGED streaming
      BY <2>5 DEF Resubmit
    <3> QED
      BY <1>1, <1>4, <1>6, <3>1, <3>2 DEF Callbacks, EventThread, Kinds
  <2> QED
    BY <2>1, <2>2, <2>3, <2>4, <2>5 DEF EventStep
<1> QED
  BY <1>1, <1>3, <1>5, <1>7, EventTypes DEF Local

LEMMA SystemLocal ==
  ASSUME IndInv, OtherOpens \/ OtherCloses
  PROVE  Types' /\ \A e \in Cameras : Local(e)'
<1>1.
      /\ UNCHANGED <<camera, ref, handle, status_xfer, kill_handler_thread, objects, streaming, caller, ev, counters>>
      /\ \E n \in Fds :
           \/ fds[n] = "free" /\ fds' = [fds EXCEPT ![n] = Other]
           \/ fds[n] = Other /\ fds' = [fds EXCEPT ![n] = "free"]
  BY DEF OtherOpens, OtherCloses, NextFree, Free, OthersHold
<1>2. PICK n \in Fds :
         \/ fds[n] = "free" /\ fds' = [fds EXCEPT ![n] = Other]
         \/ fds[n] = Other /\ fds' = [fds EXCEPT ![n] = "free"]
  BY <1>1
<1>3. Types /\ fds \in [Fds -> {"free", Other} \cup Cameras]
  BY DEF IndInv, Types
<1>4. Types'
  <2>1. fds' \in [Fds -> {"free", Other} \cup Cameras]
    BY <1>2, <1>3
  <2> QED
    BY <1>1, <1>3, <2>1 DEF Types, camera, handle, caller, counters
<1>5. ASSUME NEW e \in Cameras PROVE Local(e)'
  <2>1. e # "free" /\ e # Other
    BY ConstantsAssumption
  <2>2. \A k \in Fds : (fds'[k] = e) <=> (fds[k] = e)
    BY <1>2, <1>3, <2>1
  <2>3. Descriptors(e) /\ References(e) /\ Callbacks(e) /\ EventThread(e)
    BY DEF IndInv
  <2>4. UNCHANGED <<mUsbFs, mDevice, mFd, fd, ref, devh, callbacks, objects, status_xfer, streaming, ev,
                    kill_handler_thread, pc, used>>
    BY <1>1 DEF camera, handle, caller, counters
  <2>5. NumberOf(e) \in Fds /\ NumberOf(e)' = NumberOf(e)
    BY <1>3, <2>4 DEF NumberOf, Types
  <2>6. Descriptors(e)'
    BY <2>2, <2>3, <2>4, <2>5 DEF Descriptors
  <2>7. References(e)' /\ Callbacks(e)' /\ EventThread(e)'
    BY <2>3, <2>4 DEF References, Count, Stage, Callbacks, EventThread
  <2> QED
    BY <2>6, <2>7 DEF Local
<1> QED
  BY <1>4, <1>5

LEMMA NextInd == IndInv /\ [Next]_vars => IndInv'
<1> SUFFICES ASSUME IndInv, [Next]_vars PROVE Types' /\ \A e \in Cameras : Local(e)'
  BY DEF IndInv, Local
<1>1. ASSUME NEW c \in Cameras, CallerMove(c) PROVE Types' /\ \A e \in Cameras : Local(e)'
  BY <1>1, CallerTypes, CallerLocal, CallerFrame DEF IndInv
<1>2. CASE UNCHANGED vars
  <2>1. UNCHANGED <<fds, mNativePtr, mContext, mUsbFs, mDevice, mFd, ref, devh, callbacks, status_xfer,
                    kill_handler_thread, objects, streaming, pc, op, fd, ev, opens, used>>
    BY <1>2 DEF vars, camera, handle, caller, counters
  <2>2. Types'
    BY <2>1 DEF IndInv, Types
  <2>3. ASSUME NEW e \in Cameras PROVE Local(e)'
    BY <2>1, <2>3 DEF IndInv, Local, Descriptors, NumberOf, References, Count, Stage, Callbacks,
       EventThread
  <2> QED
    BY <2>2, <2>3
<1>3. ASSUME NEW c \in Cameras, Call(c) \/ CallerStep(c) PROVE CallerMove(c)
  BY <1>3 DEF Call, CallerStep, CallerMove
<1> QED
  BY <1>1, <1>2, <1>3, EventLocal, SystemLocal DEF Next

LEMMA Invariance == Spec => []IndInv
BY InitInd, NextInd, PTL DEF Spec
-----------------------------------------------------------------------------
\* The variables keep their types; above all the count of references of a
\* device stays within the two that a camera and its handle hold.
THEOREM TypeCorrect == Spec => []TypeOK
<1>1. IndInv => TypeOK
  <2> SUFFICES ASSUME IndInv PROVE TypeOK
    OBVIOUS
  <2>1. \A c \in Cameras : ref[c] \in 0..2
    BY DEF IndInv, References, Count
  <2>2. ref \in [Cameras -> 0..2]
    BY <2>1 DEF IndInv, Types
  <2> QED
    BY <2>2 DEF IndInv, Types, TypeOK
<1> QED
  BY <1>1, Invariance, PTL

\* The descriptor of a connected camera stays its own, whatever the other
\* cameras and the rest of the process open and close.
THEOREM DescriptorStays == Spec => []DescriptorKept
<1>1. IndInv => DescriptorKept
  BY DEF IndInv, DescriptorKept, Connected, Descriptors, NumberOf, Opening
<1> QED
  BY <1>1, Invariance, PTL

\* A failed connect and a release leave nothing behind, wherever connect fails.
THEOREM NothingStays == Spec => []NothingLeft
<1>1. IndInv => NothingLeft
  <2> SUFFICES ASSUME IndInv, NEW c \in Cameras, Released(c)
               PROVE  /\ \A n \in Fds : fds[n] # c
                      /\ ref[c] = 0 /\ ~mDevice[c]
                      /\ status_xfer[c] = "none" /\ streaming[c] = "off"
                      /\ objects[c] = {} /\ callbacks[c] = {} /\ ev[c] = "none"
    BY DEF NothingLeft
  <2>1. pc[c] = "idle" /\ devh[c] = "none" /\ Descriptors(c) /\ References(c) /\ Callbacks(c)
    BY DEF Released, IndInv
  <2>2. \A n \in Fds : fds[n] # c
    BY <2>1 DEF Descriptors, NumberOf, Opening
  <2>3. ~mDevice[c]
    BY <2>1 DEF References, Stage
  <2>4. ref[c] = 0
    BY <2>1, <2>3 DEF References, Count
  <2> QED
    BY <2>1, <2>2, <2>3, <2>4 DEF Callbacks
<1> QED
  BY <1>1, Invariance, PTL

\* The event thread calls an object only with an open handle, and one that
\* exists unless release is between its delete and libusb_close.
THEOREM CallbackStaysAlive == Spec => []CallbackAlive
<1>1. IndInv => CallbackAlive
  <2> SUFFICES ASSUME IndInv, NEW c \in Cameras, ev[c] \in Kinds \cup {"resubmit"}
               PROVE  /\ devh[c] = "open"
                      /\ \/ ev[c] \in objects[c] \cup {"resubmit"}
                         \/ pc[c] \in {"delete button", "uvc_close", "libusb_close"}
    BY DEF CallbackAlive
  <2>1. References(c) /\ Callbacks(c) /\ EventThread(c)
    BY DEF IndInv
  <2>2. devh[c] = "open"
    BY <2>1 DEF EventThread
  <2>3. pc[c] \notin {"join", "free"}
    BY <2>1, <2>2 DEF References, Stage
  <2> QED
    BY <2>1, <2>2, <2>3 DEF EventThread, Callbacks, Deleting
<1> QED
  BY <1>1, Invariance, PTL

\* The event thread of the first handle of a context runs until uvc_close.
THEOREM EventsStayHandled == Spec => []EventsHandled
<1>1. IndInv => EventsHandled
  BY DEF IndInv, EventsHandled, Connected, EventThread
<1> QED
  BY <1>1, Invariance, PTL
=============================================================================

------------------------------ MODULE UsbMonitor ------------------------------
(***************************************************************************)
(* USBMonitor, the control blocks it hands out, and the application that   *)
(* opens cameras with them.                                                *)
(*                                                                         *)
(*   Main     the UI thread: lifecycle of the activity, the dialog that    *)
(*            asks for permission, and the broadcast receiver;             *)
(*   Async    the thread of mAsyncHandler: the posted Runnables, with the  *)
(*            application's callbacks in them, and mDeviceCheckRunnable;   *)
(*   Cameras  the CameraThreads of the application's two handlers, as far  *)
(*            as they clone and close control blocks (all they do is in    *)
(*            CameraHandler).                                              *)
(*                                                                         *)
(* A device that comes back has a new name, so it is a new device.  The    *)
(* receiver hears of detached devices and of answers to permission         *)
(* requests; USB_DEVICE_ATTACHED is not in its filter.                     *)
(***************************************************************************)
EXTENDS Integers, Sequences, FiniteSets

CONSTANTS
    Devices,
    First, Third,  \* the application's handlers, in the order onConnect asks them
    Blocks,        \* identities for control blocks; bound on their number
    NULL,
    MaxRequests,   \* bound on calls of requestPermission
    MaxStarts      \* bound on calls of register: starts of the activity

Main == "main"
Async == "async"
Cameras == {First, Third}
Threads == {Main, Async} \cup Cameras

ASSUME ConstantsAssumption ==
    /\ IsFiniteSet(Devices)
    /\ First # Third /\ Cameras \cap {Main, Async} = {}
    /\ NULL \notin Devices \cup Blocks
    /\ MaxRequests \in Nat /\ MaxStarts \in Nat

VARIABLES
    plugged,            \* "absent", "present" or "gone"
    granted,            \* devices the system lets the application open
    asked,              \* devices whose permission the user is being asked for
    receiver,           \* mUsbReceiver is registered with the system
    intents,            \* broadcasts on their way to it
    mPermissionIntent,  \* TRUE: not null
    destroyed,
    mDeviceCounts, mHasPermissions, mCtrlBlocks,
    tasks,              \* Runnables posted to mAsyncHandler
    checks,             \* mDeviceCheckRunnables in their delay
    quit,               \* the looper of Async has been told to quit
    conn,               \* mConnection of each block
    deviceOf,           \* mWeakDevice of each block
    clones,             \* blocks made by clone()
    camera,             \* mCtrlBlock of each handler's open UVCCamera
    inbox,              \* messages for each handler's CameraThread
    pc, op,             \* where each thread is, and the intent, Runnable or message it is in
    block,              \* the block each thread is about to store, hand over or close
    list,               \* Async's local devices
    keys,               \* devices destroy has still to look at
    attached, dettached,\* devices the listener has been told of
    requests, starts     \* counted against MaxRequests and MaxStarts

system == <<plugged, granted, asked>>
listening == <<receiver, intents, mPermissionIntent>>
counting == <<mDeviceCounts, mHasPermissions>>
posted == <<tasks, checks, quit>>
connections == <<conn, deviceOf, clones>>
handlers == <<camera, inbox>>
locals == <<list, keys>>
told == <<attached, dettached>>
bounds == <<requests, starts>>
vars == <<system, listening, destroyed, counting, mCtrlBlocks, posted, connections, handlers,
          pc, op, block, locals, told, bounds>>

Nothing == [what |-> "none", of |-> NULL]
Begins(t, what, label) == pc' = [pc EXCEPT ![t] = label] /\ op' = [op EXCEPT ![t] = what]
Goto(t, label) == Begins(t, IF label = "idle" THEN Nothing ELSE op[t], label)
Jump(t, from, to) == pc[t] = from /\ Goto(t, to)
Present == {d \in Devices : plugged[d] = "present"}
Entries == {d \in Devices : mCtrlBlocks[d] # NULL}

\* A device may have been plugged in, and granted to an earlier monitor of the
\* same process, before this one is made.
Init ==
    /\ plugged \in [Devices -> {"absent", "present"}]
    /\ granted \in SUBSET Present /\ asked = {}
    /\ receiver = FALSE /\ intents = <<>> /\ mPermissionIntent = FALSE
    /\ destroyed = FALSE
    /\ mDeviceCounts = 0 /\ mHasPermissions = {}
    /\ mCtrlBlocks = [d \in Devices |-> NULL]
    /\ tasks = <<>> /\ checks = 0 /\ quit = FALSE
    /\ conn = [b \in Blocks |-> "unmade"] /\ deviceOf = [b \in Blocks |-> NULL] /\ clones = {}
    /\ camera = [c \in Cameras |-> NULL] /\ inbox = [c \in Cameras |-> <<>>]
    /\ pc = [t \in Threads |-> "idle"] /\ op = [t \in Threads |-> Nothing]
    /\ block = [t \in Threads |-> NULL]
    /\ list = {} /\ keys = {}
    /\ attached = {} /\ dettached = {}
    /\ requests = 0 /\ starts = 0

-----------------------------------------------------------------------------
(* Forms of the operators below that a plausible slip would give; the      *)
(* checked properties must reject them.                                    *)

\* onReceive takes the block out of the map before it closes it.
LookedUp(d) == UNCHANGED mCtrlBlocks
Removed(d) == mCtrlBlocks' = [mCtrlBlocks EXCEPT ![d] = NULL]

\* onReceive closes the block, if there is one, and posts onDettach in any case.
Unchecked(d) == "closing"
Detaching(d) == IF mCtrlBlocks[d] = NULL THEN "detached" ELSE "closing"

\* processConnect's Runnable uses the block that is there.
NeverKnown(d) == NULL
Known(d) == mCtrlBlocks[d]

\* A check that finds more devices than before tells the listener.
MoreThanOne(n) == n > mDeviceCounts + 1
More(n) == n > mDeviceCounts

\* UVCCamera.open works on a clone of the block it is given.
Shared(b, b2) == b
OwnBlock(b, b2) == b2
-----------------------------------------------------------------------------
(* The system.                                                             *)

Broadcast(what, d) ==
    intents' = IF receiver THEN Append(intents, [what |-> what, of |-> d]) ELSE intents

Plug(d) ==
    /\ plugged[d] = "absent"
    /\ plugged' = [plugged EXCEPT ![d] = "present"]
    /\ UNCHANGED <<granted, asked, listening, destroyed, counting, mCtrlBlocks, posted, connections,
                   handlers, pc, op, block, locals, told, bounds>>

Unplug(d) ==
    /\ plugged[d] = "present"
    /\ plugged' = [plugged EXCEPT ![d] = "gone"]
    /\ granted' = granted \ {d}
    /\ Broadcast("DETACHED", d)
    /\ UNCHANGED <<asked, receiver, mPermissionIntent, destroyed, counting, mCtrlBlocks, posted,
                   connections, handlers, pc, op, block, locals, told, bounds>>

\* The user answers; nobody hears it when the receiver is not registered.
Answer(d) ==
    /\ d \in asked /\ asked' = asked \ {d}
    /\ \/ d \in Present /\ granted' = granted \cup {d} /\ Broadcast("GRANTED", d)
       \/ UNCHANGED granted /\ Broadcast("DENIED", d)
    /\ UNCHANGED <<plugged, receiver, mPermissionIntent, destroyed, counting, mCtrlBlocks, posted,
                   connections, handlers, pc, op, block, locals, told, bounds>>

System == \E d \in Devices : Plug(d) \/ Unplug(d) \/ Answer(d)
-----------------------------------------------------------------------------
(* Main: calls of the application.                                         *)

Begin == pc[Main] = "idle" /\ ~destroyed /\ UNCHANGED requests

Post(what, d) ==
    tasks' = IF quit THEN tasks ELSE Append(tasks, [what |-> what, of |-> d])

register ==
    /\ Begin /\ ~mPermissionIntent
    /\ starts < MaxStarts /\ starts' = starts + 1
    /\ mPermissionIntent' = TRUE /\ receiver' = TRUE
    /\ mDeviceCounts' = 0
    /\ checks' = checks + 1
    /\ UNCHANGED <<system, intents, destroyed, mHasPermissions, mCtrlBlocks, tasks, quit,
                   connections, handlers, pc, op, block, locals, told>>

\* A check that is running is not in the queue and is not removed.
Unregistered ==
    /\ mPermissionIntent' = FALSE /\ receiver' = FALSE /\ intents' = <<>>
    /\ mDeviceCounts' = 0
    /\ checks' = 0

unregister ==
    /\ Begin /\ mPermissionIntent
    /\ Unregistered
    /\ UNCHANGED <<system, destroyed, mHasPermissions, mCtrlBlocks, tasks, quit,
                   connections, handlers, pc, op, block, locals, told, starts>>

processConnect(d) ==
    mHasPermissions' = mHasPermissions \cup {d} /\ Post("connect", d)

\* The posted Runnable calls the application's onCancel, in which nothing is done.
processCancel(d) ==
    mHasPermissions' = mHasPermissions \ {d} /\ UNCHANGED tasks

\* The device comes from the dialog's list and may be gone by now: the
\* system's requestPermission throws.
requestPermission(d) ==
    /\ pc[Main] = "idle" /\ ~destroyed
    /\ requests < MaxRequests /\ requests' = requests + 1
    /\ plugged[d] # "absent"
    /\ \/ mPermissionIntent /\ d \in granted /\ processConnect(d) /\ UNCHANGED asked
       \/ /\ mPermissionIntent /\ d \in Present \ granted
          /\ asked' = asked \cup {d} /\ UNCHANGED <<mHasPermissions, tasks>>
       \/ ~(mPermissionIntent /\ d \in Present) /\ processCancel(d) /\ UNCHANGED asked
    /\ UNCHANGED <<plugged, granted, listening, destroyed, mDeviceCounts, mCtrlBlocks, checks, quit,
                   connections, handlers, pc, op, block, locals, told, starts>>

\* A tap on the view of an open camera: AbstractUVCCameraHandler.close.  One
\* MSG_CLOSE in the inbox is enough: a second finds no camera.
Close == [what |-> "CLOSE", of |-> NULL]
closeCamera(c) ==
    /\ Begin
    /\ camera[c] # NULL /\ \A i \in 1..Len(inbox[c]) : inbox[c][i] # Close
    /\ inbox' = [inbox EXCEPT ![c] = Append(@, Close)]
    /\ UNCHANGED <<system, listening, destroyed, counting, mCtrlBlocks, posted, connections,
                   camera, pc, op, block, locals, told, starts>>

destroy ==
    /\ Begin
    /\ Unregistered
    /\ destroyed' = TRUE
    /\ keys' = Entries
    /\ Begins(Main, [what |-> "destroy", of |-> NULL], "sweep")
    /\ UNCHANGED <<system, mHasPermissions, mCtrlBlocks, tasks, quit, connections, handlers,
                   block, list, told, starts>>

\* The iterator of keySet may or may not show what is put meanwhile.
Sweep ==
    /\ pc[Main] = "sweep"
    /\ \E d \in keys \cup Entries :
         /\ keys' = keys \ {d}
         /\ block' = [block EXCEPT ![Main] = mCtrlBlocks[d]]
         /\ mCtrlBlocks' = [mCtrlBlocks EXCEPT ![d] = NULL]
         /\ Goto(Main, IF mCtrlBlocks[d] = NULL THEN "sweep" ELSE "closing")
    /\ UNCHANGED <<system, listening, destroyed, counting, posted, connections, handlers,
                   list, told, bounds>>

\* mCtrlBlocks.clear(), and the looper quits
SweepEnd ==
    /\ keys = {} /\ Jump(Main, "sweep", "idle")
    /\ mCtrlBlocks' = [d \in Devices |-> NULL]
    /\ quit' = TRUE /\ tasks' = <<>> /\ checks' = 0
    /\ UNCHANGED <<system, listening, destroyed, counting, connections, handlers, block,
                   locals, told, bounds>>
-----------------------------------------------------------------------------
(* Main: onReceive.  Whatever the intent was, it ends with                 *)
(* unregisterReceiver.                                                     *)

Deaf == receiver' = FALSE /\ intents' = <<>> /\ UNCHANGED mPermissionIntent

onReceivePermission ==
    /\ pc[Main] = "idle" /\ intents # <<>>
    /\ LET intent == Head(intents) IN
         \/ intent.what = "GRANTED" /\ processConnect(intent.of)
         \/ intent.what = "DENIED" /\ processCancel(intent.of)
    /\ Deaf
    /\ UNCHANGED <<system, destroyed, mDeviceCounts, mCtrlBlocks, checks, quit, connections, handlers,
                   pc, op, block, locals, told, bounds>>

onReceiveDetached ==
    /\ pc[Main] = "idle" /\ intents # <<>> /\ Head(intents).what = "DETACHED"
    /\ LET d == Head(intents).of IN
         /\ Begins(Main, Head(intents), Detaching(d))
         /\ block' = [block EXCEPT ![Main] = mCtrlBlocks[d]]
         /\ Removed(d)
    /\ intents' = Tail(intents)
    /\ UNCHANGED <<system, receiver, mPermissionIntent, destroyed, counting, posted, connections,
                   handlers, locals, told, bounds>>

processDettach ==
    /\ Jump(Main, "detached", "idle")
    /\ mDeviceCounts' = 0
    /\ Post("dettach", op[Main].of)
    /\ Deaf
    /\ UNCHANGED <<system, destroyed, mHasPermissions, mCtrlBlocks, checks, quit, connections, handlers,
                   block, locals, told, bounds>>
-----------------------------------------------------------------------------
(* UsbControlBlock.close, by Main or by a CameraThread.                    *)

\* Where a CameraThread goes on after handleClose.
AfterHandleClose(m) == IF m.what = "OPEN" THEN "clone" ELSE "idle"

AfterClose(t) ==
    IF t # Main THEN AfterHandleClose(op[t])
    ELSE IF op[Main].what = "destroy" THEN "sweep" ELSE "detached"

\* mConnection.close(); mConnection = null.  Without a connection close does
\* nothing.
CloseConnection(t) ==
    /\ \/ Jump(t, "closing", "disconnect") /\ conn[block[t]] = "open"
          /\ conn' = [conn EXCEPT ![block[t]] = "closed"]
          /\ UNCHANGED block
       \/ Jump(t, "closing", AfterClose(t)) /\ conn[block[t]] # "open"
          /\ block' = [block EXCEPT ![t] = NULL]
          /\ UNCHANGED conn
    /\ UNCHANGED <<system, listening, destroyed, counting, mCtrlBlocks, posted, deviceOf, clones,
                   handlers, locals, told, bounds>>

\* onDisconnect, in which the application does nothing, and
\* monitor.mCtrlBlocks.remove
Disconnect(t) ==
    /\ Jump(t, "disconnect", AfterClose(t))
    /\ mCtrlBlocks' = [mCtrlBlocks EXCEPT ![deviceOf[block[t]]] = NULL]
    /\ block' = [block EXCEPT ![t] = NULL]
    /\ UNCHANGED <<system, listening, destroyed, counting, posted, connections, handlers,
                   locals, told, bounds>>

MainStep ==
    \/ Sweep \/ SweepEnd
    \/ onReceivePermission \/ onReceiveDetached \/ processDettach
    \/ CloseConnection(Main) \/ Disconnect(Main)
-----------------------------------------------------------------------------
(* Async: the posted Runnables.                                            *)

\* New: make the block b for device d.
New(b, d) ==
    /\ conn[b] = "unmade" /\ b = CHOOSE s \in Blocks : conn[s] = "unmade"
    /\ deviceOf' = [deviceOf EXCEPT ![b] = d]

Tell ==
    /\ pc[Async] = "idle" /\ tasks # <<>>
    /\ tasks' = Tail(tasks)
    /\ LET task == Head(tasks) IN
         \/ /\ task.what = "attach" /\ attached' = attached \cup task.of
            /\ UNCHANGED <<dettached, pc, op>>
         \/ /\ task.what = "dettach" /\ dettached' = dettached \cup {task.of}
            /\ UNCHANGED <<attached, pc, op>>
         \/ /\ task.what = "connect" /\ Begins(Async, task, "get")
            /\ UNCHANGED <<attached, dettached>>
    /\ UNCHANGED <<system, listening, destroyed, counting, mCtrlBlocks, checks, quit, connections,
                   handlers, block, locals, bounds>>

ConnectGet ==
    /\ Jump(Async, "get", IF Known(op[Async].of) = NULL THEN "new" ELSE "ask first")
    /\ block' = [block EXCEPT ![Async] = Known(op[Async].of)]
    /\ UNCHANGED <<system, listening, destroyed, counting, mCtrlBlocks, posted, connections, handlers,
                   locals, told, bounds>>

\* The system's openDevice returns null without the device or its permission.
ConnectNew ==
    /\ Jump(Async, "new", "info")
    /\ \E b \in Blocks :
         /\ New(b, op[Async].of)
         /\ conn' = [conn EXCEPT ![b] = IF op[Async].of \in granted THEN "open" ELSE "none"]
         /\ block' = [block EXCEPT ![Async] = b]
    /\ UNCHANGED <<system, listening, destroyed, counting, mCtrlBlocks, posted, clones, handlers,
                   locals, told, bounds>>

\* updateDeviceInfo opens the device once more and does not expect null: when
\* the device has just gone the process ends here.
ConnectInfo ==
    /\ \/ Jump(Async, "info", "put")
       \/ /\ Jump(Async, "info", "crashed")
          /\ conn[block[Async]] = "open" /\ op[Async].of \notin granted
    /\ UNCHANGED <<system, listening, destroyed, counting, mCtrlBlocks, posted, connections, handlers,
                   block, locals, told, bounds>>

ConnectPut ==
    /\ Jump(Async, "put", "ask first")
    /\ mCtrlBlocks' = [mCtrlBlocks EXCEPT ![op[Async].of] = block[Async]]
    /\ UNCHANGED <<system, listening, destroyed, counting, posted, connections, handlers,
                   block, locals, told, bounds>>

\* The application's onConnect: the first handler without a camera is sent
\* MSG_OPEN.
onConnect(c, label, next) ==
    /\ \/ /\ camera[c] = NULL /\ Jump(Async, label, "idle")
          /\ inbox' = [inbox EXCEPT ![c] = Append(@, [what |-> "OPEN", of |-> block[Async]])]
       \/ camera[c] # NULL /\ Jump(Async, label, next) /\ UNCHANGED inbox
    /\ block' = IF pc'[Async] = "idle" THEN [block EXCEPT ![Async] = NULL] ELSE block
    /\ UNCHANGED <<system, listening, destroyed, counting, mCtrlBlocks, posted, connections, camera,
                   locals, told, bounds>>

\* mDeviceCheckRunnable: run when its delay is over
CheckRun ==
    /\ pc[Async] = "idle" /\ checks > 0
    /\ checks' = checks - 1
    /\ Goto(Async, IF destroyed THEN "idle" ELSE "check")
    /\ UNCHANGED <<system, listening, destroyed, counting, mCtrlBlocks, tasks, quit, connections, handlers,
                   block, locals, told, bounds>>

\* getDeviceList, as hasPermission below, throws when destroy has been faster.
CheckList ==
    /\ Jump(Async, "check", IF destroyed THEN "crashed" ELSE "compare")
    /\ list' = Present
    /\ UNCHANGED <<system, listening, destroyed, counting, mCtrlBlocks, posted, connections, handlers,
                   block, keys, told, bounds>>

\* The Runnables for all the devices of the list are one task here.
CheckCompare ==
    /\ Jump(Async, "compare", IF destroyed /\ list # {} THEN "crashed" ELSE "idle")
    /\ mHasPermissions' = list \cap granted
    /\ IF \/ More(Cardinality(list))
          \/ Cardinality(list \cap granted) > Cardinality(mHasPermissions)
       THEN /\ mDeviceCounts' = Cardinality(list)
            /\ tasks' = IF quit THEN tasks ELSE Append(tasks, [what |-> "attach", of |-> list])
       ELSE UNCHANGED <<mDeviceCounts, tasks>>
    /\ checks' = IF quit THEN checks ELSE checks + 1
    /\ list' = {}
    /\ UNCHANGED <<system, listening, destroyed, mCtrlBlocks, quit, connections, handlers,
                   block, keys, told, bounds>>

AsyncStep ==
    \/ Tell
    \/ ConnectGet \/ ConnectNew \/ ConnectInfo \/ ConnectPut
    \/ onConnect(First, "ask first", "ask third") \/ onConnect(Third, "ask third", "idle")
    \/ CheckRun \/ CheckList \/ CheckCompare
-----------------------------------------------------------------------------
(* CameraThread.                                                           *)

\* MSG_OPEN as MSG_CLOSE begins with handleClose.
handleClose(c) ==
    /\ pc[c] = "idle" /\ inbox[c] # <<>>
    /\ inbox' = [inbox EXCEPT ![c] = Tail(@)]
    /\ IF camera[c] = NULL /\ Head(inbox[c]) = Close THEN Goto(c, "idle")
       ELSE Begins(c, Head(inbox[c]), IF camera[c] = NULL THEN "clone" ELSE "closing")
    /\ block' = [block EXCEPT ![c] = camera[c]]
    /\ camera' = [camera EXCEPT ![c] = NULL]
    /\ UNCHANGED <<system, listening, destroyed, counting, mCtrlBlocks, posted, connections,
                   locals, told, bounds>>

\* UVCCamera.open: clone(), which throws when the device cannot be opened
clone(c) ==
    /\ pc[c] = "clone"
    /\ LET source == op[c].of IN
       \/ deviceOf[source] \notin granted /\ Goto(c, "idle") /\ UNCHANGED <<connections, block>>
       \/ deviceOf[source] \in granted /\ Goto(c, "connect")
          /\ \E b \in Blocks :
               /\ New(b, deviceOf[source])
               /\ conn' = [conn EXCEPT ![b] = "open"]
               /\ clones' = clones \cup {b}
               /\ block' = [block EXCEPT ![c] = OwnBlock(source, b)]
    /\ UNCHANGED <<system, listening, destroyed, counting, mCtrlBlocks, posted, handlers,
                   locals, told, bounds>>

\* nativeConnect; nobody closes the clone when it, or clone's
\* updateDeviceInfo, fails
Connect(c) ==
    /\ Jump(c, "connect", "idle")
    /\ \/ camera' = [camera EXCEPT ![c] = block[c]]
       \/ UNCHANGED camera
    /\ block' = [block EXCEPT ![c] = NULL]
    /\ UNCHANGED <<system, listening, destroyed, counting, mCtrlBlocks, posted, connections, inbox,
                   locals, told, bounds>>

CameraStep(c) == handleClose(c) \/ CloseConnection(c) \/ Disconnect(c) \/ clone(c) \/ Connect(c)
-----------------------------------------------------------------------------
\* An uncaught exception on Async is the end of the process.
Crashed == pc[Async] = "crashed"

Next ==
    /\ ~Crashed
    /\ \/ System
       \/ register \/ unregister \/ destroy
       \/ \E d \in Devices : requestPermission(d)
       \/ \E c \in Cameras : closeCamera(c)
       \/ MainStep
       \/ AsyncStep
       \/ \E c \in Cameras : CameraStep(c)

Spec == Init /\ [][Next]_vars

\* The loopers run; nothing is assumed of the user and the devices.  A looper
\* takes its messages in the order in which they are due, so that checks and
\* tasks do not starve each other.
Fairness ==
    /\ WF_vars(~Crashed /\ MainStep)
    /\ WF_vars(~Crashed /\ AsyncStep)
    /\ SF_vars(~Crashed /\ Tell) /\ SF_vars(~Crashed /\ CheckRun)
    /\ \A c \in Cameras : WF_vars(~Crashed /\ CameraStep(c))

FairSpec == Spec /\ Fairness
-----------------------------------------------------------------------------
Intents == [what : {"GRANTED", "DENIED", "DETACHED"}, of : Devices]
Tasks == [what : {"connect", "dettach"}, of : Devices]
           \cup [what : {"attach"}, of : SUBSET Devices]
Messages == [what : {"OPEN"}, of : Blocks] \cup {Close}
MainLabels == {"idle", "sweep", "closing", "disconnect", "detached"}
AsyncLabels == {"idle", "get", "new", "info", "put", "ask first", "ask third", "check", "compare",
                "crashed"}
CameraLabels == {"idle", "closing", "disconnect", "clone", "connect"}

\* Where a thread calls methods of its block.
UsesBlock == {"closing", "disconnect", "info", "put", "ask first", "ask third", "connect"}

\* Every variable has its type, and no thread calls a method of null.
TypeOK ==
    /\ plugged \in [Devices -> {"absent", "present", "gone"}]
    /\ {granted, asked, mHasPermissions, list, keys, attached, dettached} \subseteq SUBSET Devices
    /\ {receiver, mPermissionIntent, destroyed, quit} \subseteq BOOLEAN
    /\ intents \in Seq(Intents) /\ tasks \in Seq(Tasks)
    /\ {mDeviceCounts, checks, requests, starts} \subseteq Nat
    /\ mCtrlBlocks \in [Devices -> Blocks \cup {NULL}]
    /\ conn \in [Blocks -> {"unmade", "none", "open", "closed"}]
    /\ deviceOf \in [Blocks -> Devices \cup {NULL}] /\ clones \subseteq Blocks
    /\ camera \in [Cameras -> Blocks \cup {NULL}]
    /\ inbox \in [Cameras -> Seq(Messages)]
    /\ pc[Main] \in MainLabels /\ pc[Async] \in AsyncLabels
    /\ \A c \in Cameras : pc[c] \in CameraLabels
    /\ DOMAIN pc = Threads /\ DOMAIN op = Threads
    /\ block \in [Threads -> Blocks \cup {NULL}]
    /\ \A t \in Threads : pc[t] \in UsesBlock => block[t] # NULL

\* The connection whose file descriptor the native code of an open camera uses
\* is open, and no other camera uses it: neither a detach, destroy nor the
\* other camera closes it (UVCCamera.open works on a clone, and the monitor
\* closes only what it finds in mCtrlBlocks).
ConnectionOutlivesCamera ==
    \A c \in Cameras : camera[c] # NULL =>
        /\ conn[camera[c]] = "open"
        /\ \A other \in Cameras \ {c} : camera[other] # camera[c]

\* openDevice and the Runnable of processConnect hand out what mCtrlBlocks
\* holds: it never holds a block that has been closed ("never reuse the
\* instance when it closed").
NeverReused ==
    \A d \in Devices : mCtrlBlocks[d] # NULL => conn[mCtrlBlocks[d]] \in {"none", "open"}

Original(b) == conn[b] = "open" /\ b \notin clones
Held(b) == (\E d \in Devices : mCtrlBlocks[d] = b) \/ (\E t \in Threads : block[t] = b)

\* A connection opened for a block that is no clone stays where detach and
\* destroy find it, or is in the hands of a thread; only the close of a clone
\* of the same device, or destroy itself, lets it slip.
OpenIsKnown ==
    \A b \in Blocks : Original(b) =>
        \/ Held(b) \/ destroyed
        \/ \E k \in clones : deviceOf[k] = deviceOf[b] /\ conn[k] = "closed"

\* While the monitor is registered the listener is told of every device that
\* is there and stays ("called when device attached"): mDeviceCheckRunnable
\* only compares numbers, which is enough as long as no other device has left.
ArrivalAnnounced ==
    \A d \in Devices : d \in Present /\ mPermissionIntent ~>
        \/ d \in attached \/ d \notin Present \/ ~mPermissionIntent \/ Crashed
        \/ \E e \in Devices \ {d} : plugged[e] = "gone"

\* The device of an open camera has been pulled out of a registered monitor.
PulledOut(d) ==
    /\ plugged[d] = "gone" /\ mPermissionIntent
    /\ \E c \in Cameras : camera[c] # NULL /\ deviceOf[camera[c]] = d

\* register and isRegistered: while the monitor says that it is registered,
\* the listener is told ("called when device dettach") of an open camera that
\* is pulled out.
DettachHeard == \A d \in Devices : PulledOut(d) ~> d \in dettached \/ ~mPermissionIntent \/ Crashed
=============================================================================

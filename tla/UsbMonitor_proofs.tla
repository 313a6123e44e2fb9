-------------------------- MODULE UsbMonitor_proofs --------------------------
(***************************************************************************)
(* Proofs about UsbMonitor, for any devices, blocks, requests and starts.  *)
(*                                                                         *)
(* The argument is one of ownership.  A block made by the monitor is in    *)
(* mCtrlBlocks or in the hands of Async or Main; a clone is in the hands   *)
(* of one CameraThread or is its camera; and the two kinds never mix, so   *)
(* that what closes the one does not close the other.                      *)
(***************************************************************************)
EXTENDS UsbMonitor, FiniteSetTheorems, TLAPS

Closing == {"closing", "disconnect"}
Filling == {"new", "info", "put"}
Connecting == {"get", "new", "info", "put", "ask first", "ask third"}

Labels(t) == IF t = Main THEN MainLabels ELSE IF t = Async THEN AsyncLabels ELSE CameraLabels

PlaceTypes ==
    /\ DOMAIN pc = Threads /\ DOMAIN op = Threads
    /\ \A t \in Threads : pc[t] \in Labels(t)

StateTypes ==
    /\ plugged \in [Devices -> {"absent", "present", "gone"}]
    /\ granted \in SUBSET Devices /\ asked \in SUBSET Devices
    /\ mHasPermissions \in SUBSET Devices
    /\ list \in SUBSET Devices /\ keys \in SUBSET Devices
    /\ attached \in SUBSET Devices /\ dettached \in SUBSET Devices
    /\ receiver \in BOOLEAN /\ mPermissionIntent \in BOOLEAN
    /\ destroyed \in BOOLEAN /\ quit \in BOOLEAN
    /\ intents \in Seq(Intents) /\ tasks \in Seq(Tasks)
    /\ mDeviceCounts \in Nat /\ checks \in Nat /\ requests \in Nat /\ starts \in Nat
    /\ mCtrlBlocks \in [Devices -> Blocks \cup {NULL}]
    /\ conn \in [Blocks -> {"unmade", "none", "open", "closed"}]
    /\ deviceOf \in [Blocks -> Devices \cup {NULL}] /\ clones \in SUBSET Blocks
    /\ camera \in [Cameras -> Blocks \cup {NULL}]
    /\ inbox \in [Cameras -> Seq(Messages)]
    /\ PlaceTypes
    /\ block \in [Threads -> Blocks \cup {NULL}]

\* What a thread that is not idle is busy with.
Busy ==
    /\ op[Main].what = "DETACHED" => op[Main].of \in Devices
    /\ pc[Main] = "detached" => op[Main].what = "DETACHED"
    /\ pc[Main] \in Closing => op[Main].what \in {"destroy", "DETACHED"}
    /\ pc[Main] = "sweep" => op[Main].what = "destroy"
    /\ pc[Async] \in Connecting => op[Async].of \in Devices
    /\ \A c \in Cameras : pc[c] # "idle" => op[c] \in Messages
    /\ \A c \in Cameras : pc[c] = "clone" => op[c].what = "OPEN"
    /\ \A t \in Threads : pc[t] \in UsesBlock => block[t] # NULL

\* A block is of the device it is entered under, and no clone is entered.
Entered ==
    \A d \in Devices : mCtrlBlocks[d] # NULL =>
        /\ conn[mCtrlBlocks[d]] \in {"none", "open"}
        /\ deviceOf[mCtrlBlocks[d]] = d /\ mCtrlBlocks[d] \notin clones

\* What Async is about to enter is its alone, and nothing is entered before it.
Fill ==
    /\ pc[Async] \in Filling => mCtrlBlocks[op[Async].of] = NULL
    /\ pc[Async] \in {"info", "put"} =>
         /\ conn[block[Async]] \in {"none", "open"}
         /\ deviceOf[block[Async]] = op[Async].of /\ block[Async] \notin clones
         /\ block[Main] # block[Async]

\* What Main closes is out of the map.
MainCloses ==
    pc[Main] \in Closing =>
        /\ conn[block[Main]] # "unmade"
        /\ block[Main] \notin clones
        /\ \A d \in Devices : mCtrlBlocks[d] # block[Main]

\* The clone in the hands of a CameraThread.
InHand(c) == IF pc[c] \in Closing \cup {"connect"} THEN block[c] ELSE camera[c]

Clones ==
    /\ \A c \in Cameras : pc[c] # "idle" => camera[c] = NULL
    /\ \A c \in Cameras : InHand(c) # NULL => InHand(c) \in clones
    /\ \A c, e \in Cameras : c # e /\ InHand(c) # NULL => InHand(c) # InHand(e)
    /\ \A c \in Cameras : pc[c] = "connect" => conn[block[c]] = "open"
    /\ \A c \in Cameras : pc[c] = "disconnect" => conn[block[c]] = "closed"
    /\ \A c \in Cameras : camera[c] # NULL => conn[camera[c]] = "open"
    /\ \A b \in clones : conn[b] # "unmade"

\* Nothing is opened of a device once its detach is on its way to Main.
Gone ==
    /\ \A d \in granted : plugged[d] = "present"
    /\ \A i \in 1..Len(intents) : intents[i].what = "DETACHED" => plugged[intents[i].of] = "gone"
    /\ op[Main].what = "DETACHED" => plugged[op[Main].of] = "gone"
    /\ op[Main].what = "destroy" => destroyed

Slipped(d) == destroyed \/ \E k \in clones : deviceOf[k] = d /\ conn[k] = "closed"

Located(b) ==
    \/ mCtrlBlocks[deviceOf[b]] = b \/ block[Main] = b
    \/ pc[Async] \in {"info", "put", "crashed"} /\ block[Async] = b
    \/ Slipped(deviceOf[b])

\* Where an open block of the monitor is, that a device has only one, and that
\* it has none when Main removes the entry once more at the end of close.
Originals ==
    /\ \A b \in Blocks : conn[b] # "unmade" => deviceOf[b] \in Devices
    /\ block[Main] # NULL => pc[Main] \in Closing
    /\ \A b \in Blocks : Original(b) => Located(b)
    /\ \A b, e \in Blocks : Original(b) /\ Original(e) /\ deviceOf[b] = deviceOf[e] =>
         b = e \/ Slipped(deviceOf[b])
    /\ pc[Main] \in Closing /\ op[Main].what = "DETACHED" => deviceOf[block[Main]] = op[Main].of
    /\ pc[Main] = "disconnect" => \A b \in Blocks :
         Original(b) /\ deviceOf[b] = deviceOf[block[Main]] => Slipped(deviceOf[b])

IndInv == StateTypes /\ Busy /\ Entered /\ Fill /\ MainCloses /\ Clones /\ Gone /\ Originals
-----------------------------------------------------------------------------
LEMMA Names ==
    /\ NULL \notin Devices /\ NULL \notin Blocks
    /\ Main \in Threads /\ Async \in Threads /\ Main # Async
    /\ Main \notin Cameras /\ Async \notin Cameras
    /\ \A c \in Cameras : c \in Threads
BY ConstantsAssumption DEF Threads, Main, Async, Cameras

LEMMA InitInd == Init => IndInv
<1> SUFFICES ASSUME Init PROVE IndInv
  OBVIOUS
<1> USE Names DEF Init, Present
<1>0. intents \in Seq(Intents) /\ tasks \in Seq(Tasks) /\ inbox \in [Cameras -> Seq(Messages)]
  OBVIOUS
<1>1. StateTypes
  <2>1. plugged \in [Devices -> {"absent", "present", "gone"}]
    OBVIOUS
  <2>2. PlaceTypes
    BY DEF PlaceTypes, Labels, MainLabels, AsyncLabels, CameraLabels
  <2>3. block \in [Threads -> Blocks \cup {NULL}]
    OBVIOUS
  <2> QED
    BY <1>0, <2>1, <2>2, <2>3 DEF StateTypes
<1>2. Busy /\ Entered /\ Fill /\ MainCloses
  BY DEF Busy, Entered, Fill, MainCloses, Closing, Filling, Connecting, UsesBlock, Nothing
<1>3. Clones
  BY DEF Clones, InHand, Closing
<1>4. Gone /\ Originals
  BY DEF Gone, Originals, Closing, Original, Nothing
<1> QED
  BY <1>1, <1>2, <1>3, <1>4 DEF IndInv
-----------------------------------------------------------------------------
(* Types.                                                                  *)

LEMMA Emptied == <<>> \in Seq(Intents) /\ <<>> \in Seq(Tasks)
OBVIOUS

LEMMA FirstOf ==
  ASSUME NEW S, NEW s \in Seq(S), s # <<>>
  PROVE  Head(s) \in S /\ Tail(s) \in Seq(S)
OBVIOUS

LEMMA Appended ==
  ASSUME NEW S, NEW s \in Seq(S), NEW e \in S
  PROVE  Append(s, e) \in Seq(S)
OBVIOUS

LEMMA ElementOf ==
  ASSUME NEW S, NEW s \in Seq(S), NEW i \in 1..Len(s)
  PROVE  s[i] \in S
OBVIOUS

LEMMA ElementOfTail ==
  ASSUME NEW S, NEW s \in Seq(S), s # <<>>, NEW i \in 1..Len(Tail(s))
  PROVE  i + 1 \in 1..Len(s) /\ Tail(s)[i] = s[i + 1]
OBVIOUS

LEMMA ElementOfAppend ==
  ASSUME NEW S, NEW s \in Seq(S), NEW e, NEW i \in 1..Len(Append(s, e))
  PROVE  (i \in 1..Len(s) /\ Append(s, e)[i] = s[i]) \/ Append(s, e)[i] = e
OBVIOUS

LEMMA BroadcastType ==
  ASSUME StateTypes, NEW d \in Devices, NEW what \in {"GRANTED", "DENIED", "DETACHED"},
         Broadcast(what, d)
  PROVE  intents' \in Seq(Intents)
<1>1. [what |-> what, of |-> d] \in Intents
  BY DEF Intents
<1> QED
  BY <1>1 DEF Broadcast, StateTypes

LEMMA PostType ==
  ASSUME StateTypes, NEW d \in Devices, NEW what \in {"connect", "dettach"}, Post(what, d)
  PROVE  tasks' \in Seq(Tasks)
<1>1. [what |-> what, of |-> d] \in Tasks
  BY DEF Tasks
<1> QED
  BY <1>1 DEF Post, StateTypes

LEMMA Moved ==
  ASSUME PlaceTypes, NEW t \in Threads, NEW what, NEW label \in Labels(t), Begins(t, what, label)
  PROVE  PlaceTypes'
BY DEF PlaceTypes, Begins

LEMMA Placed == ASSUME PlaceTypes, UNCHANGED <<pc, op>> PROVE PlaceTypes'
BY DEF PlaceTypes

LEMMA SystemTypes == StateTypes /\ System => StateTypes'
<1> SUFFICES ASSUME StateTypes, NEW d \in Devices, Plug(d) \/ Unplug(d) \/ Answer(d) PROVE StateTypes'
  BY DEF System
<1>1. intents' \in Seq(Intents)
  BY BroadcastType DEF Plug, Unplug, Answer, listening, StateTypes
<1>2. /\ plugged' \in [Devices -> {"absent", "present", "gone"}]
      /\ granted' \in SUBSET Devices /\ asked' \in SUBSET Devices
  BY DEF Plug, Unplug, Answer, StateTypes
<1>3. UNCHANGED <<receiver, mPermissionIntent, destroyed, counting, mCtrlBlocks, posted, connections,
                  handlers, pc, op, block, locals, told, bounds>>
  BY DEF Plug, Unplug, Answer, listening
<1> QED
  BY <1>1, <1>2, <1>3, Placed DEF StateTypes, counting, posted, connections, handlers, locals, told, bounds

LEMMA MainTypes ==
  ASSUME StateTypes, Busy,
         register \/ unregister \/ destroy \/ (\E d \in Devices : requestPermission(d))
         \/ (\E c \in Cameras : closeCamera(c)) \/ MainStep
  PROVE  StateTypes'
<1> USE Names, Emptied
    DEF system, listening, counting, posted, connections, handlers, locals, told, bounds, StateTypes
<1>a. \A l \in MainLabels : l \in Labels(Main)
  BY DEF Labels
<1>b. {"idle", "sweep", "closing", "disconnect", "detached"} \subseteq MainLabels
  BY DEF MainLabels
<1>1. CASE register
  BY <1>1, Placed DEF register, Begin
<1>2. CASE unregister
  BY <1>2, Placed DEF unregister, Begin, Unregistered
<1>3. CASE destroy
  <2>1. PlaceTypes'
    BY <1>3, <1>a, <1>b, Moved DEF destroy
  <2> QED
    BY <1>3, <2>1 DEF destroy, Begin, Unregistered, Entries
<1>4. ASSUME NEW d \in Devices, requestPermission(d) PROVE StateTypes'
  <2>1. tasks' \in Seq(Tasks)
    BY <1>4, PostType DEF requestPermission, processConnect, processCancel
  <2>2. asked' \in SUBSET Devices /\ mHasPermissions' \in SUBSET Devices
    BY <1>4 DEF requestPermission, processConnect, processCancel
  <2> QED
    BY <1>4, <2>1, <2>2, Placed DEF requestPermission
<1>5. ASSUME NEW c \in Cameras, closeCamera(c) PROVE StateTypes'
  <2>1. Close \in Messages
    BY DEF Messages
  <2> QED
    BY <1>5, <2>1, Placed DEF closeCamera, Begin
<1>6. CASE Sweep
  <2>1. PlaceTypes'
    BY <1>6, <1>a, <1>b, Moved DEF Sweep, Goto
  <2> QED
    BY <1>6, <2>1 DEF Sweep, Entries
<1>7. CASE SweepEnd
  <2>1. PlaceTypes'
    BY <1>7, <1>a, <1>b, Moved DEF SweepEnd, Jump, Goto
  <2> QED
    BY <1>7, <2>1 DEF SweepEnd
<1>8. CASE onReceivePermission
  <2>0. Head(intents) \in Intents
    BY <1>8, FirstOf DEF onReceivePermission
  <2>1. Head(intents).of \in Devices
    BY <2>0 DEF Intents
  <2>2. tasks' \in Seq(Tasks)
    BY <1>8, <2>1, PostType DEF onReceivePermission, processConnect, processCancel
  <2>3. mHasPermissions' \in SUBSET Devices
    BY <1>8, <2>1 DEF onReceivePermission, processConnect, processCancel
  <2> QED
    BY <1>8, <2>2, <2>3, Placed DEF onReceivePermission, Deaf
<1>9. CASE onReceiveDetached
  <2>0. Head(intents) \in Intents /\ Tail(intents) \in Seq(Intents)
    BY <1>9, FirstOf DEF onReceiveDetached
  <2>1. Head(intents).of \in Devices
    BY <2>0 DEF Intents
  <2>2. PlaceTypes'
    BY <1>9, <1>a, <1>b, Moved DEF onReceiveDetached, Detaching
  <2> QED
    BY <1>9, <2>0, <2>1, <2>2 DEF onReceiveDetached, Removed
<1>10. CASE processDettach
  <2>1. op[Main].of \in Devices
    BY <1>10 DEF processDettach, Jump, Busy
  <2>2. tasks' \in Seq(Tasks)
    BY <1>10, <2>1, PostType DEF processDettach
  <2>3. PlaceTypes'
    BY <1>10, <1>a, <1>b, Moved DEF processDettach, Jump, Goto
  <2> QED
    BY <1>10, <2>2, <2>3 DEF processDettach, Deaf
<1>11. AfterClose(Main) \in MainLabels
  BY <1>b DEF AfterClose
<1>12. CASE CloseConnection(Main)
  <2>1. PlaceTypes'
    BY <1>12, <1>11, <1>a, <1>b, Moved DEF CloseConnection, Jump, Goto
  <2>2. conn' \in [Blocks -> {"unmade", "none", "open", "closed"}]
        /\ block' \in [Threads -> Blocks \cup {NULL}]
    BY <1>12 DEF CloseConnection
  <2> QED
    BY <1>12, <2>1, <2>2 DEF CloseConnection
<1>13. CASE Disconnect(Main)
  <2>1. PlaceTypes'
    BY <1>13, <1>11, <1>a, <1>b, Moved DEF Disconnect, Jump, Goto
  <2> QED
    BY <1>13, <2>1 DEF Disconnect
<1> QED
  BY <1>1, <1>2, <1>3, <1>4, <1>5, <1>6, <1>7, <1>8, <1>9, <1>10, <1>12, <1>13 DEF MainStep

LEMMA AsyncTypes == ASSUME StateTypes, Busy, AsyncStep PROVE StateTypes'
<1> USE Names, Emptied
    DEF system, listening, counting, posted, connections, handlers, locals, told, bounds, StateTypes
<1>a. \A l \in AsyncLabels : l \in Labels(Async)
  BY DEF Labels
<1>b. {"idle", "get", "new", "info", "put", "ask first", "ask third", "check", "compare", "crashed"}
        \subseteq AsyncLabels
  BY DEF AsyncLabels
<1>1. CASE Tell
  <2>1. Head(tasks) \in Tasks /\ Tail(tasks) \in Seq(Tasks)
    BY <1>1, FirstOf DEF Tell
  <2>2. /\ Head(tasks).what = "attach" => Head(tasks).of \in SUBSET Devices
        /\ Head(tasks).what = "dettach" => Head(tasks).of \in Devices
    BY <2>1 DEF Tasks
  <2>3. PlaceTypes'
    BY <1>1, <1>a, <1>b, Moved, Placed DEF Tell
  <2>4. attached' \in SUBSET Devices /\ dettached' \in SUBSET Devices
    BY <1>1, <2>2 DEF Tell
  <2> QED
    BY <1>1, <2>1, <2>3, <2>4 DEF Tell
<1>2. CASE ConnectGet
  <2>1. PlaceTypes'
    BY <1>2, <1>a, <1>b, Moved DEF ConnectGet, Jump, Goto
  <2>2. op[Async].of \in Devices
    BY <1>2 DEF ConnectGet, Jump, Busy, Connecting
  <2> QED
    BY <1>2, <2>1, <2>2 DEF ConnectGet, Known
<1>3. CASE ConnectNew
  <2>1. PlaceTypes'
    BY <1>3, <1>a, <1>b, Moved DEF ConnectNew, Jump, Goto
  <2>2. op[Async].of \in Devices
    BY <1>3 DEF ConnectNew, Jump, Busy, Connecting
  <2> QED
    BY <1>3, <2>1, <2>2 DEF ConnectNew, New
<1>4. CASE ConnectInfo
  BY <1>4, <1>a, <1>b, Moved DEF ConnectInfo, Jump, Goto
<1>5. CASE ConnectPut
  <2>1. PlaceTypes'
    BY <1>5, <1>a, <1>b, Moved DEF ConnectPut, Jump, Goto
  <2> QED
    BY <1>5, <2>1 DEF ConnectPut
<1>6. ASSUME NEW c \in Cameras, NEW from \in {"ask first", "ask third"},
             NEW next \in {"idle", "ask third"}, onConnect(c, from, next)
      PROVE  StateTypes'
  <2>1. PlaceTypes'
    BY <1>6, <1>a, <1>b, Moved DEF onConnect, Jump, Goto
  <2>2. [what |-> "OPEN", of |-> block[Async]] \in Messages
    BY <1>6 DEF onConnect, Jump, Busy, UsesBlock, Messages
  <2>3. inbox' \in [Cameras -> Seq(Messages)]
    <3>1. Append(inbox[c], [what |-> "OPEN", of |-> block[Async]]) \in Seq(Messages)
      BY <2>2, Appended
    <3> QED
      BY <1>6, <3>1 DEF onConnect
  <2>4. block' \in [Threads -> Blocks \cup {NULL}]
    BY <1>6 DEF onConnect
  <2> QED
    BY <1>6, <2>1, <2>3, <2>4 DEF onConnect
<1>7. CASE CheckRun
  <2>1. PlaceTypes'
    BY <1>7, <1>a, <1>b, Moved DEF CheckRun, Goto
  <2> QED
    BY <1>7, <2>1 DEF CheckRun
<1>8. CASE CheckList
  <2>1. PlaceTypes'
    BY <1>8, <1>a, <1>b, Moved DEF CheckList, Jump, Goto
  <2> QED
    BY <1>8, <2>1 DEF CheckList, Present
<1>9. CASE CheckCompare
  <2>1. PlaceTypes'
    BY <1>9, <1>a, <1>b, Moved DEF CheckCompare, Jump, Goto
  <2>2. [what |-> "attach", of |-> list] \in Tasks
    BY DEF Tasks
  <2>3. Cardinality(list) \in Nat
    BY ConstantsAssumption, FS_Subset, FS_CardinalityType
  <2>4. tasks' \in Seq(Tasks) /\ mDeviceCounts' \in Nat
    <3>1. Append(tasks, [what |-> "attach", of |-> list]) \in Seq(Tasks)
      BY <2>2, Appended
    <3> QED
      BY <1>9, <2>3, <3>1 DEF CheckCompare
  <2>5. mHasPermissions' \in SUBSET Devices /\ list' \in SUBSET Devices /\ checks' \in Nat
    BY <1>9 DEF CheckCompare
  <2> QED
    BY <1>9, <2>1, <2>4, <2>5 DEF CheckCompare
<1>10. First \in Cameras /\ Third \in Cameras
  BY DEF Cameras
<1> QED
  BY <1>1, <1>2, <1>3, <1>4, <1>5, <1>6, <1>7, <1>8, <1>9, <1>10 DEF AsyncStep

LEMMA CameraTypes == ASSUME StateTypes, Busy, NEW c \in Cameras, CameraStep(c) PROVE StateTypes'
<1> USE Names
    DEF system, listening, counting, posted, connections, handlers, locals, told, bounds, StateTypes
<1>a. \A l \in CameraLabels : l \in Labels(c)
  BY DEF Labels
<1>b. {"idle", "closing", "disconnect", "clone", "connect"} \subseteq CameraLabels
  BY DEF CameraLabels
<1>0. AfterClose(c) \in CameraLabels
  BY <1>b DEF AfterClose, AfterHandleClose
<1>1. CASE handleClose(c)
  <2>1. PlaceTypes'
    BY <1>1, <1>a, <1>b, Moved DEF handleClose, Goto
  <2>2. Tail(inbox[c]) \in Seq(Messages)
    BY <1>1, FirstOf DEF handleClose
  <2> QED
    BY <1>1, <2>1, <2>2 DEF handleClose
<1>2. CASE CloseConnection(c)
  <2>1. PlaceTypes'
    BY <1>2, <1>0, <1>a, <1>b, Moved DEF CloseConnection, Jump, Goto
  <2>2. conn' \in [Blocks -> {"unmade", "none", "open", "closed"}]
        /\ block' \in [Threads -> Blocks \cup {NULL}]
    BY <1>2 DEF CloseConnection
  <2> QED
    BY <1>2, <2>1, <2>2 DEF CloseConnection
<1>3. CASE Disconnect(c)
  <2>1. PlaceTypes'
    BY <1>3, <1>0, <1>a, <1>b, Moved DEF Disconnect, Jump, Goto
  <2> QED
    BY <1>3, <2>1 DEF Disconnect
<1>4. CASE clone(c)
  <2>1. PlaceTypes'
    BY <1>4, <1>a, <1>b, Moved DEF clone, Goto
  <2>2. CASE UNCHANGED <<connections, block>>
    BY <1>4, <2>1, <2>2 DEF clone
  <2>3. ASSUME NEW b \in Blocks, deviceOf[op[c].of] \in granted, New(b, deviceOf[op[c].of]),
               conn' = [conn EXCEPT ![b] = "open"], clones' = clones \cup {b},
               block' = [block EXCEPT ![c] = b]
        PROVE  StateTypes'
    <3>1. deviceOf' \in [Blocks -> Devices \cup {NULL}]
      BY <2>3 DEF New
    <3>2. /\ conn' \in [Blocks -> {"unmade", "none", "open", "closed"}]
          /\ clones' \in SUBSET Blocks /\ block' \in [Threads -> Blocks \cup {NULL}]
      BY <2>3
    <3> QED
      BY <1>4, <2>1, <3>1, <3>2 DEF clone
  <2> QED
    BY <1>4, <2>2, <2>3 DEF clone, OwnBlock
<1>5. CASE Connect(c)
  <2>1. PlaceTypes'
    BY <1>5, <1>a, <1>b, Moved DEF Connect, Jump, Goto
  <2> QED
    BY <1>5, <2>1 DEF Connect
<1> QED
  BY <1>1, <1>2, <1>3, <1>4, <1>5 DEF CameraStep
-----------------------------------------------------------------------------
(* Ownership.                                                              *)

Owned == Busy /\ Entered /\ Fill /\ MainCloses /\ Clones /\ Originals

\* Steps that leave the blocks and the threads where they are.
LEMMA OwnedSame ==
  ASSUME IndInv, UNCHANGED <<mCtrlBlocks, connections, camera, pc, op, block>>, destroyed => destroyed'
  PROVE  Owned'
<1> USE DEF IndInv, connections
<1>1. Busy' /\ Entered' /\ Fill' /\ MainCloses'
  BY DEF Busy, Entered, Fill, MainCloses
<1>2. Clones'
  BY DEF Clones, InHand
<1>3. Originals'
  BY DEF Originals, Original, Located, Slipped
<1> QED
  BY <1>1, <1>2, <1>3 DEF Owned

LEMMA GoneSame ==
  ASSUME IndInv, UNCHANGED <<granted, plugged>>, intents' \in {intents, <<>>, Tail(intents)},
         op'[Main] = op[Main] \/ op'[Main].what # "DETACHED",
         op'[Main].what = "destroy" => destroyed'
  PROVE  Gone'
<1> USE DEF IndInv, Gone, StateTypes
<1>1. \A i \in 1..Len(intents') : intents'[i].what = "DETACHED" => plugged'[intents'[i].of] = "gone"
  <2>1. CASE intents' = <<>>
    BY <2>1
  <2>2. CASE intents # <<>> /\ intents' = Tail(intents)
    <3>1. \A i \in 1..Len(intents') : i + 1 \in 1..Len(intents) /\ intents'[i] = intents[i + 1]
      BY <2>2, ElementOfTail
    <3> QED
      BY <3>1
  <2>3. CASE intents' = intents
    BY <2>3
  <2>4. intents = <<>> => Tail(intents) = <<>>
    OBVIOUS
  <2> QED
    BY <2>1, <2>2, <2>3, <2>4
<1> QED
  BY <1>1

LEMMA SystemInd == IndInv /\ System => IndInv'
<1> SUFFICES ASSUME IndInv, NEW d \in Devices, Plug(d) \/ Unplug(d) \/ Answer(d) PROVE IndInv'
  BY DEF System
<1>1. StateTypes'
  BY SystemTypes DEF IndInv, System
<1>2. Owned'
  BY OwnedSame DEF Plug, Unplug, Answer, handlers
<1>3. Gone'
  <2> USE DEF IndInv, Gone, StateTypes
  <2>1. ASSUME NEW what \in {"GRANTED", "DENIED", "DETACHED"}, Broadcast(what, d),
               what = "DETACHED" => plugged'[d] = "gone",
               \A e \in Devices : plugged[e] = "gone" => plugged'[e] = "gone"
        PROVE  \A i \in 1..Len(intents') :
                 intents'[i].what = "DETACHED" => plugged'[intents'[i].of] = "gone"
    <3>1. \A i \in 1..Len(intents) : intents[i].of \in Devices
      <4>1. \A i \in 1..Len(intents) : intents[i] \in Intents
        BY ElementOf
      <4> QED
        BY <4>1 DEF Intents
    <3>2. CASE intents' = intents
      BY <2>1, <3>1, <3>2
    <3>3. CASE intents' = Append(intents, [what |-> what, of |-> d])
      <4>1. \A i \in 1..Len(intents') :
              \/ i \in 1..Len(intents) /\ intents'[i] = intents[i]
              \/ intents'[i] = [what |-> what, of |-> d]
        BY <3>3, ElementOfAppend
      <4> QED
        BY <2>1, <3>1, <4>1
    <3> QED
      BY <2>1, <3>2, <3>3 DEF Broadcast
  <2>2. op[Main].what = "DETACHED" => op[Main].of \in Devices
    BY DEF Busy
  <2>3. CASE Plug(d)
    BY <2>3 DEF Plug, listening
  <2>4. CASE Unplug(d)
    BY <2>1, <2>4 DEF Unplug
  <2>5. CASE Answer(d)
    BY <2>1, <2>5 DEF Answer, Present
  <2> QED
    BY <2>3, <2>4, <2>5
<1> QED
  BY <1>1, <1>2, <1>3 DEF IndInv, Owned

\* Calls of the application, and Main's steps that close nothing.
LEMMA MainCallsInd ==
  ASSUME IndInv,
         register \/ unregister \/ (\E d \in Devices : requestPermission(d))
         \/ (\E c \in Cameras : closeCamera(c)) \/ onReceivePermission
  PROVE  IndInv'
<1>1. StateTypes'
  BY MainTypes DEF IndInv, MainStep
<1>2. UNCHANGED <<mCtrlBlocks, connections, camera, pc, op, block, destroyed, granted, plugged>>
      /\ intents' \in {intents, <<>>}
  BY DEF register, unregister, requestPermission, closeCamera, onReceivePermission, Begin,
         Unregistered, Deaf, handlers, listening, system
<1>3. Owned'
  BY <1>2, OwnedSame
<1>4. Gone'
  BY <1>2, GoneSame DEF IndInv, Gone
<1> QED
  BY <1>1, <1>3, <1>4 DEF IndInv, Owned

\* What Main is about to close it has taken out of the map.
LEMMA EntryAlone ==
  ASSUME IndInv, NEW d \in Devices, mCtrlBlocks[d] # NULL
  PROVE  /\ \A e \in Devices : e # d => mCtrlBlocks[e] # mCtrlBlocks[d]
         /\ pc[Async] \in {"info", "put"} => mCtrlBlocks[d] # block[Async]
<1>1. \A e \in Devices : e # d => mCtrlBlocks[e] # mCtrlBlocks[d]
  BY DEF IndInv, Entered
<1>2. pc[Async] \in {"info", "put"} => mCtrlBlocks[op[Async].of] = NULL /\ deviceOf[block[Async]] = op[Async].of
  BY DEF IndInv, Fill, Filling
<1> QED
  BY <1>1, <1>2 DEF IndInv, Entered

LEMMA MainInd ==
  ASSUME IndInv, destroy \/ Sweep \/ SweepEnd \/ onReceiveDetached \/ processDettach
  PROVE  IndInv'
<1> USE Names
<1>1. StateTypes'
  BY MainTypes DEF IndInv, MainStep
<1> USE DEF IndInv, StateTypes, PlaceTypes, Labels, connections, handlers, system, listening,
            Begins, Goto, Jump
<1>2. CASE destroy
  <2> USE <1>2 DEF destroy, Begin, Unregistered
  <2>1. Busy'
    BY DEF Busy, Closing, Connecting, UsesBlock
  <2>2. Entered' /\ Fill' /\ MainCloses'
    BY DEF Entered, Fill, MainCloses, Closing, Filling
  <2>3. Clones'
    BY DEF Clones, InHand, Closing
  <2>4. Originals'
    BY DEF Originals, Original, Located, Slipped, Closing
  <2>5. Gone'
    BY GoneSame
  <2> QED
    BY <1>1, <2>1, <2>2, <2>3, <2>4, <2>5
<1>3. CASE Sweep
  <2>0. PICK d \in Devices :
          /\ pc[Main] = "sweep"
          /\ block' = [block EXCEPT ![Main] = mCtrlBlocks[d]]
          /\ mCtrlBlocks' = [mCtrlBlocks EXCEPT ![d] = NULL]
          /\ \A t \in Threads : op'[t] = op[t]
          /\ pc' = [pc EXCEPT ![Main] = IF mCtrlBlocks[d] = NULL THEN "sweep" ELSE "closing"]
          /\ UNCHANGED <<system, listening, destroyed, connections, handlers>>
    <3>1. PICK d \in keys \cup Entries :
            /\ block' = [block EXCEPT ![Main] = mCtrlBlocks[d]]
            /\ mCtrlBlocks' = [mCtrlBlocks EXCEPT ![d] = NULL]
            /\ Goto(Main, IF mCtrlBlocks[d] = NULL THEN "sweep" ELSE "closing")
      BY <1>3 DEF Sweep
    <3> QED
      BY <1>3, <3>1 DEF Sweep, Entries
  <2> USE <2>0
  <2>1. Busy'
    BY DEF Busy, Closing, Connecting, UsesBlock
  <2>2. Entered'
    BY DEF Entered
  <2>3. Fill'
    <3>1. UNCHANGED <<conn, deviceOf, clones, pc[Async], op[Async], block[Async]>>
      OBVIOUS
    <3>2. pc[Async] \in {"info", "put"} => block'[Main] # block[Async]
      BY EntryAlone DEF Busy, UsesBlock
    <3>3. \A e \in Devices : mCtrlBlocks[e] = NULL => mCtrlBlocks'[e] = NULL
      OBVIOUS
    <3> QED
      BY <3>1, <3>2, <3>3 DEF Fill, Filling, Busy, Connecting
  <2>4. MainCloses'
    BY ZenonT(60), EntryAlone DEF Entered, MainCloses, Closing
  <2>5. Clones'
    BY DEF Clones, InHand, Closing
  <2>6. Originals'
    BY DEF Originals, Original, Located, Slipped, Closing, Busy, Gone
  <2>7. Gone'
    BY GoneSame DEF Gone, Busy
  <2> QED
    BY <1>1, <2>1, <2>2, <2>3, <2>4, <2>5, <2>6, <2>7
<1>4. CASE SweepEnd
  <2> USE <1>4 DEF SweepEnd
  <2>1. Busy'
    BY DEF Busy, Closing, Connecting, UsesBlock, Nothing
  <2>2. Entered' /\ Fill' /\ MainCloses'
    BY DEF Entered, Fill, MainCloses, Closing, Filling, Busy, Connecting
  <2>3. Clones'
    BY DEF Clones, InHand, Closing
  <2>4. Originals'
    BY DEF Originals, Original, Located, Slipped, Closing, Busy, Gone
  <2>5. Gone'
    BY GoneSame DEF Nothing
  <2> QED
    BY <1>1, <2>1, <2>2, <2>3, <2>4, <2>5
<1>5. CASE onReceiveDetached
  <2> DEFINE d == Head(intents).of
  <2>0. Head(intents) \in Intents
    BY <1>5, FirstOf DEF onReceiveDetached
  <2>1. d \in Devices /\ Head(intents).what = "DETACHED"
    BY <1>5, <2>0 DEF Intents, onReceiveDetached
  <2>2. plugged[d] = "gone"
    <3>1. 1 \in 1..Len(intents) /\ Head(intents) = intents[1]
      BY <1>5 DEF onReceiveDetached
    <3> QED
      BY <2>1, <3>1 DEF Gone
  <2>3. /\ pc[Main] = "idle" /\ op' = [op EXCEPT ![Main] = Head(intents)]
        /\ pc' = [pc EXCEPT ![Main] = IF mCtrlBlocks[d] = NULL THEN "detached" ELSE "closing"]
        /\ block' = [block EXCEPT ![Main] = mCtrlBlocks[d]]
        /\ mCtrlBlocks' = [mCtrlBlocks EXCEPT ![d] = NULL]
        /\ intents # <<>> /\ intents' = Tail(intents)
        /\ UNCHANGED <<system, destroyed, connections, handlers>>
    BY <1>5 DEF onReceiveDetached, Removed, Detaching
  <2> HIDE DEF d
  <2>4. Busy'
    BY <2>1, <2>3 DEF Busy, Closing, Connecting, UsesBlock, d
  <2>5. Entered'
    BY <2>1, <2>3 DEF Entered
  <2>6. Fill'
    <3>1. UNCHANGED <<conn, deviceOf, clones, pc[Async], op[Async], block[Async]>>
      BY <2>3
    <3>2. pc[Async] \in {"info", "put"} => block'[Main] # block[Async]
      BY <2>1, <2>3, EntryAlone DEF Busy, UsesBlock
    <3>3. \A e \in Devices : mCtrlBlocks[e] = NULL => mCtrlBlocks'[e] = NULL
      BY <2>3
    <3> QED
      BY <3>1, <3>2, <3>3 DEF Fill, Filling, Busy, Connecting
  <2>7. MainCloses'
    BY <2>1, <2>3 DEF Entered, MainCloses, Closing
  <2>8. Clones'
    BY <2>3 DEF Clones, InHand, Closing
  <2>9. Originals'
    BY <2>1, <2>3 DEF Originals, Original, Located, Slipped, Closing, Entered, d
  <2>10. Gone'
    <3>1. \A i \in 1..Len(intents') : i + 1 \in 1..Len(intents) /\ intents'[i] = intents[i + 1]
      BY <2>3, ElementOfTail
    <3> QED
      BY <2>1, <2>2, <2>3, <3>1 DEF Gone, d
  <2> QED
    BY <1>1, <2>4, <2>5, <2>6, <2>7, <2>8, <2>9, <2>10
<1>6. CASE processDettach
  <2> USE <1>6 DEF processDettach, Deaf
  <2>1. Busy'
    BY DEF Busy, Closing, Connecting, UsesBlock, Nothing
  <2>2. Entered' /\ Fill' /\ MainCloses'
    BY DEF Entered, Fill, MainCloses, Closing, Filling
  <2>3. Clones'
    BY DEF Clones, InHand, Closing
  <2>4. Originals'
    BY DEF Originals, Original, Located, Slipped, Closing
  <2>5. Gone'
    BY GoneSame DEF Nothing
  <2> QED
    BY <1>1, <2>1, <2>2, <2>3, <2>4, <2>5
<1> QED
  BY <1>2, <1>3, <1>4, <1>5, <1>6

LEMMA MainCloseInd == ASSUME IndInv, CloseConnection(Main) PROVE IndInv'
<1> USE Names DEF IndInv, StateTypes, PlaceTypes, Labels
<1>1. StateTypes'
  BY MainTypes DEF MainStep
<1> DEFINE b == block[Main]
           after == AfterClose(Main)
<1>2. pc[Main] = "closing"
  BY DEF CloseConnection, Jump
<1>3. /\ b \in Blocks /\ b \notin clones /\ conn[b] # "unmade"
      /\ \A d \in Devices : mCtrlBlocks[d] # b
  BY <1>2 DEF MainCloses, Closing, Busy, UsesBlock
<1>4. pc[Async] \in {"info", "put"} => block[Async] \in Blocks \ {b}
  BY DEF Busy, UsesBlock, Fill
<1>5. /\ op[Main].what = "destroy" => after = "sweep"
      /\ op[Main].what = "DETACHED" => after = "detached"
      /\ op[Main].what \in {"destroy", "DETACHED"}
  BY <1>2 DEF AfterClose, Busy, Closing
<1> HIDE DEF after
<1>6. /\ \/ /\ pc' = [pc EXCEPT ![Main] = "disconnect"] /\ block' = block
            /\ conn[b] = "open" /\ conn' = [conn EXCEPT ![b] = "closed"]
         \/ /\ pc' = [pc EXCEPT ![Main] = after] /\ block' = [block EXCEPT ![Main] = NULL]
            /\ conn[b] # "open" /\ conn' = conn
      /\ \A t \in Threads : op'[t] = op[t]
      /\ UNCHANGED <<plugged, granted, intents, destroyed, mCtrlBlocks, deviceOf, clones, camera>>
  BY <1>5 DEF CloseConnection, Jump, Goto, Begins, system, listening, handlers, after
<1> HIDE DEF b
<1>7. \A e \in Blocks : e # b => conn'[e] = conn[e]
  BY <1>6
<1>8. \A t \in Threads \ {Main} : pc'[t] = pc[t] /\ block'[t] = block[t]
  BY <1>6
<1>9. Busy'
  <2>1. block'[Main] = NULL => pc'[Main] \in {"sweep", "detached"}
    BY <1>3, <1>5, <1>6 DEF b
  <2>2. \A t \in Threads : pc'[t] \in UsesBlock => block'[t] # NULL
    BY <1>8, <2>1 DEF Busy, UsesBlock
  <2>3. /\ op'[Main].what = "DETACHED" => op'[Main].of \in Devices
        /\ pc'[Main] = "detached" => op'[Main].what = "DETACHED"
        /\ pc'[Main] \in Closing => op'[Main].what \in {"destroy", "DETACHED"}
        /\ pc'[Main] = "sweep" => op'[Main].what = "destroy"
    BY <1>5, <1>6 DEF Busy, Closing
  <2>4. \A t \in Threads \ {Main} : pc'[t] = pc[t] /\ op'[t] = op[t]
    BY <1>6, <1>8
  <2> QED
    BY <2>2, <2>3, <2>4 DEF Busy, Connecting
<1>10. Entered'
  BY <1>3, <1>6, <1>7 DEF Entered
<1>11. Fill'
  BY <1>4, <1>6, <1>7, <1>8 DEF Fill, Filling, b
<1>12. MainCloses'
  BY <1>3, <1>5, <1>6 DEF MainCloses, Closing, b
<1>13. Clones'
  <2>1. \A c \in Cameras : pc'[c] = pc[c] /\ block'[c] = block[c]
    BY <1>8
  <2>2. \A c \in Cameras : InHand(c)' = InHand(c)
    BY <1>6, <2>1 DEF InHand
  <2>3. \A k \in clones : conn'[k] = conn[k]
    BY <1>3, <1>7
  <2>4. \A c \in Cameras : camera[c] # NULL => camera[c] \in clones
    BY DEF Clones, InHand, Closing
  <2>5. \A c \in Cameras : pc[c] \in {"connect", "disconnect"} => block[c] \in clones
    BY DEF Clones, InHand, Closing, Busy, UsesBlock
  <2> QED
    BY <1>6, <2>1, <2>2, <2>3, <2>4, <2>5 DEF Clones
<1>14. Originals'
  <2>1. \A d : Slipped(d)' <=> Slipped(d)
    BY <1>3, <1>6, <1>7 DEF Slipped
  <2>2. \A e \in Blocks : Original(e)' => Original(e) /\ (e # b \/ conn[b] # "open")
    BY <1>6, <1>7 DEF Original
  <2>3. \A e \in Blocks : Original(e)' => e # b
    BY <1>6, <2>2 DEF Original
  <2>4. pc'[Main] = "disconnect" => Original(b) /\ block'[Main] = b
    BY <1>3, <1>5, <1>6 DEF Original, b
  <2>5. block'[Main] # NULL => pc'[Main] = "disconnect"
    BY <1>6
  <2> QED
    BY <1>2, <1>3, <1>5, <1>6, <1>7, <1>8, <2>1, <2>2, <2>3, <2>4, <2>5 DEF Originals, Located, Closing, b
<1>15. Gone'
  BY <1>6, GoneSame DEF Gone
<1> QED
  BY <1>1, <1>9, <1>10, <1>11, <1>12, <1>13, <1>14, <1>15

LEMMA MainDisconnectInd == ASSUME IndInv, Disconnect(Main) PROVE IndInv'
<1> USE Names DEF IndInv, StateTypes, PlaceTypes, Labels
<1>1. StateTypes'
  BY MainTypes DEF MainStep
<1> DEFINE d == deviceOf[block[Main]]
<1>2. /\ pc[Main] = "disconnect" /\ pc' = [pc EXCEPT ![Main] = AfterClose(Main)]
      /\ mCtrlBlocks' = [mCtrlBlocks EXCEPT ![d] = NULL]
      /\ block' = [block EXCEPT ![Main] = NULL]
      /\ AfterClose(Main) \in {"sweep", "detached"}
      /\ UNCHANGED <<system, listening, destroyed, connections, handlers>>
      /\ \A t \in Threads : op'[t] = op[t]
  BY DEF Disconnect, Jump, Goto, Begins, AfterClose
<1>3. d \in Devices
  BY <1>2 DEF MainCloses, Originals, Closing, Busy, UsesBlock
<1>4. \A b \in Blocks : Original(b) /\ deviceOf[b] = d => Slipped(d)
  BY <1>2 DEF Originals
<1> HIDE DEF d
<1> USE <1>2 DEF handlers, connections
<1>5. Busy'
  BY DEF Busy, Closing, Connecting, UsesBlock, AfterClose
<1>6. Entered'
  BY <1>3 DEF Entered
<1>7. Fill'
  BY <1>3 DEF Fill, Filling, Busy, Connecting, UsesBlock
<1>8. MainCloses'
  BY DEF MainCloses, Closing
<1>9. Clones'
  BY DEF Clones, InHand, Closing
<1>10. Originals'
  BY <1>3, <1>4 DEF Originals, Original, Located, Slipped, Closing, d
<1>11. Gone'
  BY GoneSame DEF Gone, system, listening
<1> QED
  BY <1>1, <1>5, <1>6, <1>7, <1>8, <1>9, <1>10, <1>11

\* What a step of a CameraThread has to leave alone: the other threads, the
\* blocks that are no clones, and the clones that are not in its hands.
LeavesAlone(c) ==
    /\ UNCHANGED <<plugged, granted, intents, destroyed>>
    /\ \A t \in Threads \ {c} : pc'[t] = pc[t] /\ op'[t] = op[t] /\ block'[t] = block[t]
    /\ \A e \in Cameras \ {c} : camera'[e] = camera[e]
    /\ \A e \in Blocks : conn[e] # "unmade" => deviceOf'[e] = deviceOf[e]
    /\ \A e \in Blocks : conn[e] # "unmade" /\ e # InHand(c) => conn'[e] = conn[e]
    /\ InHand(c) \in Blocks => conn'[InHand(c)] \in {conn[InHand(c)], "closed"}
    /\ clones \subseteq clones'
    /\ \A e \in Blocks : conn[e] # "unmade" /\ e \notin clones => e \notin clones'
    /\ \A e \in Blocks : conn[e] = "unmade" /\ conn'[e] # "unmade" =>
         e \in clones' /\ deviceOf'[e] \in Devices
    /\ \A d \in Devices : \/ mCtrlBlocks'[d] = mCtrlBlocks[d]
                          \/ mCtrlBlocks'[d] = NULL /\ Slipped(d)

\* What it has to see to itself.
KeepsOrder(c) ==
    /\ pc'[c] # "idle" => op'[c] \in Messages /\ camera'[c] = NULL
    /\ pc'[c] = "clone" => op'[c].what = "OPEN"
    /\ pc'[c] \in UsesBlock => block'[c] # NULL
    /\ InHand(c)' # NULL => InHand(c)' \in clones' /\ conn'[InHand(c)'] # "unmade"
    /\ InHand(c)' \in {NULL, InHand(c)} \/ conn[InHand(c)'] = "unmade"
    /\ pc'[c] = "connect" => conn'[block'[c]] = "open"
    /\ pc'[c] = "disconnect" => conn'[block'[c]] = "closed"
    /\ camera'[c] # NULL => conn'[camera'[c]] = "open"
    /\ \A k \in clones' \ clones : conn'[k] # "unmade"

LEMMA CameraFrame ==
  ASSUME IndInv, NEW c \in Cameras, StateTypes', LeavesAlone(c), KeepsOrder(c)
  PROVE  IndInv'
<1> USE Names DEF IndInv, StateTypes
<1>1. c \in Threads /\ c # Main /\ c # Async
  OBVIOUS
<1>2. UNCHANGED <<pc[Main], op[Main], block[Main], pc[Async], op[Async], block[Async]>>
  BY <1>1 DEF LeavesAlone
<1>3. InHand(c) # NULL => InHand(c) \in clones
  BY DEF Clones
<1>4. \A e \in Blocks : conn[e] # "unmade" /\ e \notin clones =>
        conn'[e] = conn[e] /\ deviceOf'[e] = deviceOf[e] /\ e \notin clones'
  BY <1>3 DEF LeavesAlone
<1>5. Busy'
  <2>1. \A t \in Threads \ {c} : pc'[t] \in UsesBlock => block'[t] # NULL
    BY DEF Busy, LeavesAlone
  <2>2. \A e \in Cameras \ {c} : pc'[e] = pc[e] /\ op'[e] = op[e]
    BY DEF LeavesAlone
  <2>3. \A t \in Threads : pc'[t] \in UsesBlock => block'[t] # NULL
    BY <2>1 DEF KeepsOrder
  <2>4. \A e \in Cameras : /\ pc'[e] # "idle" => op'[e] \in Messages
                           /\ pc'[e] = "clone" => op'[e].what = "OPEN"
    <3>1. \A e \in Cameras \ {c} : /\ pc'[e] # "idle" => op'[e] \in Messages
                                   /\ pc'[e] = "clone" => op'[e].what = "OPEN"
      BY <2>2 DEF Busy
    <3>2. /\ pc'[c] # "idle" => op'[c] \in Messages
          /\ pc'[c] = "clone" => op'[c].what = "OPEN"
      BY DEF KeepsOrder
    <3> QED
      BY <3>1, <3>2
  <2>5. /\ op[Main].what = "DETACHED" => op[Main].of \in Devices
        /\ pc[Main] = "detached" => op[Main].what = "DETACHED"
        /\ pc[Main] \in Closing => op[Main].what \in {"destroy", "DETACHED"}
        /\ pc[Main] = "sweep" => op[Main].what = "destroy"
        /\ pc[Async] \in Connecting => op[Async].of \in Devices
    BY DEF Busy
  <2> HIDE DEF StateTypes, IndInv
  <2> QED
    BY <1>2, <2>3, <2>4, <2>5 DEF Busy
<1>6. Entered'
  <2>1. \A d \in Devices : mCtrlBlocks[d] # NULL => conn[mCtrlBlocks[d]] # "unmade"
    BY DEF Entered
  <2> QED
    BY <1>4, <2>1 DEF Entered, LeavesAlone
<1>7. Fill'
  <2>1. \A d \in Devices : mCtrlBlocks[d] = NULL => mCtrlBlocks'[d] = NULL
    BY DEF LeavesAlone
  <2>2. pc[Async] \in {"info", "put"} =>
          block[Async] \in Blocks /\ conn[block[Async]] # "unmade" /\ block[Async] \notin clones
    BY DEF Fill, Busy, UsesBlock
  <2> QED
    BY ZenonT(60), <1>2, <1>4, <2>1, <2>2 DEF Fill, Filling, Busy, Connecting
<1>8. MainCloses'
  <2>1. pc[Main] \in Closing => block[Main] \in Blocks
    BY DEF Busy, UsesBlock, Closing
  <2> QED
    BY <1>2, <1>4, <2>1 DEF MainCloses, LeavesAlone
<1>9. Clones'
  <2>1. \A e \in Cameras \ {c} : /\ InHand(e)' = InHand(e) /\ pc'[e] = pc[e]
                                 /\ camera'[e] = camera[e] /\ block'[e] = block[e]
    BY DEF InHand, LeavesAlone
  <2>2. \A e \in Cameras : InHand(e) # NULL => InHand(e) \in clones
    BY DEF Clones
  <2>3. \A e \in Cameras : InHand(e)' # NULL => InHand(e)' \in clones'
    <3>1. \A e \in Cameras \ {c} : InHand(e)' # NULL => InHand(e)' \in clones'
      BY <2>1, <2>2 DEF LeavesAlone
    <3> QED
      BY <3>1 DEF KeepsOrder
  <2>4. \A k \in clones : conn[k] # "unmade"
    BY DEF Clones
  <2>5. \A e \in Cameras \ {c} : InHand(e) # NULL => InHand(e) # InHand(c)' /\ InHand(e) # InHand(c)
    BY <2>2, <2>4 DEF Clones, KeepsOrder
  <2>6. \A e, g \in Cameras : e # g /\ InHand(e)' # NULL => InHand(e)' # InHand(g)'
    <3>1. ASSUME NEW e \in Cameras, NEW g \in Cameras, e # g, InHand(e)' # NULL
          PROVE  InHand(e)' # InHand(g)'
      <4>1. CASE e = c
        BY <2>1, <2>5, <3>1, <4>1
      <4>2. CASE g = c
        BY <2>1, <2>5, <3>1, <4>2
      <4>3. CASE e # c /\ g # c
        BY <2>1, <3>1, <4>3 DEF Clones
      <4> QED
        BY <4>1, <4>2, <4>3
    <3> QED
      BY <3>1
  <2>7. \A e \in Cameras \ {c} : InHand(e) # NULL => conn'[InHand(e)] = conn[InHand(e)]
    BY <2>2, <2>4, <2>5 DEF LeavesAlone
  <2>8. \A e \in Cameras \ {c} : pc[e] \in {"connect", "disconnect"} => InHand(e) = block[e] /\ block[e] # NULL
    BY DEF InHand, Closing, Busy, UsesBlock
  <2>9. \A e \in Cameras \ {c} : camera[e] # NULL => InHand(e) = camera[e]
    BY DEF InHand, Closing, Clones
  <2>10. /\ \A e \in Cameras : pc'[e] = "connect" => conn'[block'[e]] = "open"
         /\ \A e \in Cameras : pc'[e] = "disconnect" => conn'[block'[e]] = "closed"
    <3>1. \A e \in Cameras \ {c} : /\ pc'[e] = "connect" => conn'[block'[e]] = "open"
                                   /\ pc'[e] = "disconnect" => conn'[block'[e]] = "closed"
      <4>1. ASSUME NEW e \in Cameras \ {c}, pc[e] \in {"connect", "disconnect"}
            PROVE  pc'[e] = pc[e] /\ conn'[block'[e]] = conn[block[e]]
        BY <2>1, <2>7, <2>8, <4>1
      <4>2. \A e \in Cameras \ {c} : pc'[e] = pc[e]
        BY <2>1
      <4> QED
        BY <4>1, <4>2 DEF Clones
    <3>2. /\ pc'[c] = "connect" => conn'[block'[c]] = "open"
          /\ pc'[c] = "disconnect" => conn'[block'[c]] = "closed"
      BY DEF KeepsOrder
    <3> QED
      BY <3>1, <3>2
  <2>11. /\ \A e \in Cameras : camera'[e] # NULL => conn'[camera'[e]] = "open"
         /\ \A e \in Cameras : pc'[e] # "idle" => camera'[e] = NULL
    <3>1. \A e \in Cameras \ {c} : /\ camera'[e] # NULL => conn'[camera'[e]] = "open"
                                   /\ pc'[e] # "idle" => camera'[e] = NULL
      <4>1. \A e \in Cameras \ {c} : camera[e] # NULL => conn'[camera[e]] = conn[camera[e]]
        BY <2>7, <2>9
      <4>2. \A e \in Cameras \ {c} : pc'[e] = pc[e] /\ camera'[e] = camera[e]
        BY <2>1
      <4> QED
        BY <4>1, <4>2 DEF Clones
    <3>2. /\ camera'[c] # NULL => conn'[camera'[c]] = "open"
          /\ pc'[c] # "idle" => camera'[c] = NULL
      BY DEF KeepsOrder
    <3> QED
      BY <3>1, <3>2
  <2>12. \A k \in clones' : conn'[k] # "unmade"
    <3>1. \A k \in clones : k # InHand(c) => conn'[k] # "unmade"
      BY <2>4 DEF LeavesAlone
    <3>2. \A k \in clones : k = InHand(c) => conn'[k] # "unmade"
      BY <2>4 DEF LeavesAlone
    <3> QED
      BY <3>1, <3>2 DEF KeepsOrder
  <2> QED
    BY <2>3, <2>6, <2>10, <2>11, <2>12 DEF Clones
<1>10. Originals'
  <2>1. \A d : Slipped(d) => Slipped(d)'
    <3>1. \A k \in clones : conn[k] = "closed" =>
            k \in clones' /\ deviceOf'[k] = deviceOf[k] /\ conn'[k] = "closed"
      BY DEF LeavesAlone
    <3> QED
      BY <3>1 DEF Slipped, LeavesAlone
  <2>2. \A e \in Blocks : Original(e)' => Original(e) /\ deviceOf'[e] = deviceOf[e]
    BY <1>3 DEF Original, LeavesAlone
  <2>3. \A e \in Blocks : conn'[e] # "unmade" => deviceOf'[e] \in Devices
    BY DEF Originals, LeavesAlone
  <2>4. \A e \in Blocks : Original(e) => deviceOf[e] \in Devices
    BY DEF Originals, Original
  <2>5. pc[Main] \in Closing => deviceOf'[block[Main]] = deviceOf[block[Main]]
    <3>1. pc[Main] \in Closing => block[Main] \in Blocks /\ conn[block[Main]] # "unmade"
      BY DEF MainCloses, Busy, UsesBlock, Closing
    <3> QED
      BY <3>1 DEF LeavesAlone
  <2> QED
    BY <1>2, <2>1, <2>2, <2>3, <2>4, <2>5 DEF Originals, Located, LeavesAlone, Closing
<1>11. Gone'
  BY <1>2, GoneSame DEF Gone, LeavesAlone
<1> QED
  BY <1>5, <1>6, <1>7, <1>8, <1>9, <1>10, <1>11

LEMMA CameraInd == ASSUME IndInv, NEW c \in Cameras, CameraStep(c) PROVE IndInv'
<1> USE Names
<1>0. c \in Threads /\ c # Main /\ c # Async
  OBVIOUS
<1>1. StateTypes'
  BY CameraTypes DEF IndInv
<1>t. /\ conn \in [Blocks -> {"unmade", "none", "open", "closed"}]
      /\ deviceOf \in [Blocks -> Devices \cup {NULL}]
      /\ camera \in [Cameras -> Blocks \cup {NULL}] /\ block \in [Threads -> Blocks \cup {NULL}]
      /\ DOMAIN pc = Threads /\ DOMAIN op = Threads /\ clones \subseteq Blocks
      /\ mCtrlBlocks \in [Devices -> Blocks \cup {NULL}] /\ granted \subseteq Devices
  BY DEF IndInv, StateTypes, PlaceTypes
<1>k. /\ pc[c] # "idle" => op[c] \in Messages /\ camera[c] = NULL
      /\ pc[c] = "clone" => op[c].what = "OPEN"
      /\ pc[c] \in UsesBlock => block[c] # NULL
      /\ InHand(c) # NULL => InHand(c) \in clones /\ conn[InHand(c)] # "unmade"
      /\ camera[c] # NULL => conn[camera[c]] = "open"
      /\ pc[c] = "connect" => conn[block[c]] = "open"
      /\ pc[c] = "disconnect" => conn[block[c]] = "closed"
  BY DEF IndInv, Busy, Clones
<1>r. ASSUME NEW t \in Threads, NEW what, NEW label, Begins(t, what, label)
      PROVE  /\ pc'[t] = label /\ op'[t] = what
             /\ \A u \in Threads \ {t} : pc'[u] = pc[u] /\ op'[u] = op[u]
  BY <1>t, <1>r DEF Begins
<1> USE DEF Goto, Jump, system, listening, handlers, connections
<1>2. CASE handleClose(c)
  <2>1. Head(inbox[c]) \in Messages
    BY <1>2, FirstOf DEF handleClose, IndInv, StateTypes
  <2>2. Head(inbox[c]).what = "OPEN" \/ Head(inbox[c]) = Close
    BY <2>1 DEF Messages
  <2>3. /\ pc[c] = "idle" /\ block' = [block EXCEPT ![c] = camera[c]]
        /\ camera' = [camera EXCEPT ![c] = NULL]
        /\ UNCHANGED <<plugged, granted, intents, destroyed, mCtrlBlocks, conn, deviceOf, clones>>
    BY <1>2 DEF handleClose
  <2>4. /\ \/ pc'[c] = "idle" /\ camera[c] = NULL
           \/ pc'[c] = "clone" /\ camera[c] = NULL /\ op'[c] \in Messages /\ op'[c].what = "OPEN"
           \/ pc'[c] = "closing" /\ camera[c] # NULL /\ op'[c] \in Messages
        /\ \A t \in Threads \ {c} : pc'[t] = pc[t] /\ op'[t] = op[t]
    BY <1>2, <1>0, <1>r, <2>1, <2>2 DEF handleClose
  <2>5. InHand(c) = camera[c] /\ InHand(c)' = InHand(c)
    BY <1>t, <2>3, <2>4 DEF InHand, Closing
  <2>6. LeavesAlone(c)
    BY <1>t, <2>3, <2>4 DEF LeavesAlone
  <2>7. KeepsOrder(c)
    BY <1>t, <1>k, <2>3, <2>4, <2>5 DEF KeepsOrder, UsesBlock
  <2> QED
    BY <1>1, <2>6, <2>7, CameraFrame
<1>3. CASE CloseConnection(c)
  <2>1. /\ pc[c] = "closing" /\ InHand(c) = block[c] /\ block[c] \in clones
        /\ AfterClose(c) \in {"clone", "idle"} /\ (AfterClose(c) = "clone" => op[c].what = "OPEN")
    BY <1>0, <1>3, <1>k DEF CloseConnection, InHand, Closing, AfterClose, AfterHandleClose, UsesBlock
  <2>2. /\ \/ /\ pc'[c] = "disconnect" /\ block' = block /\ op'[c] = op[c]
              /\ conn[block[c]] = "open" /\ conn' = [conn EXCEPT ![block[c]] = "closed"]
           \/ /\ pc'[c] = AfterClose(c) /\ block' = [block EXCEPT ![c] = NULL]
              /\ AfterClose(c) = "clone" => op'[c] = op[c]
              /\ conn' = conn
        /\ \A t \in Threads \ {c} : pc'[t] = pc[t] /\ op'[t] = op[t]
        /\ UNCHANGED <<plugged, granted, intents, destroyed, mCtrlBlocks, deviceOf, clones, camera>>
    BY <1>0, <1>3, <1>r DEF CloseConnection
  <2>3. LeavesAlone(c)
    BY <1>t, <2>1, <2>2 DEF LeavesAlone
  <2>4. InHand(c)' \in {NULL, InHand(c)}
    BY <1>0, <1>t, <1>k, <2>1, <2>2 DEF InHand, Closing
  <2>5. KeepsOrder(c)
    BY ZenonT(60), <1>0, <1>t, <1>k, <2>1, <2>2, <2>4 DEF KeepsOrder, UsesBlock
  <2> QED
    BY <1>1, <2>3, <2>5, CameraFrame
<1>4. CASE Disconnect(c)
  <2>1. /\ pc[c] = "disconnect" /\ InHand(c) = block[c] /\ block[c] \in clones /\ conn[block[c]] = "closed"
        /\ AfterClose(c) \in {"clone", "idle"} /\ (AfterClose(c) = "clone" => op[c].what = "OPEN")
    BY <1>0, <1>4, <1>k DEF Disconnect, InHand, Closing, AfterClose, AfterHandleClose, UsesBlock
  <2>2. /\ pc'[c] = AfterClose(c) /\ (AfterClose(c) = "clone" => op'[c] = op[c])
        /\ block' = [block EXCEPT ![c] = NULL]
        /\ mCtrlBlocks' = [mCtrlBlocks EXCEPT ![deviceOf[block[c]]] = NULL]
        /\ \A t \in Threads \ {c} : pc'[t] = pc[t] /\ op'[t] = op[t]
        /\ UNCHANGED <<plugged, granted, intents, destroyed, conn, deviceOf, clones, camera>>
    BY <1>0, <1>4, <1>r DEF Disconnect
  <2>3. \A d \in Devices : mCtrlBlocks'[d] = mCtrlBlocks[d] \/ (mCtrlBlocks'[d] = NULL /\ Slipped(d))
    BY <1>t, <2>1, <2>2 DEF Slipped
  <2>4. LeavesAlone(c)
    BY <1>t, <2>1, <2>2, <2>3 DEF LeavesAlone
  <2>5. InHand(c)' = NULL
    BY <1>0, <1>t, <1>k, <2>1, <2>2 DEF InHand, Closing
  <2>6. KeepsOrder(c)
    BY <1>0, <1>t, <1>k, <2>1, <2>2, <2>5 DEF KeepsOrder, UsesBlock
  <2> QED
    BY <1>1, <2>4, <2>6, CameraFrame
<1>5. CASE clone(c)
  <2>1. pc[c] = "clone" /\ InHand(c) = NULL
    BY <1>5, <1>k DEF clone, InHand, Closing
  <2>2. UNCHANGED <<plugged, granted, intents, destroyed, mCtrlBlocks, camera>>
    BY <1>5 DEF clone
  <2>3. CASE Goto(c, "idle") /\ UNCHANGED <<connections, block>>
    <3>1. pc'[c] = "idle" /\ \A t \in Threads \ {c} : pc'[t] = pc[t] /\ op'[t] = op[t]
      BY <1>0, <1>r, <2>3
    <3>2. InHand(c)' = NULL
      BY <1>k, <2>1, <2>2, <3>1 DEF InHand, Closing
    <3>3. LeavesAlone(c)
      BY <2>1, <2>2, <2>3, <3>1, <1>t DEF LeavesAlone
    <3>4. KeepsOrder(c)
      BY <1>k, <2>1, <2>2, <2>3, <3>1, <3>2 DEF KeepsOrder, UsesBlock
    <3> QED
      BY <1>1, <3>3, <3>4, CameraFrame
  <2>4. ASSUME NEW b \in Blocks, deviceOf[op[c].of] \in granted, New(b, deviceOf[op[c].of]),
               conn' = [conn EXCEPT ![b] = "open"], clones' = clones \cup {b},
               block' = [block EXCEPT ![c] = b], Goto(c, "connect")
        PROVE  IndInv'
    <3>1. /\ pc'[c] = "connect" /\ op'[c] = op[c]
          /\ \A t \in Threads \ {c} : pc'[t] = pc[t] /\ op'[t] = op[t]
      BY <1>0, <1>r, <2>4
    <3>2. /\ conn[b] = "unmade" /\ deviceOf' = [deviceOf EXCEPT ![b] = deviceOf[op[c].of]]
          /\ deviceOf[op[c].of] \in Devices
      BY <2>4, <1>t DEF New
    <3>3. InHand(c)' = b
      BY <1>0, <1>t, <2>4, <3>1 DEF InHand, Closing
    <3>4. LeavesAlone(c)
      BY <1>0, <1>t, <2>1, <2>2, <2>4, <3>1, <3>2 DEF LeavesAlone
    <3>5. KeepsOrder(c)
      BY <1>0, <1>t, <1>k, <2>1, <2>2, <2>4, <3>1, <3>2, <3>3 DEF KeepsOrder
    <3> QED
      BY <1>1, <3>4, <3>5, CameraFrame
  <2> QED
    BY <1>5, <2>3, <2>4 DEF clone, OwnBlock
<1>6. CASE Connect(c)
  <2>1. /\ pc[c] = "connect" /\ InHand(c) = block[c] /\ block[c] \in clones /\ conn[block[c]] = "open"
        /\ camera[c] = NULL
    BY <1>6, <1>k DEF Connect, InHand, UsesBlock
  <2>2. /\ pc'[c] = "idle" /\ \A t \in Threads \ {c} : pc'[t] = pc[t] /\ op'[t] = op[t]
        /\ camera' = [camera EXCEPT ![c] = block[c]] \/ camera' = camera
        /\ block' = [block EXCEPT ![c] = NULL]
        /\ UNCHANGED <<plugged, granted, intents, destroyed, mCtrlBlocks, conn, deviceOf, clones>>
    BY <1>0, <1>r, <1>6 DEF Connect
  <2>3. InHand(c)' \in {NULL, InHand(c)} /\ camera'[c] \in {NULL, block[c]}
    BY <1>0, <1>t, <2>1, <2>2 DEF InHand, Closing
  <2>4. LeavesAlone(c)
    BY <1>0, <1>t, <2>1, <2>2 DEF LeavesAlone
  <2>5. KeepsOrder(c)
    BY <1>t, <1>k, <2>1, <2>2, <2>3 DEF KeepsOrder, UsesBlock
  <2> QED
    BY <1>1, <2>4, <2>5, CameraFrame
<1> QED
  BY <1>2, <1>3, <1>4, <1>5, <1>6 DEF CameraStep

\* What every step of Async leaves alone.
LEMMA AsyncFrame ==
  ASSUME IndInv,
         UNCHANGED <<plugged, granted, intents, destroyed, camera, clones>>,
         \A t \in Threads \ {Async} : pc'[t] = pc[t] /\ op'[t] = op[t] /\ block'[t] = block[t],
         \A e \in Blocks : conn[e] # "unmade" => conn'[e] = conn[e] /\ deviceOf'[e] = deviceOf[e],
         pc'[Async] \in Connecting => op'[Async].of \in Devices,
         pc'[Async] \in UsesBlock => block'[Async] # NULL,
         \A d \in Devices : mCtrlBlocks'[d] = mCtrlBlocks[d] \/ mCtrlBlocks'[d] # block[Main]
  PROVE  Busy' /\ MainCloses' /\ Clones' /\ Gone' /\ \A d : Slipped(d) => Slipped(d)'
<1> USE Names
<1>1. UNCHANGED <<pc[Main], op[Main], block[Main]>>
  OBVIOUS
<1>2. \A c \in Cameras : pc'[c] = pc[c] /\ op'[c] = op[c] /\ block'[c] = block[c]
  OBVIOUS
<1>3. Busy'
  <2>1. \A t \in Threads : pc'[t] \in UsesBlock => block'[t] # NULL
    BY DEF IndInv, Busy
  <2> QED
    BY <1>1, <1>2, <2>1 DEF IndInv, Busy
<1>4. MainCloses'
  <2> SUFFICES ASSUME pc'[Main] \in Closing
               PROVE  /\ conn'[block[Main]] # "unmade"
                      /\ block[Main] \notin clones
                      /\ \A d \in Devices : mCtrlBlocks'[d] # block[Main]
    BY <1>1 DEF MainCloses
  <2>1. block[Main] \in Blocks
    BY <1>1 DEF IndInv, StateTypes, Busy, UsesBlock, Closing
  <2>2. MainCloses /\ pc[Main] \in Closing
    BY <1>1 DEF IndInv
  <2>3. \A d \in Devices : mCtrlBlocks'[d] # block[Main]
    BY <2>2 DEF MainCloses
  <2> QED
    BY <2>1, <2>2, <2>3 DEF MainCloses
<1>5. Clones'
  <2>1. \A c \in Cameras : InHand(c)' = InHand(c)
    BY <1>2 DEF InHand
  <2>2. \A k \in clones : k \in Blocks /\ conn'[k] = conn[k] /\ conn[k] # "unmade"
    BY DEF IndInv, Clones, StateTypes
  <2>3. /\ \A c \in Cameras : pc[c] \in {"connect", "disconnect"} => block[c] \in clones
        /\ \A c \in Cameras : camera[c] # NULL => camera[c] \in clones
    BY DEF IndInv, Clones, InHand, Closing, Busy, UsesBlock
  <2> QED
    BY <1>2, <2>1, <2>2, <2>3 DEF IndInv, Clones
<1>6. Gone'
  BY <1>1, GoneSame DEF IndInv, Gone
<1>7. \A d : Slipped(d) => Slipped(d)'
  <2>1. \A k \in clones : conn[k] = "closed" => conn'[k] = "closed" /\ deviceOf'[k] = deviceOf[k]
    BY DEF IndInv, StateTypes
  <2> QED
    BY <2>1 DEF Slipped
<1> QED
  BY <1>3, <1>4, <1>5, <1>6, <1>7

LEMMA AsyncInd == ASSUME IndInv, AsyncStep PROVE IndInv'
<1> USE Names
<1>1. StateTypes'
  BY AsyncTypes DEF IndInv
<1>t. /\ conn \in [Blocks -> {"unmade", "none", "open", "closed"}]
      /\ deviceOf \in [Blocks -> Devices \cup {NULL}]
      /\ block \in [Threads -> Blocks \cup {NULL}] /\ clones \subseteq Blocks
      /\ DOMAIN pc = Threads /\ DOMAIN op = Threads
      /\ mCtrlBlocks \in [Devices -> Blocks \cup {NULL}] /\ granted \subseteq Devices
  BY DEF IndInv, StateTypes, PlaceTypes
<1>b. /\ pc[Async] \in Connecting => op[Async].of \in Devices
      /\ pc[Async] \in UsesBlock => block[Async] # NULL
  BY DEF IndInv, Busy
<1>r. ASSUME NEW what, NEW label, Begins(Async, what, label)
      PROVE  /\ pc'[Async] = label /\ op'[Async] = what
             /\ \A u \in Threads \ {Async} : pc'[u] = pc[u] /\ op'[u] = op[u]
  BY <1>t, <1>r DEF Begins
<1>m. UNCHANGED <<plugged, granted, intents, destroyed, clones>>
  BY DEF AsyncStep, Tell, ConnectGet, ConnectNew, ConnectInfo, ConnectPut, onConnect, CheckRun,
         CheckList, CheckCompare, system, listening, connections
<1> USE DEF Goto, Jump, system, listening, handlers, connections
\* The steps that leave every block where it is.
<1>2. ASSUME UNCHANGED <<mCtrlBlocks, connections, camera>>,
             \A t \in Threads \ {Async} : pc'[t] = pc[t] /\ op'[t] = op[t] /\ block'[t] = block[t],
             pc'[Async] \notin {"new", "info", "put"},
             pc'[Async] \in Connecting => op'[Async].of \in Devices,
             pc'[Async] \in UsesBlock => block'[Async] # NULL,
             pc[Async] \notin {"info", "put", "crashed"}
      PROVE  IndInv'
  <2>1. Busy' /\ MainCloses' /\ Clones' /\ Gone' /\ \A d : Slipped(d) => Slipped(d)'
    BY <1>m, <1>2, AsyncFrame
  <2>2. Entered' /\ Fill'
    BY <1>2 DEF IndInv, Entered, Fill, Filling
  <2>3. Originals'
    <3>1. \A e \in Blocks : Original(e)' <=> Original(e)
      BY <1>2 DEF Original
    <3>2. UNCHANGED <<deviceOf, pc[Main], op[Main], block[Main], conn>>
      BY <1>2
    <3>3. ASSUME NEW e \in Blocks, Located(e) PROVE Located(e)'
      <4>1. \/ mCtrlBlocks[deviceOf[e]] = e \/ block[Main] = e \/ Slipped(deviceOf[e])
        BY <1>2, <3>3 DEF Located
      <4>2. Slipped(deviceOf[e]) => Slipped(deviceOf[e])'
        BY <1>m, <3>2 DEF Slipped
      <4> QED
        BY <1>2, <3>2, <4>1, <4>2 DEF Located
    <3> QED
      BY <2>1, <3>1, <3>2, <3>3 DEF IndInv, Originals
  <2> QED
    BY <1>1, <2>1, <2>2, <2>3 DEF IndInv
<1>3. CASE Tell
  <2>1. Head(tasks) \in Tasks
    BY <1>3, FirstOf DEF Tell, IndInv, StateTypes
  <2>2. Head(tasks).what = "connect" => Head(tasks).of \in Devices
    BY <2>1 DEF Tasks
  <2>3. /\ UNCHANGED <<mCtrlBlocks, connections, camera, block>> /\ pc[Async] = "idle"
        /\ \A t \in Threads \ {Async} : pc'[t] = pc[t] /\ op'[t] = op[t]
        /\ \/ pc'[Async] = "idle"
           \/ pc'[Async] = "get" /\ op'[Async].of \in Devices
    BY <1>3, <1>r, <2>2 DEF Tell
  <2> QED
    BY <1>2, <2>3 DEF Connecting, UsesBlock
<1>4. CASE CheckRun \/ CheckList \/ CheckCompare
  <2>1. /\ UNCHANGED <<mCtrlBlocks, connections, camera, block>> /\ pc[Async] \in {"idle", "check", "compare"}
        /\ \A t \in Threads \ {Async} : pc'[t] = pc[t] /\ op'[t] = op[t]
        /\ pc'[Async] \in {"idle", "check", "compare", "crashed"}
    BY <1>4, <1>r DEF CheckRun, CheckList, CheckCompare
  <2> QED
    BY <1>2, <2>1 DEF Connecting, UsesBlock
<1>5. ASSUME NEW c \in Cameras, NEW from \in {"ask first", "ask third"},
             NEW next \in {"idle", "ask third"}, onConnect(c, from, next)
      PROVE  IndInv'
  <2>1. /\ pc[Async] = from /\ op[Async].of \in Devices /\ block[Async] # NULL
        /\ UNCHANGED <<mCtrlBlocks, connections, camera>>
    BY <1>5, <1>b DEF onConnect, Connecting, UsesBlock
  <2>2. \/ pc'[Async] = "idle" /\ block' = [block EXCEPT ![Async] = NULL]
        \/ pc'[Async] = "ask third" /\ op'[Async] = op[Async] /\ block' = block
    BY <1>5, <1>r DEF onConnect
  <2>3. \A t \in Threads \ {Async} : pc'[t] = pc[t] /\ op'[t] = op[t]
    BY <1>5, <1>r DEF onConnect
  <2> QED
    BY <1>t, <1>2, <2>1, <2>2, <2>3 DEF Connecting, UsesBlock
<1>6. CASE ConnectGet
  <2>1. /\ pc[Async] = "get" /\ op'[Async] = op[Async] /\ op[Async].of \in Devices
        /\ pc'[Async] = IF mCtrlBlocks[op[Async].of] = NULL THEN "new" ELSE "ask first"
        /\ block' = [block EXCEPT ![Async] = mCtrlBlocks[op[Async].of]]
        /\ \A t \in Threads \ {Async} : pc'[t] = pc[t] /\ op'[t] = op[t]
        /\ UNCHANGED <<mCtrlBlocks, connections, camera>>
    BY <1>6, <1>b, <1>r DEF ConnectGet, Known, Connecting
  <2>2. \A t \in Threads \ {Async} : block'[t] = block[t]
    BY <1>t, <2>1
  <2>3. CASE mCtrlBlocks[op[Async].of] # NULL
    BY <1>t, <1>2, <2>1, <2>2, <2>3 DEF Connecting, UsesBlock
  <2>4. CASE mCtrlBlocks[op[Async].of] = NULL
    <3>1. Busy' /\ MainCloses' /\ Clones' /\ Gone' /\ \A d : Slipped(d) => Slipped(d)'
      BY <1>m, <2>1, <2>2, <2>4, AsyncFrame DEF Connecting, UsesBlock
    <3>2. Entered' /\ Fill'
      BY <2>1, <2>4 DEF IndInv, Entered, Fill, Filling
    <3>3. Originals'
      BY <1>m, <2>1, <2>2, <3>1 DEF IndInv, Originals, Original, Located
    <3> QED
      BY <1>1, <3>1, <3>2, <3>3 DEF IndInv
  <2> QED
    BY <2>3, <2>4
<1>7. CASE ConnectNew
  <2> DEFINE d == op[Async].of
  <2>1. /\ pc[Async] = "new" /\ pc'[Async] = "info" /\ op'[Async] = op[Async] /\ d \in Devices
        /\ \A t \in Threads \ {Async} : pc'[t] = pc[t] /\ op'[t] = op[t]
        /\ UNCHANGED <<mCtrlBlocks, clones, camera>>
    BY <1>7, <1>b, <1>r DEF ConnectNew, Connecting
  <2>2. PICK b \in Blocks :
          /\ conn[b] = "unmade" /\ deviceOf' = [deviceOf EXCEPT ![b] = d]
          /\ conn' = [conn EXCEPT ![b] = IF d \in granted THEN "open" ELSE "none"]
          /\ block' = [block EXCEPT ![Async] = b]
    BY <1>7 DEF ConnectNew, New
  <2> HIDE DEF d
  <2>3. Busy' /\ MainCloses' /\ Clones' /\ Gone' /\ \A g : Slipped(g) => Slipped(g)'
    <3>1. \A t \in Threads \ {Async} : block'[t] = block[t]
      BY <1>t, <2>2
    <3>2. \A e \in Blocks : conn[e] # "unmade" => conn'[e] = conn[e] /\ deviceOf'[e] = deviceOf[e]
      BY <1>t, <2>2
    <3>3. pc'[Async] \in UsesBlock => block'[Async] # NULL
      BY <1>t, <2>2
    <3> QED
      BY <1>m, <2>1, <3>1, <3>2, <3>3, AsyncFrame DEF d
  <2>4. Entered'
    BY <1>t, <2>1, <2>2 DEF IndInv, Entered
  <2>5. Fill'
    <3>1. b \notin clones
      BY <2>2 DEF IndInv, Clones
    <3>2. block[Main] # b
      BY <2>2, <1>t DEF IndInv, MainCloses, Originals
    <3>3. conn'[b] \in {"none", "open"} /\ deviceOf'[b] = d /\ block'[Async] = b /\ block'[Main] = block[Main]
      BY <1>t, <2>2
    <3> QED
      BY <2>1, <3>1, <3>2, <3>3 DEF IndInv, Fill, Filling, d
  <2>6. Originals'
    <3>1. \A e \in Blocks : e # b => conn'[e] = conn[e] /\ deviceOf'[e] = deviceOf[e]
      BY <1>t, <2>2
    <3>2. /\ conn'[b] = IF d \in granted THEN "open" ELSE "none"
          /\ deviceOf'[b] = d /\ block'[Async] = b /\ block'[Main] = block[Main]
      BY <1>t, <2>2
    <3>3. mCtrlBlocks[d] = NULL
      BY <2>1 DEF IndInv, Fill, Filling, d
    <3>4. ASSUME d \in granted, NEW e \in Blocks, Original(e), deviceOf[e] = d PROVE Slipped(d)
      <4>1. \/ mCtrlBlocks[d] = e \/ block[Main] = e \/ Slipped(d)
        BY <2>1, <3>4 DEF IndInv, Originals, Located
      <4>2. CASE block[Main] = e
        <5>1. pc[Main] \in Closing /\ deviceOf[block[Main]] = d
          BY <3>4, <4>2 DEF IndInv, Originals
        <5>2. op[Main].what = "DETACHED" => op[Main].of = d /\ plugged[d] = "gone"
          BY <5>1 DEF IndInv, Originals, Gone
        <5>3. plugged[d] = "present"
          BY <3>4 DEF IndInv, Gone
        <5>4. op[Main].what = "destroy"
          BY <5>1, <5>2, <5>3 DEF IndInv, Busy
        <5> QED
          BY <5>4 DEF IndInv, Gone, Slipped
      <4> QED
        BY <3>3, <4>1, <4>2
    <3>5. pc[Main] \in Closing /\ op[Main].what = "DETACHED" =>
            block[Main] # b /\ deviceOf'[block[Main]] = deviceOf[block[Main]]
      <4>1. pc[Main] \in Closing => block[Main] \in Blocks /\ conn[block[Main]] # "unmade"
        BY <1>t DEF IndInv, MainCloses, Busy, UsesBlock, Closing
      <4> QED
        BY <2>2, <3>1, <4>1
    <3>6. pc[Main] = "disconnect" => deviceOf'[block[Main]] = deviceOf[block[Main]]
      <4>1. pc[Main] = "disconnect" => block[Main] \in Blocks /\ conn[block[Main]] # "unmade"
        BY <1>t DEF IndInv, MainCloses, Busy, UsesBlock, Closing
      <4> QED
        BY <2>2, <3>1, <4>1
    <3>7. pc[Main] = "disconnect" /\ deviceOf[block[Main]] = d /\ d \in granted => Slipped(d)
      <4>1. op[Main].what = "DETACHED" => deviceOf[block[Main]] # d \/ d \notin granted \/ pc[Main] # "disconnect"
        BY DEF IndInv, Originals, Gone, Closing
      <4> QED
        BY <4>1 DEF IndInv, Busy, Gone, Slipped, Closing
    <3>8. b \notin clones /\ \A e \in Blocks : Original(e) => e # b
      BY <2>2 DEF IndInv, Clones, Original
    <3> QED
      BY <1>m, <2>1, <2>3, <3>1, <3>2, <3>4, <3>5, <3>6, <3>7, <3>8 DEF IndInv, Originals, Original, Located
  <2> QED
    BY <1>1, <2>3, <2>4, <2>5, <2>6 DEF IndInv
<1>8. CASE ConnectInfo
  <2>1. /\ pc[Async] = "info" /\ pc'[Async] \in {"put", "crashed"} /\ op'[Async] = op[Async]
        /\ \A t \in Threads \ {Async} : pc'[t] = pc[t] /\ op'[t] = op[t]
        /\ UNCHANGED <<mCtrlBlocks, connections, camera, block>>
    BY <1>8, <1>r DEF ConnectInfo
  <2>2. Busy' /\ MainCloses' /\ Clones' /\ Gone' /\ \A g : Slipped(g) => Slipped(g)'
    BY <1>b, <1>m, <2>1, AsyncFrame DEF Connecting, UsesBlock
  <2>3. Entered' /\ Fill'
    BY <2>1 DEF IndInv, Entered, Fill, Filling
  <2>4. Originals'
    BY <1>m, <2>1, <2>2 DEF IndInv, Originals, Original, Located
  <2> QED
    BY <1>1, <2>2, <2>3, <2>4 DEF IndInv
<1>9. CASE ConnectPut
  <2> DEFINE d == op[Async].of
             b == block[Async]
  <2>1. /\ pc[Async] = "put" /\ pc'[Async] = "ask first" /\ op'[Async] = op[Async]
        /\ \A t \in Threads \ {Async} : pc'[t] = pc[t] /\ op'[t] = op[t]
        /\ mCtrlBlocks' = [mCtrlBlocks EXCEPT ![d] = b]
        /\ UNCHANGED <<connections, camera, block>>
    BY <1>9, <1>r DEF ConnectPut
  <2>2. /\ d \in Devices /\ b \in Blocks /\ conn[b] \in {"none", "open"} /\ deviceOf[b] = d
        /\ b \notin clones /\ block[Main] # b /\ mCtrlBlocks[d] = NULL
    BY <1>t, <1>b, <2>1 DEF IndInv, Fill, Filling, Connecting, UsesBlock
  <2> HIDE DEF d
  <2>3. Busy' /\ MainCloses' /\ Clones' /\ Gone' /\ \A g : Slipped(g) => Slipped(g)'
    <3>1. \A g \in Devices : mCtrlBlocks'[g] = mCtrlBlocks[g] \/ mCtrlBlocks'[g] # block[Main]
      BY <1>t, <2>1, <2>2
    <3> QED
      BY <1>b, <1>m, <2>1, <2>2, <3>1, AsyncFrame DEF Connecting, UsesBlock, d
  <2>4. Entered' /\ Fill'
    BY <1>t, <2>1, <2>2 DEF IndInv, Entered, Fill, Filling
  <2>5. Originals'
    <3>1. \A g \in Devices : mCtrlBlocks'[g] = IF g = d THEN b ELSE mCtrlBlocks[g]
      BY <1>t, <2>1
    <3>2. \A e \in Blocks : Original(e)' <=> Original(e)
      BY <2>1 DEF Original
    <3>3. ASSUME NEW e \in Blocks, Original(e), Located(e) PROVE Located(e)'
      <4>1. CASE e = b
        BY <2>1, <2>2, <3>1, <4>1 DEF Located
      <4>2. CASE e # b
        <5>1. deviceOf[e] \in Devices
          BY <3>3 DEF IndInv, Originals, Original
        <5>2. mCtrlBlocks[deviceOf[e]] = e => deviceOf[e] # d
          BY <1>t, <2>2
        <5> QED
          BY <2>1, <2>3, <3>1, <3>3, <4>2, <5>1, <5>2 DEF Located
      <4> QED
        BY <4>1, <4>2
    <3> QED
      BY <1>m, <2>1, <2>2, <2>3, <3>1, <3>2, <3>3 DEF IndInv, Originals
  <2> QED
    BY <1>1, <2>3, <2>4, <2>5 DEF IndInv
<1>10. First \in Cameras /\ Third \in Cameras
  BY DEF Cameras
<1> QED
  BY <1>3, <1>4, <1>5, <1>6, <1>7, <1>8, <1>9, <1>10 DEF AsyncStep
-----------------------------------------------------------------------------
LEMMA NextInd == IndInv /\ [Next]_vars => IndInv'
<1> USE Names
<1>1. ASSUME IndInv, UNCHANGED vars PROVE IndInv'
  <2>1. UNCHANGED <<plugged, granted, asked, receiver, intents, mPermissionIntent, destroyed,
                    mDeviceCounts, mHasPermissions, mCtrlBlocks, tasks, checks, quit, conn, deviceOf,
                    clones, camera, inbox, pc, op, block, list, keys, attached, dettached,
                    requests, starts>>
    BY <1>1 DEF vars, system, listening, counting, posted, connections, handlers, locals, told, bounds
  <2>2. StateTypes' /\ Busy' /\ Entered' /\ Fill' /\ MainCloses'
    BY <1>1, <2>1 DEF IndInv, StateTypes, PlaceTypes, Busy, Entered, Fill, MainCloses
  <2>3. Clones' /\ Gone'
    BY <1>1, <2>1 DEF IndInv, Clones, InHand, Gone
  <2>4. Originals'
    BY <1>1, <2>1 DEF IndInv, Originals, Original, Located, Slipped
  <2> QED
    BY <2>2, <2>3, <2>4 DEF IndInv
<1>2. ASSUME IndInv, MainStep PROVE IndInv'
  BY <1>2, MainCallsInd, MainInd, MainCloseInd, MainDisconnectInd DEF MainStep
<1>3. ASSUME IndInv, register \/ unregister \/ destroy PROVE IndInv'
  BY <1>3, MainCallsInd, MainInd
<1>4. ASSUME IndInv, NEW d \in Devices, requestPermission(d) PROVE IndInv'
  BY <1>4, MainCallsInd
<1>5. ASSUME IndInv, NEW c \in Cameras, closeCamera(c) PROVE IndInv'
  BY <1>5, MainCallsInd
<1> QED
  BY <1>1, <1>2, <1>3, <1>4, <1>5, SystemInd, AsyncInd, CameraInd DEF Next

LEMMA Inductive == Spec => []IndInv
BY InitInd, NextInd, PTL DEF Spec

\* Type correctness; in particular no thread of onReceive, destroy, processConnect
\* or UVCCamera calls a method of a null UsbControlBlock.
THEOREM TypeCorrect == Spec => []TypeOK
<1>1. ASSUME IndInv PROVE TypeOK
  <2>1. /\ {granted, asked, mHasPermissions, list, keys, attached, dettached} \subseteq SUBSET Devices
        /\ {receiver, mPermissionIntent, destroyed, quit} \subseteq BOOLEAN
    BY <1>1 DEF IndInv, StateTypes
  <2>2. {mDeviceCounts, checks, requests, starts} \subseteq Nat
    BY <1>1 DEF IndInv, StateTypes
  <2>3. pc[Main] \in MainLabels /\ pc[Async] \in AsyncLabels /\ \A c \in Cameras : pc[c] \in CameraLabels
    BY Names, <1>1 DEF IndInv, StateTypes, PlaceTypes, Labels
  <2>4. \A t \in Threads : pc[t] \in UsesBlock => block[t] # NULL
    BY <1>1 DEF IndInv, Busy
  <2> QED
    BY <1>1, <2>1, <2>2, <2>3, <2>4 DEF IndInv, StateTypes, PlaceTypes, TypeOK
<1> QED
  BY <1>1, Inductive, PTL

\* The map of USBMonitor never holds a control block that has been closed.
THEOREM NeverReusedHolds == Spec => []NeverReused
<1>1. IndInv => NeverReused
  BY DEF IndInv, Entered, NeverReused
<1> QED
  BY <1>1, Inductive, PTL

\* The connection an open UVCCamera uses is open and its alone, whatever is
\* pulled out, opened, closed or destroyed meanwhile.
THEOREM CameraKeepsConnection == Spec => []ConnectionOutlivesCamera
<1>1. ASSUME IndInv, NEW c \in Cameras, camera[c] # NULL
      PROVE  /\ conn[camera[c]] = "open"
             /\ \A other \in Cameras \ {c} : camera[other] # camera[c]
  <2>1. \A e \in Cameras : camera[e] # NULL => InHand(e) = camera[e]
    BY <1>1 DEF IndInv, Clones, InHand, Closing
  <2> QED
    BY <1>1, <2>1 DEF IndInv, Clones
<1>2. IndInv => ConnectionOutlivesCamera
  BY <1>1 DEF ConnectionOutlivesCamera
<1> QED
  BY <1>2, Inductive, PTL

\* No open connection of the monitor is lost but by the close of a clone of its
\* device or by destroy.
THEOREM NoConnectionLost == Spec => []OpenIsKnown
<1>1. ASSUME IndInv, NEW b \in Blocks, Original(b)
      PROVE  \/ Held(b) \/ destroyed
             \/ \E k \in clones : deviceOf[k] = deviceOf[b] /\ conn[k] = "closed"
  <2>1. deviceOf[b] \in Devices /\ Located(b)
    BY <1>1 DEF IndInv, Originals, Original
  <2> QED
    BY Names, <2>1 DEF Located, Held, Slipped
<1>2. IndInv => OpenIsKnown
  BY <1>1 DEF OpenIsKnown
<1> QED
  BY <1>2, Inductive, PTL
-----------------------------------------------------------------------------
(* New devices are noticed: the safety part of ArrivalAnnounced.            *)

\* The listener has been told of d or a Runnable that tells it is posted.
Posted(d) == \E i \in 1..Len(tasks) : tasks[i].what = "attach" /\ d \in tasks[i].of
Announced == {d \in Devices : d \in attached \/ Posted(d)}

NoneGone == \A d \in Devices : plugged[d] # "gone"

\* mDeviceCheckRunnable is in its delay or at work.
CheckPending == checks > 0 \/ pc[Async] \in {"check", "compare"}

\* A registered monitor is not destroyed, and looks at the devices again and again.
Checking ==
    /\ mPermissionIntent => ~destroyed
    /\ quit => destroyed
    /\ mPermissionIntent => Crashed \/ CheckPending

\* As long as no device has left, the number compared is not above the number
\* of the devices announced.
Counting ==
    ~destroyed /\ NoneGone =>
        /\ Announced \subseteq Present /\ list \subseteq Present
        /\ mDeviceCounts <= Cardinality(Announced)

Noticing == Checking /\ Counting

LEMMA Finite == \A S \in SUBSET Devices : IsFiniteSet(S) /\ Cardinality(S) \in Nat
BY ConstantsAssumption, FS_Subset, FS_CardinalityType

LEMMA Larger == \A S, T \in SUBSET Devices : S \subseteq T => Cardinality(S) <= Cardinality(T)
<1> SUFFICES ASSUME NEW S \in SUBSET Devices, NEW T \in SUBSET Devices, S \subseteq T
             PROVE  Cardinality(S) <= Cardinality(T)
  OBVIOUS
<1> QED
  BY Finite, FS_Subset

LEMMA InitNoticing == Init => Noticing
<1> SUFFICES ASSUME Init PROVE Noticing
  OBVIOUS
<1>1. Announced \in SUBSET Devices /\ Announced = {}
  BY DEF Init, Announced, Posted
<1>2. mDeviceCounts <= Cardinality(Announced)
  BY <1>1, Finite DEF Init
<1> QED
  BY <1>1, <1>2 DEF Init, Noticing, Checking, Counting

\* The task put last is announced, and nothing else new.
LEMMA AnnouncedByPost ==
    ASSUME StateTypes, NEW task, UNCHANGED attached,
           tasks' = Append(tasks, task)
    PROVE  Announced' = Announced \cup {d \in Devices : task.what = "attach" /\ d \in task.of}
<1>1. tasks \in Seq(Tasks) /\ Len(tasks) \in Nat
  BY DEF StateTypes
<1>2. /\ Len(tasks') = Len(tasks) + 1 /\ tasks'[Len(tasks) + 1] = task
      /\ \A i \in 1..Len(tasks) : tasks'[i] = tasks[i]
  BY <1>1
<1>3. ASSUME NEW d \in Devices
      PROVE  Posted(d)' <=> Posted(d) \/ (task.what = "attach" /\ d \in task.of)
  <2>1. ASSUME Posted(d)' PROVE Posted(d) \/ (task.what = "attach" /\ d \in task.of)
    <3>1. PICK i \in 1..Len(tasks') : tasks'[i].what = "attach" /\ d \in tasks'[i].of
      BY <2>1 DEF Posted
    <3>2. i \in 1..Len(tasks) \/ i = Len(tasks) + 1
      BY <1>1, <1>2
    <3> QED
      BY <1>2, <3>1, <3>2 DEF Posted
  <2>2. ASSUME Posted(d) PROVE Posted(d)'
    <3>1. PICK i \in 1..Len(tasks) : tasks[i].what = "attach" /\ d \in tasks[i].of
      BY <2>2 DEF Posted
    <3>2. i \in 1..Len(tasks')
      BY <1>1, <1>2
    <3> QED
      BY <1>2, <3>1, <3>2 DEF Posted
  <2>3. ASSUME task.what = "attach" /\ d \in task.of PROVE Posted(d)'
    <3>1. Len(tasks) + 1 \in 1..Len(tasks')
      BY <1>1, <1>2
    <3> QED
      BY <1>2, <2>3, <3>1 DEF Posted
  <2> QED
    BY <2>1, <2>2, <2>3
<1> QED
  BY <1>3 DEF Announced

\* The task at the head is taken: what it announces the listener has been told.
LEMMA AnnouncedByTell ==
    ASSUME StateTypes, Tell
    PROVE  Announced' = Announced
<1>1. /\ tasks \in Seq(Tasks) /\ tasks # <<>> /\ tasks' = Tail(tasks)
      /\ Head(tasks) = tasks[1] /\ 1 \in 1..Len(tasks) /\ Len(tasks) \in Nat
      /\ Len(tasks') = Len(tasks) - 1
      /\ \A i \in 1..Len(tasks') : tasks'[i] = tasks[i + 1]
  BY DEF Tell, StateTypes
<1>2. attached' = IF tasks[1].what = "attach" THEN attached \cup tasks[1].of ELSE attached
  BY <1>1 DEF Tell
<1>3. ASSUME NEW d \in Devices
      PROVE  (d \in attached \/ Posted(d))' <=> d \in attached \/ Posted(d)
  <2>1. ASSUME Posted(d)' PROVE Posted(d)
    <3>1. PICK i \in 1..Len(tasks') : tasks'[i].what = "attach" /\ d \in tasks'[i].of
      BY <2>1 DEF Posted
    <3>2. i + 1 \in 1..Len(tasks)
      BY <1>1
    <3> QED
      BY <1>1, <3>1, <3>2 DEF Posted
  <2>2. ASSUME Posted(d) PROVE d \in attached' \/ Posted(d)'
    <3>1. PICK i \in 1..Len(tasks) : tasks[i].what = "attach" /\ d \in tasks[i].of
      BY <2>2 DEF Posted
    <3>2. CASE i = 1
      BY <1>2, <3>1, <3>2
    <3>3. CASE i # 1
      <4>1. i - 1 \in 1..Len(tasks') /\ tasks'[i - 1] = tasks[i]
        BY <1>1, <3>3
      <4> QED
        BY <3>1, <4>1 DEF Posted
    <3> QED
      BY <3>2, <3>3
  <2>3. d \in attached' => d \in attached \/ Posted(d)
    BY <1>1, <1>2 DEF Posted
  <2>4. d \in attached => d \in attached'
    BY <1>2
  <2> QED
    BY <2>1, <2>2, <2>3, <2>4
<1> QED
  BY <1>3 DEF Announced

\* A step that leaves the check and what is announced as they are.
LEMMA NoticingSame ==
    ASSUME Noticing,
           UNCHANGED <<plugged, mPermissionIntent, destroyed, quit, mDeviceCounts, checks, list>>,
           Announced' = Announced,
           pc'[Async] = pc[Async] \/ pc[Async] \notin {"check", "compare", "crashed"}
    PROVE  Noticing'
BY DEF Noticing, Checking, Counting, CheckPending, Crashed, NoneGone, Present

LEMMA SystemNoticing ==
    ASSUME IndInv, Noticing, System
    PROVE  Noticing'
<1>1. /\ UNCHANGED <<mPermissionIntent, destroyed, quit, mDeviceCounts, checks, list, tasks, attached, pc>>
      /\ \E d \in Devices, p \in {"present", "gone"} :
            plugged' = plugged \/ (plugged' = [plugged EXCEPT ![d] = p] /\ plugged[d] = "absent")
                               \/ (plugged' = [plugged EXCEPT ![d] = "gone"])
  BY DEF System, Plug, Unplug, Answer, listening, counting, posted, locals, told
<1>2. Announced' = Announced
  BY <1>1 DEF Announced, Posted
<1>3. Checking'
  BY <1>1 DEF Noticing, Checking, CheckPending, Crashed
<1>4. NoneGone' => NoneGone /\ Present \subseteq Present'
  BY <1>1 DEF NoneGone, Present, IndInv, StateTypes
<1>5. Counting'
  BY <1>1, <1>2, <1>4 DEF Noticing, Counting
<1> QED
  BY <1>3, <1>5 DEF Noticing

LEMMA NoneAnnounced ==
    ASSUME StateTypes
    PROVE  Announced \in SUBSET Devices /\ 0 <= Cardinality(Announced)
<1>1. Announced \in SUBSET Devices
  BY DEF Announced
<1> QED
  BY <1>1, Finite

\* Posts that announce nothing.
LEMMA AnnouncedByOther ==
    ASSUME StateTypes, UNCHANGED attached,
           \/ UNCHANGED tasks
           \/ \E d \in Devices, what \in {"connect", "dettach"} : Post(what, d)
    PROVE  Announced' = Announced
<1>1. CASE UNCHANGED tasks
  BY <1>1 DEF Announced, Posted
<1>2. ASSUME NEW d \in Devices, NEW what \in {"connect", "dettach"},
             tasks' = Append(tasks, [what |-> what, of |-> d])
      PROVE  Announced' = Announced
  <2> DEFINE task == [what |-> what, of |-> d]
  <2>1. task.what # "attach"
    BY <1>2
  <2>2. tasks' = Append(tasks, task)
    BY <1>2
  <2> HIDE DEF task
  <2>3. Announced' = Announced \cup {e \in Devices : task.what = "attach" /\ e \in task.of}
    BY <2>2, AnnouncedByPost
  <2> QED
    BY <2>1, <2>3
<1> QED
  BY <1>1, <1>2 DEF Post

LEMMA MainNoticing ==
    ASSUME IndInv, Noticing,
           \/ register \/ unregister \/ destroy
           \/ \E d \in Devices : requestPermission(d)
           \/ \E c \in Cameras : closeCamera(c)
           \/ MainStep
    PROVE  Noticing'
<1> USE Names
<1>0. StateTypes /\ DOMAIN pc = Threads
  BY DEF IndInv, StateTypes, PlaceTypes
<1>1. CASE register \/ unregister
  <2>1. /\ UNCHANGED <<destroyed, quit, list, tasks, attached, pc, plugged>> /\ mDeviceCounts' = 0
        /\ mPermissionIntent' => ~destroyed /\ checks' > 0
    BY <1>1, <1>0 DEF register, unregister, Unregistered, Begin, system, locals, told, posted, StateTypes
  <2>2. Announced' = Announced
    BY <1>0, <2>1, AnnouncedByOther
  <2>3. Checking'
    BY <2>1 DEF Noticing, Checking, CheckPending
  <2>4. Counting'
    BY <1>0, <2>1, <2>2, NoneAnnounced DEF Noticing, Counting, NoneGone, Present
  <2> QED
    BY <2>3, <2>4 DEF Noticing
<1>2. CASE destroy
  BY <1>2 DEF destroy, Unregistered, Noticing, Checking, Counting
<1>3. CASE SweepEnd
  <2>1. destroyed /\ destroyed' /\ ~mPermissionIntent' 
    BY <1>3 DEF SweepEnd, Jump, IndInv, Busy, Gone, Noticing, Checking, listening
  <2> QED
    BY <2>1 DEF Noticing, Checking, Counting
<1>4. CASE processDettach
  <2>1. /\ UNCHANGED <<plugged, destroyed, quit, mPermissionIntent, checks, list, attached>>
        /\ mDeviceCounts' = 0 /\ pc'[Async] = pc[Async]
    BY <1>4, <1>0 DEF processDettach, Jump, Goto, Begins, Deaf, Post, system, locals, told
  <2>2. Announced' = Announced
    <3>1. op[Main].of \in Devices
      BY <1>4 DEF processDettach, Jump, IndInv, Busy
    <3> QED
      BY <1>0, <1>4, <2>1, <3>1, AnnouncedByOther DEF processDettach
  <2>3. Checking'
    BY <2>1 DEF Noticing, Checking, CheckPending, Crashed
  <2>4. Counting'
    BY <1>0, <2>1, <2>2, NoneAnnounced DEF Noticing, Counting, NoneGone, Present
  <2> QED
    BY <2>3, <2>4 DEF Noticing
<1>5. CASE \/ \E d \in Devices : requestPermission(d)
           \/ onReceivePermission
  <2>1. /\ UNCHANGED <<plugged, mPermissionIntent, destroyed, quit, mDeviceCounts, checks, list,
                       attached, pc>>
    BY <1>5 DEF requestPermission, onReceivePermission, Deaf, listening, system, locals, told
  <2>2. UNCHANGED tasks \/ \E d \in Devices : Post("connect", d)
    <3>1. CASE \E d \in Devices : requestPermission(d)
      BY <3>1 DEF requestPermission, processConnect, processCancel
    <3>2. CASE onReceivePermission
      <4>1. Head(intents).of \in Devices
        <5>1. intents # <<>> /\ intents \in Seq(Intents)
          BY <1>0, <3>2 DEF onReceivePermission, StateTypes
        <5>2. Head(intents) \in Intents
          BY <5>1, FirstOf
        <5> QED
          BY <5>2 DEF Intents
      <4> QED
        BY <3>2, <4>1 DEF onReceivePermission, processConnect, processCancel
    <3> QED
      BY <1>5, <3>1, <3>2
  <2>3. Announced' = Announced
    BY <1>0, <2>1, <2>2, AnnouncedByOther
  <2> QED
    BY <2>1, <2>3, NoticingSame
<1>6. CASE \/ \E c \in Cameras : closeCamera(c)
           \/ Sweep \/ onReceiveDetached \/ CloseConnection(Main) \/ Disconnect(Main)
  <2>1. /\ UNCHANGED <<plugged, mPermissionIntent, destroyed, quit, mDeviceCounts, checks, list,
                       attached, tasks>>
        /\ pc'[Async] = pc[Async]
    BY <1>0, <1>6 DEF closeCamera, Sweep, onReceiveDetached, CloseConnection, Disconnect, Jump, Goto,
                      Begins, listening, counting, posted, system, locals, told
  <2>2. Announced' = Announced
    BY <1>0, <2>1, AnnouncedByOther
  <2> QED
    BY <2>1, <2>2, NoticingSame
<1> QED
  BY <1>1, <1>2, <1>3, <1>4, <1>5, <1>6 DEF MainStep

LEMMA CameraNoticing ==
    ASSUME IndInv, Noticing, NEW c \in Cameras, CameraStep(c)
    PROVE  Noticing'
<1>0. StateTypes /\ DOMAIN pc = Threads /\ c # Async
  BY Names DEF IndInv, StateTypes, PlaceTypes
<1>1. /\ UNCHANGED <<plugged, mPermissionIntent, destroyed, quit, mDeviceCounts, checks, list,
                     attached, tasks>>
      /\ pc'[Async] = pc[Async]
  BY <1>0, Names DEF CameraStep, handleClose, clone, Connect, CloseConnection, Disconnect, Jump, Goto,
                     Begins, listening, counting, posted, system, locals, told
<1>2. Announced' = Announced
  BY <1>0, <1>1, AnnouncedByOther
<1> QED
  BY <1>1, <1>2, NoticingSame

\* The check compares the length of a list of devices that are all announced
\* when it finds more than before.
LEMMA CompareNoticing ==
    ASSUME IndInv, Noticing, CheckCompare
    PROVE  Noticing'
<1>0. /\ StateTypes /\ DOMAIN pc = Threads /\ list \in SUBSET Devices
      /\ pc[Async] = "compare" /\ Async \in Threads
  BY Names DEF IndInv, StateTypes, PlaceTypes, CheckCompare, Jump
<1>1. /\ UNCHANGED <<plugged, mPermissionIntent, destroyed, quit, attached>> /\ list' = {}
      /\ checks' = IF quit THEN checks ELSE checks + 1
      /\ \/ UNCHANGED <<mDeviceCounts, tasks>>
         \/ /\ mDeviceCounts' = Cardinality(list)
            /\ tasks' = IF quit THEN tasks ELSE Append(tasks, [what |-> "attach", of |-> list])
  BY DEF CheckCompare, system, listening, told
<1>2. Checking'
  BY <1>0, <1>1 DEF Noticing, Checking, CheckPending, StateTypes
<1>3. CASE destroyed
  BY <1>1, <1>2, <1>3 DEF Noticing, Counting
<1>4. CASE UNCHANGED <<mDeviceCounts, tasks>>
  <2>1. Announced' = Announced
    BY <1>0, <1>1, <1>4, AnnouncedByOther
  <2> QED
    BY <1>1, <1>2, <1>4, <2>1 DEF Noticing, Counting, NoneGone, Present
<1>5. CASE ~destroyed /\ mDeviceCounts' = Cardinality(list)
             /\ tasks' = IF quit THEN tasks ELSE Append(tasks, [what |-> "attach", of |-> list])
  <2>1. tasks' = Append(tasks, [what |-> "attach", of |-> list])
    BY <1>5 DEF Noticing, Checking
  <2>2. Announced' = Announced \cup {d \in Devices : d \in list}
    BY <1>0, <1>1, <2>1, AnnouncedByPost
  <2>3. list \subseteq Announced' /\ Announced' \in SUBSET Devices
    BY <1>0, <2>2 DEF Announced
  <2>4. mDeviceCounts' <= Cardinality(Announced')
    BY <1>0, <1>5, <2>3, Larger
  <2>5. NoneGone' => Announced' \subseteq Present'
    BY <1>1, <1>5, <2>2 DEF Noticing, Counting, NoneGone, Present
  <2> QED
    BY <1>1, <1>2, <2>4, <2>5 DEF Noticing, Counting
<1> QED
  BY <1>1, <1>3, <1>4, <1>5

LEMMA AsyncNoticing ==
    ASSUME IndInv, Noticing, ~Crashed, AsyncStep
    PROVE  Noticing'
<1> USE Names
<1>0. StateTypes /\ DOMAIN pc = Threads
  BY DEF IndInv, StateTypes, PlaceTypes
<1>1. CASE Tell
  <2>1. /\ UNCHANGED <<plugged, mPermissionIntent, destroyed, quit, mDeviceCounts, checks, list>>
        /\ pc[Async] = "idle"
    BY <1>1 DEF Tell, system, listening, counting, locals
  <2> QED
    BY <1>0, <1>1, <2>1, AnnouncedByTell, NoticingSame
<1>2. CASE \/ ConnectGet \/ ConnectNew \/ ConnectInfo \/ ConnectPut
           \/ onConnect(First, "ask first", "ask third") \/ onConnect(Third, "ask third", "idle")
  <2>1. /\ UNCHANGED <<plugged, mPermissionIntent, destroyed, quit, mDeviceCounts, checks, list,
                       attached, tasks>>
        /\ pc[Async] \notin {"check", "compare", "crashed"}
    BY <1>2 DEF ConnectGet, ConnectNew, ConnectInfo, ConnectPut, onConnect, Jump, system, listening,
                counting, posted, locals, told
  <2>2. Announced' = Announced
    BY <1>0, <2>1, AnnouncedByOther
  <2> QED
    BY <2>1, <2>2, NoticingSame
<1>3. CASE CheckRun \/ CheckList
  <2>1. /\ UNCHANGED <<plugged, mPermissionIntent, destroyed, quit, mDeviceCounts, attached, tasks>>
        /\ list' = list \/ list' = Present
    BY <1>3 DEF CheckRun, CheckList, system, listening, counting, posted, told, locals
  <2>2. ~destroyed => pc'[Async] \in {"check", "compare"}
    BY <1>0, <1>3 DEF CheckRun, CheckList, Jump, Goto, Begins
  <2>3. Announced' = Announced
    BY <1>0, <2>1, AnnouncedByOther
  <2>4. Checking'
    BY <2>1, <2>2 DEF Noticing, Checking, CheckPending
  <2>5. Counting'
    BY <2>1, <2>3 DEF Noticing, Counting, NoneGone, Present
  <2> QED
    BY <2>4, <2>5 DEF Noticing
<1> QED
  BY <1>1, <1>2, <1>3, CompareNoticing DEF AsyncStep

LEMMA NextNoticing == IndInv /\ Noticing /\ [Next]_vars => Noticing'
<1>1. ASSUME IndInv, Noticing, UNCHANGED vars PROVE Noticing'
  <2>1. /\ UNCHANGED <<plugged, mPermissionIntent, destroyed, quit, mDeviceCounts, checks, list,
                       attached, tasks, pc>>
    BY <1>1 DEF vars, system, listening, counting, posted, locals, told
  <2>2. Announced' = Announced
    BY <1>1, <2>1, AnnouncedByOther DEF IndInv
  <2> QED
    BY <1>1, <2>1, <2>2, NoticingSame
<1>2. ASSUME IndInv, Noticing, Next PROVE Noticing'
  BY <1>2, SystemNoticing, MainNoticing, AsyncNoticing, CameraNoticing DEF Next
<1> QED
  BY <1>1, <1>2

\* While the monitor is registered, a device that is there has been announced,
\* or its announcement is posted, or the next mDeviceCheckRunnable finds more
\* devices than the last one: comparing numbers is enough as long as no device
\* has left, however devices, registrations and detaches interleave with it.
THEOREM ArrivalNoticed ==
    Spec => [](mPermissionIntent /\ ~Crashed /\ (\A e \in Devices : plugged[e] # "gone") =>
                 \A d \in Present :
                    \/ d \in attached
                    \/ \E i \in 1..Len(tasks) : tasks[i].what = "attach" /\ d \in tasks[i].of
                    \/ /\ mDeviceCounts < Cardinality(Present)
                       /\ checks > 0 \/ pc[Async] \in {"check", "compare"})
<1>1. ASSUME IndInv, Noticing, mPermissionIntent, ~Crashed, NoneGone, NEW d \in Present, d \notin Announced
      PROVE  mDeviceCounts < Cardinality(Present) /\ CheckPending
  <2>1. CheckPending /\ ~destroyed
    BY <1>1 DEF Noticing, Checking
  <2>2. Announced \subseteq Present /\ mDeviceCounts <= Cardinality(Announced)
    BY <1>1, <2>1 DEF Noticing, Counting
  <2>3. Present \in SUBSET Devices
    BY DEF Present
  <2>4. Announced \in SUBSET Devices
    BY DEF Announced
  <2>5. Announced \cup {d} \in SUBSET Devices /\ Announced \cup {d} \subseteq Present
    BY <2>2, <2>3, <2>4
  <2>6. Cardinality(Announced \cup {d}) = Cardinality(Announced) + 1
    BY <1>1, <2>4, Finite, FS_AddElement
  <2>7. Cardinality(Announced \cup {d}) <= Cardinality(Present)
    BY <2>3, <2>5, Larger
  <2>8. mDeviceCounts \in Nat /\ Cardinality(Announced) \in Nat /\ Cardinality(Present) \in Nat
    BY <1>1, <2>3, <2>4, Finite DEF IndInv, StateTypes
  <2> QED
    BY <2>1, <2>2, <2>6, <2>7, <2>8
<1>2. IndInv /\ Noticing =>
        (mPermissionIntent /\ ~Crashed /\ (\A e \in Devices : plugged[e] # "gone") =>
                 \A d \in Present :
                    \/ d \in attached
                    \/ \E i \in 1..Len(tasks) : tasks[i].what = "attach" /\ d \in tasks[i].of
                    \/ /\ mDeviceCounts < Cardinality(Present)
                       /\ checks > 0 \/ pc[Async] \in {"check", "compare"})
  BY <1>1 DEF NoneGone, Announced, Posted, CheckPending, Present
<1> QED
  BY <1>2, InitNoticing, NextNoticing, Inductive, PTL DEF Spec
=============================================================================

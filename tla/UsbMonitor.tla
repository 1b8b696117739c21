----------------------------- MODULE UsbMonitor -----------------------------
(***************************************************************************)
(* USBMonitor and its UsbControlBlock                                      *)
(* (libausbc/src/main/java/com/jiangdg/usb/USBMonitor.java): which USB     *)
(* connections exist, which of them the monitor knows, and what its        *)
(* listener is told.                                                       *)
(*                                                                         *)
(* Three threads: the main thread (requestPermission, the broadcast        *)
(* receiver, unregister, destroy), the monitor's handler thread (the       *)
(* runnables of processConnect, processCancel and processDettach, in the   *)
(* order they were posted) and a client's camera thread (clone, close).    *)
(* A UsbDevice is one plugging in: plugged in again it has another name.   *)
(***************************************************************************)
EXTENDS Integers, Sequences, FiniteSets

CONSTANTS
  Devices,      (* the devices, all plugged in at the start                  *)
  Blocks,       (* the UsbControlBlock objects                               *)
  NoBlock,      (* null                                                      *)
  MaxRequests,  (* bound: calls of requestPermission in a behaviour          *)
  MaxClones     (* bound: clones made, as UVCCamera.open makes them          *)

ASSUME MonitorConstants ==
  /\ NoBlock \notin Blocks
  /\ MaxRequests \in Nat /\ MaxClones \in Nat
  /\ IsFiniteSet(Blocks) /\ Cardinality(Blocks) >= MaxRequests + MaxClones

VARIABLES
  attached,     (* the devices that are plugged in                           *)
  granted,      (* the devices the user has granted                          *)
  dialogs,      (* the permission dialogs on the screen                      *)
  broadcasts,   (* the system's broadcasts the main thread has not handled   *)
  requests,     (* calls of requestPermission so far                         *)
  registered,   (* mPermissionIntent # null                                  *)
  receiving,    (* mUsbReceiver is registered with the system                *)
  destroyed,    (* destroyed                                                 *)
  ctrlBlocks,   (* mCtrlBlocks                                               *)
  device,       (* the device of each block                                  *)
  conn,         (* the connection of each block                              *)
  clones,       (* the blocks made by clone()                                *)
  inbox,        (* the runnables posted to mAsyncHandler                     *)
  looper,       (* its looper                                                *)
  async,        (* what its thread does                                      *)
  main,         (* what the main thread does                                 *)
  client,       (* the block the camera thread is closing, or NoBlock        *)
  told,         (* the last call the listener got about each device          *)
  handed        (* the blocks handed out by onConnect                        *)

system == <<attached, granted, dialogs>>
life   == <<requests, registered, receiving, destroyed>>
blocks == <<device, conn, clones>>
queues == <<broadcasts, inbox, looper>>
vars   == <<system, life, ctrlBlocks, blocks, queues, async, main, client,
            told, handed>>

Message(k, d) == [kind |-> k, dev |-> d]
Messages      == [kind : {"connect", "cancel", "detach"}, dev : Devices]
Broadcasts    == [kind : {"granted", "denied", "detached"}, dev : Devices]
Idle          == [at |-> "idle"]

Originals(d) == {b \in Blocks \ clones : conn[b] # "unused" /\ device[b] = d}
Tell(d, call) == told' = [told EXCEPT ![d] = call]

(* Handler.post: dropped once the looper has quit. *)
Post(m) == inbox' = IF looper = "running" THEN Append(inbox, m) ELSE inbox

(* A new block: openDevice works or not (twice, half a second apart). *)
NewBlock(b, d, result) ==
  /\ conn[b] = "unused"
  /\ result = "open" => d \in attached
  /\ conn' = [conn EXCEPT ![b] = result]
  /\ device' = [device EXCEPT ![b] = d]

-----------------------------------------------------------------------------
(* The system and the user. *)

Unplug(d) ==
  /\ d \in attached
  /\ attached' = attached \ {d}
  /\ granted' = granted \ {d}
  /\ dialogs' = dialogs \ {d}
  /\ broadcasts' = IF receiving THEN Append(broadcasts, Message("detached", d))
                                ELSE broadcasts
  /\ UNCHANGED <<life, ctrlBlocks, blocks, inbox, looper, async, main, client,
                 told, handed>>

Answer(d, answer) ==
  /\ d \in dialogs
  /\ dialogs' = dialogs \ {d}
  /\ granted' = IF answer = "granted" THEN granted \cup {d} ELSE granted
  /\ broadcasts' = Append(broadcasts, Message(answer, d))
  /\ UNCHANGED <<attached, life, ctrlBlocks, blocks, inbox, looper, async,
                 main, client, told, handed>>

-----------------------------------------------------------------------------
(* The main thread. *)

RequestPermission(d) ==
  /\ main = Idle
  /\ ~destroyed
  /\ requests < MaxRequests
  /\ requests' = requests + 1
  /\ \/ /\ registered /\ d \in granted
        /\ Post(Message("connect", d))
        /\ UNCHANGED dialogs
     \/ /\ registered /\ d \in attached \ granted
        /\ dialogs' = dialogs \cup {d}
        /\ UNCHANGED inbox
     \/ /\ ~registered \/ d \notin attached
        /\ Post(Message("cancel", d))
        /\ UNCHANGED dialogs
  /\ UNCHANGED <<attached, granted, broadcasts, looper, registered, receiving,
                 destroyed, ctrlBlocks, blocks, async, main, client, told,
                 handed>>

(* register: a second one finds mUsbReceiver registered already. *)
Register ==
  /\ main = Idle
  /\ ~destroyed /\ ~registered
  /\ registered' = TRUE
  /\ receiving' = TRUE
  /\ UNCHANGED <<system, requests, destroyed, ctrlBlocks, blocks, queues, async,
                 main, client, told, handed>>

(* unregister: forgets the intent, keeps the receiver. *)
Unregister ==
  /\ main = Idle
  /\ registered
  /\ registered' = FALSE
  /\ UNCHANGED <<system, requests, receiving, destroyed, ctrlBlocks, blocks,
                 queues, async, main, client, told, handed>>


(* onReceive of the answer to a permission request. *)
ReceiveAnswer ==
  /\ main = Idle
  /\ broadcasts # <<>>
  /\ Head(broadcasts).kind # "detached"
  /\ broadcasts' = Tail(broadcasts)
  /\ \/ destroyed /\ UNCHANGED inbox
     \/ /\ ~destroyed
        /\ LET b == Head(broadcasts)
           IN  Post(Message(IF b.kind = "granted" THEN "connect" ELSE "cancel",
                            b.dev))
  /\ UNCHANGED <<system, life, ctrlBlocks, blocks, looper, async, main, client,
                 told, handed>>


(* Mutants of ReceiveDetach: the block is dropped but not closed; nothing   *)
(* is announced of a device that was not open.                              *)
ReceiveDetachDropping ==
  /\ main = Idle
  /\ broadcasts # <<>>
  /\ Head(broadcasts).kind = "detached"
  /\ broadcasts' = Tail(broadcasts)
  /\ LET d == Head(broadcasts).dev
     IN  \/ destroyed /\ UNCHANGED <<main, ctrlBlocks>>
         \/ /\ ~destroyed
            /\ main' = [at |-> "detach", dev |-> d, block |-> NoBlock]
            /\ ctrlBlocks' = [ctrlBlocks EXCEPT ![d] = NoBlock]
  /\ UNCHANGED <<system, life, blocks, inbox, looper, async, client, told,
                 handed>>

ReceiveDetachOfOpen ==
  /\ main = Idle
  /\ broadcasts # <<>>
  /\ Head(broadcasts).kind = "detached"
  /\ broadcasts' = Tail(broadcasts)
  /\ LET d == Head(broadcasts).dev
     IN  \/ /\ destroyed \/ ctrlBlocks[d] = NoBlock
            /\ UNCHANGED <<main, ctrlBlocks>>
         \/ /\ ~destroyed /\ ctrlBlocks[d] # NoBlock
            /\ main' = [at |-> "detach", dev |-> d, block |-> ctrlBlocks[d]]
            /\ ctrlBlocks' = [ctrlBlocks EXCEPT ![d] = NoBlock]
  /\ UNCHANGED <<system, life, blocks, inbox, looper, async, client, told,
                 handed>>

(* onReceive of a detach: the block leaves the map, then it is closed, then *)
(* onDetach is posted.                                                      *)
ReceiveDetach ==
  /\ main = Idle
  /\ broadcasts # <<>>
  /\ Head(broadcasts).kind = "detached"
  /\ broadcasts' = Tail(broadcasts)
  /\ LET d == Head(broadcasts).dev
     IN  \/ destroyed /\ UNCHANGED <<main, ctrlBlocks>>
         \/ /\ ~destroyed
            /\ main' = [at |-> "detach", dev |-> d, block |-> ctrlBlocks[d]]
            /\ ctrlBlocks' = [ctrlBlocks EXCEPT ![d] = NoBlock]
  /\ UNCHANGED <<system, life, blocks, inbox, looper, async, client, told,
                 handed>>

(* UsbControlBlock.close up to onDisconnect, once per block. *)
Disconnect(b) ==
  /\ conn[b] = "open"
  /\ conn' = [conn EXCEPT ![b] = "closed"]
  /\ Tell(device[b], "disconnect")

(* The end of close: whatever block the map has for the device is removed. *)
Forget(b) == ctrlBlocks' = [ctrlBlocks EXCEPT ![device[b]] = NoBlock]

CloseDetached ==
  /\ main.at = "detach"
  /\ main.block # NoBlock
  /\ Disconnect(main.block)
  /\ main' = [main EXCEPT !.at = "forget"]
  /\ UNCHANGED <<system, life, ctrlBlocks, device, clones, queues, async,
                 client, handed>>

ForgetDetached ==
  /\ main.at = "forget"
  /\ Forget(main.block)
  /\ main' = [main EXCEPT !.at = "detach", !.block = NoBlock]
  /\ UNCHANGED <<system, life, blocks, queues, async, client, told, handed>>


(* Mutant of PostDetach: the listener is called at once. *)
TellDetach ==
  /\ main.at = "detach"
  /\ main.block # NoBlock => conn[main.block] # "open"
  /\ Tell(main.dev, "detach")
  /\ main' = Idle
  /\ UNCHANGED <<system, life, ctrlBlocks, blocks, queues, async, client,
                 handed>>

(* processDettach *)
PostDetach ==
  /\ main.at = "detach"
  /\ main.block # NoBlock => conn[main.block] # "open"
  /\ Post(Message("detach", main.dev))
  /\ main' = Idle
  /\ UNCHANGED <<system, life, ctrlBlocks, blocks, broadcasts, looper, async,
                 client, told, handed>>

(* destroy: unregister, then close every block in the map. *)
Destroy ==
  /\ main = Idle
  /\ ~destroyed
  /\ registered' = FALSE
  /\ destroyed' = TRUE
  /\ main' = [at |-> "sweep", dev |-> {d \in Devices : ctrlBlocks[d] # NoBlock},
              block |-> NoBlock]
  /\ UNCHANGED <<system, requests, receiving, ctrlBlocks, blocks, queues,
                 async, client, told, handed>>

(* One round of the loop over the keys. *)
SweepOne(d) ==
  /\ main.at = "sweep"
  /\ ctrlBlocks[d] # NoBlock
  /\ ctrlBlocks' = [ctrlBlocks EXCEPT ![d] = NoBlock]
  /\ \/ /\ Disconnect(ctrlBlocks[d])
        /\ main' = [main EXCEPT !.at = "sweepForget", !.block = ctrlBlocks[d]]
     \/ /\ conn[ctrlBlocks[d]] # "open"
        /\ UNCHANGED <<conn, told, main>>
  /\ UNCHANGED <<system, life, device, clones, queues, async, client, handed>>

SweepForget ==
  /\ main.at = "sweepForget"
  /\ Forget(main.block)
  /\ main' = [main EXCEPT !.at = "sweep", !.block = NoBlock]
  /\ UNCHANGED <<system, life, blocks, queues, async, client, told, handed>>

(* clear() and quit().  The iterator has seen every key that was there when *)
(* the loop began, and may have missed a later one.                         *)
SweepEnd ==
  /\ main.at = "sweep"
  /\ \A d \in main.dev : ctrlBlocks[d] = NoBlock
  /\ ctrlBlocks' = [d \in Devices |-> NoBlock]
  /\ looper' = "quit"
  /\ inbox' = <<>>
  /\ main' = Idle
  /\ UNCHANGED <<system, life, blocks, broadcasts, async, client, told, handed>>

-----------------------------------------------------------------------------
(* The handler thread. *)

(* The runnables of processCancel and processDettach. *)
RunNotice ==
  /\ looper = "running" /\ async = Idle
  /\ inbox # <<>>
  /\ Head(inbox).kind # "connect"
  /\ inbox' = Tail(inbox)
  /\ Tell(Head(inbox).dev, Head(inbox).kind)
  /\ UNCHANGED <<system, life, ctrlBlocks, blocks, broadcasts, looper, async,
                 main, client, handed>>


(* Mutant of RunConnect: no lookup. *)
RunConnectAlwaysOpening ==
  /\ looper = "running" /\ async = Idle
  /\ inbox # <<>>
  /\ Head(inbox).kind = "connect"
  /\ inbox' = Tail(inbox)
  /\ async' = [at |-> "open", dev |-> Head(inbox).dev, block |-> NoBlock]
  /\ UNCHANGED <<system, life, ctrlBlocks, blocks, broadcasts, looper, main,
                 client, told, handed>>

(* The runnable of processConnect: look the device up. *)
RunConnect ==
  /\ looper = "running" /\ async = Idle
  /\ inbox # <<>>
  /\ Head(inbox).kind = "connect"
  /\ inbox' = Tail(inbox)
  /\ LET d == Head(inbox).dev
     IN  async' = [at |-> IF ctrlBlocks[d] = NoBlock THEN "open" ELSE "check",
                   dev |-> d, block |-> ctrlBlocks[d]]
  /\ UNCHANGED <<system, life, ctrlBlocks, blocks, broadcasts, looper, main,
                 client, told, handed>>

OpenDevice ==
  /\ async.at = "open"
  /\ \E b \in Blocks, result \in {"open", "failed"} :
       /\ NewBlock(b, async.dev, result)
       /\ async' = [async EXCEPT !.at = "put", !.block = b]
  /\ UNCHANGED <<system, life, ctrlBlocks, clones, queues, main, client, told,
                 handed>>

(* The new block enters the map, with a connection or without. *)
PutBlock ==
  /\ async.at = "put"
  /\ ctrlBlocks' = [ctrlBlocks EXCEPT ![async.dev] = async.block]
  /\ async' = [async EXCEPT !.at = "check"]
  /\ UNCHANGED <<system, life, blocks, queues, main, client, told, handed>>

(* Mutant of CheckConnection: the block is taken to be open. *)
TrustConnection ==
  /\ async.at = "check"
  /\ async' = [async EXCEPT !.at = "call"]
  /\ UNCHANGED <<system, life, ctrlBlocks, blocks, queues, main, client, told,
                 handed>>

CheckConnection ==
  /\ async.at = "check"
  /\ \/ /\ conn[async.block] = "open"
        /\ async' = [async EXCEPT !.at = "call"]
        /\ UNCHANGED told
     \/ /\ conn[async.block] # "open"
        /\ async' = Idle
        /\ Tell(async.dev, "cancel")
  /\ UNCHANGED <<system, life, ctrlBlocks, blocks, queues, main, client,
                 handed>>

CallOnConnect ==
  /\ async.at = "call"
  /\ async' = Idle
  /\ Tell(async.dev, "connect")
  /\ handed' = handed \cup {async.block}
  /\ UNCHANGED <<system, life, ctrlBlocks, blocks, queues, main, client>>

-----------------------------------------------------------------------------
(* A camera thread. *)

(* clone: a connection of its own, which the monitor is not told of. *)
CloneBlock(src) ==
  /\ Cardinality(clones) < MaxClones
  /\ client = NoBlock
  /\ src \in handed
  /\ \E b \in Blocks :
       /\ NewBlock(b, device[src], "open")
       /\ clones' = clones \cup {b}
  /\ UNCHANGED <<system, life, ctrlBlocks, queues, async, main, client, told,
                 handed>>

CloseClone(b) ==
  /\ client = NoBlock
  /\ b \in clones
  /\ Disconnect(b)
  /\ client' = b
  /\ UNCHANGED <<system, life, ctrlBlocks, device, clones, queues, async, main,
                 handed>>

ForgetClone ==
  /\ client # NoBlock
  /\ Forget(client)
  /\ client' = NoBlock
  /\ UNCHANGED <<system, life, blocks, queues, async, main, told, handed>>

-----------------------------------------------------------------------------
Init ==
  /\ attached = Devices /\ granted = {} /\ dialogs = {}
  /\ broadcasts = <<>>
  /\ requests = 0
  /\ registered = FALSE /\ receiving = FALSE /\ destroyed = FALSE
  /\ ctrlBlocks = [d \in Devices |-> NoBlock]
  /\ device \in {f \in [Blocks -> Devices] : \A b, c \in Blocks : f[b] = f[c]}
  /\ conn = [b \in Blocks |-> "unused"]
  /\ clones = {}
  /\ inbox = <<>> /\ looper = "running"
  /\ async = Idle /\ main = Idle /\ client = NoBlock
  /\ told = [d \in Devices |-> "nothing"]
  /\ handed = {}

Environment ==
  \/ \E d \in Devices : Unplug(d) \/ RequestPermission(d)
  \/ \E d \in Devices, a \in {"granted", "denied"} : Answer(d, a)
  \/ Register \/ Unregister \/ Destroy
  \/ \E b \in Blocks : CloneBlock(b) \/ CloseClone(b)

MainStep ==
  \/ ReceiveAnswer \/ ReceiveDetach
  \/ CloseDetached \/ ForgetDetached \/ PostDetach
  \/ (\E d \in Devices : SweepOne(d)) \/ SweepForget \/ SweepEnd

AsyncStep ==
  \/ RunNotice \/ RunConnect \/ OpenDevice \/ PutBlock
  \/ CheckConnection \/ CallOnConnect

Next == Environment \/ MainStep \/ AsyncStep \/ ForgetClone

Spec == Init /\ [][Next]_vars

(* The main loop and the handler thread run whatever they are given. *)
FairSpec == Spec /\ WF_vars(MainStep) /\ WF_vars(AsyncStep)

-----------------------------------------------------------------------------
(* Every variable has its type. *)
TypeOK ==
  /\ attached \subseteq Devices /\ granted \subseteq attached
  /\ dialogs \subseteq attached
  /\ \A i \in 1..Len(broadcasts) : broadcasts[i] \in Broadcasts
  /\ requests \in 0..MaxRequests
  /\ registered \in BOOLEAN /\ receiving \in BOOLEAN /\ destroyed \in BOOLEAN
  /\ ctrlBlocks \in [Devices -> Blocks \cup {NoBlock}]
  /\ device \in [Blocks -> Devices]
  /\ conn \in [Blocks -> {"unused", "open", "failed", "closed"}]
  /\ clones \subseteq Blocks /\ handed \subseteq Blocks \ clones
  /\ \A i \in 1..Len(inbox) : inbox[i] \in Messages
  /\ looper \in {"running", "quit"}
  /\ async.at \in {"idle", "open", "put", "check", "call"}
  /\ main.at \in {"idle", "detach", "forget", "sweep", "sweepForget"}
  /\ client \in clones \cup {NoBlock}
  /\ told \in [Devices -> {"nothing", "connect", "cancel", "disconnect",
                           "detach"}]

(* Until destroy, or the close of a clone: what breaks the properties below *)
(* otherwise is stated after them.                                          *)
Undisturbed == ~destroyed /\ \A b \in clones : conn[b] = "open"

(* The monitor never has a device open twice (clones aside), although       *)
(* detach and the handler thread both change the map without a lock.        *)
OneConnectionPerDevice ==
  Undisturbed =>
    \A d \in Devices : \A b, c \in Originals(d) :
      conn[b] = "open" /\ conn[c] = "open" => b = c

(* A connection the monitor opened can still be closed: it is reached from  *)
(* the map, from the runnable that opened it or from the close in progress. *)
OpenIsReachable ==
  Undisturbed =>
    \A d \in Devices : \A b \in Originals(d) : conn[b] = "open" =>
      \/ ctrlBlocks[d] = b
      \/ async.at = "put" /\ async.block = b
      \/ main.at = "detach" /\ main.block = b

(* A device that is gone is not announced as connected any more: the        *)
(* handler keeps the order in which connects and detaches were posted.      *)
NoConnectAfterDetach ==
  [][\A d \in Devices :
       told[d] = "detach" => told'[d] \in {"detach", "disconnect", "cancel"}]_vars

(* What the listener believes is true or will be corrected: if the last it  *)
(* heard of a device is onConnect, a block it was given is open, or a       *)
(* detach of the device is being handled, though onConnect may be called    *)
(* for a block that was closed after it was checked (lines 291, 333).       *)
BelievedIsOpen ==
  Undisturbed =>
    \A d \in Devices : told[d] = "connect" =>
      \/ \E b \in Originals(d) \cap handed : conn[b] = "open"
      \/ main.at \in {"detach", "forget"} /\ main.dev = d
      \/ \E i \in 1..Len(inbox) : inbox[i] = Message("detach", d)

(* A device whose open failed is stuck: it is not announced as connected,   *)
(* and its block leaves the map only when the device is detached, a clone   *)
(* closed or the monitor destroyed (line 321).                              *)
Failed(d) == ctrlBlocks[d] # NoBlock /\ conn[ctrlBlocks[d]] = "failed"

FailedIsStuck ==
  [][\A d \in Devices : Failed(d) =>
       /\ told'[d] = "connect" => told[d] = "connect"
       /\ Failed(d)' \/ destroyed \/ client # NoBlock \/ main'.at = "detach"]_vars

(* A device that is unplugged is announced with onDetach, whether the       *)
(* monitor had it open or not, unless the monitor is destroyed.             *)
UnplugIsAnnounced ==
  \A d \in Devices :
    (\E i \in 1..Len(broadcasts) : broadcasts[i] = Message("detached", d))
      ~> (destroyed \/ told[d] = "detach")

-----------------------------------------------------------------------------
(* What comments of the source say and the code does not do.                *)

(* "USBMonitor never handle cloned UsbControlBlock" (USBMonitor.java:704):  *)
(* the close of a clone leaves the monitor's map as it is.                  *)
CloneIsNotHandled == [][client # NoBlock => UNCHANGED ctrlBlocks]_vars

(* onDetach: "called when device dettach(after onDisconnect)" (line 85).    *)
DisconnectBeforeDetach ==
  [][\A d \in Devices :
       told[d] # "detach" /\ told'[d] = "detach" =>
         \A b \in Originals(d) : conn[b] # "open"]_vars

=============================================================================

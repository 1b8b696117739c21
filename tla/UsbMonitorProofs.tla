-------------------------- MODULE UsbMonitorProofs --------------------------
(***************************************************************************)
(* UsbMonitor, for any number of devices, requests and clones: the types,  *)
(* at most one connection to a device, which the monitor can close, no     *)
(* onConnect after onDetach, and what the listener may believe.            *)
(***************************************************************************)
EXTENDS UsbMonitor, TLAPS

AsyncStates ==
  {Idle} \cup [at : {"open", "put", "check", "call"}, dev : Devices, block : Blocks \cup {NoBlock}]
MainStates ==
  {Idle} \cup [at : {"detach", "forget"}, dev : Devices, block : Blocks \cup {NoBlock}]
         \cup [at : {"sweep", "sweepForget"}, dev : SUBSET Devices, block : Blocks \cup {NoBlock}]

TypeInv ==
  /\ attached \subseteq Devices /\ granted \subseteq attached /\ dialogs \subseteq attached
  /\ broadcasts \in Seq(Broadcasts) /\ inbox \in Seq(Messages)
  /\ requests \in 0 .. MaxRequests
  /\ registered \in BOOLEAN /\ receiving \in BOOLEAN /\ destroyed \in BOOLEAN
  /\ ctrlBlocks \in [Devices -> Blocks \cup {NoBlock}]
  /\ device \in [Blocks -> Devices]
  /\ conn \in [Blocks -> {"unused", "open", "failed", "closed"}]
  /\ clones \subseteq Blocks /\ handed \subseteq Blocks
  /\ looper \in {"running", "quit"}
  /\ async \in AsyncStates /\ main \in MainStates
  /\ client \in Blocks \cup {NoBlock}
  /\ told \in [Devices -> {"nothing", "connect", "cancel", "disconnect", "detach"}]

(* The blocks of the monitor and the clones are apart, and each block is
   where its device is. *)
Own(b, d) == b \in Blocks /\ b \notin clones /\ conn[b] # "unused" /\ device[b] = d
BlockInv ==
  /\ \A b \in clones : conn[b] # "unused"
  /\ \A b \in handed : b \notin clones /\ conn[b] # "unused"
  /\ \A d \in Devices : ctrlBlocks[d] # NoBlock => Own(ctrlBlocks[d], d)
  /\ async.at \in {"put", "check", "call"} => Own(async.block, async.dev)
  /\ main.at \in {"detach", "forget"} /\ main.block # NoBlock => Own(main.block, main.dev)
  /\ main.at \in {"forget", "sweepForget"} => main.block # NoBlock
  /\ main.at \in {"sweep", "sweepForget"} => destroyed
  /\ client # NoBlock => client \in clones /\ conn[client] = "closed"

(* No connect is on its way behind a detach. *)
Has(s, m)       == \E k \in 1 .. Len(s) : s[k] = m
NotAfter(s, a, m) == \A j, k \in 1 .. Len(s) : s[j] = a /\ s[k] = m => k < j
Gone(d) == d \notin attached /\ ~Has(broadcasts, Message("granted", d))

OrderInv ==
  \A d \in Devices :
    /\ Has(broadcasts, Message("detached", d)) => d \notin attached
    /\ NotAfter(broadcasts, Message("detached", d), Message("granted", d))
    /\ main.at \in {"detach", "forget"} /\ main.dev = d => Gone(d)
    /\ Has(inbox, Message("detach", d)) => Gone(d)
    /\ NotAfter(inbox, Message("detach", d), Message("connect", d))
    /\ told[d] = "detach" => /\ Gone(d)
                             /\ ~Has(inbox, Message("connect", d))
                             /\ async.at # "idle" => async.dev # d

(* Where an open connection is reached from, and why it is the only one. *)
Closing  == main.at \in {"detach", "forget"} /\ main.block # NoBlock
OwnerInv ==
  Undisturbed =>
    /\ async.at \in {"open", "put"} => ctrlBlocks[async.dev] = NoBlock
    /\ Closing => /\ ctrlBlocks[main.dev] # NoBlock => conn[ctrlBlocks[main.dev]] # "open"
                  /\ async.at = "put" /\ async.dev = main.dev => conn[async.block] # "open"
    /\ OpenIsReachable

IInv ==
  /\ TypeInv
  /\ BlockInv
  /\ OrderInv
  /\ OwnerInv

-----------------------------------------------------------------------------
(* Messages and the queues they wait in. *)
LEMMA MessageEq ==
  ASSUME NEW k, NEW d, NEW k2, NEW d2
  PROVE  Message(k, d) = Message(k2, d2) <=> k = k2 /\ d = d2
<1>1. Message(k, d).kind = k /\ Message(k, d).dev = d
  BY DEF Message
<1>2. Message(k2, d2).kind = k2 /\ Message(k2, d2).dev = d2
  BY DEF Message
<1> QED
  BY <1>1, <1>2

LEMMA MessageIn ==
  ASSUME NEW K, NEW m \in [kind : K, dev : Devices]
  PROVE  m = Message(m.kind, m.dev) /\ m.kind \in K /\ m.dev \in Devices
BY DEF Message

LEMMA MessageType ==
  ASSUME NEW d \in Devices
  PROVE  /\ Message("detached", d) \in Broadcasts /\ Message("granted", d) \in Broadcasts
         /\ Message("denied", d) \in Broadcasts
         /\ Message("connect", d) \in Messages /\ Message("cancel", d) \in Messages
         /\ Message("detach", d) \in Messages
BY DEF Message, Messages, Broadcasts

LEMMA QueueEmpty ==
  ASSUME NEW a, NEW m
  PROVE  ~Has(<<>>, m) /\ NotAfter(<<>>, a, m)
BY DEF Has, NotAfter

LEMMA QueueAppend ==
  ASSUME NEW S, NEW s \in Seq(S), NEW x \in S, NEW a, NEW m
  PROVE  /\ Append(s, x) \in Seq(S)
         /\ Has(Append(s, x), m) <=> Has(s, m) \/ x = m
         /\ NotAfter(s, a, m) /\ a # m /\ (x = m => ~Has(s, a)) => NotAfter(Append(s, x), a, m)
<1>1. /\ Append(s, x) \in Seq(S) /\ Len(Append(s, x)) = Len(s) + 1 /\ Len(s) \in Nat
      /\ \A k \in 1 .. Len(s) : Append(s, x)[k] = s[k]
      /\ Append(s, x)[Len(s) + 1] = x
      /\ \A k \in 1 .. Len(s) + 1 : k \in 1 .. Len(s) \/ k = Len(s) + 1
      /\ \A k \in 1 .. Len(s) : k \in 1 .. Len(s) + 1 /\ k < Len(s) + 1
      /\ Len(s) + 1 \in 1 .. Len(s) + 1
  OBVIOUS
<1>2. Has(Append(s, x), m) <=> Has(s, m) \/ x = m
  BY <1>1 DEF Has
<1>3. ASSUME NotAfter(s, a, m), a # m, x = m => ~Has(s, a)
      PROVE  NotAfter(Append(s, x), a, m)
  BY <1>1, <1>3 DEF NotAfter, Has
<1> QED
  BY <1>1, <1>2, <1>3

LEMMA QueueTail ==
  ASSUME NEW S, NEW s \in Seq(S), s # <<>>, NEW a, NEW m
  PROVE  /\ Tail(s) \in Seq(S) /\ Head(s) \in S /\ Has(s, Head(s))
         /\ Has(Tail(s), m) => Has(s, m)
         /\ NotAfter(s, a, m) => NotAfter(Tail(s), a, m)
         /\ NotAfter(s, Head(s), m) /\ Head(s) # m => ~Has(s, m)
<1>1. /\ Tail(s) \in Seq(S) /\ Head(s) \in S /\ Head(s) = s[1]
      /\ Len(s) \in Nat /\ Len(s) > 0 /\ Len(Tail(s)) = Len(s) - 1
      /\ \A k \in 1 .. Len(s) - 1 : Tail(s)[k] = s[k + 1] /\ k + 1 \in 1 .. Len(s)
      /\ 1 \in 1 .. Len(s)
  OBVIOUS
<1>2. Has(s, Head(s)) /\ (Has(Tail(s), m) => Has(s, m))
  BY <1>1 DEF Has
<1>3. ASSUME NotAfter(s, a, m) PROVE NotAfter(Tail(s), a, m)
  <2> SUFFICES ASSUME NEW j \in 1 .. Len(s) - 1, NEW k \in 1 .. Len(s) - 1,
                      s[j + 1] = a, s[k + 1] = m
               PROVE  k < j
    BY <1>1 DEF NotAfter
  <2>1. k + 1 < j + 1
    BY <1>1, <1>3 DEF NotAfter
  <2> QED
    BY <1>1, <2>1
<1>4. ASSUME NotAfter(s, Head(s), m), Has(s, m) PROVE FALSE
  <2>1. PICK k \in 1 .. Len(s) : s[k] = m
    BY <1>4 DEF Has
  <2>2. k < 1
    BY <1>1, <1>4, <2>1 DEF NotAfter
  <2> QED
    BY <1>1, <2>2
<1> QED
  BY <1>1, <1>2, <1>3, <1>4

-----------------------------------------------------------------------------
LEMMA PostIs ==
  ASSUME NEW m \in Messages, inbox \in Seq(Messages), Post(m)
  PROVE  inbox' \in Seq(Messages) /\ (inbox' = inbox \/ inbox' = Append(inbox, m))
BY QueueAppend DEF Post

LEMMA IdleIs == Idle \in AsyncStates /\ Idle \in MainStates /\ Idle.at = "idle"
BY DEF Idle, AsyncStates, MainStates

LEMMA AsyncIs ==
  ASSUME async \in AsyncStates
  PROVE  /\ async.at \in {"idle", "open", "put", "check", "call"}
         /\ async = Idle <=> async.at = "idle"
         /\ async.at # "idle" =>
              /\ async.dev \in Devices /\ async.block \in Blocks \cup {NoBlock}
              /\ \A s \in {"open", "put", "check", "call"}, b \in Blocks \cup {NoBlock} :
                   /\ [async EXCEPT !.at = s] \in AsyncStates
                   /\ [async EXCEPT !.at = s].at = s
                   /\ [async EXCEPT !.at = s].dev = async.dev
                   /\ [async EXCEPT !.at = s].block = async.block
                   /\ [async EXCEPT !.at = s, !.block = b] \in AsyncStates
                   /\ [async EXCEPT !.at = s, !.block = b].at = s
                   /\ [async EXCEPT !.at = s, !.block = b].dev = async.dev
                   /\ [async EXCEPT !.at = s, !.block = b].block = b
<1>1. CASE async = Idle
  BY <1>1 DEF Idle
<1>2. CASE async \in [at : {"open", "put", "check", "call"}, dev : Devices, block : Blocks \cup {NoBlock}]
  <2>1. async.at # "idle" /\ async # Idle
    BY <1>2 DEF Idle
  <2> QED
    BY <1>2, <2>1 DEF AsyncStates
<1> QED
  BY <1>1, <1>2 DEF AsyncStates

LEMMA AsyncOpened ==
  ASSUME async \in AsyncStates, async.at = "open", NEW b,
         async' = [async EXCEPT !.at = "put", !.block = b]
  PROVE  async'.at = "put" /\ async'.dev = async.dev /\ async'.block = b
<1>1. async \in [at : {"open", "put", "check", "call"}, dev : Devices, block : Blocks \cup {NoBlock}]
  BY AsyncIs DEF AsyncStates
<1> QED
  BY <1>1

LEMMA MainIs ==
  ASSUME main \in MainStates
  PROVE  /\ main.at \in {"idle", "detach", "forget", "sweep", "sweepForget"}
         /\ main = Idle <=> main.at = "idle"
         /\ main.at # "idle" => main.block \in Blocks \cup {NoBlock}
         /\ main.at \in {"detach", "forget"} =>
              /\ main.dev \in Devices
              /\ \A s \in {"detach", "forget"}, b \in Blocks \cup {NoBlock} :
                   /\ [main EXCEPT !.at = s] \in MainStates
                   /\ [main EXCEPT !.at = s].at = s /\ [main EXCEPT !.at = s].dev = main.dev
                   /\ [main EXCEPT !.at = s].block = main.block
                   /\ [main EXCEPT !.at = s, !.block = b] \in MainStates
                   /\ [main EXCEPT !.at = s, !.block = b].at = s
                   /\ [main EXCEPT !.at = s, !.block = b].dev = main.dev
                   /\ [main EXCEPT !.at = s, !.block = b].block = b
         /\ main.at \in {"sweep", "sweepForget"} =>
              /\ main.dev \subseteq Devices
              /\ \A s \in {"sweep", "sweepForget"}, b \in Blocks \cup {NoBlock} :
                   /\ [main EXCEPT !.at = s, !.block = b] \in MainStates
                   /\ [main EXCEPT !.at = s, !.block = b].at = s
                   /\ [main EXCEPT !.at = s, !.block = b].block = b
<1>1. CASE main = Idle
  BY <1>1 DEF Idle
<1>2. CASE main \in [at : {"detach", "forget"}, dev : Devices, block : Blocks \cup {NoBlock}]
  <2>1. main.at # "idle" /\ main # Idle
    BY <1>2 DEF Idle
  <2> QED
    BY <1>2, <2>1 DEF MainStates
<1>3. CASE main \in [at : {"sweep", "sweepForget"}, dev : SUBSET Devices, block : Blocks \cup {NoBlock}]
  <2>1. main.at # "idle" /\ main # Idle
    BY <1>3 DEF Idle
  <2> QED
    BY <1>3, <2>1 DEF MainStates
<1> QED
  BY <1>1, <1>2, <1>3 DEF MainStates

-----------------------------------------------------------------------------
LEMMA InitInv == Init => IInv
<1> SUFFICES ASSUME Init PROVE IInv
  OBVIOUS
<1> USE MonitorConstants DEF Init
<1>1. broadcasts \in Seq(Broadcasts) /\ inbox \in Seq(Messages)
  OBVIOUS
<1>2. async \in AsyncStates /\ main \in MainStates
  BY DEF AsyncStates, MainStates
<1>3. TypeInv
  <2>1. requests \in 0 .. MaxRequests /\ looper \in {"running", "quit"}
    OBVIOUS
  <2>2. registered \in BOOLEAN /\ receiving \in BOOLEAN /\ destroyed \in BOOLEAN
    BY ZenonT(20)
  <2>3. /\ ctrlBlocks \in [Devices -> Blocks \cup {NoBlock}]
        /\ device \in [Blocks -> Devices]
        /\ conn \in [Blocks -> {"unused", "open", "failed", "closed"}]
        /\ told \in [Devices -> {"nothing", "connect", "cancel", "disconnect", "detach"}]
    OBVIOUS
  <2>4. /\ attached \subseteq Devices /\ granted \subseteq attached /\ dialogs \subseteq attached
        /\ clones \subseteq Blocks /\ handed \subseteq Blocks /\ client \in Blocks \cup {NoBlock}
    OBVIOUS
  <2> QED
    BY ONLY <1>1, <1>2, <2>1, <2>2, <2>3, <2>4 DEF TypeInv
<1>4. async.at = "idle" /\ main.at = "idle"
  BY DEF Idle
<1>5. BlockInv
  BY <1>4 DEF BlockInv
<1>6. OrderInv
  BY <1>4, QueueEmpty DEF OrderInv
<1>7. OwnerInv
  BY <1>4 DEF OwnerInv, Closing, OpenIsReachable, Originals
<1> QED
  BY <1>3, <1>5, <1>6, <1>7 DEF IInv

(* The types. *)
LEMMA TypeStep ==
  ASSUME IInv, Next
  PROVE  TypeInv'
<1> USE MonitorConstants DEF IInv, system, life, blocks, queues,
        TypeInv, BlockInv, Own
<1>1. CASE \E d \in Devices : Unplug(d)
  <2>1. PICK d \in Devices : Unplug(d)
    BY <1>1
  <2>2. broadcasts' \in Seq(Broadcasts)
    BY <2>1, MessageType, QueueAppend DEF Unplug
  <2> QED
    BY <2>1, <2>2 DEF Unplug
<1>2. CASE \E d \in Devices : RequestPermission(d)
  <2>1. inbox' \in Seq(Messages)
    BY <1>2, MessageType, PostIs DEF RequestPermission
  <2> QED
    BY <1>2, <2>1 DEF RequestPermission
<1>3. CASE \E d \in Devices, a \in {"granted", "denied"} : Answer(d, a)
  <2>1. PICK d \in Devices, a \in {"granted", "denied"} : Answer(d, a)
    BY <1>3
  <2>2. broadcasts' \in Seq(Broadcasts)
    BY <2>1, MessageType, QueueAppend DEF Answer
  <2> QED
    BY <2>1, <2>2 DEF Answer
<1>4. CASE Register
  BY <1>4 DEF Register
<1>5. CASE Unregister
  BY <1>5 DEF Unregister
<1>6. CASE Destroy
  <2>1. main' \in MainStates
    BY <1>6 DEF Destroy, MainStates
  <2>2. registered' \in BOOLEAN /\ destroyed' \in BOOLEAN
    BY <1>6 DEF Destroy
  <2> QED
    BY <1>6, <2>1, <2>2 DEF Destroy
<1>7. CASE \E b \in Blocks : CloneBlock(b)
  BY <1>7 DEF CloneBlock, NewBlock
<1>8. CASE \E b \in Blocks : CloseClone(b)
  BY <1>8 DEF CloseClone, Disconnect, Tell
<1>9. CASE ReceiveAnswer
  <2>1. broadcasts # <<>> /\ broadcasts' = Tail(broadcasts)
    BY <1>9 DEF ReceiveAnswer
  <2>2. broadcasts' \in Seq(Broadcasts) /\ Head(broadcasts) \in Broadcasts
    BY <2>1, QueueTail
  <2>3. Head(broadcasts).dev \in Devices
    BY <2>2, MessageIn DEF Broadcasts
  <2>4. inbox' \in Seq(Messages)
    BY <1>9, <2>3, MessageType, PostIs DEF ReceiveAnswer
  <2> QED
    BY <1>9, <2>2, <2>4 DEF ReceiveAnswer
<1>10. CASE ReceiveDetach
  <2>1. broadcasts # <<>> /\ broadcasts' = Tail(broadcasts)
    BY <1>10 DEF ReceiveDetach
  <2>2. broadcasts' \in Seq(Broadcasts) /\ Head(broadcasts) \in Broadcasts
    BY <2>1, QueueTail
  <2>3. Head(broadcasts).dev \in Devices
    BY <2>2, MessageIn DEF Broadcasts
  <2>4. main' \in MainStates
    BY <1>10, <2>3 DEF ReceiveDetach, MainStates
  <2>5. ctrlBlocks' \in [Devices -> Blocks \cup {NoBlock}]
    BY <1>10, <2>3 DEF ReceiveDetach
  <2> QED
    BY <1>10, <2>2, <2>4, <2>5 DEF ReceiveDetach
<1>11. CASE CloseDetached
  <2>1. main' \in MainStates
    BY <1>11, MainIs DEF CloseDetached, Disconnect, Tell
  <2>2. conn' \in [Blocks -> {"unused", "open", "failed", "closed"}]
    BY <1>11, MainIs DEF CloseDetached, Disconnect, Tell
  <2>3. told' \in [Devices -> {"nothing", "connect", "cancel", "disconnect", "detach"}]
    BY <1>11, MainIs DEF CloseDetached, Disconnect, Tell
  <2> QED
    BY <1>11, <2>1, <2>2, <2>3 DEF CloseDetached
<1>12. CASE ForgetDetached
  <2>1. main' \in MainStates
    BY <1>12, MainIs DEF ForgetDetached, Forget
  <2>2. ctrlBlocks' \in [Devices -> Blocks \cup {NoBlock}]
    BY <1>12, MainIs DEF ForgetDetached, Forget
  <2> QED
    BY <1>12, <2>1, <2>2 DEF ForgetDetached
<1>13. CASE PostDetach
  <2>1. main' \in MainStates
    BY <1>13, MainIs DEF PostDetach, MainStates
  <2>2. inbox' \in Seq(Messages)
    BY <1>13, MainIs, PostIs, MessageType DEF PostDetach, MainStates
  <2> QED
    BY <1>13, <2>1, <2>2 DEF PostDetach
<1>14. CASE \E d \in Devices : SweepOne(d)
  <2>1. PICK d \in Devices : SweepOne(d)
    BY <1>14
  <2>2. /\ main.at = "sweep" /\ ctrlBlocks[d] \in Blocks
        /\ main' = main \/ main' = [main EXCEPT !.at = "sweepForget", !.block = ctrlBlocks[d]]
    BY <2>1 DEF SweepOne
  <2>3. main' \in MainStates
    <3>1. CASE main' = main
      BY <3>1
    <3>2. CASE main' = [main EXCEPT !.at = "sweepForget", !.block = ctrlBlocks[d]]
      BY <2>2, <3>2, MainIs
    <3> QED
      BY <2>2, <3>1, <3>2
  <2>4. conn' \in [Blocks -> {"unused", "open", "failed", "closed"}]
    BY <2>1, <2>2 DEF SweepOne, Disconnect
  <2>5. told' \in [Devices -> {"nothing", "connect", "cancel", "disconnect", "detach"}]
    BY <2>1, <2>2 DEF SweepOne, Disconnect, Tell
  <2>6. ctrlBlocks' \in [Devices -> Blocks \cup {NoBlock}]
    BY <2>1 DEF SweepOne
  <2> QED
    BY <2>1, <2>3, <2>4, <2>5, <2>6 DEF SweepOne
<1>15. CASE SweepForget
  <2>1. main' \in MainStates
    BY <1>15, MainIs DEF SweepForget, Forget
  <2>2. ctrlBlocks' \in [Devices -> Blocks \cup {NoBlock}]
    BY <1>15, MainIs DEF SweepForget, Forget
  <2> QED
    BY <1>15, <2>1, <2>2 DEF SweepForget
<1>16. CASE SweepEnd
  <2>1. main' \in MainStates
    BY <1>16 DEF SweepEnd, MainStates
  <2>2. ctrlBlocks' \in [Devices -> Blocks \cup {NoBlock}]
    BY <1>16 DEF SweepEnd, MainStates
  <2>3. inbox' \in Seq(Messages)
    BY <1>16 DEF SweepEnd, MainStates
  <2> QED
    BY <1>16, <2>1, <2>2, <2>3 DEF SweepEnd
<1>17. CASE RunNotice
  <2>1. inbox' \in Seq(Messages) /\ Head(inbox) \in Messages
    BY <1>17, QueueTail DEF RunNotice, Tell, Messages
  <2>2. told' \in [Devices -> {"nothing", "connect", "cancel", "disconnect", "detach"}]
    BY <1>17, <2>1 DEF RunNotice, Tell, Messages
  <2> QED
    BY <1>17, <2>1, <2>2 DEF RunNotice
<1>18. CASE RunConnect
  <2>1. inbox' \in Seq(Messages) /\ Head(inbox) \in Messages
    BY <1>18, QueueTail DEF RunConnect
  <2>2. Head(inbox).dev \in Devices
    BY <1>18, <2>1, MessageIn DEF Messages
  <2>3. async' \in AsyncStates
    BY <1>18, <2>2 DEF RunConnect, AsyncStates
  <2> QED
    BY <1>18, <2>1, <2>2, <2>3 DEF RunConnect
<1>19. CASE OpenDevice
  <2>1. PICK b \in Blocks, result \in {"open", "failed"} :
          NewBlock(b, async.dev, result) /\ async' = [async EXCEPT !.at = "put", !.block = b]
    BY <1>19 DEF OpenDevice
  <2>2. async.at = "open" /\ async.dev \in Devices
    BY <1>19, AsyncIs DEF OpenDevice
  <2>3. async' \in AsyncStates
    BY <2>1, <2>2, AsyncIs
  <2>4. /\ conn' \in [Blocks -> {"unused", "open", "failed", "closed"}]
        /\ device' \in [Blocks -> Devices]
    BY <2>1, <2>2 DEF NewBlock
  <2> QED
    BY <1>19, <2>3, <2>4 DEF OpenDevice
<1>20. CASE PutBlock
  <2>1. async' \in AsyncStates
    BY <1>20, AsyncIs DEF PutBlock
  <2>2. ctrlBlocks' \in [Devices -> Blocks \cup {NoBlock}]
    BY <1>20, AsyncIs DEF PutBlock
  <2> QED
    BY <1>20, <2>1, <2>2 DEF PutBlock
<1>21. CASE CheckConnection
  <2>1. async' = Idle \/ async' = [async EXCEPT !.at = "call"]
    BY <1>21 DEF CheckConnection
  <2>2. async.at = "check" /\ async.dev \in Devices
    BY <1>21, AsyncIs DEF CheckConnection
  <2>3. async' \in AsyncStates
    BY <2>1, <2>2, AsyncIs, IdleIs
  <2>4. told' \in [Devices -> {"nothing", "connect", "cancel", "disconnect", "detach"}]
    BY <1>21, <2>2 DEF CheckConnection, Tell
  <2> QED
    BY <1>21, <2>3, <2>4 DEF CheckConnection
<1>22. CASE CallOnConnect
  <2>1. async.at = "call" /\ async.dev \in Devices /\ async' = Idle /\ async.block \in Blocks
    BY <1>22, AsyncIs DEF CallOnConnect
  <2>2. async' \in AsyncStates
    BY <2>1, IdleIs
  <2>3. told' \in [Devices -> {"nothing", "connect", "cancel", "disconnect", "detach"}]
    BY <1>22, <2>1 DEF CallOnConnect, Tell
  <2>4. handed' \subseteq Blocks
    BY <1>22, <2>1 DEF CallOnConnect
  <2> QED
    BY <1>22, <2>2, <2>3, <2>4 DEF CallOnConnect
<1>23. CASE ForgetClone
  BY <1>23 DEF ForgetClone, Forget
<1> QED
  BY <1>1, <1>2, <1>3, <1>4, <1>5, <1>6, <1>7, <1>8, <1>9, <1>10, <1>11, <1>12, <1>13, <1>14,
     <1>15, <1>16, <1>17, <1>18, <1>19, <1>20, <1>21, <1>22, <1>23
     DEF Next, Environment, MainStep, AsyncStep

(* A block that is in use stays what it is, but for the close of its connection. *)
Kept ==
  /\ \A b \in Blocks : conn[b] # "unused" =>
       /\ conn'[b] # "unused" /\ device'[b] = device[b]
       /\ b \in clones' => b \in clones
       /\ conn[b] # "open" => conn'[b] = conn[b]
       /\ conn'[b] = conn[b] \/ conn'[b] = "closed"
  /\ clones \subseteq clones'
  /\ \A b \in clones' : b \in clones \/ conn'[b] = "open"

LEMMA BlocksKept ==
  ASSUME IInv, Next
  PROVE  Kept
<1> USE MonitorConstants DEF IInv, TypeInv, Kept, blocks
<1>1. CASE \E c \in Blocks : CloneBlock(c)
  BY <1>1 DEF CloneBlock, NewBlock
<1>2. CASE OpenDevice
  BY <1>2 DEF OpenDevice, NewBlock
<1>3. ASSUME NEW c \in Blocks \cup {NoBlock}, conn[c] = "open", conn' = [conn EXCEPT ![c] =
     "closed"],
             UNCHANGED <<device, clones>>
      PROVE  Kept
  BY <1>3
<1>4. CASE \E c \in Blocks : CloseClone(c)
  BY <1>3, <1>4 DEF CloseClone, Disconnect
<1>5. CASE CloseDetached
  <2>1. main.block \in Blocks \cup {NoBlock}
    BY <1>5, MainIs DEF CloseDetached
  <2> QED
    BY <1>3, <1>5, <2>1 DEF CloseDetached, Disconnect
<1>6. CASE \E d \in Devices : SweepOne(d)
  <2>1. PICK d \in Devices : SweepOne(d)
    BY <1>6
  <2> QED
    BY <1>3, <2>1 DEF SweepOne, Disconnect
<1>7. CASE \/ (\E d \in Devices : Unplug(d))
           \/ (\E d \in Devices : RequestPermission(d))
           \/ (\E d \in Devices, a \in {"granted", "denied"} : Answer(d, a))
           \/ Register
           \/ Unregister
           \/ Destroy
           \/ ReceiveAnswer
           \/ ReceiveDetach
           \/ ForgetDetached
           \/ PostDetach
           \/ SweepForget
           \/ SweepEnd
           \/ RunNotice
           \/ RunConnect
           \/ PutBlock
           \/ CheckConnection
           \/ CallOnConnect
           \/ ForgetClone
  BY <1>7 DEF Unplug, RequestPermission, Post, Answer, Register, Unregister, Destroy,
     ReceiveAnswer, ReceiveDetach, ForgetDetached, Forget, PostDetach, SweepForget, SweepEnd,
     RunNotice, Tell, RunConnect, PutBlock, CheckConnection, CallOnConnect, ForgetClone
<1> QED
  BY <1>1, <1>2, <1>4, <1>5, <1>6, <1>7 DEF Next, Environment, MainStep, AsyncStep

LEMMA OwnKept ==
  ASSUME IInv, Next, NEW b, NEW d, Own(b, d)
  PROVE  Own(b, d)'
BY BlocksKept DEF Kept, Own

(* Where the blocks are. *)
LEMMA MapKept ==
  ASSUME IInv, Next, NEW d \in Devices
  PROVE  \/ ctrlBlocks'[d] \in {ctrlBlocks[d], NoBlock}
         \/ PutBlock /\ d = async.dev /\ ctrlBlocks'[d] = async.block
<1> USE MonitorConstants DEF IInv, TypeInv
<1>1. CASE ReceiveDetach
  BY <1>1 DEF ReceiveDetach
<1>2. CASE ForgetDetached \/ SweepForget \/ ForgetClone
  BY <1>2 DEF ForgetDetached, SweepForget, ForgetClone, Forget
<1>3. CASE (\E e \in Devices : SweepOne(e)) \/ SweepEnd
  BY <1>3 DEF SweepOne, SweepEnd
<1>4. CASE PutBlock
  BY <1>4 DEF PutBlock
<1>5. CASE \/ (\E e \in Devices : Unplug(e))
           \/ (\E e \in Devices : RequestPermission(e))
           \/ (\E e \in Devices, a \in {"granted", "denied"} : Answer(e, a))
           \/ Register
           \/ Unregister
           \/ Destroy
           \/ (\E b \in Blocks : CloneBlock(b))
           \/ (\E b \in Blocks : CloseClone(b))
           \/ ReceiveAnswer
           \/ CloseDetached
           \/ PostDetach
           \/ RunNotice
           \/ RunConnect
           \/ OpenDevice
           \/ CheckConnection
           \/ CallOnConnect
  BY <1>5 DEF Unplug, RequestPermission, Post, Answer, Register, Unregister, Destroy, CloneBlock,
     NewBlock, CloseClone, Disconnect, Tell, ReceiveAnswer, CloseDetached, PostDetach, RunNotice,
     RunConnect, OpenDevice, CheckConnection, CallOnConnect
<1> QED
  BY <1>1, <1>2, <1>3, <1>4, <1>5 DEF Next, Environment, MainStep, AsyncStep

LEMMA MapBlocks ==
  ASSUME IInv, Next
  PROVE  (\A d \in Devices : ctrlBlocks[d] # NoBlock => Own(ctrlBlocks[d], d))'
<1> SUFFICES ASSUME NEW d \in Devices, ctrlBlocks'[d] # NoBlock
             PROVE  Own(ctrlBlocks[d], d)'
  OBVIOUS
<1> DEFINE b == ctrlBlocks'[d]
<1>1. Own(b, d)
  <2>1. CASE b \in {ctrlBlocks[d], NoBlock}
    BY <2>1 DEF IInv, BlockInv
  <2>2. CASE PutBlock /\ d = async.dev /\ b = async.block
    BY <2>2 DEF IInv, BlockInv, PutBlock
  <2> QED
    BY <2>1, <2>2, MapKept
<1>2. b \in Blocks /\ b \notin clones' /\ conn'[b] # "unused" /\ device'[b] = d
  BY <1>1, BlocksKept DEF Kept, Own
<1> QED
  BY <1>2 DEF Own

LEMMA AsyncBlock ==
  ASSUME IInv, Next
  PROVE  (async.at \in {"put", "check", "call"} => Own(async.block, async.dev))'
<1> USE MonitorConstants
<1>1. TypeInv /\ BlockInv
  BY DEF IInv
<1>2. CASE RunConnect
  <2>1. Head(inbox).dev \in Devices
    <3>1. inbox # <<>> /\ Head(inbox) \in Messages
      BY <1>1, <1>2, QueueTail DEF RunConnect, TypeInv
    <3> QED
      BY <3>1, MessageIn DEF Messages
  <2>2. async'.at = "check" => /\ ctrlBlocks[async'.dev] # NoBlock /\ async'.dev \in Devices
                               /\ async'.block = ctrlBlocks[async'.dev]
    BY <1>2, <2>1 DEF RunConnect
  <2>3. async'.at \in {"open", "check"}
    BY <1>2 DEF RunConnect
  <2>4. async'.at = "check" => Own(async'.block, async'.dev)
    BY <1>1, <2>2 DEF BlockInv
  <2> QED
    BY <2>3, <2>4, BlocksKept DEF Kept, Own
<1>3. CASE OpenDevice
  <2>1. PICK b \in Blocks, result \in {"open", "failed"} :
          NewBlock(b, async.dev, result) /\ async' = [async EXCEPT !.at = "put", !.block = b]
    BY <1>3 DEF OpenDevice
  <2>2. async'.dev = async.dev /\ async'.block = b /\ async.dev \in Devices
    BY <1>1, <1>3, <2>1, AsyncIs DEF OpenDevice, TypeInv
  <2>3. b \notin clones' /\ conn'[b] # "unused" /\ device'[b] = async.dev
    BY <1>1, <1>3, <2>1 DEF NewBlock, TypeInv, BlockInv, OpenDevice
  <2> QED
    BY <2>2, <2>3 DEF Own
<1>4. CASE PutBlock \/ CheckConnection \/ CallOnConnect
  <2>1. async.at \in {"put", "check", "call"} /\ Own(async.block, async.dev)
    BY <1>1, <1>4 DEF BlockInv, PutBlock, CheckConnection, CallOnConnect
  <2>2. async'.at = "idle" \/ (async'.dev = async.dev /\ async'.block = async.block)
    <3>1. async' = Idle \/ \E s \in {"open", "put", "check", "call"} : async' = [async EXCEPT !.at = s]
      BY <1>4 DEF PutBlock, CheckConnection, CallOnConnect
    <3>2. ASSUME NEW s \in {"open", "put", "check", "call"}, async' = [async EXCEPT !.at = s]
          PROVE  async'.dev = async.dev /\ async'.block = async.block
      BY <1>1, <2>1, <3>2, AsyncIs DEF TypeInv
    <3> QED
      BY <3>1, <3>2, IdleIs
  <2> QED
    BY <2>1, <2>2, BlocksKept DEF Kept, Own
<1>5. CASE async' = async
  BY <1>1, <1>5, BlocksKept DEF BlockInv, Kept, Own
<1>6. CASE \/ (\E d \in Devices : Unplug(d))
           \/ (\E d \in Devices : RequestPermission(d))
           \/ (\E d \in Devices, a \in {"granted", "denied"} : Answer(d, a))
           \/ Register
           \/ Unregister
           \/ Destroy
           \/ (\E b \in Blocks : CloneBlock(b))
           \/ (\E b \in Blocks : CloseClone(b))
           \/ ReceiveAnswer
           \/ ReceiveDetach
           \/ CloseDetached
           \/ ForgetDetached
           \/ PostDetach
           \/ (\E d \in Devices : SweepOne(d))
           \/ SweepForget
           \/ SweepEnd
           \/ RunNotice
           \/ ForgetClone
  <2>1. async' = async
    BY <1>6 DEF Unplug, RequestPermission, Post, Answer, Register, Unregister, Destroy,
     CloneBlock, NewBlock, CloseClone, Disconnect, Tell, ReceiveAnswer, ReceiveDetach,
     CloseDetached, ForgetDetached, Forget, PostDetach, SweepOne, SweepForget, SweepEnd,
     RunNotice, ForgetClone
  <2> QED
    BY <1>5, <2>1
<1> QED
  BY <1>2, <1>3, <1>4, <1>6 DEF Next, Environment, MainStep, AsyncStep

LEMMA MainBlock ==
  ASSUME IInv, Next
  PROVE  /\ (main.at \in {"detach", "forget"} /\ main.block # NoBlock => Own(main.block, main.dev))'
         /\ (main.at \in {"forget", "sweepForget"} => main.block # NoBlock)'
         /\ (main.at \in {"sweep", "sweepForget"} => destroyed)'
<1> USE MonitorConstants
<1>1. TypeInv /\ BlockInv
  BY DEF IInv
<1>2. destroyed => destroyed'
  BY DEF Next, Environment, MainStep, AsyncStep, life, Unplug, RequestPermission, Post, Answer,
     Register, Unregister, Destroy, CloneBlock, NewBlock, CloseClone, Disconnect, Tell,
     ReceiveAnswer, ReceiveDetach, CloseDetached, ForgetDetached, Forget, PostDetach, SweepOne,
     SweepForget, SweepEnd, RunNotice, RunConnect, OpenDevice, PutBlock, CheckConnection,
     CallOnConnect, ForgetClone
<1>3. CASE ReceiveDetach
  <2>1. Head(broadcasts).dev \in Devices
    <3>1. broadcasts # <<>> /\ Head(broadcasts) \in Broadcasts
      BY <1>1, <1>3, QueueTail DEF ReceiveDetach, TypeInv
    <3> QED
      BY <3>1, MessageIn DEF Broadcasts
  <2>2. CASE main' = main
    BY <1>3, <2>2, IdleIs DEF ReceiveDetach
  <2>3. CASE main' # main
    <3>1. /\ main'.at = "detach" /\ main'.dev \in Devices /\ main'.block = ctrlBlocks[main'.dev]
      BY <1>3, <2>1, <2>3 DEF ReceiveDetach
    <3>2. main'.block # NoBlock => Own(main'.block, main'.dev)
      BY <1>1, <3>1 DEF BlockInv
    <3> QED
      BY <3>1, <3>2, BlocksKept DEF Kept, Own
  <2> QED
    BY <2>2, <2>3
<1>4. CASE CloseDetached \/ ForgetDetached
  <2>1. /\ main.at \in {"detach", "forget"} /\ main.block # NoBlock
        /\ \/ main' = [main EXCEPT !.at = "forget"]
           \/ main' = [main EXCEPT !.at = "detach", !.block = NoBlock]
    BY <1>1, <1>4 DEF CloseDetached, ForgetDetached, BlockInv
  <2>2. Own(main.block, main.dev)
    BY <1>1, <2>1 DEF BlockInv
  <2>3. CASE main' = [main EXCEPT !.at = "forget"]
    <3>1. main'.at = "forget" /\ main'.block = main.block /\ main'.dev = main.dev
      BY <1>1, <2>1, <2>3, MainIs DEF TypeInv
    <3> QED
      BY <2>1, <2>2, <3>1, BlocksKept DEF Kept, Own
  <2>4. CASE main' = [main EXCEPT !.at = "detach", !.block = NoBlock]
    <3>1. main'.at = "detach" /\ main'.block = NoBlock
      BY <1>1, <2>1, <2>4, MainIs DEF TypeInv
    <3> QED
      BY <3>1
  <2> QED
    BY <2>1, <2>3, <2>4
<1>5. CASE PostDetach \/ SweepEnd
  BY <1>5, IdleIs DEF PostDetach, SweepEnd
<1>6. CASE Destroy
  BY <1>6 DEF Destroy
<1>7. CASE \E d \in Devices : SweepOne(d)
  <2>1. PICK d \in Devices : SweepOne(d)
    BY <1>7
  <2>2. /\ main.at = "sweep" /\ destroyed /\ ctrlBlocks[d] \in Blocks /\ destroyed' = destroyed
        /\ main' = main \/ main' = [main EXCEPT !.at = "sweepForget", !.block = ctrlBlocks[d]]
    BY <1>1, <2>1 DEF SweepOne, TypeInv, BlockInv, life
  <2>3. CASE main' = main
    BY <2>2, <2>3
  <2>4. CASE main' = [main EXCEPT !.at = "sweepForget", !.block = ctrlBlocks[d]]
    <3>1. main'.at = "sweepForget" /\ main'.block = ctrlBlocks[d]
      BY <1>1, <2>2, <2>4, MainIs DEF TypeInv
    <3> QED
      BY <2>2, <3>1
  <2> QED
    BY <2>2, <2>3, <2>4
<1>8. CASE SweepForget
  <2>1. main'.at = "sweep" /\ destroyed /\ destroyed' = destroyed
    <3>1. main.at = "sweepForget" /\ destroyed /\ destroyed' = destroyed
      BY <1>1, <1>8 DEF SweepForget, BlockInv, life
    <3> QED
      BY <1>1, <1>8, <3>1, MainIs DEF SweepForget, TypeInv
  <2> QED
    BY <2>1
<1>9. CASE \/ (\E d \in Devices : Unplug(d))
           \/ (\E d \in Devices : RequestPermission(d))
           \/ (\E d \in Devices, a \in {"granted", "denied"} : Answer(d, a))
           \/ Register
           \/ Unregister
           \/ (\E b \in Blocks : CloneBlock(b))
           \/ (\E b \in Blocks : CloseClone(b))
           \/ ReceiveAnswer
           \/ RunNotice
           \/ RunConnect
           \/ OpenDevice
           \/ PutBlock
           \/ CheckConnection
           \/ CallOnConnect
           \/ ForgetClone
  <2>1. main' = main
    BY <1>9 DEF Unplug, RequestPermission, Post, Answer, Register, Unregister, CloneBlock,
     NewBlock, CloseClone, Disconnect, Tell, ReceiveAnswer, RunNotice, RunConnect, OpenDevice,
     PutBlock, CheckConnection, CallOnConnect, ForgetClone, Forget
  <2> QED
    BY <1>1, <1>2, <2>1, BlocksKept DEF BlockInv, Kept, Own
<1> QED
  BY <1>3, <1>4, <1>5, <1>6, <1>7, <1>8, <1>9 DEF Next, Environment, MainStep, AsyncStep

LEMMA ClientBlock ==
  ASSUME IInv, Next
  PROVE  /\ (\A b \in clones : conn[b] # "unused")'
         /\ (\A b \in handed : b \notin clones /\ conn[b] # "unused")'
         /\ (client # NoBlock => client \in clones /\ conn[client] = "closed")'
<1> USE MonitorConstants
<1>1. TypeInv /\ BlockInv /\ Kept
  BY BlocksKept DEF IInv
<1>2. \A b \in clones' : conn'[b] # "unused"
  BY <1>1 DEF TypeInv, BlockInv, Kept
<1>3. CASE CallOnConnect
  BY <1>1, <1>2, <1>3 DEF CallOnConnect, TypeInv, BlockInv, Own, blocks
<1>4. CASE \E b \in Blocks : CloseClone(b)
  BY <1>1, <1>2, <1>4 DEF CloseClone, Disconnect, TypeInv, BlockInv, Kept
<1>5. CASE ForgetClone
  BY <1>1, <1>2, <1>5 DEF ForgetClone, BlockInv, blocks
<1>6. CASE \/ (\E d \in Devices : Unplug(d))
           \/ (\E d \in Devices : RequestPermission(d))
           \/ (\E d \in Devices, a \in {"granted", "denied"} : Answer(d, a))
           \/ Register
           \/ Unregister
           \/ Destroy
           \/ (\E b \in Blocks : CloneBlock(b))
           \/ ReceiveAnswer
           \/ ReceiveDetach
           \/ CloseDetached
           \/ ForgetDetached
           \/ PostDetach
           \/ (\E d \in Devices : SweepOne(d))
           \/ SweepForget
           \/ SweepEnd
           \/ RunNotice
           \/ RunConnect
           \/ OpenDevice
           \/ PutBlock
           \/ CheckConnection
  <2>1. handed' = handed /\ client' = client
    BY <1>6 DEF Unplug, RequestPermission, Post, Answer, Register, Unregister, Destroy,
     CloneBlock, NewBlock, ReceiveAnswer, ReceiveDetach, CloseDetached, Disconnect, Tell,
     ForgetDetached, Forget, PostDetach, SweepOne, SweepForget, SweepEnd, RunNotice, RunConnect,
     OpenDevice, PutBlock, CheckConnection
  <2> QED
    BY <1>1, <1>2, <2>1 DEF TypeInv, BlockInv, Kept
<1> QED
  BY <1>3, <1>4, <1>5, <1>6 DEF Next, Environment, MainStep, AsyncStep

LEMMA BlockStep ==
  ASSUME IInv, Next
  PROVE  BlockInv'
BY MapBlocks, AsyncBlock, MainBlock, ClientBlock DEF BlockInv

-----------------------------------------------------------------------------
(* How the two queues grow: who is granted or unplugged is plugged in before,
   a connect is posted for a device that is not gone, a detach for one that is. *)
BroadcastMove ==
  \/ broadcasts' = broadcasts
  \/ broadcasts # <<>> /\ broadcasts' = Tail(broadcasts)
  \/ \E d \in attached :
       \/ broadcasts' = Append(broadcasts, Message("detached", d)) /\ d \notin attached'
       \/ broadcasts' = Append(broadcasts, Message("granted", d))
       \/ broadcasts' = Append(broadcasts, Message("denied", d))

LEMMA BroadcastMoves ==
  ASSUME IInv, Next
  PROVE  BroadcastMove /\ attached' \subseteq attached
<1> USE MonitorConstants DEF BroadcastMove
<1>1. TypeInv
  BY DEF IInv
<1>2. CASE \E d \in Devices : Unplug(d)
  <2>1. PICK d \in Devices : Unplug(d)
    BY <1>2
  <2>2. d \in attached /\ attached' = attached \ {d}
    BY <2>1 DEF Unplug
  <2>3. broadcasts' = broadcasts \/ broadcasts' = Append(broadcasts, Message("detached", d))
    BY <2>1 DEF Unplug
  <2> QED
    BY <2>2, <2>3
<1>3. CASE \E d \in Devices, a \in {"granted", "denied"} : Answer(d, a)
  <2>1. PICK d \in Devices, a \in {"granted", "denied"} : Answer(d, a)
    BY <1>3
  <2>2. d \in attached /\ attached' = attached /\ broadcasts' = Append(broadcasts, Message(a, d))
    BY <1>1, <2>1 DEF Answer, TypeInv
  <2> QED
    BY <2>2
<1>4. CASE ReceiveAnswer \/ ReceiveDetach
  BY <1>4 DEF ReceiveAnswer, ReceiveDetach, system
<1>5. CASE \/ (\E d \in Devices : RequestPermission(d))
           \/ Register
           \/ Unregister
           \/ Destroy
           \/ (\E b \in Blocks : CloneBlock(b))
           \/ (\E b \in Blocks : CloseClone(b))
           \/ CloseDetached
           \/ ForgetDetached
           \/ PostDetach
           \/ (\E d \in Devices : SweepOne(d))
           \/ SweepForget
           \/ SweepEnd
           \/ RunNotice
           \/ RunConnect
           \/ OpenDevice
           \/ PutBlock
           \/ CheckConnection
           \/ CallOnConnect
           \/ ForgetClone
  BY <1>5 DEF system, queues, RequestPermission, Post, Register, Unregister, Destroy, CloneBlock,
     NewBlock, CloseClone, Disconnect, Tell, CloseDetached, ForgetDetached, Forget, PostDetach,
     SweepOne, SweepForget, SweepEnd, RunNotice, RunConnect, OpenDevice, PutBlock,
     CheckConnection, CallOnConnect, ForgetClone
<1> QED
  BY <1>2, <1>3, <1>4, <1>5 DEF Next, Environment, MainStep, AsyncStep

LEMMA GoneKept ==
  ASSUME IInv, Next, NEW d \in Devices, Gone(d)
  PROVE  Gone(d)'
<1>1. TypeInv /\ BroadcastMove /\ attached' \subseteq attached
  BY BroadcastMoves DEF IInv
<1>2. d \notin attached /\ ~Has(broadcasts, Message("granted", d))
  BY DEF Gone
<1>3. ~Has(broadcasts', Message("granted", d))
  <2>1. CASE broadcasts # <<>> /\ broadcasts' = Tail(broadcasts)
    BY <1>1, <1>2, <2>1, QueueTail DEF TypeInv
  <2>2. ASSUME NEW e \in attached, NEW k \in {"detached", "granted", "denied"},
               broadcasts' = Append(broadcasts, Message(k, e))
        PROVE  ~Has(broadcasts', Message("granted", d))
    <3>1. Message(k, e) \in Broadcasts /\ broadcasts \in Seq(Broadcasts)
      BY <1>1, MessageType DEF TypeInv
    <3>2. Message(k, e) # Message("granted", d)
      BY <1>2, MessageEq
    <3> QED
      BY <1>2, <2>2, <3>1, <3>2, QueueAppend
  <2> QED
    BY <1>1, <1>2, <2>1, <2>2 DEF BroadcastMove
<1> QED
  BY <1>1, <1>2, <1>3 DEF Gone

InboxMove ==
  \/ inbox' = inbox
  \/ inbox' = <<>>
  \/ inbox # <<>> /\ inbox' = Tail(inbox)
  \/ \E d \in Devices :
       \/ inbox' = Append(inbox, Message("connect", d)) /\ ~Gone(d)
       \/ inbox' = Append(inbox, Message("cancel", d))
       \/ inbox' = Append(inbox, Message("detach", d)) /\ Gone(d)

LEMMA InboxMoves ==
  ASSUME IInv, Next
  PROVE  InboxMove
<1> USE MonitorConstants DEF InboxMove
<1>1. TypeInv /\ OrderInv
  BY DEF IInv
<1>2. CASE \E d \in Devices : RequestPermission(d)
  <2>1. PICK d \in Devices : RequestPermission(d)
    BY <1>2
  <2>2. d \in granted => ~Gone(d)
    BY <1>1 DEF TypeInv, Gone
  <2>3. \/ inbox' = inbox
        \/ inbox' = Append(inbox, Message("connect", d)) /\ d \in granted
        \/ inbox' = Append(inbox, Message("cancel", d))
    BY <2>1 DEF RequestPermission, Post
  <2> QED
    BY <2>2, <2>3
<1>3. CASE ReceiveAnswer
  <2>1. broadcasts # <<>> /\ Head(broadcasts) \in Broadcasts /\ Has(broadcasts, Head(broadcasts))
    BY <1>1, <1>3, QueueTail DEF ReceiveAnswer, TypeInv
  <2>2. /\ Head(broadcasts).dev \in Devices
        /\ Head(broadcasts) = Message(Head(broadcasts).kind, Head(broadcasts).dev)
    BY <2>1, MessageIn DEF Broadcasts
  <2>3. Head(broadcasts).kind = "granted" => ~Gone(Head(broadcasts).dev)
    BY <2>1, <2>2 DEF Gone
  <2>4. \/ inbox' = inbox
        \/ /\ Head(broadcasts).kind = "granted"
           /\ inbox' = Append(inbox, Message("connect", Head(broadcasts).dev))
        \/ inbox' = Append(inbox, Message("cancel", Head(broadcasts).dev))
    BY <1>3 DEF ReceiveAnswer, Post
  <2> QED
    BY <2>2, <2>3, <2>4
<1>4. CASE PostDetach
  <2>1. main.dev \in Devices /\ Gone(main.dev)
    BY <1>1, <1>4, MainIs DEF PostDetach, TypeInv, OrderInv
  <2> QED
    BY <1>4, <2>1 DEF PostDetach, Post
<1>5. CASE SweepEnd \/ RunNotice \/ RunConnect
  BY <1>5 DEF SweepEnd, RunNotice, RunConnect
<1>6. CASE \/ (\E d \in Devices : Unplug(d))
           \/ (\E d \in Devices, a \in {"granted", "denied"} : Answer(d, a))
           \/ Register
           \/ Unregister
           \/ Destroy
           \/ (\E b \in Blocks : CloneBlock(b))
           \/ (\E b \in Blocks : CloseClone(b))
           \/ ReceiveDetach
           \/ CloseDetached
           \/ ForgetDetached
           \/ (\E d \in Devices : SweepOne(d))
           \/ SweepForget
           \/ OpenDevice
           \/ PutBlock
           \/ CheckConnection
           \/ CallOnConnect
           \/ ForgetClone
  BY <1>6 DEF queues, Unplug, Answer, Register, Unregister, Destroy, CloneBlock, NewBlock,
     CloseClone, Disconnect, Tell, ReceiveDetach, CloseDetached, ForgetDetached, Forget,
     SweepOne, SweepForget, OpenDevice, PutBlock, CheckConnection, CallOnConnect, ForgetClone
<1> QED
  BY <1>2, <1>3, <1>4, <1>5, <1>6 DEF Next, Environment, MainStep, AsyncStep

(* The broadcasts. *)
LEMMA BroadcastOrder ==
  ASSUME IInv, Next, NEW d \in Devices
  PROVE  /\ Has(broadcasts', Message("detached", d)) => d \notin attached'
         /\ NotAfter(broadcasts', Message("detached", d), Message("granted", d))
<1> DEFINE a == Message("detached", d)
           m == Message("granted", d)
<1>1. BroadcastMove /\ attached' \subseteq attached /\ broadcasts \in Seq(Broadcasts)
  BY BroadcastMoves DEF IInv, TypeInv
<1>2. (Has(broadcasts, a) => d \notin attached) /\ NotAfter(broadcasts, a, m) /\ a # m
  BY MessageEq DEF IInv, OrderInv
<1> HIDE DEF a, m
<1>3. CASE broadcasts' = broadcasts
  BY <1>1, <1>2, <1>3 DEF a, m
<1>4. CASE broadcasts # <<>> /\ broadcasts' = Tail(broadcasts)
  BY <1>1, <1>2, <1>4, QueueTail DEF a, m
<1>5. ASSUME NEW e \in attached, NEW k \in {"detached", "granted", "denied"},
             broadcasts' = Append(broadcasts, Message(k, e)), k = "detached" => e \notin attached'
      PROVE  (Has(broadcasts', a) => d \notin attached') /\ NotAfter(broadcasts', a, m)
  <2>1. Message(k, e) \in Broadcasts
    BY MessageType DEF IInv, TypeInv
  <2>2. /\ Message(k, e) = a => k = "detached" /\ e = d
        /\ Message(k, e) = m => k = "granted" /\ e = d
    BY MessageEq DEF a, m
  <2>3. /\ Has(broadcasts', a) <=> Has(broadcasts, a) \/ Message(k, e) = a
        /\ (Message(k, e) = m => ~Has(broadcasts, a)) => NotAfter(broadcasts', a, m)
    BY <1>1, <1>2, <1>5, <2>1, QueueAppend
  <2> QED
    BY <1>1, <1>2, <1>5, <2>2, <2>3
<1> QED
  BY <1>1, <1>3, <1>4, <1>5 DEF BroadcastMove, a, m

(* The runnables. *)
LEMMA InboxOrder ==
  ASSUME IInv, Next, NEW d \in Devices
  PROVE  /\ Has(inbox', Message("detach", d)) => Gone(d)'
         /\ NotAfter(inbox', Message("detach", d), Message("connect", d))
         /\ Gone(d) /\ ~Has(inbox, Message("connect", d)) => ~Has(inbox', Message("connect", d))
<1> DEFINE a == Message("detach", d)
           m == Message("connect", d)
<1>1. InboxMove /\ inbox \in Seq(Messages) /\ (Gone(d) => Gone(d)')
  BY InboxMoves, GoneKept DEF IInv, TypeInv
<1>2. (Has(inbox, a) => Gone(d)) /\ NotAfter(inbox, a, m) /\ a # m
  BY MessageEq DEF IInv, OrderInv
<1> HIDE DEF a, m
<1> DEFINE Goal == /\ Has(inbox', a) => Gone(d)
                   /\ NotAfter(inbox', a, m)
                   /\ Gone(d) /\ ~Has(inbox, m) => ~Has(inbox', m)
<1>3. ASSUME inbox' = inbox PROVE Goal
  BY <1>2, <1>3
<1>4. ASSUME inbox' = <<>> PROVE Goal
  BY <1>4, QueueEmpty
<1>5. ASSUME inbox # <<>>, inbox' = Tail(inbox) PROVE Goal
  <2>1. /\ Has(inbox', a) => Has(inbox, a)
        /\ NotAfter(inbox, a, m) => NotAfter(inbox', a, m)
        /\ Has(inbox', m) => Has(inbox, m)
    BY <1>1, <1>5, QueueTail
  <2> QED
    BY <1>2, <2>1
<1>6. ASSUME NEW e \in Devices, NEW k \in {"connect", "cancel", "detach"},
             inbox' = Append(inbox, Message(k, e)),
             k = "connect" => ~Gone(e), k = "detach" => Gone(e)
      PROVE  Goal
  <2>1. Message(k, e) \in Messages
    BY MessageType
  <2>2. /\ Message(k, e) = a => k = "detach" /\ e = d
        /\ Message(k, e) = m => k = "connect" /\ e = d
    BY MessageEq DEF a, m
  <2>3. /\ Has(inbox', a) <=> Has(inbox, a) \/ Message(k, e) = a
        /\ Has(inbox', m) <=> Has(inbox, m) \/ Message(k, e) = m
        /\ (Message(k, e) = m => ~Has(inbox, a)) => NotAfter(inbox', a, m)
    BY <1>1, <1>2, <1>6, <2>1, QueueAppend
  <2> QED
    BY <1>2, <1>6, <2>2, <2>3
<1>7. ASSUME NEW e \in Devices,
             \/ inbox' = Append(inbox, Message("connect", e)) /\ ~Gone(e)
             \/ inbox' = Append(inbox, Message("cancel", e))
             \/ inbox' = Append(inbox, Message("detach", e)) /\ Gone(e)
      PROVE  Goal
  BY <1>6, <1>7
<1> HIDE DEF Goal
<1>8. Goal
  BY <1>1, <1>3, <1>4, <1>5, <1>7 DEF InboxMove
<1> QED
  BY <1>1, <1>8 DEF a, m, Goal

LEMMA DetachGone ==
  ASSUME IInv, Next, NEW d \in Devices
  PROVE  (main.at \in {"detach", "forget"} /\ main.dev = d => Gone(d))'
<1>1. TypeInv /\ BlockInv /\ OrderInv /\ (Gone(d) => Gone(d)')
  BY GoneKept DEF IInv
<1>2. CASE ReceiveDetach
  <2>1. /\ broadcasts # <<>> /\ Head(broadcasts) \in Broadcasts /\ Has(broadcasts, Head(broadcasts))
        /\ broadcasts \in Seq(Broadcasts)
    BY <1>1, <1>2, QueueTail DEF ReceiveDetach, TypeInv
  <2>2. CASE main' = main
    BY <1>1, <2>2 DEF OrderInv
  <2>3. CASE main' # main /\ main'.dev = d
    <3>1. Head(broadcasts).kind = "detached" /\ main'.dev = Head(broadcasts).dev
      BY <1>2, <2>3 DEF ReceiveDetach
    <3>2. Head(broadcasts) = Message("detached", d)
      BY <2>1, <2>3, <3>1, MessageIn DEF Broadcasts
    <3>3. d \notin attached /\ NotAfter(broadcasts, Head(broadcasts), Message("granted", d))
      BY <1>1, <2>1, <3>2 DEF OrderInv
    <3>4. Head(broadcasts) # Message("granted", d)
      BY <3>2, MessageEq
    <3>5. ~Has(broadcasts, Message("granted", d))
      BY <2>1, <3>3, <3>4, QueueTail
    <3> QED
      BY <1>1, <3>3, <3>5 DEF Gone
  <2> QED
    BY <2>2, <2>3
<1>3. CASE CloseDetached \/ ForgetDetached
  <2>1. /\ main.at \in {"detach", "forget"}
        /\ \/ main' = [main EXCEPT !.at = "forget"]
           \/ main' = [main EXCEPT !.at = "detach", !.block = NoBlock]
    BY <1>1, <1>3 DEF CloseDetached, ForgetDetached, BlockInv
  <2>2. main' = [main EXCEPT !.at = "forget"] => main'.dev = main.dev
    BY <1>1, <2>1, MainIs DEF TypeInv
  <2>3. ASSUME main' = [main EXCEPT !.at = "detach", !.block = NoBlock]
        PROVE  main'.dev = main.dev
    BY <1>1, <2>1, <2>3, MainIs DEF TypeInv
  <2> QED
    BY <1>1, <2>1, <2>2, <2>3 DEF OrderInv
<1>4. CASE PostDetach \/ SweepEnd
  BY <1>4, IdleIs DEF PostDetach, SweepEnd
<1>5. CASE Destroy
  BY <1>5 DEF Destroy
<1>6. CASE (\E e \in Devices : SweepOne(e)) \/ SweepForget
  <2>1. /\ main.at \in {"sweep", "sweepForget"}
        /\ \/ main' = main
           \/ \E e \in Devices :
                main' = [main EXCEPT !.at = "sweepForget", !.block = ctrlBlocks[e]]
           \/ main' = [main EXCEPT !.at = "sweep", !.block = NoBlock]
    BY <1>6 DEF SweepOne, SweepForget
  <2>2. ASSUME NEW e \in Devices, main' = [main EXCEPT !.at = "sweepForget", !.block =
     ctrlBlocks[e]]
        PROVE  main'.at = "sweepForget"
    BY <1>1, <2>1, <2>2, MainIs DEF TypeInv
  <2>3. ASSUME main' = [main EXCEPT !.at = "sweep", !.block = NoBlock]
        PROVE  main'.at = "sweep"
    BY <1>1, <2>1, <2>3, MainIs DEF TypeInv
  <2>4. main'.at \in {"sweep", "sweepForget"}
    BY <2>1, <2>2, <2>3
  <2> QED
    BY <2>4
<1>7. CASE \/ (\E e \in Devices : Unplug(e))
           \/ (\E e \in Devices : RequestPermission(e))
           \/ (\E e \in Devices, a \in {"granted", "denied"} : Answer(e, a))
           \/ Register
           \/ Unregister
           \/ (\E b \in Blocks : CloneBlock(b))
           \/ (\E b \in Blocks : CloseClone(b))
           \/ ReceiveAnswer
           \/ RunNotice
           \/ RunConnect
           \/ OpenDevice
           \/ PutBlock
           \/ CheckConnection
           \/ CallOnConnect
           \/ ForgetClone
  <2>1. main' = main
    BY <1>7 DEF Unplug, RequestPermission, Post, Answer, Register, Unregister, CloneBlock,
     NewBlock, CloseClone, Disconnect, Tell, ReceiveAnswer, RunNotice, RunConnect, OpenDevice,
     PutBlock, CheckConnection, CallOnConnect, ForgetClone, Forget
  <2> QED
    BY <1>1, <2>1 DEF OrderInv
<1> QED
  BY <1>2, <1>3, <1>4, <1>5, <1>6, <1>7 DEF Next, Environment, MainStep, AsyncStep

LEMMA ToldDetach ==
  ASSUME IInv, Next, NEW d \in Devices, told'[d] = "detach"
  PROVE  /\ Gone(d)'
         /\ ~Has(inbox', Message("connect", d))
         /\ async'.at # "idle" => async'.dev # d
<1>1. TypeInv /\ OrderInv /\ (Gone(d) => Gone(d)')
  BY GoneKept DEF IInv
<1>2. CASE RunNotice
  <2>1. /\ inbox # <<>> /\ inbox \in Seq(Messages) /\ async = Idle /\ async' = async
        /\ inbox' = Tail(inbox) /\ told' = [told EXCEPT ![Head(inbox).dev] = Head(inbox).kind]
    BY <1>1, <1>2 DEF RunNotice, Tell, TypeInv
  <2>2. Head(inbox) \in Messages /\ Has(inbox, Head(inbox))
    BY <2>1, QueueTail
  <2>3. CASE told[d] = "detach"
    BY <1>1, <2>1, <2>3, QueueTail, IdleIs DEF OrderInv
  <2>4. CASE told[d] # "detach"
    <3>1. Head(inbox).dev = d /\ Head(inbox).kind = "detach"
      BY <1>1, <2>1, <2>4 DEF TypeInv
    <3>2. Head(inbox) = Message("detach", d)
      BY <2>2, <3>1, MessageIn DEF Messages
    <3>3. Gone(d) /\ NotAfter(inbox, Head(inbox), Message("connect", d))
      BY <1>1, <2>2, <3>2 DEF OrderInv
    <3>4. Head(inbox) # Message("connect", d)
      BY <3>2, MessageEq
    <3>5. ~Has(inbox, Message("connect", d))
      BY <2>1, <3>3, <3>4, QueueTail
    <3>6. ~Has(inbox', Message("connect", d))
      BY <2>1, <3>5, QueueTail
    <3> QED
      BY <1>1, <2>1, <3>3, <3>6, IdleIs
  <2> QED
    BY <2>3, <2>4
<1>3. CASE ~RunNotice
  <2>1. told[d] = "detach"
    <3>1. \/ told' = told
          \/ \E e \in Devices, k \in {"disconnect", "cancel", "connect"} :
               told' = [told EXCEPT ![e] = k]
      <4>1. CASE \E b \in Blocks : CloseClone(b)
        BY <1>1, <4>1 DEF CloseClone, Disconnect, Tell, TypeInv
      <4>2. CASE CloseDetached
        BY <1>1, <4>2, MainIs DEF CloseDetached, Disconnect, Tell, TypeInv
      <4>3. CASE \E e \in Devices : SweepOne(e)
        <5>1. PICK e \in Devices : SweepOne(e)
          BY <4>3
        <5>2. ctrlBlocks[e] \in Blocks
          BY <1>1, <5>1 DEF SweepOne, TypeInv
        <5> QED
          BY <1>1, <5>1, <5>2 DEF SweepOne, Disconnect, Tell, TypeInv
      <4>4. CASE CheckConnection \/ CallOnConnect
        BY <1>1, <4>4, AsyncIs DEF CheckConnection, CallOnConnect, Tell, TypeInv
      <4>5. CASE \/ (\E e \in Devices : Unplug(e))
                 \/ (\E e \in Devices : RequestPermission(e))
                 \/ (\E e \in Devices, a \in {"granted", "denied"} : Answer(e, a))
                 \/ Register
                 \/ Unregister
                 \/ Destroy
                 \/ (\E b \in Blocks : CloneBlock(b))
                 \/ ReceiveAnswer
                 \/ ReceiveDetach
                 \/ ForgetDetached
                 \/ PostDetach
                 \/ SweepForget
                 \/ SweepEnd
                 \/ RunConnect
                 \/ OpenDevice
                 \/ PutBlock
                 \/ ForgetClone
        BY <4>5 DEF Unplug, RequestPermission, Post, Answer, Register, Unregister, Destroy,
     CloneBlock, NewBlock, ReceiveAnswer, ReceiveDetach, ForgetDetached, Forget, PostDetach,
     SweepForget, SweepEnd, RunConnect, OpenDevice, PutBlock, ForgetClone
      <4> QED
        BY <1>3, <4>1, <4>2, <4>3, <4>4, <4>5 DEF Next, Environment, MainStep, AsyncStep
    <3> QED
      BY <1>1, <3>1 DEF TypeInv
  <2>2. Gone(d) /\ ~Has(inbox, Message("connect", d)) /\ (async.at # "idle" => async.dev # d)
    BY <1>1, <2>1 DEF OrderInv
  <2>3. ~Has(inbox', Message("connect", d))
    BY <2>2, InboxOrder
  <2>4. async'.at # "idle" => async'.dev # d
    <3>1. CASE RunConnect
      <4>1. inbox # <<>> /\ Head(inbox) \in Messages /\ Has(inbox, Head(inbox))
        BY <1>1, <3>1, QueueTail DEF RunConnect, TypeInv
      <4>2. Head(inbox) = Message("connect", Head(inbox).dev)
        BY <3>1, <4>1, MessageIn DEF RunConnect, Messages
      <4>3. Head(inbox).dev # d
        BY <2>2, <4>1, <4>2
      <4> QED
        BY <3>1, <4>3 DEF RunConnect
    <3>2. CASE OpenDevice
      <4>1. PICK b \in Blocks : async' = [async EXCEPT !.at = "put", !.block = b]
        BY <3>2 DEF OpenDevice
      <4>2. async.at = "open" /\ async'.dev = async.dev
        BY <1>1, <3>2, <4>1, AsyncIs DEF OpenDevice, TypeInv
      <4> QED
        BY <2>2, <4>2
    <3>3. CASE PutBlock
      <4>1. async.at = "put" /\ async' = [async EXCEPT !.at = "check"]
        BY <3>3 DEF PutBlock
      <4> QED
        BY <1>1, <2>2, <4>1, AsyncIs DEF TypeInv
    <3>4. CASE CheckConnection \/ CallOnConnect
      <4>1. async.at \in {"check", "call"} /\ (async' = Idle \/ async' = [async EXCEPT !.at = "call"])
        BY <3>4 DEF CheckConnection, CallOnConnect
      <4>2. async' = [async EXCEPT !.at = "call"] => async'.dev = async.dev
        BY <1>1, <4>1, AsyncIs DEF TypeInv
      <4> QED
        BY <2>2, <4>1, <4>2, IdleIs
    <3>5. CASE \/ (\E e \in Devices : Unplug(e))
               \/ (\E e \in Devices : RequestPermission(e))
               \/ (\E e \in Devices, a \in {"granted", "denied"} : Answer(e, a))
               \/ Register
               \/ Unregister
               \/ Destroy
               \/ (\E b \in Blocks : CloneBlock(b))
               \/ (\E b \in Blocks : CloseClone(b))
               \/ ReceiveAnswer
               \/ ReceiveDetach
               \/ CloseDetached
               \/ ForgetDetached
               \/ PostDetach
               \/ (\E e \in Devices : SweepOne(e))
               \/ SweepForget
               \/ SweepEnd
               \/ RunNotice
               \/ ForgetClone
      BY <2>2, <3>5 DEF Unplug, RequestPermission, Post, Answer, Register, Unregister, Destroy,
     CloneBlock, NewBlock, CloseClone, Disconnect, Tell, ReceiveAnswer, ReceiveDetach,
     CloseDetached, ForgetDetached, Forget, PostDetach, SweepOne, SweepForget, SweepEnd,
     RunNotice, ForgetClone
    <3> QED
      BY <3>1, <3>2, <3>3, <3>4, <3>5 DEF Next, Environment, MainStep, AsyncStep
  <2> QED
    BY <1>1, <2>2, <2>3, <2>4
<1> QED
  BY <1>2, <1>3

LEMMA OrderStep ==
  ASSUME IInv, Next
  PROVE  OrderInv'
<1> SUFFICES ASSUME NEW d \in Devices
             PROVE  /\ Has(broadcasts', Message("detached", d)) => d \notin attached'
                    /\ NotAfter(broadcasts', Message("detached", d), Message("granted", d))
                    /\ main'.at \in {"detach", "forget"} /\ main'.dev = d => Gone(d)'
                    /\ Has(inbox', Message("detach", d)) => Gone(d)'
                    /\ NotAfter(inbox', Message("detach", d), Message("connect", d))
                    /\ told'[d] = "detach" => /\ Gone(d)'
                                              /\ ~Has(inbox', Message("connect", d))
                                              /\ async'.at # "idle" => async'.dev # d
  BY DEF OrderInv
<1> QED
  BY BroadcastOrder, InboxOrder, DetachGone, ToldDetach

-----------------------------------------------------------------------------
(* Who owns the open connections. *)
LEMMA UndisturbedKept ==
  ASSUME IInv, Next, Undisturbed'
  PROVE  Undisturbed /\ client = NoBlock /\ main.at \notin {"sweep", "sweepForget"}
<1>1. destroyed => destroyed'
  BY DEF life, Next, Environment, MainStep, AsyncStep, Unplug, RequestPermission, Post, Answer,
     Register, Unregister, Destroy, CloneBlock, NewBlock, CloseClone, Disconnect, Tell,
     ReceiveAnswer, ReceiveDetach, CloseDetached, ForgetDetached, Forget, PostDetach, SweepOne,
     SweepForget, SweepEnd, RunNotice, RunConnect, OpenDevice, PutBlock, CheckConnection,
     CallOnConnect, ForgetClone
<1>2. \A b \in clones : conn[b] = "open"
  BY BlocksKept DEF Kept, Undisturbed, IInv, TypeInv, BlockInv
<1>3. Undisturbed
  BY <1>1, <1>2 DEF Undisturbed
<1> QED
  BY <1>2, <1>3 DEF Undisturbed, IInv, BlockInv

Reach(b) ==
  \/ ctrlBlocks[device[b]] = b
  \/ async.at = "put" /\ async.block = b
  \/ main.at = "detach" /\ main.block = b

LEMMA Reaching ==
  ASSUME device \in [Blocks -> Devices]
  PROVE  OpenIsReachable <=>
           (Undisturbed => \A b \in Blocks \ clones : conn[b] = "open" => Reach(b))
BY DEF OpenIsReachable, Originals, Reach

MapEmpty == async.at \in {"open", "put"} => ctrlBlocks[async.dev] = NoBlock
NoOther  == Closing =>
  /\ ctrlBlocks[main.dev] # NoBlock => conn[ctrlBlocks[main.dev]] # "open"
  /\ async.at = "put" /\ async.dev = main.dev => conn[async.block] # "open"
Reached  == \A b \in Blocks \ clones : conn[b] = "open" => Reach(b)

LEMMA OwnerStep ==
  ASSUME IInv, Next
  PROVE  OwnerInv'
<1> SUFFICES ASSUME Undisturbed' PROVE MapEmpty' /\ NoOther' /\ Reached'
  <2>1. device' \in [Blocks -> Devices]
    BY TypeStep DEF TypeInv
  <2> QED
    BY <2>1 DEF OwnerInv, OpenIsReachable, Originals, Reach, MapEmpty, NoOther, Reached
<1>1. TypeInv /\ BlockInv /\ OrderInv /\ TypeInv' /\ NoBlock \notin Blocks
  BY TypeStep, MonitorConstants DEF IInv
<1>2. ~destroyed /\ ~destroyed' /\ client = NoBlock /\ main.at \in {"idle", "detach", "forget"}
  BY <1>1, UndisturbedKept, MainIs DEF Undisturbed, TypeInv
<1>3. MapEmpty /\ NoOther /\ Reached
  BY <1>1, UndisturbedKept, Reaching DEF IInv, OwnerInv, TypeInv, MapEmpty, NoOther, Reached
<1>4. CASE ReceiveDetach
  <2>1. /\ main = Idle /\ UNCHANGED <<blocks, async>>
        /\ \E d \in Devices : /\ main' = [at |-> "detach", dev |-> d, block |-> ctrlBlocks[d]]
                              /\ ctrlBlocks' = [ctrlBlocks EXCEPT ![d] = NoBlock]
    <3>1. broadcasts # <<>> /\ Head(broadcasts) \in Broadcasts
      BY <1>1, <1>4, QueueTail DEF ReceiveDetach, TypeInv
    <3>2. Head(broadcasts).dev \in Devices
      BY <3>1, MessageIn DEF Broadcasts
    <3> QED
      BY <1>2, <1>4, <3>2 DEF ReceiveDetach
  <2>2. PICK d \in Devices : /\ main' = [at |-> "detach", dev |-> d, block |-> ctrlBlocks[d]]
                             /\ ctrlBlocks' = [ctrlBlocks EXCEPT ![d] = NoBlock]
    BY <2>1
  <2>3. /\ main'.at = "detach" /\ main'.dev = d /\ main'.block = ctrlBlocks[d]
        /\ ctrlBlocks'[d] = NoBlock
        /\ \A e \in Devices : e # d => ctrlBlocks'[e] = ctrlBlocks[e]
        /\ main.at = "idle" /\ async' = async /\ conn' = conn /\ device' = device /\ clones' = clones
    BY <1>1, <2>1, <2>2, IdleIs DEF TypeInv, blocks
  <2>4. async.at \in {"open", "put"} => async.dev \in Devices
    BY <1>1, AsyncIs DEF TypeInv
  <2>5. MapEmpty' /\ NoOther'
    BY <1>3, <2>3, <2>4 DEF MapEmpty, NoOther, Closing
  <2>6. Reached'
    BY <1>1, <1>3, <2>3 DEF Reached, Reach, TypeInv
  <2> QED
    BY <2>5, <2>6
<1>5. CASE CloseDetached
  <2>1. /\ main.at = "detach" /\ main.block # NoBlock /\ main.block \in Blocks
        /\ main' = [main EXCEPT !.at = "forget"]
        /\ conn' = [conn EXCEPT ![main.block] = "closed"]
        /\ ctrlBlocks' = ctrlBlocks /\ async' = async /\ device' = device /\ clones' = clones
    BY <1>1, <1>5 DEF CloseDetached, Disconnect, BlockInv, Own
  <2>2. main'.at = "forget" /\ main'.dev = main.dev /\ main'.block = main.block
    BY <1>1, <2>1, MainIs DEF TypeInv
  <2>3. \A b \in Blocks : conn'[b] = IF b = main.block THEN "closed" ELSE conn[b]
    BY <1>1, <2>1 DEF TypeInv
  <2>4. /\ main.dev \in Devices /\ ctrlBlocks[main.dev] \in Blocks \cup {NoBlock}
        /\ async.at = "put" => async.block \in Blocks
    BY <1>1, <2>1, MainIs DEF TypeInv, BlockInv, Own
  <2>5. MapEmpty' /\ NoOther'
    BY <1>3, <2>1, <2>2, <2>3, <2>4 DEF MapEmpty, NoOther, Closing
  <2>6. Reached'
    BY <1>3, <2>1, <2>2, <2>3 DEF Reached, Reach
  <2> QED
    BY <2>5, <2>6
<1>6. CASE ForgetDetached
  <2>1. /\ main.at = "forget" /\ main.block # NoBlock /\ main.block \in Blocks
        /\ device[main.block] = main.dev /\ main.dev \in Devices
        /\ main' = [main EXCEPT !.at = "detach", !.block = NoBlock]
        /\ ctrlBlocks' = [ctrlBlocks EXCEPT ![main.dev] = NoBlock]
        /\ conn' = conn /\ async' = async /\ device' = device /\ clones' = clones
    <3>1. main.at = "forget" /\ main.block # NoBlock /\ Own(main.block, main.dev)
      BY <1>1, <1>6 DEF ForgetDetached, BlockInv
    <3>2. /\ main.block \in Blocks /\ device[main.block] = main.dev /\ main.dev \in Devices
      BY <1>1, <3>1 DEF Own, TypeInv
    <3> QED
      BY <1>6, <3>1, <3>2 DEF ForgetDetached, Forget, blocks
  <2>2. main'.at = "detach" /\ main'.block = NoBlock
    BY <1>1, <2>1, MainIs DEF TypeInv
  <2>3. \A e \in Devices : ctrlBlocks'[e] = IF e = main.dev THEN NoBlock ELSE ctrlBlocks[e]
    BY <1>1, <2>1 DEF TypeInv
  <2>4. async.at \in {"open", "put"} => async.dev \in Devices
    BY <1>1, AsyncIs DEF TypeInv
  <2>5. MapEmpty' /\ NoOther'
    BY <1>3, <2>1, <2>2, <2>3, <2>4 DEF MapEmpty, NoOther, Closing
  <2>6. Reached'
    <3> SUFFICES ASSUME NEW b \in Blocks \ clones, conn[b] = "open" PROVE Reach(b)'
      BY <2>1 DEF Reached
    <3>1. Reach(b) /\ device[b] \in Devices /\ b # NoBlock
      BY <1>1, <1>3 DEF Reached, TypeInv
    <3>2. Closing
      BY <2>1 DEF Closing
    <3> QED
      BY <1>3, <2>1, <2>3, <3>1, <3>2 DEF NoOther, Reach
  <2> QED
    BY <2>5, <2>6
<1>7. CASE PostDetach
  <2>1. /\ main'.at = "idle" /\ main.at = "detach" /\ (main.block # NoBlock => conn[main.block] # "open")
        /\ ctrlBlocks' = ctrlBlocks /\ conn' = conn /\ async' = async /\ device' = device
        /\ clones' = clones
    BY <1>7, IdleIs DEF PostDetach, blocks
  <2> QED
    BY <1>1, <1>3, <2>1 DEF MapEmpty, NoOther, Reached, Closing, Reach
<1>8. CASE RunConnect
  <2>1. /\ async.at = "idle" /\ async'.at \in {"open", "check"}
        /\ async'.at = "open" => ctrlBlocks[async'.dev] = NoBlock
        /\ ctrlBlocks' = ctrlBlocks /\ conn' = conn /\ main' = main /\ device' = device
        /\ clones' = clones
    BY <1>8, IdleIs DEF RunConnect, blocks
  <2> QED
    BY <1>3, <2>1 DEF MapEmpty, NoOther, Reached, Closing, Reach
<1>9. CASE OpenDevice
  <2>1. /\ async.at = "open" /\ async.dev \in Devices
        /\ ctrlBlocks' = ctrlBlocks /\ main' = main /\ clones' = clones
    BY <1>1, <1>9, AsyncIs DEF OpenDevice, TypeInv
  <2>2. PICK b \in Blocks, result \in {"open", "failed"} :
          NewBlock(b, async.dev, result) /\ async' = [async EXCEPT !.at = "put", !.block = b]
    BY <1>9 DEF OpenDevice
  <2>3. async'.at = "put" /\ async'.dev = async.dev /\ async'.block = b
    BY <1>1, <2>1, <2>2, AsyncOpened DEF TypeInv
  <2>4. /\ conn[b] = "unused" /\ conn'[b] = result /\ (result = "open" => async.dev \in attached)
        /\ \A c \in Blocks : c # b => conn'[c] = conn[c] /\ device'[c] = device[c]
    BY <1>1, <2>2 DEF NewBlock, TypeInv
  <2>5. Closing => /\ main.dev \in Devices /\ main.dev \notin attached
                   /\ ctrlBlocks[main.dev] # b
                   /\ ctrlBlocks[main.dev] \in Blocks \cup {NoBlock}
    <3> SUFFICES ASSUME Closing PROVE /\ main.dev \in Devices /\ main.dev \notin attached
                                      /\ ctrlBlocks[main.dev] # b
                                      /\ ctrlBlocks[main.dev] \in Blocks \cup {NoBlock}
      OBVIOUS
    <3>1. main.dev \in Devices
      BY <1>1, MainIs DEF Closing, TypeInv
    <3>2. main.dev \notin attached
      BY <1>1, <3>1 DEF Closing, OrderInv, Gone
    <3>3. ctrlBlocks[main.dev] # b /\ ctrlBlocks[main.dev] \in Blocks \cup {NoBlock}
      BY <1>1, <2>4, <3>1 DEF TypeInv, BlockInv, Own
    <3> QED
      BY <3>1, <3>2, <3>3
  <2>6. MapEmpty' /\ NoOther'
    BY <1>3, <2>1, <2>3, <2>4, <2>5 DEF MapEmpty, NoOther, Closing
  <2>7. Reached'
    BY <1>3, <2>1, <2>3, <2>4 DEF Reached, Reach
  <2> QED
    BY <2>6, <2>7
<1>10. CASE PutBlock
  <2>1. /\ async.at = "put" /\ async.dev \in Devices /\ async.block \in Blocks
        /\ device[async.block] = async.dev
        /\ ctrlBlocks' = [ctrlBlocks EXCEPT ![async.dev] = async.block]
        /\ async' = [async EXCEPT !.at = "check"]
        /\ main' = main /\ conn' = conn /\ device' = device /\ clones' = clones
    BY <1>1, <1>10 DEF PutBlock, TypeInv, BlockInv, Own, blocks
  <2>2. async'.at = "check"
    BY <1>1, <2>1, AsyncIs DEF TypeInv
  <2>3. \A e \in Devices : ctrlBlocks'[e] = IF e = async.dev THEN async.block ELSE ctrlBlocks[e]
    BY <1>1, <2>1 DEF TypeInv
  <2>4. Closing => main.dev \in Devices
    BY <1>1, MainIs DEF Closing, TypeInv
  <2>5. MapEmpty' /\ NoOther'
    BY <1>3, <2>1, <2>2, <2>3, <2>4 DEF MapEmpty, NoOther, Closing
  <2>6. Reached'
    <3> SUFFICES ASSUME NEW b \in Blocks \ clones, conn[b] = "open" PROVE Reach(b)'
      BY <2>1 DEF Reached
    <3>1. Reach(b) /\ device[b] \in Devices /\ b # NoBlock
      BY <1>1, <1>3 DEF Reached, TypeInv
    <3> QED
      BY <1>3, <2>1, <2>3, <3>1 DEF MapEmpty, Reach
  <2> QED
    BY <2>5, <2>6
<1>11. CASE CheckConnection \/ CallOnConnect
  <2>1. /\ async.at \in {"check", "call"}
        /\ ctrlBlocks' = ctrlBlocks /\ main' = main /\ conn' = conn /\ device' = device
        /\ clones' = clones
        /\ async' = Idle \/ async' = [async EXCEPT !.at = "call"]
    BY <1>11 DEF CheckConnection, CallOnConnect, blocks
  <2>2. CASE async' = Idle
    BY <1>3, <2>1, <2>2, IdleIs DEF MapEmpty, NoOther, Reached, Closing, Reach
  <2>3. CASE async' = [async EXCEPT !.at = "call"]
    <3>1. async'.at = "call"
      BY <1>1, <2>1, <2>3, AsyncIs DEF TypeInv
    <3> QED
      BY <1>3, <2>1, <3>1 DEF MapEmpty, NoOther, Reached, Closing, Reach
  <2> QED
    BY <2>1, <2>2, <2>3
<1>12. CASE \E c \in Blocks : CloneBlock(c)
  <2>1. PICK b \in Blocks : \E d : /\ NewBlock(b, d, "open")
                                   /\ clones' = clones \cup {b}
                                   /\ UNCHANGED <<ctrlBlocks, async, main>>
    BY <1>12 DEF CloneBlock
  <2>2. /\ conn[b] = "unused"
        /\ \A c \in Blocks : c # b => conn'[c] = conn[c] /\ device'[c] = device[c]
    BY <1>1, <2>1 DEF NewBlock, TypeInv
  <2>3. /\ Closing => /\ main.dev \in Devices
                      /\ ctrlBlocks[main.dev] # b
                      /\ ctrlBlocks[main.dev] \in Blocks \cup {NoBlock}
        /\ async.at = "put" => async.block \in Blocks /\ async.block # b
    <3>1. Closing => main.dev \in Devices
      BY <1>1, MainIs DEF Closing, TypeInv
    <3>2. Closing => /\ ctrlBlocks[main.dev] # b
                     /\ ctrlBlocks[main.dev] \in Blocks \cup {NoBlock}
      BY <1>1, <2>2, <3>1 DEF TypeInv, BlockInv, Own
    <3>3. async.at = "put" => async.block \in Blocks /\ async.block # b
      BY <1>1, <2>2 DEF BlockInv, Own
    <3> QED
      BY <3>1, <3>2, <3>3
  <2>4. MapEmpty' /\ NoOther'
    BY <1>3, <2>1, <2>2, <2>3 DEF MapEmpty, NoOther, Closing
  <2>5. Reached'
    BY <1>3, <2>1, <2>2 DEF Reached, Reach
  <2> QED
    BY <2>4, <2>5
<1>13. CASE Destroy \/ SweepForget \/ SweepEnd \/ ForgetClone
  BY <1>2, <1>13 DEF Destroy, SweepForget, SweepEnd, ForgetClone
<1>14. CASE \E d \in Devices : SweepOne(d)
  BY <1>2, <1>14 DEF SweepOne
<1>15. CASE \E b \in Blocks : CloseClone(b)
  <2>1. PICK b \in Blocks : CloseClone(b)
    BY <1>15
  <2>2. b \in clones' /\ conn'[b] = "closed"
    BY <1>1, <2>1 DEF CloseClone, Disconnect, TypeInv
  <2> QED
    BY <2>2 DEF Undisturbed
<1>16. CASE \/ (\E d \in Devices : Unplug(d))
           \/ (\E d \in Devices : RequestPermission(d))
           \/ (\E d \in Devices, a \in {"granted", "denied"} : Answer(d, a))
           \/ Register
           \/ Unregister
           \/ ReceiveAnswer
           \/ RunNotice
  <2>1. UNCHANGED <<ctrlBlocks, blocks, async, main>>
    BY <1>16 DEF Unplug, RequestPermission, Post, Answer, Register, Unregister, ReceiveAnswer,
     RunNotice, Tell
  <2> QED
    BY <1>3, <2>1 DEF MapEmpty, NoOther, Reached, blocks, Closing, Reach
<1>17. CASE Environment
  BY <1>12, <1>13, <1>15, <1>16, <1>17 DEF Environment
<1>18. CASE MainStep
  BY <1>4, <1>5, <1>6, <1>7, <1>13, <1>14, <1>16, <1>18 DEF MainStep
<1>19. CASE AsyncStep
  BY <1>8, <1>9, <1>10, <1>11, <1>16, <1>19 DEF AsyncStep
<1> QED
  BY <1>13, <1>17, <1>18, <1>19 DEF Next

LEMMA StutterInv ==
  ASSUME IInv, UNCHANGED vars
  PROVE  IInv'
<1>1. UNCHANGED <<attached, granted, dialogs, requests, registered, receiving, destroyed, device,
                  conn, clones, broadcasts, inbox, looper, ctrlBlocks, async, main, client,
                  told, handed>>
  BY DEF vars, system, life, blocks, queues
<1>2. TypeInv' /\ BlockInv'
  BY <1>1 DEF IInv, TypeInv, BlockInv, Own
<1>3. OrderInv' /\ OwnerInv'
  BY <1>1 DEF IInv, OrderInv, Gone, OwnerInv, Undisturbed, Closing, OpenIsReachable, Originals
<1> QED
  BY <1>2, <1>3 DEF IInv

LEMMA Invariance == Spec => []IInv
<1>1. IInv /\ [Next]_vars => IInv'
  BY TypeStep, BlockStep, OrderStep, OwnerStep, StutterInv DEF IInv
<1> QED
  BY InitInv, <1>1, PTL DEF Spec

-----------------------------------------------------------------------------
(* Every variable keeps its type. *)
THEOREM TypeCorrect == Spec => []TypeOK
<1>1. IInv => TypeOK
  <2> SUFFICES ASSUME IInv PROVE TypeOK
    OBVIOUS
  <2>1. /\ \A k \in 1 .. Len(broadcasts) : broadcasts[k] \in Broadcasts
        /\ \A k \in 1 .. Len(inbox) : inbox[k] \in Messages
    BY DEF IInv, TypeInv
  <2>2. /\ async.at \in {"idle", "open", "put", "check", "call"}
        /\ main.at \in {"idle", "detach", "forget", "sweep", "sweepForget"}
    BY AsyncIs, MainIs DEF IInv, TypeInv
  <2>3. handed \subseteq Blocks \ clones /\ client \in clones \cup {NoBlock}
    BY DEF IInv, TypeInv, BlockInv
  <2> QED
    BY <2>1, <2>2, <2>3 DEF IInv, TypeInv, TypeOK
<1> QED
  BY <1>1, Invariance, PTL

(* Until destroy or the close of a clone the monitor can close every
   connection it has opened, although the main thread and the handler thread
   change the map without a lock (USBMonitor.java:304, 516). *)
THEOREM Reachable == Spec => []OpenIsReachable
<1>1. IInv => OpenIsReachable
  BY DEF IInv, OwnerInv, OpenIsReachable
<1> QED
  BY <1>1, Invariance, PTL

(* And it has each device open at most once. *)
THEOREM OneConnection == Spec => []OneConnectionPerDevice
<1>1. IInv => OneConnectionPerDevice
  <2> SUFFICES ASSUME IInv, Undisturbed, NEW d \in Devices,
                      NEW b \in Originals(d), NEW c \in Originals(d),
                      conn[b] = "open", conn[c] = "open"
               PROVE  b = c
    BY DEF OneConnectionPerDevice
  <2>1. b \in Blocks /\ c \in Blocks /\ device[b] = d /\ device[c] = d /\ NoBlock \notin Blocks
    BY MonitorConstants DEF Originals
  <2>2. Reach(b) /\ Reach(c)
    BY <2>1 DEF IInv, OwnerInv, OpenIsReachable, Reach
  <2>3. /\ async.at = "put" => ctrlBlocks[async.dev] = NoBlock /\ device[async.block] = async.dev
        /\ main.at = "detach" /\ main.block # NoBlock =>
             /\ device[main.block] = main.dev
             /\ ctrlBlocks[main.dev] # NoBlock => conn[ctrlBlocks[main.dev]] # "open"
             /\ async.at = "put" /\ async.dev = main.dev => conn[async.block] # "open"
    BY DEF IInv, OwnerInv, BlockInv, Own, Closing
  <2> QED
    BY <2>1, <2>2, <2>3 DEF Reach
<1> QED
  BY <1>1, Invariance, PTL

(* Only CallOnConnect tells of a connection. *)
LEMMA ToldMoves ==
  ASSUME IInv, Next, NEW d \in Devices
  PROVE  \/ told'[d] = told[d]
         \/ told'[d] \in {"cancel", "detach", "disconnect"}
         \/ CallOnConnect /\ d = async.dev
<1>1. TypeInv
  BY DEF IInv
<1>2. CASE CallOnConnect
  BY <1>1, <1>2 DEF CallOnConnect, Tell, TypeInv
<1>3. CASE RunNotice
  <2>1. inbox # <<>> /\ Head(inbox).kind # "connect" /\ Head(inbox) \in Messages
    BY <1>1, <1>3, QueueTail DEF RunNotice, TypeInv
  <2>2. Head(inbox).kind \in {"cancel", "detach"}
    BY <2>1, MessageIn DEF Messages
  <2> QED
    BY <1>1, <1>3, <2>2 DEF RunNotice, Tell, TypeInv
<1>4. CASE (\E b \in Blocks : CloseClone(b)) \/ (\E e \in Devices : SweepOne(e))
  BY <1>1, <1>4 DEF CloseClone, SweepOne, Disconnect, Tell, TypeInv
<1>5. CASE CloseDetached \/ CheckConnection
  BY <1>1, <1>5 DEF CloseDetached, CheckConnection, Disconnect, Tell, TypeInv
<1>6. CASE \/ (\E e \in Devices : Unplug(e))
           \/ (\E e \in Devices : RequestPermission(e))
           \/ (\E e \in Devices, a \in {"granted", "denied"} : Answer(e, a))
           \/ Register
           \/ Unregister
           \/ Destroy
           \/ (\E b \in Blocks : CloneBlock(b))
           \/ ReceiveAnswer
           \/ ReceiveDetach
           \/ ForgetDetached
           \/ PostDetach
           \/ SweepForget
           \/ SweepEnd
           \/ RunConnect
           \/ OpenDevice
           \/ PutBlock
           \/ ForgetClone
  <2>1. told' = told
    BY <1>6 DEF Unplug, RequestPermission, Post, Answer, Register, Unregister, Destroy,
     CloneBlock, NewBlock, ReceiveAnswer, ReceiveDetach, ForgetDetached, Forget, PostDetach,
     SweepForget, SweepEnd, RunConnect, OpenDevice, PutBlock, ForgetClone
  <2> QED
    BY <2>1
<1> QED
  BY <1>2, <1>3, <1>4, <1>5, <1>6 DEF Next, Environment, MainStep, AsyncStep

(* After onDetach a device is not announced as connected again: no connect
   is on its way behind the detach (USBMonitor.java:345, 526). *)
THEOREM DetachIsLast == Spec => NoConnectAfterDetach
<1>1. ASSUME IInv, Next, NEW d \in Devices, told[d] = "detach"
      PROVE  told'[d] \in {"detach", "disconnect", "cancel"}
  <2>1. async.at # "idle" => async.dev # d
    BY <1>1 DEF IInv, OrderInv
  <2> QED
    BY <1>1, <2>1, ToldMoves DEF CallOnConnect
<1>2. IInv /\ [Next]_vars =>
        [\A d \in Devices :
           told[d] = "detach" => told'[d] \in {"detach", "disconnect", "cancel"}]_vars
  BY <1>1
<1> QED
  BY <1>2, Invariance, PTL DEF Spec, NoConnectAfterDetach

-----------------------------------------------------------------------------
(* A block whose open failed. *)
Looking == async.at \in {"check", "call"}
StuckInv ==
  /\ Looking => ctrlBlocks[async.dev] \in {async.block, NoBlock}
  /\ async.at = "call" => conn[async.block] # "failed"
  /\ async.at \in {"open", "put"} => ctrlBlocks[async.dev] = NoBlock

(* What the handler thread may have before it looks at a block. *)
LEMMA AsyncMoves ==
  ASSUME IInv, Next
  PROVE  \/ async' = async
         \/ async'.at = "idle"
         \/ RunConnect /\ async'.at = "open" /\ ctrlBlocks[async'.dev] = NoBlock
         \/ OpenDevice /\ async.at = "open" /\ async'.at = "put" /\ async'.dev = async.dev
         \/ RunConnect /\ async'.at = "check" /\ async'.block = ctrlBlocks[async'.dev]
         \/ PutBlock /\ async.at = "put" /\ async'.at = "check"
            /\ async'.block = async.block /\ async'.dev = async.dev
         \/ CheckConnection /\ async.at = "check" /\ async'.at = "call"
            /\ async'.block = async.block /\ async'.dev = async.dev /\ conn[async.block] = "open"
<1>1. TypeInv
  BY DEF IInv
<1>2. CASE RunConnect
  <2>1. async' = [at |-> IF ctrlBlocks[Head(inbox).dev] = NoBlock THEN "open" ELSE "check",
                  dev |-> Head(inbox).dev, block |-> ctrlBlocks[Head(inbox).dev]]
    BY <1>2 DEF RunConnect
  <2> QED
    BY <1>2, <2>1
<1>3. CASE OpenDevice
  <2>1. PICK b \in Blocks : async.at = "open" /\ async' = [async EXCEPT !.at = "put", !.block = b]
    BY <1>3 DEF OpenDevice
  <2>2. async'.at = "put" /\ async'.dev = async.dev
    BY <1>1, <2>1, AsyncOpened DEF TypeInv
  <2> QED
    BY <1>3, <2>1, <2>2
<1>4. CASE PutBlock
  <2>1. async.at = "put" /\ async' = [async EXCEPT !.at = "check"]
    BY <1>4 DEF PutBlock
  <2> QED
    BY <1>1, <1>4, <2>1, AsyncIs DEF TypeInv
<1>5. CASE CheckConnection
  <2>1. /\ async.at = "check"
        /\ \/ async' = Idle
           \/ conn[async.block] = "open" /\ async' = [async EXCEPT !.at = "call"]
    BY <1>5 DEF CheckConnection
  <2> QED
    BY <1>1, <1>5, <2>1, AsyncIs, IdleIs DEF TypeInv
<1>6. CASE CallOnConnect
  BY <1>6, IdleIs DEF CallOnConnect
<1>7. CASE Environment \/ MainStep \/ RunNotice \/ ForgetClone
  <2>1. async' = async
    BY <1>7 DEF Environment, MainStep, Unplug, RequestPermission, Answer, Register, Unregister,
     Destroy, CloneBlock, CloseClone, ReceiveAnswer, ReceiveDetach, CloseDetached, ForgetDetached,
     PostDetach, SweepOne, SweepForget, SweepEnd, RunNotice, ForgetClone
  <2> QED
    BY <2>1
<1> QED
  BY <1>2, <1>3, <1>4, <1>5, <1>6, <1>7 DEF Next, AsyncStep

LEMMA StuckStep ==
  ASSUME IInv, StuckInv, Next
  PROVE  StuckInv'
<1>1. TypeInv /\ BlockInv /\ Kept /\ NoBlock \notin Blocks
  BY BlocksKept, MonitorConstants DEF IInv
<1>2. /\ Looking => async.dev \in Devices /\ async.block \in Blocks /\ conn[async.block] # "unused"
      /\ async.at \in {"open", "put"} => async.dev \in Devices
      /\ async.at = "put" => async.block \in Blocks
    BY <1>1, AsyncIs DEF Looking, TypeInv, BlockInv, Own
<1>3. CASE async' = async
  <2>1. Looking => ctrlBlocks'[async.dev] \in {ctrlBlocks[async.dev], NoBlock}
    BY <1>2, MapKept DEF PutBlock, Looking
  <2>2. async.at = "call" => conn'[async.block] # "failed"
    BY <1>1, <1>2 DEF StuckInv, Kept, Looking
  <2>3. async.at \in {"open", "put"} => ctrlBlocks'[async.dev] = NoBlock \/ PutBlock
    BY <1>2, MapKept DEF StuckInv
  <2>4. PutBlock => async.at = "put" /\ async' = [async EXCEPT !.at = "check"]
    BY DEF PutBlock
  <2>5. ~PutBlock
    BY <1>1, <1>3, <2>4, AsyncIs DEF TypeInv
  <2> QED
    BY <1>3, <2>1, <2>2, <2>3, <2>5 DEF StuckInv, Looking
<1>4. CASE async'.at = "idle"
  BY <1>4 DEF StuckInv, Looking
<1>8. CASE \/ RunConnect /\ async'.at = "open" /\ ctrlBlocks[async'.dev] = NoBlock
           \/ OpenDevice /\ async.at = "open" /\ async'.at = "put" /\ async'.dev = async.dev
  <2>1. ctrlBlocks' = ctrlBlocks
    BY <1>8 DEF RunConnect, OpenDevice
  <2> QED
    BY <1>8, <2>1 DEF StuckInv, Looking
<1>5. CASE RunConnect /\ async'.at = "check" /\ async'.block = ctrlBlocks[async'.dev]
  <2>1. ctrlBlocks' = ctrlBlocks
    BY <1>5 DEF RunConnect
  <2> QED
    BY <1>5, <2>1 DEF StuckInv, Looking
<1>6. CASE PutBlock /\ async.at = "put" /\ async'.at = "check"
           /\ async'.block = async.block /\ async'.dev = async.dev
  <2>1. ctrlBlocks' = [ctrlBlocks EXCEPT ![async.dev] = async.block]
    BY <1>6 DEF PutBlock
  <2> QED
    BY <1>1, <1>2, <1>6, <2>1 DEF StuckInv, Looking, TypeInv
<1>7. CASE CheckConnection /\ async.at = "check" /\ async'.at = "call"
           /\ async'.block = async.block /\ async'.dev = async.dev /\ conn[async.block] = "open"
  <2>1. ctrlBlocks' = ctrlBlocks /\ conn' = conn
    BY <1>7 DEF CheckConnection, blocks
  <2> QED
    BY <1>7, <2>1 DEF StuckInv, Looking
<1> QED
  BY <1>3, <1>4, <1>5, <1>6, <1>7, <1>8, AsyncMoves

LEMMA StuckInvariance == Spec => []StuckInv
<1>1. Init => StuckInv
  BY IdleIs DEF Init, StuckInv, Looking
<1>2. IInv /\ StuckInv /\ UNCHANGED vars => StuckInv'
  BY DEF vars, blocks, StuckInv, Looking
<1>3. IInv /\ StuckInv /\ [Next]_vars => StuckInv'
  BY <1>2, StuckStep
<1> QED
  BY <1>1, <1>3, Invariance, PTL DEF Spec

(* A device whose open failed stays in the map with no connection, and no
   request announces it as connected, until it is detached, a clone is closed
   or the monitor is destroyed (USBMonitor.java:321). *)
THEOREM Stuck == Spec => FailedIsStuck
<1>1. ASSUME IInv, StuckInv, Next, NEW d \in Devices, Failed(d)
      PROVE  /\ told'[d] = "connect" => told[d] = "connect"
             /\ Failed(d)' \/ destroyed \/ client # NoBlock \/ main'.at = "detach"
  <2>1. TypeInv /\ BlockInv /\ Kept /\ NoBlock \notin Blocks
    BY <1>1, BlocksKept, MonitorConstants DEF IInv
  <2>2. ctrlBlocks[d] \in Blocks /\ conn[ctrlBlocks[d]] = "failed"
    BY <1>1, <2>1 DEF Failed, TypeInv
  <2>3. told'[d] = "connect" => told[d] = "connect"
    <3>1. ~(CallOnConnect /\ d = async.dev)
      BY <1>1, <2>2 DEF CallOnConnect, StuckInv, Looking, Failed
    <3> QED
      BY <1>1, <3>1, ToldMoves
  <2>4. ctrlBlocks'[d] = ctrlBlocks[d] => Failed(d)'
    BY <2>1, <2>2 DEF Failed, Kept
  <2>5. CASE ReceiveDetach
    <3>1. ctrlBlocks' = ctrlBlocks \/ \E e, b : main' = [at |-> "detach", dev |-> e, block |-> b]
      BY <2>5 DEF ReceiveDetach
    <3> QED
      BY <2>3, <2>4, <3>1
  <2>6. CASE ForgetDetached
    <3>1. main.at = "forget" /\ main' = [main EXCEPT !.at = "detach", !.block = NoBlock]
      BY <2>6 DEF ForgetDetached
    <3> QED
      BY <2>1, <2>3, <3>1, MainIs DEF TypeInv
  <2>7. CASE (\E e \in Devices : SweepOne(e)) \/ SweepForget \/ SweepEnd
    BY <2>1, <2>3, <2>7 DEF SweepOne, SweepForget, SweepEnd, BlockInv
  <2>8. CASE ForgetClone
    BY <2>3, <2>8 DEF ForgetClone
  <2>9. CASE PutBlock
    <3>1. /\ ctrlBlocks' = [ctrlBlocks EXCEPT ![async.dev] = async.block]
          /\ async.at = "put"
      BY <2>9 DEF PutBlock
    <3>2. ctrlBlocks[async.dev] = NoBlock
      BY <1>1, <3>1 DEF StuckInv
    <3>3. d # async.dev => ctrlBlocks'[d] = ctrlBlocks[d]
      BY <2>1, <3>1 DEF TypeInv
    <3> QED
      BY <1>1, <2>3, <2>4, <3>2, <3>3 DEF Failed
  <2>10. CASE Environment \/ ReceiveAnswer \/ CloseDetached \/ PostDetach \/ RunNotice
              \/ RunConnect \/ OpenDevice \/ CheckConnection \/ CallOnConnect
    <3>1. ctrlBlocks' = ctrlBlocks
      BY <2>10 DEF Environment, Unplug, RequestPermission, Answer, Register, Unregister, Destroy,
     CloneBlock, CloseClone, ReceiveAnswer, CloseDetached, PostDetach, RunNotice, RunConnect,
     OpenDevice, CheckConnection, CallOnConnect
    <3> QED
      BY <2>3, <2>4, <3>1
  <2>11. Failed(d)' \/ destroyed \/ client # NoBlock \/ main'.at = "detach"
    BY <1>1, <2>5, <2>6, <2>7, <2>8, <2>9, <2>10 DEF Next, MainStep, AsyncStep
  <2> QED
    BY <2>3, <2>11
<1>2. IInv /\ StuckInv /\ [Next]_vars =>
        [\A d \in Devices : Failed(d) =>
           /\ told'[d] = "connect" => told[d] = "connect"
           /\ Failed(d)' \/ destroyed \/ client # NoBlock \/ main'.at = "detach"]_vars
  BY <1>1
<1> QED
  BY <1>2, Invariance, StuckInvariance, PTL DEF Spec, FailedIsStuck

-----------------------------------------------------------------------------
(* What the listener believes. *)
Correcting(d) ==
  \/ main.at \in {"detach", "forget"} /\ main.dev = d
  \/ Has(inbox, Message("detach", d))
Live(b, d) == Own(b, d) /\ conn[b] = "open"
Backed(d)  == (\E b \in handed : Live(b, d)) \/ Correcting(d)
BelievedInv ==
  /\ looper = "quit" => destroyed
  /\ Undisturbed =>
       /\ async.at = "call" => conn[async.block] = "open" \/ Correcting(async.dev)
       /\ \A d \in Devices : told[d] = "connect" => Backed(d)

LEMMA QueueHead ==
  ASSUME NEW S, NEW s \in Seq(S), NEW m, Has(s, m)
  PROVE  s # <<>> /\ (Head(s) = m \/ Has(Tail(s), m))
<1>1. PICK k \in 1 .. Len(s) : s[k] = m
  BY DEF Has
<1>2. /\ s # <<>> /\ Len(s) \in Nat /\ Head(s) = s[1] /\ Len(Tail(s)) = Len(s) - 1
      /\ \A i \in 1 .. Len(s) - 1 : Tail(s)[i] = s[i + 1]
  BY <1>1
<1>3. k = 1 \/ (k - 1 \in 1 .. Len(s) - 1 /\ Tail(s)[k - 1] = s[k])
  BY <1>1, <1>2
<1> QED
  BY <1>1, <1>2, <1>3 DEF Has

(* A detach that is being handled is told in the end: the main thread goes on
   to post it, the inbox loses it only to RunNotice. *)
LEMMA CorrectingKept ==
  ASSUME IInv, BelievedInv, Next, Undisturbed', NEW d \in Devices, Correcting(d)
  PROVE  Correcting(d)' \/ (RunNotice /\ told'[d] = "detach")
<1>1. TypeInv /\ main.at \notin {"sweep", "sweepForget"} /\ ~destroyed /\ looper = "running"
  BY UndisturbedKept DEF IInv, BelievedInv, Undisturbed, TypeInv
<1>2. Message("detach", d) \in Messages
  BY MessageType
<1>3. ASSUME NEW m \in Messages, Post(m), main' = main
      PROVE  Correcting(d)'
  <2>1. inbox \in Seq(Messages)
    BY <1>1 DEF TypeInv
  <2>2. Has(inbox, Message("detach", d)) => Has(Append(inbox, m), Message("detach", d))
    BY <1>3, <2>1, QueueAppend
  <2>3. inbox' = Append(inbox, m)
    BY <1>1, <1>3 DEF Post
  <2> QED
    BY <1>3, <2>2, <2>3 DEF Correcting
<1>4. CASE \E e \in Devices : RequestPermission(e)
  <2>1. \E m \in Messages : Post(m) \/ inbox' = inbox
    BY <1>2, <1>4, MessageType DEF RequestPermission
  <2>2. main' = main
    BY <1>4 DEF RequestPermission
  <2> QED
    BY <1>3, <2>1, <2>2 DEF Correcting
<1>5. CASE ReceiveAnswer
  <2>1. broadcasts # <<>> /\ Head(broadcasts) \in Broadcasts
    BY <1>1, <1>5, QueueTail DEF ReceiveAnswer, TypeInv
  <2>2. Head(broadcasts).dev \in Devices
    BY <2>1, MessageIn DEF Broadcasts
  <2>3. \E m \in Messages : Post(m) \/ inbox' = inbox
    BY <1>2, <1>5, <2>2, MessageType DEF ReceiveAnswer
  <2>4. main' = main
    BY <1>5 DEF ReceiveAnswer
  <2> QED
    BY <1>3, <2>3, <2>4 DEF Correcting
<1>6. CASE ReceiveDetach \/ Destroy
  <2>1. main.at = "idle" /\ inbox' = inbox
    BY <1>1, <1>6, IdleIs DEF ReceiveDetach, Destroy, queues
  <2> QED
    BY <2>1 DEF Correcting
<1>7. CASE CloseDetached
  <2>1. main.at = "detach" /\ main' = [main EXCEPT !.at = "forget"] /\ inbox' = inbox
    BY <1>7 DEF CloseDetached, queues
  <2>2. main'.at = "forget" /\ main'.dev = main.dev
    BY <1>1, <2>1, MainIs DEF TypeInv
  <2> QED
    BY <2>1, <2>2 DEF Correcting
<1>8. CASE ForgetDetached
  <2>1. main.at = "forget" /\ main' = [main EXCEPT !.at = "detach", !.block = NoBlock] /\ inbox' = inbox
    BY <1>8 DEF ForgetDetached, queues
  <2>2. main'.at = "detach" /\ main'.dev = main.dev
    BY <1>1, <2>1, MainIs DEF TypeInv
  <2> QED
    BY <2>1, <2>2 DEF Correcting
<1>9. CASE PostDetach
  <2>1. main.at = "detach" /\ inbox' = Append(inbox, Message("detach", main.dev))
    BY <1>1, <1>9 DEF PostDetach, Post
  <2>2. main.dev \in Devices
    BY <1>1, <2>1, MainIs DEF TypeInv
  <2>3. Message("detach", main.dev) \in Messages
    BY <2>2, MessageType
  <2>4. /\ Has(inbox', Message("detach", d)) <=>
             Has(inbox, Message("detach", d)) \/ Message("detach", main.dev) = Message("detach", d)
    BY <1>1, <2>1, <2>3, QueueAppend DEF TypeInv
  <2> QED
    BY <2>1, <2>4 DEF Correcting
<1>10. CASE RunNotice \/ RunConnect
  <2>1. main' = main /\ inbox' = Tail(inbox) /\ inbox \in Seq(Messages)
    BY <1>1, <1>10 DEF RunNotice, RunConnect, TypeInv
  <2>2. CASE ~Has(inbox, Message("detach", d)) \/ Has(Tail(inbox), Message("detach", d))
    BY <2>1, <2>2 DEF Correcting
  <2>3. CASE Head(inbox) = Message("detach", d)
    <3>1. Head(inbox).kind = "detach" /\ Head(inbox).dev = d
      BY <2>3 DEF Message
    <3>2. RunNotice
      BY <1>10, <3>1 DEF RunConnect
    <3>3. told' = [told EXCEPT ![d] = "detach"]
      BY <3>1, <3>2 DEF RunNotice, Tell
    <3> QED
      BY <1>1, <3>2, <3>3 DEF TypeInv
  <2> QED
    BY <2>1, <2>2, <2>3, QueueHead
<1>11. CASE \/ (\E e \in Devices : Unplug(e))
            \/ (\E e \in Devices, a \in {"granted", "denied"} : Answer(e, a))
            \/ Register
            \/ Unregister
            \/ (\E b \in Blocks : CloneBlock(b))
            \/ (\E b \in Blocks : CloseClone(b))
            \/ OpenDevice
            \/ PutBlock
            \/ CheckConnection
            \/ CallOnConnect
            \/ ForgetClone
  <2>1. main' = main /\ inbox' = inbox
    BY <1>11 DEF queues, Unplug, Answer, Register, Unregister, CloneBlock, CloseClone,
     OpenDevice, PutBlock, CheckConnection, CallOnConnect, ForgetClone
  <2> QED
    BY <2>1 DEF Correcting
<1>12. CASE (\E e \in Devices : SweepOne(e)) \/ SweepForget \/ SweepEnd
  BY <1>1, <1>12 DEF SweepOne, SweepForget, SweepEnd
<1> QED
  BY <1>4, <1>5, <1>6, <1>7, <1>8, <1>9, <1>10, <1>11, <1>12
     DEF Next, Environment, MainStep, AsyncStep

(* And only a detach closes a connection of the monitor. *)
LEMMA LiveKept ==
  ASSUME IInv, Next, Undisturbed', NEW d \in Devices, NEW b, Live(b, d)
  PROVE  Live(b, d)' \/ Correcting(d)'
<1>1. TypeInv /\ BlockInv /\ Undisturbed /\ main.at \notin {"sweep", "sweepForget"}
  BY UndisturbedKept DEF IInv
<1>2. Own(b, d)' /\ b \in Blocks /\ b \notin clones /\ device[b] = d /\ conn[b] = "open"
  BY OwnKept DEF Live, Own
<1>3. CASE conn'[b] = conn[b]
  BY <1>2, <1>3 DEF Live
<1>4. CASE CloseDetached
  <2>1. /\ main.at = "detach" /\ main.block # NoBlock
        /\ main' = [main EXCEPT !.at = "forget"]
        /\ conn' = [conn EXCEPT ![main.block] = "closed"]
    BY <1>4 DEF CloseDetached, Disconnect
  <2>2. device[main.block] = main.dev
    BY <1>1, <2>1 DEF BlockInv, Own
  <2>3. main'.at = "forget" /\ main'.dev = main.dev
    BY <1>1, <2>1, MainIs DEF TypeInv
  <2>4. b = main.block \/ conn'[b] = conn[b]
    BY <1>1, <1>2, <2>1 DEF TypeInv
  <2> QED
    BY <1>2, <1>3, <2>2, <2>3, <2>4 DEF Correcting
<1>5. CASE (\E e \in Devices : SweepOne(e)) \/ (\E c \in Blocks : CloseClone(c))
  <2>1. CASE \E e \in Devices : SweepOne(e)
    BY <1>1, <2>1 DEF SweepOne
  <2>2. CASE \E c \in Blocks : CloseClone(c)
    BY <1>1, <1>2, <1>3, <2>2 DEF CloseClone, Disconnect, TypeInv
  <2> QED
    BY <1>5, <2>1, <2>2
<1>6. CASE (\E c \in Blocks : CloneBlock(c)) \/ OpenDevice
  <2>1. conn'[b] = conn[b]
    BY <1>1, <1>2, <1>6 DEF CloneBlock, OpenDevice, NewBlock, TypeInv
  <2> QED
    BY <1>3, <2>1
<1>7. CASE \/ (\E e \in Devices : Unplug(e))
           \/ (\E e \in Devices : RequestPermission(e))
           \/ (\E e \in Devices, a \in {"granted", "denied"} : Answer(e, a))
           \/ Register
           \/ Unregister
           \/ Destroy
           \/ ReceiveAnswer
           \/ ReceiveDetach
           \/ ForgetDetached
           \/ PostDetach
           \/ SweepForget
           \/ SweepEnd
           \/ RunNotice
           \/ RunConnect
           \/ PutBlock
           \/ CheckConnection
           \/ CallOnConnect
           \/ ForgetClone
  <2>1. conn' = conn
    BY <1>7 DEF blocks, Unplug, RequestPermission, Answer, Register, Unregister, Destroy,
     ReceiveAnswer, ReceiveDetach, ForgetDetached, PostDetach, SweepForget, SweepEnd, RunNotice,
     RunConnect, PutBlock, CheckConnection, CallOnConnect, ForgetClone
  <2> QED
    BY <1>3, <2>1
<1> QED
  BY <1>4, <1>5, <1>6, <1>7 DEF Next, Environment, MainStep, AsyncStep

LEMMA BelievedStep ==
  ASSUME IInv, BelievedInv, Next
  PROVE  BelievedInv'
<1>1. TypeInv /\ BlockInv
  BY DEF IInv
<1>2. looper' = "quit" => destroyed'
  <2>1. CASE SweepEnd
    BY <1>1, <2>1 DEF SweepEnd, BlockInv, life
  <2>2. CASE ~SweepEnd
    <3>1. looper' = looper
      BY <2>2 DEF queues, Next, Environment, MainStep, AsyncStep, Unplug, RequestPermission,
     Answer, Register, Unregister, Destroy, CloneBlock, CloseClone, ReceiveAnswer, ReceiveDetach,
     CloseDetached, ForgetDetached, PostDetach, SweepOne, SweepForget, RunNotice, RunConnect,
     OpenDevice, PutBlock, CheckConnection, CallOnConnect, ForgetClone
    <3>2. destroyed => destroyed'
      BY DEF life, Next, Environment, MainStep, AsyncStep, Unplug, RequestPermission,
     Answer, Register, Unregister, Destroy, CloneBlock, CloseClone, ReceiveAnswer, ReceiveDetach,
     CloseDetached, ForgetDetached, PostDetach, SweepOne, SweepForget, SweepEnd, RunNotice,
     RunConnect, OpenDevice, PutBlock, CheckConnection, CallOnConnect, ForgetClone
    <3> QED
      BY <3>1, <3>2 DEF BelievedInv
  <2> QED
    BY <2>1, <2>2
<1>3. ASSUME Undisturbed', async'.at = "call"
      PROVE  (conn[async.block] = "open" \/ Correcting(async.dev))'
  <2>1. CASE async' = async
    <3>1. /\ async.dev \in Devices /\ Own(async.block, async.dev)
          /\ conn[async.block] = "open" \/ Correcting(async.dev)
      BY <1>1, <1>3, <2>1, AsyncIs, UndisturbedKept DEF BelievedInv, TypeInv, BlockInv
    <3>2. ~RunNotice
      BY <1>3, <2>1, IdleIs DEF RunNotice
    <3>3. ASSUME conn[async.block] = "open"
          PROVE  (conn[async.block] = "open" \/ Correcting(async.dev))'
      <4>1. Live(async.block, async.dev)
        BY <3>1, <3>3 DEF Live
      <4>2. \E b, d : b = async.block /\ d = async.dev /\ (Live(b, d)' \/ Correcting(d)')
        BY <1>3, <3>1, <4>1, LiveKept
      <4> QED
        BY <2>1, <4>2 DEF Live, Correcting
    <3>4. ASSUME Correcting(async.dev)
          PROVE  (conn[async.block] = "open" \/ Correcting(async.dev))'
      <4>1. \E d : d = async.dev /\ Correcting(d)'
        BY <1>3, <3>1, <3>2, <3>4, CorrectingKept
      <4> QED
        BY <2>1, <4>1 DEF Correcting
    <3> QED
      BY <3>1, <3>3, <3>4
  <2>2. CASE /\ CheckConnection /\ async'.block = async.block
             /\ conn[async.block] = "open"
    BY <2>2 DEF CheckConnection, blocks
  <2> QED
    BY <1>3, <2>1, <2>2, AsyncMoves
<1>4. ASSUME Undisturbed', NEW d \in Devices, told'[d] = "connect"
      PROVE  Backed(d)'
  <2>1. handed \subseteq handed'
    BY DEF Next, Environment, MainStep, AsyncStep, Unplug, RequestPermission, Answer, Register,
     Unregister, Destroy, CloneBlock, CloseClone, ReceiveAnswer, ReceiveDetach, CloseDetached,
     ForgetDetached, PostDetach, SweepOne, SweepForget, SweepEnd, RunNotice, RunConnect,
     OpenDevice, PutBlock, CheckConnection, CallOnConnect, ForgetClone
  <2>2. CASE CallOnConnect /\ d = async.dev
    <3>1. /\ async.at = "call" /\ async.block \in handed'
          /\ conn' = conn /\ device' = device /\ clones' = clones /\ inbox' = inbox /\ main' = main
      BY <2>2 DEF CallOnConnect, blocks, queues
    <3>2. Own(async.block, d) /\ (conn[async.block] = "open" \/ Correcting(d))
      BY <1>1, <1>4, <2>2, <3>1, UndisturbedKept DEF BelievedInv, BlockInv
    <3> QED
      BY <3>1, <3>2 DEF Backed, Live, Own, Correcting
  <2>3. CASE told'[d] = told[d]
    <3>1. Backed(d) /\ ~(RunNotice /\ told'[d] = "detach")
      BY <1>4, <2>3, UndisturbedKept DEF BelievedInv
    <3>2. CASE Correcting(d)
      BY <1>4, <3>1, <3>2, CorrectingKept DEF Backed
    <3>3. CASE \E b \in handed : Live(b, d)
      BY <1>4, <2>1, <3>3, LiveKept DEF Backed
    <3> QED
      BY <3>1, <3>2, <3>3 DEF Backed
  <2> QED
    BY <1>4, <2>2, <2>3, ToldMoves
<1> QED
  BY <1>2, <1>3, <1>4 DEF BelievedInv

(* Whoever was last told that a device is connected has a block of it that is
   open, or its detach is on its way: that onConnect may come for a block
   closed since it was looked at is put right (USBMonitor.java:291, 333). *)
THEOREM Believed == Spec => []BelievedIsOpen
<1>1. Init => BelievedInv
  BY IdleIs DEF Init, BelievedInv
<1>2. IInv /\ BelievedInv /\ UNCHANGED vars => BelievedInv'
  BY DEF vars, system, life, blocks, queues, BelievedInv, Backed, Live, Own, Correcting, Has,
     Undisturbed
<1>3. IInv /\ BelievedInv /\ [Next]_vars => BelievedInv'
  BY <1>2, BelievedStep
<1>4. IInv /\ BelievedInv => BelievedIsOpen
  BY DEF BelievedInv, Backed, Live, Own, Correcting, Has, BelievedIsOpen, Originals
<1> QED
  BY <1>1, <1>3, <1>4, Invariance, PTL DEF Spec

=============================================================================

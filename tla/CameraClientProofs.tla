------------------------- MODULE CameraClientProofs -------------------------
(***************************************************************************)
(* CameraClient for any number of camera threads and however their         *)
(* sessions overlap: what a session that nobody overlapped gives back,     *)
(* what the app hears of every session, and the lease that the client      *)
(* keeps until two sessions overlap.                                       *)
(***************************************************************************)
EXTENDS CameraClient, SequenceTheorems, FiniteSetTheorems, TLAPS

(* The places of a thread between its start message and the end of it. *)
StartPlaces ==
  {"measure", "render", "open", "configure", "preview", "announce", "stop",
   "quit", "clear thread", "clear handler", "report"}

(* A thread that openCamera has not made yet is nowhere known. *)
NewInv ==
  \A t \in Threads :
    at[t] = "new" =>
      /\ queue[t] = <<>> /\ t \notin quitting /\ t \notin stopped
      /\ thread # t /\ handler # t /\ opening # t

(* Nothing is left of a thread that has not begun, or that lived alone and  *)
(* has ended.                                                               *)
Clean(t) ==
  t \notin Taken /\ render[t] # "running" /\ uvcCamera # t /\ renderManager # t
CleanInv ==
  \A t \in Threads :
    at[t] = "new" \/ (at[t] = "ended" /\ t \notin overlap) => Clean(t)

(* openCamera knows its thread, and sends it the start message only. *)
OpenInv ==
  /\ at[Main] \in {"make handler", "send start"} => opening # None
  /\ opening # None => at[Main] \in {"make handler", "send start", "crashed"}
  /\ opening \notin stopped
  /\ at[Main] = "send start" => handler \in {opening, None}

(* A thread that got a stop has it last in its queue, or has nothing to do  *)
(* any more and was not the last to say that it is open.                    *)
StopLast(t) == queue[t] # <<>> /\ queue[t][Len(queue[t])] = "stop"
Over(t)     ==
  queue[t] = <<>> /\ at[t] \notin StartPlaces /\ told # <<"OPENED", t>>
StopInv     == \A t \in stopped : StopLast(t) \/ Over(t)

(* A thread that lives alone: the pointers are its own, it is stopped       *)
(* before it is told to quit, and what it took is in the fields.            *)
AlonePointers(t) ==
  /\ \A u \in Threads : u # t => at[u] \in {"new", "ended"}
  /\ thread \in {t, None} /\ opening \in {t, None}
  /\ opening = t =>
       /\ thread = t /\ at[t] = "idle" /\ queue[t] = <<>> /\ t \notin quitting
       /\ at[Main] = "send start" => handler = t
  /\ at[Main] # "make handler" =>
       handler \in {t, None} /\ (thread = t => handler = t)
  /\ t \in quitting => t \in stopped
  /\ thread = t =>
       /\ at[Main] = "quit" \/ at[t] = "quit" => t \in stopped
       /\ "clear handler" \notin {at[Main], at[t]}

StartQueued(t) == \E i \in 1 .. Len(queue[t]) : queue[t][i] = "start"
StartFirst(t)  == \A i \in 1 .. Len(queue[t]) : queue[t][i] = "start" => i = 1

AloneHolds(t) ==
  /\ t \in Taken => uvcCamera = t
  /\ uvcCamera = t => t \in Taken \/ at[t] = "drop"
  /\ render[t] = "running" => renderManager = t
  /\ StartFirst(t)
  /\ StartQueued(t) => at[t] = "idle"
  /\ opening = t \/ StartQueued(t) \/ at[t] = "measure" => Clean(t)
  /\ at[t] \in {"render", "open"} => t \notin Taken
  /\ at[t] = "render" => render[t] # "running"
  /\ at[t] \in {"preview", "announce"} => uvcCamera # None
  /\ at[t] \in {"destroy", "drop", "release", "clear renderer"} => ~isPreviewed
  /\ at[t] \in {"drop", "release", "clear renderer"} => t \notin Taken
  /\ at[t] = "clear renderer" => render[t] # "running"
  /\ t \in stopped /\ ~StopLast(t) /\ at[t] = "idle" => Clean(t) /\ ~isPreviewed

Alone(t)  == AlonePointers(t) /\ AloneHolds(t)
AloneInv  == \A t \in Alive \ overlap : Alone(t)
ShownInv  == overlap = {} /\ Alive = {} => ~isPreviewed

(* A looper ends when it has handled all there was, and takes no more. *)
EndedInv ==
  \A t \in Threads : at[t] = "ended" => t \in quitting /\ queue[t] = <<>>

IInv == /\ TypeOK /\ NewInv /\ CleanInv /\ OpenInv /\ StopInv /\ AloneInv
        /\ ShownInv /\ EndedInv

-----------------------------------------------------------------------------
(* Sequences and places. *)
LEMMA SequenceFacts ==
  ASSUME NEW S, NEW s \in Seq(S)
  PROVE  /\ Len(s) \in Nat
         /\ \A x \in S : /\ Append(s, x) \in Seq(S) /\ Append(s, x) # <<>>
                         /\ Len(Append(s, x)) = Len(s) + 1
                         /\ Append(s, x)[Len(s) + 1] = x
                         /\ \A i \in 1 .. Len(s) : Append(s, x)[i] = s[i]
         /\ \A r \in Seq(S) : s \o r \in Seq(S)
         /\ s # <<>> => /\ Tail(s) \in Seq(S) /\ Head(s) = s[1] /\ s[1] \in S
                        /\ Len(s) # 0 /\ Len(Tail(s)) = Len(s) - 1
                        /\ \A i \in 1 .. Len(Tail(s)) : Tail(s)[i] = s[i + 1]
         /\ s = <<>> <=> Len(s) = 0
OBVIOUS

Kinds == {"start", "stop"}

LEMMA QueueType ==
  ASSUME TypeOK, NEW t \in Threads
  PROVE  queue[t] \in Seq(Kinds) /\ Len(queue[t]) \in Nat
BY DEF TypeOK, Kinds

(* What depends on a queue only. *)
LEMMA QueueFrame ==
  ASSUME NEW t \in Threads, queue'[t] = queue[t]
  PROVE  /\ StopLast(t)' <=> StopLast(t)
         /\ StartQueued(t)' <=> StartQueued(t)
         /\ StartFirst(t)' <=> StartFirst(t)
BY DEF StopLast, StartQueued, StartFirst

LEMMA SendFacts ==
  ASSUME TypeOK, NEW h \in Threads \cup {None}, NEW m \in Kinds, Send(h, m)
  PROVE  /\ queue' \in [Threads -> Seq(Kinds)]
         /\ \A t \in Threads : t # h => queue'[t] = queue[t]
         /\ h = None \/ h \in quitting => queue' = queue
         /\ h \in Threads \ quitting => queue'[h] = Append(queue[h], m)
<1>1. CASE h = None \/ h \in quitting
  <2>1. queue' = queue /\ h \notin Threads \ quitting
    BY <1>1, ClientConstants DEF Send
  <2> QED
    BY <2>1 DEF TypeOK, Kinds
<1>2. CASE h \in Threads \ quitting
  <2>1. queue' = [queue EXCEPT ![h] = Append(@, m)]
    BY <1>2, ClientConstants DEF Send
  <2> DEFINE S == Seq(Kinds)
             s == Append(queue[h], m)
  <2>2. queue \in [Threads -> S] /\ s \in S /\ queue' = [queue EXCEPT ![h] = s]
    BY <1>2, <2>1, QueueType, SequenceFacts DEF TypeOK, Kinds
  <2>3. h \in Threads /\ h # None /\ h \notin quitting
    BY <1>2, ClientConstants
  <2> HIDE DEF S, s
  <2>4. /\ queue' \in [Threads -> S] /\ queue'[h] = s
        /\ \A t \in Threads : t # h => queue'[t] = queue[t]
    BY <2>2, <2>3
  <2> QED
    BY <2>3, <2>4 DEF S, s
<1> QED
  BY <1>1, <1>2

(* A stop is the last of the queue then, and puts no start there. *)
LEMMA SendStopFacts ==
  ASSUME TypeOK, NEW h \in Threads \ quitting, Send(h, "stop")
  PROVE  /\ StopLast(h)'
         /\ StartQueued(h)' => StartQueued(h)
         /\ StartFirst(h) => StartFirst(h)'
<1>1. queue'[h] = Append(queue[h], "stop") /\ h \in Threads /\ "stop" \in Kinds
  BY SendFacts DEF Kinds
<1>2. /\ queue'[h] # <<>> /\ Len(queue[h]) \in Nat
      /\ Len(queue'[h]) = Len(queue[h]) + 1
      /\ queue'[h][Len(queue[h]) + 1] = "stop"
      /\ \A i \in 1 .. Len(queue[h]) : queue'[h][i] = queue[h][i]
  BY <1>1, QueueType, SequenceFacts
<1>3. \A i \in 1 .. Len(queue'[h]) :
        queue'[h][i] = "start" => i \in 1 .. Len(queue[h]) /\ queue[h][i] = "start"
  BY <1>2
<1>4. StopLast(h)'
  BY <1>2 DEF StopLast
<1>5. (StartQueued(h)' => StartQueued(h)) /\ (StartFirst(h) => StartFirst(h)')
  BY <1>3 DEF StartQueued, StartFirst
<1> QED
  BY <1>4, <1>5

LEMMA TakeFacts ==
  ASSUME TypeOK, NEW t \in Threads, NEW m \in Kinds, TakeMessage(t, m)
  PROVE  /\ at[t] = "idle" /\ queue[t] # <<>>
         /\ queue' \in [Threads -> Seq(Kinds)]
         /\ \A u \in Threads : u # t => queue'[u] = queue[u]
         /\ StopLast(t) => StopLast(t)' \/ (queue'[t] = <<>> /\ m = "stop")
         /\ StartFirst(t) => ~StartQueued(t)' /\ StartFirst(t)'
         /\ m = "start" => StartQueued(t)
<1>1. /\ queue[t] \in Seq(Kinds) /\ queue[t] # <<>> /\ Head(queue[t]) = m
      /\ at[t] = "idle" /\ queue' = [queue EXCEPT ![t] = Tail(queue[t])]
  BY QueueType DEF TakeMessage
<1> DEFINE s == queue[t]
           r == Tail(queue[t])
<1>2. /\ r \in Seq(Kinds) /\ s[1] = m /\ Len(s) \in Nat /\ Len(s) # 0
      /\ Len(r) = Len(s) - 1 /\ (r = <<>> <=> Len(r) = 0)
      /\ \A i \in 1 .. Len(r) : r[i] = s[i + 1]
  BY <1>1, SequenceFacts
<1>3. /\ queue' \in [Threads -> Seq(Kinds)] /\ queue'[t] = r
      /\ \A u \in Threads : u # t => queue'[u] = queue[u]
  <2> DEFINE S == Seq(Kinds)
  <2>1. queue \in [Threads -> S] /\ r \in S /\ queue' = [queue EXCEPT ![t] = r]
    BY <1>1, <1>2 DEF TypeOK, Kinds
  <2> HIDE DEF S, r
  <2>2. /\ queue' \in [Threads -> S] /\ queue'[t] = r
        /\ \A u \in Threads : u # t => queue'[u] = queue[u]
    BY <2>1
  <2> QED
    BY <2>2 DEF S
<1> HIDE DEF s, r
<1>4. s[Len(s)] = "stop" =>
        (r # <<>> /\ r[Len(r)] = "stop") \/ (r = <<>> /\ m = "stop")
  <2>1. CASE Len(s) = 1
    BY <1>2, <2>1
  <2>2. CASE Len(s) # 1
    <3>1. Len(r) \in 1 .. Len(r) /\ Len(r) # 0 /\ Len(r) + 1 = Len(s)
      BY <1>2, <2>2
    <3> QED
      BY <1>2, <3>1
  <2> QED
    BY <2>1, <2>2
<1>5. StopLast(t) => StopLast(t)' \/ (queue'[t] = <<>> /\ m = "stop")
  BY <1>3, <1>4 DEF StopLast, s
<1>6. (\A i \in 1 .. Len(s) : s[i] = "start" => i = 1)
        => \A i \in 1 .. Len(r) : r[i] # "start"
  <2>1. SUFFICES ASSUME \A i \in 1 .. Len(s) : s[i] = "start" => i = 1,
                        NEW i \in 1 .. Len(r)
                 PROVE  r[i] # "start"
    OBVIOUS
  <2>2. i + 1 \in 1 .. Len(s) /\ i + 1 # 1 /\ r[i] = s[i + 1]
    BY <1>2
  <2> QED
    BY <2>1, <2>2
<1>7. StartFirst(t) => ~StartQueued(t)' /\ StartFirst(t)'
  BY <1>3, <1>6 DEF StartFirst, StartQueued, s
<1>8. m = "start" => StartQueued(t)
  <2>1. 1 \in 1 .. Len(s)
    BY <1>2
  <2> QED
    BY <1>2, <2>1 DEF StartQueued, s
<1> QED
  BY <1>1, <1>3, <1>5, <1>7, <1>8 DEF s

(* Someone goes somewhere. *)
LEMMA GoFacts ==
  ASSUME TypeOK, NEW p \in Threads \cup {Main}, NEW place \in Places, Go(p, place)
  PROVE  /\ at' \in [Threads \cup {Main} -> Places] /\ at'[p] = place
         /\ \A q \in Threads \cup {Main} : q # p => at'[q] = at[q]
BY DEF Go, TypeOK

LEMMA TellFacts ==
  ASSUME NEW s \in States, NEW t \in Threads, Tell(s, t)
  PROVE  /\ told' \in States \X Threads
         /\ \A u : told' = <<"OPENED", u>> => u = t /\ s = "OPENED"
BY DEF Tell

-----------------------------------------------------------------------------
(* What the device, the user and the app do besides opening and closing.   *)
Elsewhere ==
  /\ UNCHANGED <<pointers, fields, objects, loopers, told, history, goesOn>>
  /\ \/ at' = at
     \/ /\ at[Main] \in {"idle", "destroy"}
        /\ \E place \in {"idle", "stop", "destroy"} : Go(Main, place)

ElsewhereStep ==
  \/ Environment \/ DestroyMonitor
  \/ OnConnectOfOther \/ OnDisconnect \/ OnDetach \/ OnCancel

LEMMA ElsewhereFacts ==
  ASSUME ElsewhereStep
  PROVE  Elsewhere
<1> USE DEF app, input, usb, Elsewhere
<1>1. CASE CloseCamera \/ UpdateResolution
  BY <1>1 DEF CloseCamera, UpdateResolution
<1>2. CASE UnRegister
  BY <1>2 DEF UnRegister
<1>3. CASE DestroyMonitor
  BY <1>3 DEF DestroyMonitor
<1>4. CASE MonitorConnect \/ MonitorCancel \/ Unplug
  BY <1>4 DEF MonitorConnect, MonitorCancel, Unplug
<1>5. CASE OnConnectOfOther \/ OnDisconnect \/ OnDetach \/ OnCancel
  BY <1>5 DEF OnConnectOfOther, OnDisconnect, OnDetach, OnCancel, TakePost
<1> QED
  BY <1>1, <1>2, <1>3, <1>4, <1>5 DEF ElsewhereStep, Environment

(* A new camera thread. *)
Opening(t) ==
  /\ OpenCamera(t)
  /\ UNCHANGED <<handler, fields, objects, loopers, told, stopped, goesOn>>

LEMMA OpeningFacts ==
  ASSUME NEW t \in Threads, OnConnect(t) \/ Reopen(t)
  PROVE  Opening(t)
BY DEF OnConnect, Reopen, Opening, app

(* Every step is one of these. *)
LEMMA Steps ==
  ASSUME Next
  PROVE  \/ Elsewhere
         \/ \E t \in Threads : Opening(t)
         \/ MakeHandler \/ SendStart
         \/ \E p \in Threads \cup {Main} : CloseStep(p)
         \/ \E t \in Threads : StartStep(t) \/ StopStep(t) \/ EndThread(t)
BY ElsewhereFacts, OpeningFacts DEF Next, MainStep, ThreadStep, ElsewhereStep

-----------------------------------------------------------------------------
(* Type correctness: what the steps elsewhere do to their own variables,    *)
(* and then the rest.                                                       *)
PostKinds == {"connect", "cancel", "disconnect", "detach"}

ElsewhereType ==
  /\ posts \in Seq(PostKinds) /\ reopens \in Nat
  /\ ctrlBlock \in BOOLEAN /\ permitted \in BOOLEAN
  /\ listed \in BOOLEAN /\ current \in BOOLEAN
  /\ plugged \in BOOLEAN /\ mapped \in BOOLEAN
  /\ monitor \in {"running", "leaving", "destroyed"}
  /\ events \in 0..MaxEvents

CameraType ==
  /\ {thread, handler, uvcCamera, renderManager, opening}
       \subseteq Threads \cup {None}
  /\ queue \in [Threads -> Seq(Kinds)]
  /\ quitting \subseteq Threads /\ goesOn \subseteq Threads
  /\ at \in [Threads \cup {Main} -> Places]
  /\ render \in [Threads -> {"none", "running", "released"}]
  /\ cam \in [Threads -> {"none", "open", "streaming", "stuck", "destroyed"}]
  /\ told \in (States \X Threads) \cup {<<"nothing", None>>}
  /\ isPreviewed \in BOOLEAN
  /\ stopped \subseteq Threads /\ overlap \subseteq Threads

LEMMA TypeParts == TypeOK <=> ElsewhereType /\ CameraType
BY DEF TypeOK, ElsewhereType, CameraType, PostKinds, Kinds

LEMMA PostType ==
  ASSUME posts \in Seq(PostKinds)
  PROVE  /\ \A what \in PostKinds : Append(posts, what) \in Seq(PostKinds)
         /\ posts # <<>> => Tail(posts) \in Seq(PostKinds)
         /\ posts \o <<"disconnect", "detach">> \in Seq(PostKinds)
         /\ posts \o <<"detach">> \in Seq(PostKinds)
<1>1. <<"disconnect", "detach">> \in Seq(PostKinds) /\ <<"detach">> \in Seq(PostKinds)
  BY DEF PostKinds
<1> QED
  BY <1>1, SequenceFacts

LEMMA EventType ==
  ASSUME Event, events \in 0..MaxEvents
  PROVE  events' \in 0..MaxEvents
<1>1. MaxEvents \in Nat
  BY ClientConstants
<1> QED
  BY <1>1 DEF Event

LEMMA ElsewhereTypeStep ==
  ASSUME ElsewhereType, Next
  PROVE  ElsewhereType'
<1> USE DEF app, input, usb, ElsewhereType
<1>p. /\ posts \in Seq(PostKinds)
      /\ {"connect", "cancel", "disconnect", "detach"} = PostKinds
  BY DEF PostKinds
<1>1. CASE CloseCamera \/ UpdateResolution \/ UnRegister
  BY <1>1, EventType DEF CloseCamera, UpdateResolution, UnRegister
<1>2. CASE MonitorConnect \/ MonitorCancel
  BY <1>p, <1>2, PostType, EventType
  DEF MonitorConnect, MonitorCancel, Post
<1>u. CASE Unplug
  <2>1. posts' \in Seq(PostKinds)
    <3> DEFINE r == IF mapped THEN <<"disconnect", "detach">> ELSE <<"detach">>
    <3>1. posts' = posts \/ posts' = posts \o r
      BY <1>u DEF Unplug
    <3>2. posts \o r \in Seq(PostKinds)
      BY <1>p, PostType
    <3> QED
      BY <1>p, <3>1, <3>2
  <2>2. mapped' \in BOOLEAN /\ plugged' \in BOOLEAN /\ events' \in 0..MaxEvents
    BY <1>u, EventType DEF Unplug
  <2> QED
    BY <1>u, <2>1, <2>2 DEF Unplug
<1>3. CASE DestroyMonitor
  BY <1>p, <1>3, PostType DEF DestroyMonitor, Post
<1>4. CASE OnConnectOfOther \/ OnDisconnect \/ OnDetach \/ OnCancel
  BY <1>4, PostType
  DEF OnConnectOfOther, OnDisconnect, OnDetach, OnCancel, TakePost
<1>5. ASSUME NEW t \in Threads, OnConnect(t) \/ Reopen(t)
      PROVE  ElsewhereType'
  <2>1. CASE OnConnect(t)
    BY <2>1, PostType DEF OnConnect, TakePost
  <2>2. CASE Reopen(t)
    BY <2>2 DEF Reopen
  <2> QED
    BY <1>5, <2>1, <2>2
<1>6. CASE MakeHandler \/ SendStart
  BY <1>6 DEF MakeHandler, SendStart
<1>7. ASSUME NEW p \in Threads \cup {Main}, CloseStep(p)
      PROVE  ElsewhereType'
  BY <1>7 DEF CloseStep, SendStop, QuitThread, ClearThread, ClearHandler
<1>8. ASSUME NEW t \in Threads, DestroyCamera(t)
      PROVE  ElsewhereType'
  <2>1. UNCHANGED <<ctrlBlock, listed, current, plugged, monitor, events,
                    reopens, permitted>>
    BY <1>8 DEF DestroyCamera
  <2>2. posts' \in Seq(PostKinds) /\ mapped' \in BOOLEAN
    BY <1>p, <1>8, PostType DEF DestroyCamera, Post
  <2> QED
    BY <2>1, <2>2
<1>9. ASSUME NEW t \in Threads, StartStep(t)
      PROVE  ElsewhereType'
  BY <1>9 DEF StartStep, Start, MakeRenderManager, StartRenderScreen,
     OpenInternal, Configure, StartPreview, Announce, ReportError
<1>10. ASSUME NEW t \in Threads,
              Stop(t) \/ ClearCamera(t) \/ StopRenderScreen(t)
                \/ ClearRenderManager(t) \/ EndThread(t)
       PROVE  ElsewhereType'
  BY <1>10 DEF Stop, ClearCamera, StopRenderScreen, ClearRenderManager, EndThread
<1> QED
  BY <1>1, <1>2, <1>u, <1>3, <1>4, <1>5, <1>6, <1>7, <1>8, <1>9, <1>10
  DEF Next, Environment, MainStep, ThreadStep, StopStep

LEMMA CameraTypeStep ==
  ASSUME TypeOK, Next
  PROVE  CameraType'
<1> USE DEF pointers, fields, objects, loopers, app, history
<1>t. CameraType
  BY TypeParts
<1>p. /\ {"idle", "stop", "destroy", "make handler", "send start", "crashed",
          "quit", "clear thread", "clear handler", "report", "open", "measure",
          "render", "configure", "hung", "preview", "announce", "drop",
          "release", "clear renderer", "ended", "new"} = Places
      /\ {"OPENED", "CLOSED", "ERROR"} = States
      /\ {"start", "stop"} = Kinds
      /\ None \notin Threads /\ Main \notin Threads
  BY ClientConstants DEF Places, States, Kinds
<1>1. CASE Elsewhere
  BY <1>t, <1>p, <1>1, GoFacts DEF Elsewhere, CameraType
<1>2. ASSUME NEW t \in Threads, Opening(t)
      PROVE  CameraType'
  <2>1. at' \in [Threads \cup {Main} -> Places]
    BY <1>t, <1>p, <1>2 DEF Opening, OpenCamera, CameraType
  <2>2. overlap' \subseteq Threads
    BY <1>t, <1>2 DEF Opening, OpenCamera, CameraType, Alive
  <2> QED
    BY <1>t, <1>2, <2>1, <2>2 DEF Opening, OpenCamera, CameraType
<1>3. CASE MakeHandler
  <2>1. at' \in [Threads \cup {Main} -> Places]
    BY <1>p, <1>3, GoFacts DEF MakeHandler
  <2> QED
    BY <1>t, <1>3, <2>1 DEF MakeHandler, CameraType
<1>4. CASE SendStart
  <2>1. at' \in [Threads \cup {Main} -> Places]
    BY <1>p, <1>4, GoFacts DEF SendStart
  <2>2. queue' \in [Threads -> Seq(Kinds)]
    BY <1>t, <1>p, <1>4, SendFacts DEF SendStart, CameraType
  <2> QED
    BY <1>t, <1>4, <2>1, <2>2 DEF SendStart, CameraType
<1>5. ASSUME NEW p \in Threads \cup {Main}, CloseStep(p)
      PROVE  CameraType'
  <2>1. at' \in [Threads \cup {Main} -> Places]
    <3>1. \E place \in Places : Go(p, place)
      BY <1>p, <1>5
      DEF CloseStep, SendStop, QuitThread, ClearThread, ClearHandler
    <3> QED
      BY <3>1, GoFacts
  <2>2. CASE SendStop(p)
    <3>1. queue' \in [Threads -> Seq(Kinds)]
      BY <1>t, <1>p, <2>2, SendFacts DEF SendStop, CameraType
    <3>2. stopped' \subseteq Threads
      BY <1>t, <1>p, <2>2 DEF SendStop, CameraType
    <3> QED
      BY <1>t, <2>1, <2>2, <3>1, <3>2 DEF SendStop, CameraType
  <2>3. CASE QuitThread(p) \/ ClearThread(p) \/ ClearHandler(p)
    BY <1>t, <1>p, <2>1, <2>3
    DEF QuitThread, ClearThread, ClearHandler, CameraType
  <2> QED
    BY <1>5, <2>2, <2>3 DEF CloseStep
<1>6. ASSUME NEW t \in Threads, StartStep(t) \/ StopStep(t) \/ EndThread(t)
      PROVE  CameraType'
  <2>1. at' \in [Threads \cup {Main} -> Places]
    <3>1. \E place \in Places : Go(t, place)
      BY <1>p, <1>6
      DEF StartStep, StopStep, Start, MakeRenderManager, StartRenderScreen,
        OpenInternal, Configure, StartPreview, Announce, ReportError, Stop,
        DestroyCamera, ClearCamera, StopRenderScreen, ClearRenderManager,
        EndThread, Fail, FailAndGoOn
    <3> QED
      BY <3>1, GoFacts
  <2>2. CASE Start(t) \/ Stop(t)
    <3>1. queue' \in [Threads -> Seq(Kinds)]
      BY <1>p, <2>2, TakeFacts DEF Start, Stop
    <3>2. told' \in (States \X Threads) \cup {<<"nothing", None>>}
      BY <1>t, <1>p, <2>2, TellFacts DEF Start, Stop, CameraType
    <3> QED
      BY <1>t, <2>1, <2>2, <3>1, <3>2 DEF Start, Stop, CameraType
  <2>3. CASE Announce(t) \/ ReportError(t)
    <3>1. told' \in States \X Threads
      BY <1>p, <2>3, TellFacts DEF Announce, ReportError
    <3>2. goesOn' \subseteq Threads /\ isPreviewed' \in BOOLEAN
      BY <1>t, <2>3 DEF Announce, ReportError, CameraType
    <3> QED
      BY <1>t, <2>1, <2>3, <3>1, <3>2 DEF Announce, ReportError, CameraType
  <2>4. CASE StartRenderScreen(t) \/ StopRenderScreen(t)
    <3>1. render' \in [Threads -> {"none", "running", "released"}]
      BY <1>t, <2>4 DEF StartRenderScreen, StopRenderScreen, CameraType
    <3>2. goesOn' \subseteq Threads
      BY <1>t, <2>4 DEF StartRenderScreen, StopRenderScreen, Fail, CameraType
    <3> QED
      BY <1>t, <2>1, <2>4, <3>1, <3>2
      DEF StartRenderScreen, StopRenderScreen, CameraType
  <2>5. CASE OpenInternal(t) \/ StartPreview(t) \/ DestroyCamera(t)
    <3>1. cam' \in [Threads -> {"none", "open", "streaming", "stuck", "destroyed"}]
      BY <1>t, <2>5 DEF OpenInternal, StartPreview, DestroyCamera, CameraType
    <3>2. goesOn' \subseteq Threads /\ uvcCamera' \in Threads \cup {None}
      BY <1>t, <2>5
      DEF OpenInternal, StartPreview, DestroyCamera, Fail, FailAndGoOn, CameraType
    <3> QED
      BY <1>t, <2>1, <2>5, <3>1, <3>2
      DEF OpenInternal, StartPreview, DestroyCamera, CameraType
  <2>6. CASE \/ MakeRenderManager(t) \/ Configure(t) \/ ClearCamera(t)
             \/ ClearRenderManager(t) \/ EndThread(t)
    BY <1>t, <2>1, <2>6
    DEF MakeRenderManager, Configure, ClearCamera, ClearRenderManager,
      EndThread, Fail, CameraType
  <2> QED
    BY <1>6, <2>2, <2>3, <2>4, <2>5, <2>6 DEF StartStep, StopStep
<1> QED
  BY <1>1, <1>2, <1>3, <1>4, <1>5, <1>6, Steps

LEMMA TypeStep ==
  ASSUME TypeOK, [Next]_vars
  PROVE  TypeOK'
<1>1. CASE Next
  BY <1>1, TypeParts, ElsewhereTypeStep, CameraTypeStep, PTL
<1>2. CASE UNCHANGED vars
  BY <1>2 DEF vars, pointers, fields, objects, loopers, app, usb, input,
    history, TypeOK
<1> QED
  BY <1>1, <1>2

-----------------------------------------------------------------------------
(* What the steps of a camera thread have in common. *)
ThreadMoves(t) == StartStep(t) \/ StopStep(t) \/ EndThread(t)

LEMMA Mover ==
  ASSUME TypeOK, NEW t \in Threads, ThreadMoves(t)
  PROVE  /\ at[t] \notin {"new", "ended"} /\ at'[t] # "new"
         /\ at'[t] = "ended" => EndThread(t)
         /\ \A q \in Threads \cup {Main} : q # t => at'[q] = at[q]
         /\ UNCHANGED <<pointers, quitting, history>>
         /\ \A u \in Threads : u # t => queue'[u] = queue[u]
<1> USE DEF pointers, fields, objects, loopers, app, history
<1>1. /\ at[t] \notin {"new", "ended"}
      /\ UNCHANGED <<pointers, quitting, history>>
  BY DEF ThreadMoves, StartStep, StopStep, Start, MakeRenderManager,
    StartRenderScreen, OpenInternal, Configure, StartPreview, Announce,
    ReportError, Stop, DestroyCamera, ClearCamera, StopRenderScreen,
    ClearRenderManager, EndThread, TakeMessage
<1>2. EndThread(t) \/ \E place \in Places \ {"new", "ended"} : Go(t, place)
  BY DEF ThreadMoves, StartStep, StopStep, Start, MakeRenderManager,
    StartRenderScreen, OpenInternal, Configure, StartPreview, Announce,
    ReportError, Stop, DestroyCamera, ClearCamera, StopRenderScreen,
    ClearRenderManager, Fail, FailAndGoOn, Places
<1>3. /\ at'[t] # "new" /\ (at'[t] = "ended" => EndThread(t))
      /\ \A q \in Threads \cup {Main} : q # t => at'[q] = at[q]
  BY <1>2, GoFacts DEF EndThread, Places
<1>4. \A u \in Threads : u # t => queue'[u] = queue[u]
  <2>1. CASE Start(t) \/ Stop(t)
    BY <2>1, TakeFacts DEF Start, Stop, Kinds
  <2>2. CASE ~(Start(t) \/ Stop(t))
    BY <2>2 DEF ThreadMoves, StartStep, StopStep, MakeRenderManager,
      StartRenderScreen, OpenInternal, Configure, StartPreview, Announce,
      ReportError, DestroyCamera, ClearCamera, StopRenderScreen,
      ClearRenderManager, EndThread
  <2> QED
    BY <2>1, <2>2
<1> QED
  BY <1>1, <1>3, <1>4

(* What the steps of a close have in common. *)
LEMMA Closer ==
  ASSUME TypeOK, NEW p \in Threads \cup {Main}, CloseStep(p)
  PROVE  /\ at[p] \in {"stop", "quit", "clear thread", "clear handler"}
         /\ at'[p] \in {"quit", "clear thread", "clear handler", "report",
                        "idle", "destroy"}
         /\ \A q \in Threads \cup {Main} : q # p => at'[q] = at[q]
         /\ UNCHANGED <<opening, fields, objects, told, overlap>>
         /\ thread' \in {thread, None} /\ handler' \in {handler, None}
<1> USE DEF pointers, fields, objects, loopers, app, history
<1> QED
  BY GoFacts DEF CloseStep, SendStop, QuitThread, ClearThread, ClearHandler, Places

LEMMA NewStep ==
  ASSUME TypeOK, NewInv, OpenInv, Next
  PROVE  NewInv'
<1> USE DEF pointers, fields, objects, loopers, app, history
<1>n. None \notin Threads /\ Main \notin Threads
  BY ClientConstants
<1>1. CASE Elsewhere
  BY <1>n, <1>1, GoFacts DEF Elsewhere, NewInv, Places
<1>2. ASSUME NEW t \in Threads, Opening(t)
      PROVE  NewInv'
  <2>1. /\ thread' = t /\ opening' = t
        /\ UNCHANGED <<handler, queue, quitting, stopped>>
        /\ \A u \in Threads : at'[u] = "new" => u # t /\ at[u] = "new"
    BY <1>n, <1>2 DEF Opening, OpenCamera, TypeOK
  <2> QED
    BY <2>1 DEF NewInv
<1>3. CASE MakeHandler
  <2>1. /\ UNCHANGED <<thread, opening, queue, quitting, stopped>>
        /\ handler' \in {handler, opening}
        /\ \A u \in Threads : at'[u] = at[u]
    BY <1>n, <1>3, GoFacts DEF MakeHandler, Places
  <2> QED
    BY <2>1 DEF NewInv
<1>4. CASE SendStart
  <2>1. /\ UNCHANGED <<thread, handler, quitting, stopped>> /\ opening' = None
        /\ \A u \in Threads : at'[u] = at[u]
        /\ \A u \in Threads : u # handler => queue'[u] = queue[u]
    BY <1>n, <1>4, GoFacts, SendFacts DEF SendStart, Places, Kinds, TypeOK
  <2> QED
    BY <1>n, <2>1 DEF NewInv
<1>5. ASSUME NEW p \in Threads \cup {Main}, CloseStep(p)
      PROVE  NewInv'
  <2>1. /\ thread' \in {thread, None} /\ handler' \in {handler, None}
        /\ opening' = opening
        /\ \A u \in Threads : at'[u] = "new" => at[u] = "new"
    BY <1>5, Closer
  <2>2. \A u \in Threads : u # handler => queue'[u] = queue[u]
    <3>1. CASE SendStop(p)
      BY <3>1, SendFacts DEF SendStop, Kinds, TypeOK
    <3>2. CASE ~SendStop(p)
      BY <1>5, <3>2 DEF CloseStep, QuitThread, ClearThread, ClearHandler
    <3> QED
      BY <3>1, <3>2
  <2>3. quitting' \subseteq quitting \cup {thread}
    BY <1>5 DEF CloseStep, SendStop, QuitThread, ClearThread, ClearHandler
  <2>4. stopped' \subseteq stopped \cup {handler}
    BY <1>5 DEF CloseStep, SendStop, QuitThread, ClearThread, ClearHandler
  <2> QED
    BY <1>n, <2>1, <2>2, <2>3, <2>4 DEF NewInv
<1>6. ASSUME NEW t \in Threads, ThreadMoves(t)
      PROVE  NewInv'
  BY <1>6, Mover DEF NewInv
<1> QED
  BY <1>1, <1>2, <1>3, <1>4, <1>5, <1>6, Steps DEF ThreadMoves

LEMMA OpenStep ==
  ASSUME TypeOK, NewInv, OpenInv, Next
  PROVE  OpenInv'
<1> USE DEF pointers, fields, objects, loopers, app, history
<1>n. None \notin Threads /\ Main \notin Threads /\ stopped \subseteq Threads
  BY ClientConstants DEF TypeOK
<1>1. CASE Elsewhere
  BY <1>n, <1>1, GoFacts DEF Elsewhere, OpenInv, Places
<1>2. ASSUME NEW t \in Threads, Opening(t)
      PROVE  OpenInv'
  <2>1. /\ opening' = t /\ stopped' = stopped /\ at'[Main] = "make handler"
        /\ at[t] = "new"
    BY <1>n, <1>2 DEF Opening, OpenCamera, TypeOK, Unused
  <2> QED
    BY <1>n, <2>1 DEF NewInv, OpenInv
<1>3. CASE MakeHandler
  <2>1. /\ UNCHANGED <<opening, stopped>> /\ at[Main] = "make handler"
        /\ \/ at'[Main] = "send start" /\ handler' = opening
           \/ at'[Main] = "crashed"
    BY <1>n, <1>3, GoFacts DEF MakeHandler, Places
  <2> QED
    BY <2>1 DEF OpenInv
<1>4. CASE SendStart
  <2>1. opening' = None /\ stopped' = stopped /\ at'[Main] = "idle"
    BY <1>4, GoFacts DEF SendStart, Places
  <2> QED
    BY <1>n, <2>1 DEF OpenInv
<1>5. ASSUME NEW p \in Threads \cup {Main}, CloseStep(p)
      PROVE  OpenInv'
  <2>1. /\ opening' = opening /\ handler' \in {handler, None}
        /\ \/ at'[Main] = at[Main]
           \/ /\ at[Main] \in {"stop", "quit", "clear thread", "clear handler"}
              /\ at'[Main] \notin {"make handler", "send start"}
    BY <1>5, Closer
  <2>2. opening \notin stopped'
    BY <1>5 DEF CloseStep, SendStop, QuitThread, ClearThread, ClearHandler, OpenInv
  <2> QED
    BY <2>1, <2>2 DEF OpenInv
<1>6. ASSUME NEW t \in Threads, ThreadMoves(t)
      PROVE  OpenInv'
  <2>1. at'[Main] = at[Main] /\ UNCHANGED <<opening, handler, stopped>>
    BY <1>n, <1>6, Mover
  <2> QED
    BY <2>1 DEF OpenInv
<1> QED
  BY <1>1, <1>2, <1>3, <1>4, <1>5, <1>6, Steps DEF ThreadMoves

-----------------------------------------------------------------------------
(* A thread touches what it has in the fields, and what it makes. *)
LEMMA OthersClean ==
  ASSUME TypeOK, NEW t \in Threads, ThreadMoves(t),
         NEW u \in Threads, u # t, Clean(u)
  PROVE  Clean(u)'
<1> USE DEF fields, objects
<1>1. uvcCamera' # u /\ renderManager' # u
  <2>1. uvcCamera' \in {uvcCamera, t, None}
    BY DEF ThreadMoves, StartStep, StopStep, Start, MakeRenderManager,
      StartRenderScreen, OpenInternal, Configure, StartPreview, Announce,
      ReportError, Stop, DestroyCamera, ClearCamera, StopRenderScreen,
      ClearRenderManager, EndThread
  <2>2. renderManager' \in {renderManager, t, None}
    BY DEF ThreadMoves, StartStep, StopStep, Start, MakeRenderManager,
      StartRenderScreen, OpenInternal, Configure, StartPreview, Announce,
      ReportError, Stop, DestroyCamera, ClearCamera, StopRenderScreen,
      ClearRenderManager, EndThread
  <2> QED
    BY <2>1, <2>2, ClientConstants DEF Clean
<1>2. cam'[u] = cam[u]
  <2>1. CASE OpenInternal(t) \/ StartPreview(t) \/ DestroyCamera(t)
    BY <2>1 DEF OpenInternal, StartPreview, DestroyCamera, Clean, TypeOK
  <2>2. CASE ~(OpenInternal(t) \/ StartPreview(t) \/ DestroyCamera(t))
    BY <2>2 DEF ThreadMoves, StartStep, StopStep, Start, MakeRenderManager,
      StartRenderScreen, Configure, Announce, ReportError, Stop, ClearCamera,
      StopRenderScreen, ClearRenderManager, EndThread
  <2> QED
    BY <2>1, <2>2
<1>3. render'[u] = render[u]
  <2>1. CASE StartRenderScreen(t) \/ StopRenderScreen(t)
    BY <2>1 DEF StartRenderScreen, StopRenderScreen, Clean, TypeOK
  <2>2. CASE ~(StartRenderScreen(t) \/ StopRenderScreen(t))
    BY <2>2 DEF ThreadMoves, StartStep, StopStep, Start, MakeRenderManager,
      OpenInternal, Configure, StartPreview, Announce, ReportError, Stop,
      DestroyCamera, ClearCamera, ClearRenderManager, EndThread
  <2> QED
    BY <2>1, <2>2
<1> QED
  BY <1>1, <1>2, <1>3 DEF Clean, Taken

LEMMA CleanStep ==
  ASSUME TypeOK, CleanInv, AloneInv, Next
  PROVE  CleanInv'
<1> USE DEF pointers, fields, objects, loopers, app, history
<1>n. Main \notin Threads
  BY ClientConstants
<1>1. ASSUME UNCHANGED <<fields, objects>>, overlap \subseteq overlap',
             \A t \in Threads : at'[t] \in {"new", "ended"} => at'[t] = at[t]
      PROVE  CleanInv'
  <2>1. \A t \in Threads : Clean(t)' <=> Clean(t)
    BY <1>1 DEF Clean, Taken
  <2> QED
    BY <1>1, <2>1 DEF CleanInv
<1>2. CASE Elsewhere
  BY <1>n, <1>1, <1>2, GoFacts DEF Elsewhere, Places
<1>3. ASSUME NEW t \in Threads, Opening(t)
      PROVE  CleanInv'
  <2>1. /\ UNCHANGED <<fields, objects>> /\ overlap \subseteq overlap'
        /\ \A u \in Threads : at'[u] \in {"new", "ended"} => at'[u] = at[u]
    BY <1>n, <1>3 DEF Opening, OpenCamera, TypeOK
  <2> QED
    BY <1>1, <2>1
<1>4. CASE MakeHandler \/ SendStart
  BY <1>n, <1>1, <1>4, GoFacts DEF MakeHandler, SendStart, Places
<1>5. ASSUME NEW p \in Threads \cup {Main}, CloseStep(p)
      PROVE  CleanInv'
  BY <1>1, <1>5, Closer
<1>6. ASSUME NEW t \in Threads, ThreadMoves(t)
      PROVE  CleanInv'
  <2>1. SUFFICES ASSUME NEW u \in Threads,
                        at'[u] = "new" \/ (at'[u] = "ended" /\ u \notin overlap')
                 PROVE  Clean(u)'
    BY DEF CleanInv
  <2>2. CASE u # t
    BY <1>6, <2>1, <2>2, Mover, OthersClean DEF CleanInv
  <2>3. CASE u = t
    <3>1. EndThread(t) /\ t \in Alive \ overlap
      BY <1>6, <2>1, <2>3, Mover DEF Alive
    <3>2. Alone(t) /\ ~StopLast(t)
      BY <3>1 DEF AloneInv, EndThread, StopLast
    <3>3. Clean(t)
      BY <3>1, <3>2 DEF Alone, AlonePointers, AloneHolds, EndThread
    <3> QED
      BY <2>3, <3>1, <3>3 DEF EndThread, Clean, Taken
  <2> QED
    BY <2>2, <2>3
<1> QED
  BY <1>2, <1>3, <1>4, <1>5, <1>6, Steps DEF ThreadMoves

-----------------------------------------------------------------------------
(* The stop of a thread is the last it gets. *)
LEMMA StopInvStep ==
  ASSUME TypeOK, NewInv, OpenInv, StopInv, Next
  PROVE  StopInv'
<1> USE DEF pointers, fields, objects, loopers, app, history
<1>n. /\ None \notin Threads /\ Main \notin Threads /\ stopped \subseteq Threads
      /\ {"start", "stop"} = Kinds
  BY ClientConstants DEF TypeOK, Kinds
(* Whoever is not touched. *)
<1>1. ASSUME NEW t \in Threads, queue'[t] = queue[t],
             at'[t] = at[t] \/ at'[t] \notin StartPlaces,
             told' # <<"OPENED", t>> \/ told' = told,
             StopLast(t) \/ Over(t)
      PROVE  (StopLast(t) \/ Over(t))'
  BY <1>1, QueueFrame DEF Over
<1>2. CASE Elsewhere
  BY <1>n, <1>1, <1>2, GoFacts DEF Elsewhere, StopInv, Places
<1>3. ASSUME NEW t \in Threads, Opening(t)
      PROVE  StopInv'
  <2>1. /\ UNCHANGED <<queue, told, stopped>> /\ t \notin stopped
        /\ \A u \in Threads : u # t => at'[u] = at[u]
    BY <1>n, <1>3 DEF Opening, OpenCamera, TypeOK, Unused, NewInv
  <2> QED
    BY <1>n, <1>1, <2>1 DEF StopInv
<1>4. CASE MakeHandler
  BY <1>n, <1>1, <1>4, GoFacts DEF MakeHandler, StopInv, Places
<1>5. CASE SendStart
  <2>1. /\ UNCHANGED <<told, stopped>> /\ handler \notin stopped
        /\ \A u \in Threads : at'[u] = at[u]
        /\ \A u \in Threads : u # handler => queue'[u] = queue[u]
    BY <1>n, <1>5, GoFacts, SendFacts DEF SendStart, Places, TypeOK, OpenInv
  <2> QED
    BY <1>n, <1>1, <2>1 DEF StopInv
(* A thread that is at its start message has its stop before it. *)
<1>6. ASSUME NEW t \in stopped, at[t] \in StartPlaces, queue'[t] = queue[t]
      PROVE  StopLast(t)'
  BY <1>n, <1>6, QueueFrame DEF StopInv, Over
<1>7. ASSUME NEW p \in Threads \cup {Main}, CloseStep(p)
      PROVE  StopInv'
  <2>1. SUFFICES ASSUME NEW u \in stopped' PROVE (StopLast(u) \/ Over(u))'
    BY DEF StopInv
  <2>2. /\ told' = told /\ (u # p => at'[u] = at[u])
        /\ u = p => at[u] \in StartPlaces
        /\ u \in Threads
    <3>1. stopped' \subseteq Threads
      BY <1>n, <1>7
      DEF CloseStep, SendStop, QuitThread, ClearThread, ClearHandler, TypeOK
    <3> QED
      BY <1>7, <3>1, Closer DEF StartPlaces
  <2>3. CASE u \in stopped /\ queue'[u] = queue[u]
    BY <1>1, <1>6, <2>2, <2>3 DEF StopInv
  <2>4. CASE u = handler /\ u \notin quitting /\ SendStop(p)
    BY <1>n, <2>2, <2>4, SendStopFacts DEF SendStop
  <2>5. SendStop(p) =>
          \/ u \in stopped /\ queue'[u] = queue[u]
          \/ u = handler /\ u \notin quitting
    BY <1>n, <2>2, SendFacts DEF SendStop, TypeOK
  <2>6. ~SendStop(p) => u \in stopped /\ queue'[u] = queue[u]
    BY <1>7 DEF CloseStep, QuitThread, ClearThread, ClearHandler
  <2> QED
    BY <2>3, <2>4, <2>5, <2>6
<1>8. ASSUME NEW t \in Threads, ThreadMoves(t)
      PROVE  StopInv'
  <2>1. SUFFICES ASSUME NEW u \in stopped PROVE (StopLast(u) \/ Over(u))'
    BY <1>8, Mover DEF StopInv
  <2>2. told' = told \/ \E s \in States : Tell(s, t)
    BY <1>8 DEF ThreadMoves, StartStep, StopStep, Start, MakeRenderManager,
      StartRenderScreen, OpenInternal, Configure, StartPreview, Announce,
      ReportError, Stop, DestroyCamera, ClearCamera, StopRenderScreen,
      ClearRenderManager, EndThread, States
  <2>3. CASE u # t
    <3>1. queue'[u] = queue[u] /\ at'[u] = at[u] /\ u \in Threads
      BY <1>n, <1>8, <2>3, Mover
    <3>2. told' = told \/ told' # <<"OPENED", u>>
      BY <2>2, <2>3, TellFacts
    <3> QED
      BY <1>1, <3>1, <3>2 DEF StopInv
  <2>4. CASE u = t /\ Start(t)
    <3>1. StopLast(t)
      BY <1>n, <2>4, TakeFacts DEF Start, StopInv, Over
    <3> QED
      BY <1>n, <2>4, <3>1, TakeFacts DEF Start
  <2>5. CASE u = t /\ Stop(t)
    <3>1. StopLast(t)
      BY <1>n, <2>5, TakeFacts DEF Stop, StopInv, Over
    <3>2. StopLast(t)' \/ queue'[t] = <<>>
      BY <1>n, <2>5, <3>1, TakeFacts DEF Stop
    <3>3. at'[t] = "destroy" /\ told' # <<"OPENED", t>>
      BY <2>5, GoFacts, TellFacts DEF Stop, Places, States
    <3> QED
      BY <2>5, <3>2, <3>3 DEF Over, StartPlaces
  <2>6. CASE u = t /\ StartStep(t) /\ ~Start(t)
    <3>1. at[t] \in StartPlaces /\ queue' = queue
      BY <2>6 DEF StartStep, MakeRenderManager, StartRenderScreen,
        OpenInternal, Configure, StartPreview, Announce, ReportError,
        StartPlaces
    <3> QED
      BY <1>6, <2>6, <3>1
  <2>7. CASE u = t /\ (StopStep(t) \/ EndThread(t)) /\ ~Stop(t)
    <3>1. /\ at'[t] \notin StartPlaces /\ queue' = queue /\ told' = told
      BY <2>7, GoFacts DEF StopStep, DestroyCamera, ClearCamera,
        StopRenderScreen, ClearRenderManager, EndThread, StartPlaces, Places
    <3> QED
      BY <1>1, <2>7, <3>1 DEF StopInv
  <2> QED
    BY <1>8, <2>3, <2>4, <2>5, <2>6, <2>7 DEF ThreadMoves
<1> QED
  BY <1>2, <1>3, <1>4, <1>5, <1>7, <1>8, Steps DEF ThreadMoves

-----------------------------------------------------------------------------
(* A thread that lives alone. *)
LEMMA AloneOpening ==
  ASSUME TypeOK, NewInv, CleanInv, NEW t \in Threads, Opening(t)
  PROVE  AloneInv'
<1> USE DEF fields, objects, loopers
<1>n. Main \notin Threads
  BY ClientConstants
<1>1. SUFFICES ASSUME NEW u \in Alive' \ overlap' PROVE Alone(u)'
  BY DEF AloneInv
<1>2. /\ at[t] = "new" /\ at'[t] = "idle" /\ at'[Main] = "make handler"
      /\ \A v \in Threads : v # t => at'[v] = at[v]
      /\ thread' = t /\ opening' = t
      /\ UNCHANGED <<handler, fields, objects, loopers, stopped>>
  BY <1>n DEF Opening, OpenCamera, TypeOK, Unused
<1>3. Alive = {} /\ u = t
  <2>1. CASE Alive # {}
    <3>1. overlap' = overlap \cup Alive \cup {t}
      BY <2>1 DEF Opening, OpenCamera
    <3> QED
      BY <1>1, <1>2, <3>1 DEF Alive
  <2>2. CASE Alive = {}
    BY <1>1, <1>2, <2>2 DEF Alive
  <2> QED
    BY <2>1, <2>2
<1>4. \A v \in Threads : v # t => at'[v] \in {"new", "ended"}
  BY <1>2, <1>3 DEF Alive
<1>5. /\ queue[t] = <<>> /\ t \notin quitting /\ t \notin stopped
      /\ thread # t /\ handler # t /\ Clean(t)
  BY <1>2 DEF NewInv, CleanInv
<1>6. AlonePointers(t)'
  BY <1>2, <1>4, <1>5 DEF AlonePointers
<1>7. Clean(t)' /\ ~StartQueued(t)' /\ StartFirst(t)'
  <2>1. Len(queue'[t]) = 0
    BY <1>2, <1>5, QueueType, SequenceFacts
  <2>2. ~StartQueued(t)' /\ StartFirst(t)'
    BY <2>1 DEF StartQueued, StartFirst
  <2> QED
    BY <1>2, <1>5, <2>2 DEF Clean, Taken
<1>8. AloneHolds(t)'
  BY <1>2, <1>5, <1>7 DEF AloneHolds, Clean
<1> QED
  BY <1>3, <1>6, <1>8 DEF Alone

(* The handler is set, and the start message is the first there is. *)
LEMMA AloneHandler ==
  ASSUME TypeOK, OpenInv, NEW t \in Threads, at[t] # "ended", Alone(t),
         MakeHandler
  PROVE  Alone(t)'
<1> USE DEF fields, objects, loopers, history
<1>1. opening = t
  BY DEF MakeHandler, OpenInv, Alone, AlonePointers
<1>2. /\ handler' = t /\ at'[Main] = "send start"
      /\ \A u \in Threads : at'[u] = at[u]
      /\ UNCHANGED <<thread, opening, fields, objects, loopers, history>>
  BY <1>1, ClientConstants, GoFacts DEF MakeHandler, Places
<1>3. AlonePointers(t)'
  BY <1>1, <1>2 DEF Alone, AlonePointers
<1>4. AloneHolds(t)'
  BY <1>2 DEF Alone, AloneHolds, Clean, Taken, StartQueued, StartFirst, StopLast
<1> QED
  BY <1>3, <1>4 DEF Alone

LEMMA AloneSendStart ==
  ASSUME TypeOK, OpenInv, NEW t \in Threads, Alone(t), SendStart
  PROVE  Alone(t)'
<1> USE DEF fields, objects, history
<1>1. /\ opening = t /\ handler = t /\ thread = t /\ at[t] = "idle"
      /\ queue[t] = <<>> /\ t \notin quitting /\ t \notin stopped /\ Clean(t)
  BY DEF SendStart, OpenInv, Alone, AlonePointers, AloneHolds
<1>2. /\ at'[Main] = "idle" /\ \A u \in Threads : at'[u] = at[u]
      /\ UNCHANGED <<thread, handler, fields, objects, quitting, history>>
      /\ opening' = None
  BY ClientConstants, GoFacts DEF SendStart, Places
<1>3. StartFirst(t)'
  <2>1. queue'[t] = Append(<<>>, "start")
    BY <1>1, SendFacts DEF SendStart, Kinds
  <2> QED
    BY <2>1 DEF StartFirst
<1>4. AlonePointers(t)'
  BY <1>1, <1>2, ClientConstants DEF Alone, AlonePointers
<1>5. Clean(t)'
  BY <1>1, <1>2 DEF Clean, Taken
<1>6. AloneHolds(t)'
  BY <1>1, <1>2, <1>3, <1>5, ClientConstants DEF AloneHolds, Clean
<1> QED
  BY <1>4, <1>6 DEF Alone

(* A close: the stop comes before the thread is told to quit. *)
LEMMA AloneClose ==
  ASSUME TypeOK, OpenInv, NEW t \in Threads, Alone(t), at[t] # "ended",
         NEW p \in Threads \cup {Main}, CloseStep(p)
  PROVE  Alone(t)'
<1> USE DEF fields, objects
<1>n. None \notin Threads /\ Main \notin Threads
  BY ClientConstants
<1>1. /\ at[p] \in {"stop", "quit", "clear thread", "clear handler"}
      /\ at'[p] \in {"quit", "clear thread", "clear handler", "report",
                     "idle", "destroy"}
      /\ \A q \in Threads \cup {Main} : q # p => at'[q] = at[q]
      /\ UNCHANGED <<opening, fields, objects, told, overlap>>
  BY Closer
<1>2. p \in {t, Main}
  BY <1>1 DEF Alone, AlonePointers
<1>3. opening = None
  BY <1>1, <1>2 DEF OpenInv, Alone, AlonePointers
<1>4. at[Main] # "make handler" /\ handler \in {t, None} /\ (thread = t => handler = t)
  BY <1>3 DEF OpenInv, Alone, AlonePointers
<1>5. \A u \in Threads : u # t => at'[u] = at[u]
  BY <1>n, <1>1, <1>2
<1>6. /\ Clean(t)' <=> Clean(t)
      /\ t \in Taken' <=> t \in Taken
  BY <1>1 DEF Clean, Taken
<1>7. p = t => at'[t] \in {"quit", "clear thread", "clear handler", "report"}
  BY <1>n, <1>1, GoFacts
  DEF CloseStep, SendStop, QuitThread, ClearThread, ClearHandler, Places
<1>8. at'[Main] # "make handler"
  BY <1>n, <1>1, <1>2, <1>4
<1>9. CASE SendStop(p)
  <2>1. /\ at'[p] = "quit" /\ UNCHANGED <<thread, handler, quitting>>
        /\ stopped' = stopped \cup ({handler} \ (quitting \cup {None, opening}))
        /\ Send(handler, "stop")
    BY <1>9, GoFacts DEF SendStop, pointers, Places
  <2>2. handler = t /\ t \notin quitting => t \in stopped' /\ StopLast(t)'
    BY <1>n, <1>3, <2>1, SendStopFacts
  <2>3. thread = t => t \in stopped'
    BY <1>4, <2>1, <2>2 DEF Alone, AlonePointers
  <2>4. AlonePointers(t)'
    BY <1>n, <1>1, <1>2, <1>3, <1>4, <1>5, <1>8, <2>1, <2>3
    DEF Alone, AlonePointers
  <2>5. /\ StartQueued(t)' => StartQueued(t)
        /\ StartFirst(t)'
        /\ t \in stopped' /\ ~StopLast(t)' => t \in stopped /\ ~StopLast(t)
    <3>1. CASE handler = t /\ t \notin quitting
      BY <2>1, <2>2, <3>1, SendStopFacts DEF Alone, AloneHolds
    <3>2. CASE ~(handler = t /\ t \notin quitting)
      <4>1. queue'[t] = queue[t]
        BY <1>n, <1>4, <2>1, <3>2, SendFacts DEF Kinds
      <4>2. t \in stopped' => t \in stopped
        BY <1>n, <1>4, <2>1, <3>2
      <4> QED
        BY <4>1, <4>2, QueueFrame DEF Alone, AloneHolds
    <3> QED
      BY <3>1, <3>2
  <2>6. AloneHolds(t)'
    BY <1>n, <1>1, <1>2, <1>3, <1>6, <1>7, <2>5 DEF Alone, AloneHolds
  <2> QED
    BY <2>4, <2>6 DEF Alone
<1>10. CASE QuitThread(p) \/ ClearThread(p) \/ ClearHandler(p)
  <2>1. UNCHANGED <<queue, stopped>>
    BY <1>10 DEF QuitThread, ClearThread, ClearHandler, loopers, history
  <2>2. /\ StartQueued(t)' <=> StartQueued(t)
        /\ StartFirst(t)' <=> StartFirst(t)
        /\ StopLast(t)' <=> StopLast(t)
    BY <2>1, QueueFrame
  <2>3. AloneHolds(t)'
    BY <1>n, <1>1, <1>2, <1>3, <1>6, <1>7, <2>1, <2>2 DEF Alone, AloneHolds
  <2>4. AlonePointers(t)'
    <3>1. CASE QuitThread(p)
      <4>1. /\ UNCHANGED <<thread, handler>> /\ at'[p] = "clear thread"
            /\ quitting' = quitting \cup ({thread} \ {None})
            /\ at[p] = "quit"
        BY <3>1, GoFacts DEF QuitThread, pointers, Places
      <4> QED
        BY <1>n, <1>1, <1>2, <1>3, <1>4, <1>5, <1>8, <2>1, <4>1
        DEF Alone, AlonePointers
    <3>2. CASE ClearThread(p)
      <4>1. /\ thread' = None /\ handler' = handler
            /\ quitting' = quitting
        BY <3>2 DEF ClearThread, loopers
      <4> QED
        BY <1>n, <1>1, <1>2, <1>3, <1>4, <1>5, <1>8, <2>1, <4>1
        DEF Alone, AlonePointers
    <3>3. CASE ClearHandler(p)
      <4>1. /\ thread' = thread /\ handler' = None /\ quitting' = quitting
            /\ at[p] = "clear handler" /\ thread # t
            /\ at'[p] \in {"report", "destroy", "idle"}
        BY <1>2, <3>3, GoFacts
        DEF ClearHandler, loopers, Alone, AlonePointers, Places
      <4> QED
        BY <1>n, <1>1, <1>2, <1>3, <1>4, <1>5, <1>8, <2>1, <4>1
        DEF Alone, AlonePointers
    <3> QED
      BY <1>10, <3>1, <3>2, <3>3
  <2> QED
    BY <2>3, <2>4 DEF Alone
<1> QED
  BY <1>9, <1>10 DEF CloseStep

(* The steps of the thread itself. *)
LEMMA AloneMovesPointers ==
  ASSUME TypeOK, OpenInv, NEW t \in Threads, Alone(t), ThreadMoves(t)
  PROVE  /\ AlonePointers(t)'
         /\ opening = None /\ UNCHANGED <<opening, stopped, quitting>>
<1> USE DEF pointers, history
<1>n. None \notin Threads /\ Main \notin Threads
  BY ClientConstants
<1>1. /\ at[t] \notin {"new", "ended"}
      /\ \A q \in Threads \cup {Main} : q # t => at'[q] = at[q]
      /\ UNCHANGED <<pointers, quitting, history>>
  BY Mover
<1>2. at'[Main] = at[Main] /\ \A u \in Threads : u # t => at'[u] = at[u]
  BY <1>n, <1>1
<1>3. at[t] = "idle" => t \in quitting \/ queue[t] # <<>>
  BY TakeFacts DEF ThreadMoves, StartStep, StopStep, Start, MakeRenderManager,
    StartRenderScreen, OpenInternal, Configure, StartPreview, Announce,
    ReportError, Stop, DestroyCamera, ClearCamera, StopRenderScreen,
    ClearRenderManager, EndThread, Kinds, TakeMessage
<1>4. opening = None
  BY <1>3 DEF Alone, AlonePointers
<1>5. at'[t] \notin {"quit", "clear handler"}
  <2>1. \E place \in Places \ {"quit", "clear handler"} : Go(t, place)
    BY DEF ThreadMoves, StartStep, StopStep, Start, MakeRenderManager,
      StartRenderScreen, OpenInternal, Configure, StartPreview, Announce,
      ReportError, Stop, DestroyCamera, ClearCamera, StopRenderScreen,
      ClearRenderManager, EndThread, Fail, FailAndGoOn, Places
  <2> QED
    BY <2>1, GoFacts
<1>6. AlonePointers(t)'
  BY <1>n, <1>1, <1>2, <1>4, <1>5 DEF Alone, AlonePointers
<1> QED
  BY <1>1, <1>4, <1>6

LEMMA AloneMovesHolds ==
  ASSUME TypeOK, OpenInv, StopInv, NEW t \in Threads, Alone(t), ThreadMoves(t)
  PROVE  AloneHolds(t)'
<1> USE DEF fields, objects
<1>n. None \notin Threads /\ Main \notin Threads /\ {"start", "stop"} = Kinds
  BY ClientConstants DEF Kinds
<1>1. opening' = None /\ UNCHANGED <<stopped, quitting>>
  BY AloneMovesPointers
<1>h. AloneHolds(t) /\ (t \in stopped => StopLast(t) \/ Over(t))
  BY DEF Alone, StopInv
<1>2. CASE Start(t)
  <2>1. /\ at[t] = "idle" /\ at'[t] \in {"open", "measure"}
        /\ UNCHANGED <<fields, objects>> /\ StartQueued(t)
        /\ ~StartQueued(t)' /\ StartFirst(t)'
    BY <1>n, <1>2, <1>h, GoFacts, TakeFacts DEF Start, Places, AloneHolds
  <2>2. Clean(t) /\ Clean(t)' /\ t \notin Taken'
    BY <1>h, <2>1 DEF AloneHolds, Clean, Taken
  <2> QED
    BY <1>n, <1>1, <2>1, <2>2 DEF AloneHolds, Clean
<1>3. CASE Stop(t)
  <2>1. /\ at[t] = "idle" /\ at'[t] = "destroy" /\ ~isPreviewed'
        /\ UNCHANGED <<uvcCamera, renderManager, objects>>
        /\ ~StartQueued(t)' /\ StartFirst(t)'
    BY <1>n, <1>3, <1>h, GoFacts, TakeFacts DEF Stop, Places, AloneHolds
  <2>2. t \in Taken' <=> t \in Taken
    BY <2>1 DEF Taken
  <2> QED
    BY <1>n, <1>h, <1>1, <2>1, <2>2 DEF AloneHolds
(* The others leave the queue alone. *)
<1>4. ASSUME queue' = queue
      PROVE  /\ StopLast(t)' <=> StopLast(t)
             /\ StartQueued(t)' <=> StartQueued(t)
             /\ StartFirst(t)'
  BY <1>h, <1>4, QueueFrame DEF AloneHolds
<1>5. at[t] # "idle" => ~StartQueued(t)
  BY <1>h DEF AloneHolds
<1>6. at[t] \in StartPlaces => (t \in stopped => StopLast(t))
  BY <1>h DEF Over
<1>7. CASE MakeRenderManager(t)
  <2>1. /\ at[t] = "measure" /\ at'[t] = "render" /\ renderManager' = t
        /\ UNCHANGED <<uvcCamera, isPreviewed, objects, queue>>
    BY <1>7, GoFacts DEF MakeRenderManager, loopers, Places
  <2>2. Clean(t) /\ (t \in Taken' <=> t \in Taken)
    BY <1>h, <2>1 DEF AloneHolds, Taken
  <2> QED
    BY <1>n, <1>1, <1>4, <1>5, <2>1, <2>2 DEF AloneHolds, Clean
<1>8. CASE StartRenderScreen(t)
  <2>1. /\ at[t] = "render" /\ at'[t] \in {"idle", "open", "stop"}
        /\ UNCHANGED <<fields, cam, queue>>
    BY <1>8, GoFacts DEF StartRenderScreen, Fail, loopers, Places
  <2>2. render'[t] = "running" => renderManager = t
    BY <1>8, <1>h DEF StartRenderScreen, AloneHolds, TypeOK
  <2>3. t \notin Taken' /\ (t \in stopped => StopLast(t))
    BY <1>h, <1>6, <2>1 DEF AloneHolds, Taken, StartPlaces
  <2>4. uvcCamera # t
    BY <1>h, <2>1 DEF AloneHolds
  <2> QED
    BY <1>n, <1>1, <1>4, <1>5, <2>1, <2>2, <2>3, <2>4 DEF AloneHolds, Clean
<1>9. CASE OpenInternal(t)
  <2>1. /\ at[t] = "open" /\ UNCHANGED <<renderManager, isPreviewed, render, queue>>
        /\ \/ at'[t] = "stop" /\ UNCHANGED <<uvcCamera, cam>>
           \/ at'[t] = "configure" /\ uvcCamera' = t /\ cam'[t] = "open"
    BY <1>9, GoFacts DEF OpenInternal, Fail, FailAndGoOn, loopers, Places, TypeOK
  <2>2. t \in Taken' => uvcCamera' = t
    BY <1>h, <2>1 DEF AloneHolds, Taken
  <2>3. uvcCamera' = t => t \in Taken'
    BY <1>h, <2>1 DEF AloneHolds, Taken
  <2> QED
    BY <1>n, <1>h, <1>1, <1>4, <1>5, <2>1, <2>2, <2>3 DEF AloneHolds
<1>10. CASE Configure(t)
  <2>1. /\ at[t] = "configure" /\ UNCHANGED <<fields, objects, queue>>
        /\ at'[t] \in {"preview", "stop", "hung"}
        /\ at'[t] = "preview" => uvcCamera # None
    BY <1>10, GoFacts DEF Configure, Fail, loopers, Places
  <2>2. (t \in Taken' <=> t \in Taken)
    BY <2>1 DEF Taken
  <2> QED
    BY <1>n, <1>h, <1>1, <1>4, <1>5, <2>1, <2>2 DEF AloneHolds
<1>11. CASE StartPreview(t)
  <2>1. /\ at[t] = "preview" /\ UNCHANGED <<fields, render, queue>>
        /\ at'[t] \in {"announce", "hung"}
    BY <1>11, GoFacts DEF StartPreview, loopers, Places
  <2>2. (t \in Taken' <=> t \in Taken)
    BY <1>11 DEF StartPreview, Taken, TypeOK
  <2> QED
    BY <1>n, <1>h, <1>1, <1>4, <1>5, <2>1, <2>2 DEF AloneHolds
<1>12. CASE Announce(t) \/ ReportError(t)
  <2>1. /\ at[t] \in StartPlaces /\ at'[t] \in {"idle", "configure"}
        /\ UNCHANGED <<uvcCamera, renderManager, objects, queue>>
    BY <1>12, GoFacts DEF Announce, ReportError, loopers, Places, StartPlaces
  <2>2. /\ (t \in Taken' <=> t \in Taken)
        /\ uvcCamera = t => t \in Taken
    BY <1>h, <2>1 DEF Taken, StartPlaces, AloneHolds
  <2>3. at[t] # "idle"
    BY <2>1 DEF StartPlaces
  <2> QED
    BY <1>n, <1>h, <1>1, <1>4, <1>5, <1>6, <2>1, <2>2, <2>3 DEF AloneHolds
<1>13. CASE DestroyCamera(t)
  <2>1. /\ at[t] = "destroy" /\ UNCHANGED <<fields, render, queue>>
        /\ at'[t] \in {"drop", "hung"}
    BY <1>13, GoFacts DEF DestroyCamera, loopers, Places
  <2>2. uvcCamera = t <=> t \in Taken
    BY <1>h, <2>1 DEF AloneHolds
  <2>3. /\ at'[t] = "drop" => t \notin Taken'
        /\ at'[t] = "hung" => (t \in Taken' <=> t \in Taken)
    BY <1>13, <2>2, GoFacts DEF DestroyCamera, Taken, Stuck, TypeOK, Places
  <2> QED
    BY <1>n, <1>h, <1>1, <1>4, <1>5, <2>1, <2>2, <2>3 DEF AloneHolds
<1>14. CASE ClearCamera(t)
  <2>1. /\ at[t] = "drop" /\ UNCHANGED <<renderManager, isPreviewed, objects, queue>>
        /\ at'[t] = "release" /\ uvcCamera' = None
    BY <1>14, GoFacts DEF ClearCamera, loopers, Places
  <2>2. (t \in Taken' <=> t \in Taken)
    BY <2>1 DEF Taken
  <2> QED
    BY <1>n, <1>h, <1>1, <1>4, <1>5, <2>1, <2>2 DEF AloneHolds
<1>15. CASE StopRenderScreen(t)
  <2>1. /\ at[t] = "release" /\ UNCHANGED <<fields, cam, queue>>
        /\ at'[t] = "clear renderer"
    BY <1>15, GoFacts DEF StopRenderScreen, loopers, Places
  <2>2. (t \in Taken' <=> t \in Taken)
    BY <2>1 DEF Taken
  <2>3. render'[t] # "running"
    BY <1>n, <1>h, <1>15, <2>1 DEF StopRenderScreen, AloneHolds, TypeOK
  <2> QED
    BY <1>n, <1>h, <1>1, <1>4, <1>5, <2>1, <2>2, <2>3 DEF AloneHolds
<1>16. CASE ClearRenderManager(t)
  <2>1. /\ at[t] = "clear renderer" /\ UNCHANGED <<uvcCamera, isPreviewed, objects, queue>>
        /\ at'[t] = "idle" /\ renderManager' = None
    BY <1>16, GoFacts DEF ClearRenderManager, loopers, Places
  <2>2. Clean(t)' /\ (t \in Taken' <=> t \in Taken)
    BY <1>n, <1>h, <2>1 DEF AloneHolds, Clean, Taken
  <2> QED
    BY <1>n, <1>h, <1>1, <1>4, <1>5, <2>1, <2>2 DEF AloneHolds
<1>17. CASE EndThread(t)
  <2>1. /\ at[t] = "idle" /\ queue[t] = <<>> /\ UNCHANGED <<fields, objects, queue>>
        /\ at'[t] = "ended"
    BY <1>17, GoFacts DEF EndThread, loopers, Places
  <2>2. (t \in Taken' <=> t \in Taken) /\ ~StartQueued(t)
    <3>1. Len(queue[t]) = 0
      BY <2>1, QueueType, SequenceFacts
    <3> QED
      BY <2>1, <3>1 DEF Taken, StartQueued
  <2> QED
    BY <1>n, <1>h, <1>1, <1>4, <2>1, <2>2 DEF AloneHolds
<1> QED
  BY <1>2, <1>3, <1>7, <1>8, <1>9, <1>10, <1>11, <1>12, <1>13, <1>14, <1>15,
    <1>16, <1>17 DEF ThreadMoves, StartStep, StopStep

LEMMA AloneStep ==
  ASSUME TypeOK, NewInv, CleanInv, OpenInv, StopInv, AloneInv, Next
  PROVE  AloneInv'
<1> USE DEF fields, objects, loopers, history
<1>n. Main \notin Threads
  BY ClientConstants
<1>1. ASSUME overlap' = overlap,
             \A t \in Threads : at'[t] \in {"new", "ended"} \/ at[t] \notin {"new", "ended"},
             \A t \in Threads : Alone(t) /\ at[t] # "ended" /\ at'[t] # "ended" => Alone(t)'
      PROVE  AloneInv'
  BY <1>1 DEF AloneInv, Alive
<1>2. CASE Elsewhere
  <2>1. /\ UNCHANGED <<pointers, fields, objects, loopers, history>>
        /\ \A t \in Threads : at'[t] = at[t]
        /\ \/ at'[Main] = at[Main]
           \/ /\ at[Main] \in {"idle", "destroy"}
              /\ at'[Main] \in {"idle", "stop", "destroy"}
    BY <1>n, <1>2, GoFacts DEF Elsewhere, Places
  <2>2. ASSUME NEW t \in Threads, Alone(t)
        PROVE  Alone(t)'
    <3>1. AlonePointers(t)'
      BY <2>1, <2>2 DEF Alone, AlonePointers, pointers
    <3>2. AloneHolds(t)'
      BY <2>1, <2>2
      DEF Alone, AloneHolds, Clean, Taken, StartQueued, StartFirst, StopLast,
        pointers
    <3> QED
      BY <3>1, <3>2 DEF Alone
  <2> QED
    BY <1>1, <2>1, <2>2
<1>3. CASE \E t \in Threads : Opening(t)
  BY <1>3, AloneOpening
<1>4. CASE MakeHandler
  <2>1. overlap' = overlap /\ \A t \in Threads : at'[t] = at[t]
    BY <1>n, <1>4, GoFacts DEF MakeHandler, Places
  <2> QED
    BY <1>1, <1>4, <2>1, AloneHandler
<1>5. CASE SendStart
  <2>1. overlap' = overlap /\ \A t \in Threads : at'[t] = at[t]
    BY <1>n, <1>5, GoFacts DEF SendStart, Places
  <2> QED
    BY <1>1, <1>5, <2>1, AloneSendStart
<1>6. ASSUME NEW p \in Threads \cup {Main}, CloseStep(p)
      PROVE  AloneInv'
  <2>1. /\ overlap' = overlap
        /\ \A t \in Threads : at'[t] \in {"new", "ended"} \/ at[t] \notin {"new", "ended"}
    BY <1>6, Closer
  <2> QED
    BY <1>1, <1>6, <2>1, AloneClose
<1>7. ASSUME NEW t \in Threads, ThreadMoves(t)
      PROVE  AloneInv'
  <2>1. /\ overlap' = overlap
        /\ \A u \in Threads : at'[u] \in {"new", "ended"} \/ at[u] \notin {"new", "ended"}
    BY <1>7, Mover
  <2>2. ASSUME NEW u \in Threads, Alone(u), at[u] # "ended"
        PROVE  Alone(u)'
    <3>1. u = t
      BY <1>7, <2>2, Mover DEF Alone, AlonePointers
    <3> QED
      BY <1>7, <2>2, <3>1, AloneMovesPointers, AloneMovesHolds DEF Alone
  <2> QED
    BY <1>1, <2>1, <2>2
<1> QED
  BY <1>2, <1>3, <1>4, <1>5, <1>6, <1>7, Steps DEF ThreadMoves

(* When a thread that lived alone ends, it has given back what it took. *)
LEMMA AloneEnds ==
  ASSUME AloneInv, NEW t \in Threads \ overlap, EndThread(t)
  PROVE  Clean(t) /\ ~isPreviewed /\ \A u \in Threads \ {t} : at[u] \in {"new", "ended"}
<1>1. Alone(t) /\ ~StopLast(t)
  BY DEF AloneInv, Alive, EndThread, StopLast
<1> QED
  BY <1>1 DEF Alone, AlonePointers, AloneHolds, EndThread

LEMMA ShownStep ==
  ASSUME TypeOK, AloneInv, ShownInv, Next
  PROVE  ShownInv'
<1> USE DEF fields, history
<1>n. Main \notin Threads
  BY ClientConstants
<1>1. ASSUME UNCHANGED <<isPreviewed, overlap>>,
             \A t \in Threads : at'[t] = at[t] \/ at'[t] \notin {"new", "ended"}
      PROVE  ShownInv'
  BY <1>1 DEF ShownInv, Alive
<1>2. CASE Elsewhere \/ MakeHandler \/ SendStart
  <2>1. UNCHANGED <<isPreviewed, overlap>> /\ \A t \in Threads : at'[t] = at[t]
    BY <1>n, <1>2, GoFacts DEF Elsewhere, MakeHandler, SendStart, Places
  <2> QED
    BY <1>1, <2>1
<1>3. ASSUME NEW t \in Threads, Opening(t)
      PROVE  ShownInv'
  <2>1. at'[t] = "idle"
    BY <1>n, <1>3 DEF Opening, OpenCamera, TypeOK
  <2> QED
    BY <2>1 DEF ShownInv, Alive
<1>4. ASSUME NEW p \in Threads \cup {Main}, CloseStep(p)
      PROVE  ShownInv'
  BY <1>1, <1>4, Closer
<1>5. ASSUME NEW t \in Threads, ThreadMoves(t)
      PROVE  ShownInv'
  <2>1. SUFFICES ASSUME overlap' = {}, Alive' = {} PROVE ~isPreviewed'
    BY DEF ShownInv
  <2>2. EndThread(t) /\ t \notin overlap
    BY <1>5, <2>1, Mover DEF Alive
  <2> QED
    BY <2>2, AloneEnds DEF EndThread
<1> QED
  BY <1>2, <1>3, <1>4, <1>5, Steps DEF ThreadMoves

LEMMA EndedStep ==
  ASSUME TypeOK, EndedInv, Next
  PROVE  EndedInv'
<1> USE DEF loopers
<1>n. Main \notin Threads /\ None \notin Threads /\ {"start", "stop"} = Kinds
  BY ClientConstants DEF Kinds
<1>1. CASE Elsewhere \/ MakeHandler
  BY <1>n, <1>1, GoFacts DEF Elsewhere, MakeHandler, EndedInv, Places
<1>2. ASSUME NEW t \in Threads, Opening(t)
      PROVE  EndedInv'
  <2>1. UNCHANGED loopers /\ \A u \in Threads : at'[u] = "ended" => at[u] = "ended"
    BY <1>n, <1>2 DEF Opening, OpenCamera, TypeOK
  <2> QED
    BY <2>1 DEF EndedInv
<1>3. CASE SendStart
  <2>1. quitting' = quitting /\ \A u \in Threads : at'[u] = at[u]
    BY <1>n, <1>3, GoFacts DEF SendStart, Places
  <2>2. \A u \in Threads : u \in quitting => queue'[u] = queue[u]
    BY <1>n, <1>3, SendFacts DEF SendStart, TypeOK
  <2> QED
    BY <2>1, <2>2 DEF EndedInv
<1>4. ASSUME NEW p \in Threads \cup {Main}, CloseStep(p)
      PROVE  EndedInv'
  <2>1. \A u \in Threads : at'[u] = "ended" => at[u] = "ended"
    BY <1>4, Closer
  <2>2. /\ quitting \subseteq quitting'
        /\ \A u \in Threads : u \in quitting => queue'[u] = queue[u]
    <3>1. CASE SendStop(p)
      BY <1>n, <3>1, SendFacts DEF SendStop, TypeOK
    <3>2. CASE ~SendStop(p)
      BY <1>4, <3>2 DEF CloseStep, QuitThread, ClearThread, ClearHandler
    <3> QED
      BY <3>1, <3>2
  <2> QED
    BY <2>1, <2>2 DEF EndedInv
<1>5. ASSUME NEW t \in Threads, ThreadMoves(t)
      PROVE  EndedInv'
  <2>1. \A u \in Threads \ {t} : at'[u] = at[u] /\ queue'[u] = queue[u]
    BY <1>5, Mover
  <2>2. quitting' = quitting /\ (at'[t] = "ended" => EndThread(t))
    BY <1>5, Mover
  <2>3. EndThread(t) => t \in quitting /\ queue'[t] = <<>>
    BY DEF EndThread
  <2> QED
    BY <2>1, <2>2, <2>3 DEF EndedInv
<1> QED
  BY <1>1, <1>2, <1>3, <1>4, <1>5, Steps DEF ThreadMoves

-----------------------------------------------------------------------------
LEMMA IInvInit ==
  ASSUME Init
  PROVE  IInv
<1>n. None \notin Threads /\ Main \notin Threads /\ MaxEvents \in Nat
  BY ClientConstants
<1>1. /\ \A t \in Threads : at[t] = "new" /\ Clean(t) /\ queue[t] = <<>>
      /\ at[Main] = "idle"
  BY <1>n DEF Init, Clean, Taken
<1>2. TypeOK
  <2>0. <<>> \in Seq(PostKinds) /\ <<>> \in Seq(Kinds)
    OBVIOUS
  <2>1. ElsewhereType
    <3>1. posts \in Seq(PostKinds)
      BY <2>0 DEF Init
    <3>2. events \in 0..MaxEvents /\ reopens \in Nat
      BY <1>n DEF Init
    <3> QED
      BY <3>1, <3>2 DEF Init, ElsewhereType
  <2>2. CameraType
    <3>1. at \in [Threads \cup {Main} -> Places]
      BY DEF Init, Places
    <3>2. queue \in [Threads -> Seq(Kinds)]
      BY <2>0 DEF Init
    <3> QED
      BY <3>1, <3>2 DEF Init, CameraType
  <2> QED
    BY <2>1, <2>2, TypeParts
<1>3. NewInv /\ CleanInv /\ OpenInv
  BY <1>n, <1>1 DEF Init, NewInv, CleanInv, OpenInv
<1>4. StopInv /\ AloneInv /\ ShownInv /\ EndedInv
  BY <1>1 DEF Init, StopInv, AloneInv, ShownInv, EndedInv, Alive
<1> QED
  BY <1>2, <1>3, <1>4 DEF IInv

LEMMA IInvStep ==
  ASSUME IInv, [Next]_vars
  PROVE  IInv'
<1>1. CASE Next
  BY <1>1, TypeStep, NewStep, CleanStep, OpenStep, StopInvStep, AloneStep,
    ShownStep, EndedStep DEF IInv
<1>2. CASE UNCHANGED vars
  <2>1. TypeOK'
    BY <1>2, TypeStep DEF IInv
  <2>2. /\ UNCHANGED <<thread, handler, opening, uvcCamera, renderManager,
                       isPreviewed, render, cam, queue, quitting, at, told,
                       stopped, overlap>>
    BY <1>2 DEF vars, pointers, fields, objects, loopers, app, history
  <2>3. NewInv' /\ OpenInv' /\ EndedInv'
    BY <2>2 DEF IInv, NewInv, OpenInv, EndedInv
  <2>4. CleanInv' /\ ShownInv'
    BY <2>2 DEF IInv, CleanInv, ShownInv, Clean, Taken, Alive
  <2>5. StopInv'
    BY <2>2 DEF IInv, StopInv, StopLast, Over
  <2>6. AloneInv'
    <3>1. ASSUME NEW t \in Alive \ overlap, Alone(t)
          PROVE  Alone(t)'
      <4>1. AlonePointers(t)'
        BY <2>2, <3>1 DEF Alone, AlonePointers
      <4>2. AloneHolds(t)'
        BY <2>2, <3>1 DEF Alone, AloneHolds, Clean, Taken, StartQueued,
          StartFirst, StopLast
      <4> QED
        BY <4>1, <4>2 DEF Alone
    <3> QED
      BY <2>2, <3>1 DEF IInv, AloneInv, Alive
  <2> QED
    BY <2>1, <2>3, <2>4, <2>5, <2>6 DEF IInv
<1> QED
  BY <1>1, <1>2

THEOREM Invariance == Spec => []IInv
BY IInvInit, IInvStep, PTL DEF Spec

(* Every variable has its type, for any number of camera threads however    *)
(* their sessions overlap.                                                  *)
THEOREM TypeCorrect == Spec => []TypeOK
<1>1. IInv => TypeOK
  BY DEF IInv
<1> QED
  BY <1>1, Invariance, PTL

(* A session that nobody overlapped has given back its camera and its       *)
(* renderer when its thread has ended, whatever failed, whoever closed it,  *)
(* and whatever sessions that did overlap have left behind before it.       *)
THEOREM Released == Spec => []ClosedIsReleased
<1>1. IInv => ClosedIsReleased
  BY DEF IInv, CleanInv, ClosedIsReleased, Clean
<1> QED
  BY <1>1, Invariance, PTL

(* A camera thread that got a stop, overlapped or not, is not the last to   *)
(* tell the app that it is open once it has ended.                          *)
THEOREM AppKnows == Spec => []AppKnowsItIsClosed
<1>1. ASSUME IInv PROVE AppKnowsItIsClosed
  <2>1. \A t \in stopped : t \in Threads /\ (at[t] = "ended" => ~StopLast(t))
    BY <1>1 DEF IInv, EndedInv, TypeOK, StopLast
  <2> QED
    BY <1>1, <2>1 DEF IInv, StopInv, Over, AppKnowsItIsClosed
<1> QED
  BY <1>1, Invariance, PTL

-----------------------------------------------------------------------------
(* The lease. *)
Renderers == {t \in Threads : render[t] = "running"}

(* Before the first overlap, one thread only can have what there is to have. *)
LEMMA LoneThread ==
  ASSUME IInv, overlap = {}, NEW t \in Threads, at[t] \notin {"new", "ended"}
  PROVE  /\ Alone(t)
         /\ Taken \subseteq {t} /\ Renderers \subseteq {t}
         /\ uvcCamera \in {t, None} /\ renderManager \in {t, None}
<1>1. Alone(t)
  BY DEF IInv, AloneInv, Alive
<1>2. \A u \in Threads : u # t => Clean(u)
  BY <1>1 DEF Alone, AlonePointers, IInv, CleanInv
<1>3. Taken \subseteq Threads /\ Renderers \subseteq Threads
  BY DEF Taken, Renderers
<1>4. {uvcCamera, renderManager} \subseteq Threads \cup {None}
  BY DEF IInv, TypeOK
<1> QED
  BY <1>1, <1>2, <1>3, <1>4 DEF Clean, Renderers

LEMMA LeaseMoves ==
  ASSUME IInv, overlap = {}, NEW t \in Threads, ThreadMoves(t)
  PROVE  Lease!Next \/ UNCHANGED Lease!vars
<1> USE DEF fields, objects, Renderers
<1>n. None \notin Threads /\ TypeOK
  BY ClientConstants DEF IInv
<1>m. /\ at[t] \notin {"new", "ended"} /\ at'[t] # "new"
      /\ at'[t] = "ended" => EndThread(t)
      /\ \A u \in Threads \ {t} : at'[u] = at[u]
  BY <1>n, Mover
<1>1. /\ Alone(t) /\ AloneHolds(t)
      /\ Taken \subseteq {t} /\ Renderers \subseteq {t}
      /\ uvcCamera \in {t, None} /\ renderManager \in {t, None}
  BY <1>m, LoneThread DEF Alone
<1>2. (Alive # {}) /\ (~EndThread(t) => (Alive # {})')
  BY <1>m DEF Alive
<1>3. CASE UNCHANGED <<cam, render, isPreviewed>> /\ ~EndThread(t)
  BY <1>2, <1>3 DEF Lease!vars, Taken
<1>4. CASE StartRenderScreen(t)
  <2>1. UNCHANGED <<cam, isPreviewed>> /\ ~EndThread(t) /\ at[t] = "render"
    BY <1>4 DEF StartRenderScreen, EndThread
  <2>2. Renderers = {} /\ Taken' = Taken
    BY <1>1, <2>1 DEF AloneHolds, Taken
  <2>3. render' = render \/ Renderers' = {t}
    BY <1>n, <1>1, <1>4, <2>2 DEF StartRenderScreen, TypeOK
  <2> QED
    BY <1>2, <1>3, <2>1, <2>2, <2>3 DEF Lease!Next, Lease!TakeRenderer
<1>5. CASE OpenInternal(t)
  <2>1. UNCHANGED <<render, isPreviewed>> /\ ~EndThread(t) /\ at[t] = "open"
    BY <1>5 DEF OpenInternal, EndThread
  <2>2. Taken = {} /\ Renderers' = Renderers
    BY <1>1, <2>1 DEF AloneHolds
  <2>3. cam' = cam \/ Taken' = {t}
    BY <1>n, <1>5, <2>2 DEF OpenInternal, TypeOK, Taken
  <2> QED
    BY <1>2, <1>3, <2>1, <2>2, <2>3 DEF Lease!Next, Lease!TakeCamera
<1>6. CASE StartPreview(t)
  <2>1. UNCHANGED <<render, isPreviewed>> /\ ~EndThread(t)
    BY <1>6 DEF StartPreview, EndThread
  <2>2. Taken' = Taken /\ Renderers' = Renderers
    BY <1>n, <1>6, <2>1 DEF StartPreview, TypeOK, Taken
  <2> QED
    BY <1>2, <2>1, <2>2 DEF Lease!vars
<1>7. CASE Announce(t)
  <2>1. /\ UNCHANGED <<cam, render>> /\ ~EndThread(t) /\ isPreviewed'
        /\ at[t] = "announce"
    BY <1>7 DEF Announce, EndThread
  <2>2. Taken # {} /\ Taken' = Taken /\ Renderers' = Renderers
    BY <1>n, <1>1, <2>1 DEF AloneHolds, Taken
  <2> QED
    BY <1>2, <2>1, <2>2 DEF Lease!Next, Lease!Show
<1>8. CASE Stop(t)
  <2>1. UNCHANGED <<cam, render>> /\ ~EndThread(t) /\ ~isPreviewed'
    BY <1>n, <1>8, TakeFacts, GoFacts DEF Stop, EndThread, Kinds, Places
  <2>2. Taken' = Taken /\ Renderers' = Renderers
    BY <2>1 DEF Taken
  <2> QED
    BY <1>2, <2>1, <2>2 DEF Lease!Next, Lease!Hide
<1>9. CASE DestroyCamera(t)
  <2>1. /\ UNCHANGED <<render, isPreviewed>> /\ ~EndThread(t)
        /\ at[t] = "destroy"
    BY <1>9 DEF DestroyCamera, EndThread
  <2>2. ~isPreviewed /\ Renderers' = Renderers
    BY <1>1, <2>1 DEF AloneHolds
  <2>3. Taken' = Taken \/ (Taken # {} /\ Taken' = {})
    BY <1>n, <1>1, <1>9 DEF DestroyCamera, Taken, Stuck, TypeOK
  <2> QED
    BY <1>2, <2>1, <2>2, <2>3 DEF Lease!Next, Lease!GiveCamera, Lease!vars
<1>10. CASE StopRenderScreen(t)
  <2>1. /\ UNCHANGED <<cam, isPreviewed>> /\ ~EndThread(t)
        /\ at[t] = "release"
    BY <1>10 DEF StopRenderScreen, EndThread
  <2>2. ~isPreviewed /\ Taken = {} /\ Taken' = Taken
    BY <1>1, <2>1 DEF AloneHolds, Taken
  <2>3. Renderers' = Renderers \/ (Renderers # {} /\ Renderers' = {})
    <3>1. CASE render' = render
      BY <3>1
    <3>2. CASE renderManager # None /\ render[renderManager] = "running"
      <4>1. renderManager = t /\ render' = [render EXCEPT ![t] = "released"]
        BY <1>1, <1>10, <3>2 DEF StopRenderScreen
      <4>2. t \in Renderers /\ render'[t] = "released" /\ Renderers' \subseteq Renderers
        BY <1>n, <3>2, <4>1 DEF TypeOK
      <4> QED
        BY <1>1, <4>2
    <3> QED
      BY <1>10, <3>1, <3>2 DEF StopRenderScreen
  <2> QED
    BY <1>2, <2>1, <2>2, <2>3 DEF Lease!Next, Lease!GiveRenderer, Lease!vars
<1>11. CASE EndThread(t)
  <2>1. Clean(t) /\ ~isPreviewed /\ \A u \in Threads \ {t} : at[u] \in {"new", "ended"}
    BY <1>11, AloneEnds DEF IInv
  <2>2. UNCHANGED <<cam, render, isPreviewed>> /\ at'[t] = "ended"
    BY <1>n, <1>11, GoFacts DEF EndThread, Places
  <2>3. Taken = {} /\ Renderers = {} /\ Taken' = Taken /\ Renderers' = Renderers
    BY <1>1, <2>1, <2>2 DEF Clean, Taken
  <2>4. ~(Alive # {})'
    BY <1>m, <2>1, <2>2 DEF Alive
  <2> QED
    BY <1>2, <2>1, <2>2, <2>3, <2>4 DEF Lease!Next, Lease!End
<1>12. CASE \/ Start(t) \/ MakeRenderManager(t) \/ Configure(t)
            \/ ReportError(t) \/ ClearCamera(t) \/ ClearRenderManager(t)
  <2>1. UNCHANGED <<cam, render, isPreviewed>>
    BY <1>12 DEF Start, MakeRenderManager, Configure, ReportError,
      ClearCamera, ClearRenderManager
  <2> QED
    BY <1>3, <1>11, <2>1
<1> QED
  BY <1>4, <1>5, <1>6, <1>7, <1>8, <1>9, <1>10, <1>11, <1>12
  DEF ThreadMoves, StartStep, StopStep

LEMMA LeaseStep ==
  ASSUME IInv, [Next]_vars
  PROVE  overlap' # {} \/ Lease!Next \/ UNCHANGED Lease!vars
<1> USE DEF fields, objects, history, Renderers
<1>n. Main \notin Threads /\ TypeOK
  BY ClientConstants DEF IInv
<1>1. ASSUME UNCHANGED <<cam, render, isPreviewed>>,
             \A t \in Threads : at'[t] = at[t] \/ {at[t], at'[t]} \cap {"new", "ended"} = {}
      PROVE  UNCHANGED Lease!vars
  <2>1. Alive' = Alive
    BY <1>1 DEF Alive
  <2> QED
    BY <1>1, <2>1 DEF Lease!vars, Taken
<1>2. CASE Elsewhere \/ MakeHandler \/ SendStart \/ UNCHANGED vars
  <2>1. UNCHANGED <<cam, render, isPreviewed>> /\ \A t \in Threads : at'[t] = at[t]
    BY <1>n, <1>2, GoFacts DEF Elsewhere, MakeHandler, SendStart, vars, Places
  <2> QED
    BY <1>1, <2>1
<1>3. ASSUME NEW t \in Threads, Opening(t)
      PROVE  overlap' # {} \/ Lease!Next
  <2>1. Alive # {} => overlap' # {}
    BY <1>3 DEF Opening, OpenCamera
  <2>2. at'[t] = "idle" /\ UNCHANGED <<cam, render, isPreviewed>>
    BY <1>n, <1>3 DEF Opening, OpenCamera, TypeOK
  <2>3. (Alive # {})' /\ Taken' = Taken /\ Renderers' = Renderers
    BY <2>2 DEF Alive, Taken
  <2> QED
    BY <2>1, <2>2, <2>3 DEF Lease!Next, Lease!Begin
<1>4. ASSUME NEW p \in Threads \cup {Main}, CloseStep(p)
      PROVE  UNCHANGED Lease!vars
  <2>1. UNCHANGED <<cam, render, isPreviewed>>
    BY <1>n, <1>4, Closer
  <2>2. \A t \in Threads : at'[t] = at[t] \/ {at[t], at'[t]} \cap {"new", "ended"} = {}
    BY <1>n, <1>4, Closer
  <2> QED
    BY <1>1, <2>1, <2>2
<1>5. ASSUME NEW t \in Threads, ThreadMoves(t)
      PROVE  overlap' # {} \/ Lease!Next \/ UNCHANGED Lease!vars
  BY <1>n, <1>5, Mover, LeaseMoves
<1> QED
  BY <1>2, <1>3, <1>4, <1>5, Steps DEF ThreadMoves

(* The client keeps CameraLease until two sessions overlap.                 *)
THEOREM Refinement == Spec => KeepsLease
<1>1. Init => Lease!Init
  BY ClientConstants DEF Init, Lease!Init, Alive, Taken
<1> QED
  BY <1>1, Invariance, LeaseStep, PTL DEF Spec, KeepsLease

=============================================================================

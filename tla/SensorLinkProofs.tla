-------------------------- MODULE SensorLinkProofs --------------------------
(***************************************************************************)
(* The sensor program of SensorLink, for any number of threads, sockets,   *)
(* resumes and messages: while it is not connected somebody tries to       *)
(* connect it, until a send fails beside a connecting thread there is one  *)
(* such thread and no open socket is lost, and no message is shown twice.  *)
(***************************************************************************)
EXTENDS SensorLink, FiniteSetTheorems, SequenceTheorems, TLAPS

(* What the one thread knows where it stands, ... *)
ThreadInv ==
  \A t \in Alive :
    /\ \A u \in Alive : t = u
    /\ thread[t] = "test" => connected \/ Held = {}
    /\ thread[t] \in {"find", "make", "reset"} => ~connected /\ Held = {}
    /\ thread[t] \in {"connect", "close"} => ~connected
    /\ thread[t] = "note" => ~connected /\ sock # 0
    /\ thread[t] = "enable" => connected

(* ... what the main loop knows, ... *)
GuiInv ==
  /\ gui \in {"drop", "restart"} => Alive = {} /\ ~connected /\ button = "disabled"
  /\ gui = "restart" => Held = {}
  /\ gui \in {"send", "fail"} => button = "normal"

(* ... and what the globals mean to each other. *)
GlobalInv ==
  /\ button = "normal" => connected /\ \A t \in Alive : thread[t] = "test"
  /\ connected => sock # 0
  /\ gui # "closed" => Held \subseteq {sock}

LinkInv == ~overlapped => ThreadInv /\ GuiInv /\ GlobalInv

(* A send has room in the bound. *)
RoomInv == gui = "send" => lines < MaxLines

IInv == TypeOK /\ RoomInv /\ SomeoneTries /\ LinkInv

-----------------------------------------------------------------------------
LEMMA InitInv == Init => IInv
<1> SUFFICES ASSUME Init PROVE IInv
  OBVIOUS
<1> USE SensorConstants DEF Init
<1>1. 1 \in Threads /\ Alive = {1} /\ thread[1] = "test"
  BY DEF Threads, Alive
<1>2. Held = {}
  BY DEF Held
<1>3. TypeOK
  <2>1. pipe \in [Sockets -> Seq(1 .. MaxLines)] /\ ui \in Seq(1 .. MaxLines)
    OBVIOUS
  <2>2. /\ thread \in [Threads -> {"unborn", "test", "find", "make", "connect", "note", "enable",
                                   "close", "reset", "ended"}]
        /\ server \in [Sockets -> 0 .. MaxResumes]
    OBVIOUS
  <2>3. /\ link \in [Sockets -> {"unused", "made", "up", "down", "closed"}]
        /\ acceptor \in [Servers -> {"none", "accepting", "done"}]
        /\ reader \in [Sockets -> {"none", "reading", "ended"}]
    OBVIOUS
  <2>4. /\ sock \in 0 .. MaxSockets /\ lines \in 0 .. MaxLines /\ losses \in 0 .. MaxLosses
        /\ bars \in 0 .. MaxLines
    OBVIOUS
  <2> QED
    BY <2>1, <2>2, <2>3, <2>4 DEF TypeOK
<1> QED
  BY <1>1, <1>2, <1>3 DEF IInv, RoomInv, SomeoneTries, LinkInv, ThreadInv, GuiInv, GlobalInv

(* Closing the socket that is there leaves the others as they are. *)
LEMMA HangupFacts ==
  ASSUME TypeOK, Hangup
  PROVE  /\ link' \in [Sockets -> {"unused", "made", "up", "down", "closed"}]
         /\ Held' = Held \ {sock}
<1>1. link' \in [Sockets -> {"unused", "made", "up", "down", "closed"}]
  BY DEF Hangup, TypeOK
<1>2. \A c \in Sockets : link'[c] = IF c = sock THEN "closed" ELSE link[c]
  BY DEF Hangup
<1> QED
  BY <1>1, <1>2 DEF Held

LEMMA TypeStep ==
  ASSUME TypeOK, RoomInv, [Next]_vars
  PROVE  TypeOK'
<1> USE SensorConstants DEF sensor, control, stack, screen, Goes
<1>1. ASSUME NEW t \in Threads, AutoConnect(t) PROVE TypeOK'
  <2>1. CASE Test(t) \/ Find(t)
    BY <2>1 DEF Test, Find, TypeOK
  <2>2. CASE Make(t)
    <3>1. PICK c \in Sockets : link' = [link EXCEPT ![c] = "made"] /\ sock' = c
      BY <2>2 DEF Make
    <3>2. sock' \in 0 .. MaxSockets
      BY <3>1 DEF Sockets
    <3> QED
      BY <2>2, <3>1, <3>2 DEF Make, TypeOK
  <2>3. CASE Connect(t)
    <3>1. server' \in [Sockets -> 0 .. MaxResumes]
      <4>1. CASE UNCHANGED server
        BY <4>1 DEF TypeOK
      <4>2. CASE \E r \in Resumed : server' = [server EXCEPT ![sock] = r]
        <5>1. PICK r \in Resumed : server' = [server EXCEPT ![sock] = r]
          BY <4>2
        <5>2. r \in 0 .. MaxResumes
          BY DEF Resumed, Servers
        <5> QED
          BY <5>1, <5>2 DEF TypeOK
      <4> QED
        BY <2>3, <4>1, <4>2 DEF Connect
    <3>2. link' \in [Sockets -> {"unused", "made", "up", "down", "closed"}]
      <4>1. CASE link' = [link EXCEPT ![sock] = "up"]
        BY <4>1 DEF TypeOK
      <4>2. CASE link' = link
        BY <4>2 DEF TypeOK
      <4> QED
        BY <2>3, <4>1, <4>2 DEF Connect
    <3> QED
      BY <2>3, <3>1, <3>2 DEF Connect, TypeOK
  <2>4. CASE Note(t) \/ Enable(t) \/ Reset(t)
    BY <2>4 DEF Note, Enable, Reset, TypeOK
  <2>5. CASE CloseSocket(t)
    BY <2>5, HangupFacts DEF CloseSocket, TypeOK
  <2> QED
    BY <1>1, <2>1, <2>2, <2>3, <2>4, <2>5 DEF AutoConnect
<1>2. CASE Send
  BY <1>2 DEF Send, TypeOK
<1>3. CASE Write
  <2>1. lines' \in 0 .. MaxLines /\ pipe' \in [Sockets -> Seq(1 .. MaxLines)] /\ gui' \in {"idle", "fail"}
    <3>1. CASE UNCHANGED <<lines, pipe>>
      BY <1>3, <3>1 DEF Write, TypeOK
    <3>2. CASE lines' = lines + 1 /\ sock # 0
               /\ pipe' = IF link[sock] = "up" THEN [pipe EXCEPT ![sock] = Append(@, lines')] ELSE pipe
      <4>1. lines' \in 1 .. MaxLines
        BY <1>3, <3>2 DEF Write, RoomInv, TypeOK
      <4>2. sock \in Sockets /\ pipe[sock] \in Seq(1 .. MaxLines)
        BY <3>2 DEF TypeOK, Sockets
      <4>3. Append(pipe[sock], lines') \in Seq(1 .. MaxLines)
        BY <4>1, <4>2
      <4>4. pipe' \in [Sockets -> Seq(1 .. MaxLines)]
        BY <3>2, <4>3 DEF TypeOK
      <4> QED
        BY <1>3, <4>1, <4>4 DEF Write
    <3> QED
      BY <1>3, <3>1, <3>2 DEF Write
  <2> QED
    BY <1>3, <2>1 DEF Write, TypeOK
<1>4. CASE Fail
  BY <1>4 DEF Fail, TypeOK
<1>5. CASE Drop
  BY <1>5, HangupFacts DEF Drop, TypeOK
<1>6. CASE Restart
  BY <1>6 DEF Restart, TypeOK
<1>7. CASE OnClosing
  BY <1>7 DEF OnClosing, TypeOK
<1>8. ASSUME NEW c \in Sockets, LoseLink(c) PROVE TypeOK'
  <2>1. pipe' \in [Sockets -> Seq(1 .. MaxLines)]
    <3>1. <<>> \in Seq(1 .. MaxLines)
      OBVIOUS
    <3>2. CASE pipe' = [pipe EXCEPT ![c] = <<>>]
      BY <3>1, <3>2 DEF TypeOK
    <3>3. CASE pipe' = pipe
      BY <3>3 DEF TypeOK
    <3> QED
      BY <1>8, <3>2, <3>3 DEF LoseLink
  <2>2. losses' \in 0 .. MaxLosses
    BY <1>8 DEF LoseLink, TypeOK
  <2> QED
    BY <1>8, <2>1, <2>2 DEF LoseLink, TypeOK
<1>9. CASE OnResume
  BY <1>9 DEF OnResume, TypeOK
<1>10. ASSUME NEW s \in Servers, Accept(s) PROVE TypeOK'
  BY <1>10 DEF Accept, TypeOK
<1>16. ASSUME NEW s \in Servers, AcceptFails(s) PROVE TypeOK'
  BY <1>16 DEF AcceptFails, CrashApp, TypeOK
<1>11. ASSUME NEW c \in Sockets, Read(c) PROVE TypeOK'
  <2>1. pipe[c] \in Seq(1 .. MaxLines) /\ pipe[c] # <<>>
    BY <1>11 DEF Read, TypeOK
  <2>2. Tail(pipe[c]) \in Seq(1 .. MaxLines) /\ Head(pipe[c]) \in 1 .. MaxLines
    BY <2>1, HeadTailProperties
  <2>3. pipe' \in [Sockets -> Seq(1 .. MaxLines)]
    BY <1>11, <2>2 DEF Read, TypeOK
  <2>4. ui' \in Seq(1 .. MaxLines) /\ fragment' \in {"attached", "destroyed", "crashed"}
    <3>1. Append(ui, Head(pipe[c])) \in Seq(1 .. MaxLines)
      BY <2>2 DEF TypeOK
    <3> QED
      BY <1>11, <3>1 DEF Read, CrashApp, TypeOK
  <2>5. link' \in [Sockets -> {"unused", "made", "up", "down", "closed"}]
    BY <1>11 DEF Read, CrashApp, TypeOK
  <2> QED
    BY <1>11, <2>3, <2>4, <2>5 DEF Read, TypeOK
<1>12. ASSUME NEW c \in Sockets, EndOfStream(c) PROVE TypeOK'
  BY <1>12 DEF EndOfStream, TypeOK
<1>13. CASE Draw
  <2>1. Tail(ui) \in Seq(1 .. MaxLines) /\ Head(ui) \in 0 .. MaxLines
    BY <1>13 DEF Draw, TypeOK
  <2> QED
    BY <1>13, <2>1 DEF Draw, TypeOK
<1>14. CASE OnDestroy
  BY <1>14 DEF OnDestroy, TypeOK
<1>15. CASE UNCHANGED vars
  BY <1>15 DEF vars, TypeOK
<1> QED
  BY <1>1, <1>2, <1>3, <1>4, <1>5, <1>6, <1>7, <1>8, <1>9, <1>10, <1>11, <1>12, <1>13, <1>14, <1>15, <1>16
  DEF Next, SendValues

(* A message is sent only when there is room. *)
LEMMA RoomStep ==
  ASSUME TypeOK, RoomInv, [Next]_vars
  PROVE  RoomInv'
BY DEF Next, AutoConnect, SendValues, RoomInv, sensor, control, stack, screen, vars,
       Test, Find, Make, Connect, Note, Enable, CloseSocket, Reset, Send, Write, Fail, Drop,
       Restart, OnClosing, LoseLink, OnResume, Accept, AcceptFails, CrashApp, Read, EndOfStream, Draw, OnDestroy

(* A thread that goes to a line is alive, and no other changes. *)
LEMMA Going ==
  ASSUME TypeOK, NEW t \in Threads, NEW line, Goes(t, line)
  PROVE  /\ line \in {"test", "find", "make", "connect", "note", "enable", "close", "reset"}
              => Alive' = Alive \cup {t}
         /\ line = "ended" => Alive' = Alive \ {t}
         /\ thread'[t] = line
         /\ \A u \in Threads : u # t => thread'[u] = thread[u]
<1>1. thread'[t] = line /\ \A u \in Threads : u # t => thread'[u] = thread[u]
  BY DEF Goes, TypeOK
<1> QED
  BY <1>1 DEF Alive

LEMMA TriesStep ==
  ASSUME TypeOK, SomeoneTries, [Next]_vars
  PROVE  SomeoneTries'
<1> USE DEF sensor, control, stack, screen
<1>1. ASSUME NEW t \in Threads, AutoConnect(t) PROVE SomeoneTries'
  <2>1. CASE Test(t) /\ connected
    BY <2>1 DEF Test, SomeoneTries
  <2>2. ASSUME NEW line \in {"test", "find", "make", "connect", "note", "enable", "close", "reset"}, Goes(t, line)
        PROVE  SomeoneTries'
    BY <2>2, Going DEF SomeoneTries
  <2> QED
    BY <1>1, <2>1, <2>2 DEF AutoConnect, Test, Find, Make, Connect, Note, Enable, CloseSocket, Reset
<1>2. CASE Restart
  BY <1>2, Going DEF Restart, SomeoneTries
<1>3. CASE Write \/ Fail \/ Drop \/ OnClosing
  BY <1>3 DEF Write, Fail, Drop, OnClosing, SomeoneTries, Alive
<1>4. CASE UNCHANGED <<thread, connected, gui>> \/ Send
  BY <1>4 DEF Send, SomeoneTries, Alive
<1> QED
  BY <1>1, <1>2, <1>3, <1>4
  DEF Next, SendValues, LoseLink, OnResume, Accept, AcceptFails, CrashApp, Read, EndOfStream, Draw, OnDestroy, vars

(* The sockets the sensor holds do not change when a link goes up or down. *)
LEMMA SameHeld ==
  ASSUME TypeOK, \A c \in Sockets : link'[c] = link[c] \/ {link[c], link'[c]} \subseteq {"made", "up", "down"}
  PROVE  Held' = Held
BY DEF Held

(* The only thread alive takes a step. *)
LEMMA LinkThread ==
  ASSUME IInv, LinkInv, NEW t \in Threads, AutoConnect(t), ~overlapped
  PROVE  (ThreadInv /\ GuiInv /\ GlobalInv)'
<1> USE DEF sensor, control, stack, screen, LinkInv, Here
<1>1. t \in Alive /\ \A u \in Alive : u = t
  BY DEF AutoConnect, Test, Find, Make, Connect, Note, Enable, CloseSocket, Reset,
         ThreadInv, Alive
<1>2. gui \in {"idle", "send", "fail"} /\ gui' = gui /\ overlapped' = overlapped
  BY <1>1 DEF AutoConnect, Test, Find, Make, Connect, Note, Enable, CloseSocket, Reset,
              IInv, TypeOK, GuiInv
<1>3. ASSUME NEW line \in {"test", "find", "make", "connect", "note", "enable", "close", "reset"}, Goes(t, line)
      PROVE  Alive' = {t} /\ thread'[t] = line
  BY <1>1, <1>3, Going DEF IInv
<1>4. TypeOK
  BY DEF IInv
<1>5. CASE Test(t)
  <2>1. CASE connected
    <3>1. Alive' = {} /\ Held' = Held
      BY <1>1, <1>4, <1>5, <2>1, Going DEF Test, Held
    <3> QED
      BY <1>1, <1>2, <1>5, <2>1, <3>1 DEF Test, ThreadInv, GuiInv, GlobalInv
  <2>2. CASE ~connected
    <3>1. Alive' = {t} /\ thread'[t] = "find" /\ Held' = Held
      BY <1>3, <1>5, <2>2 DEF Test, Held
    <3> QED
      BY <1>1, <1>2, <1>5, <2>2, <3>1 DEF Test, ThreadInv, GuiInv, GlobalInv
  <2> QED
    BY <2>1, <2>2
<1>6. CASE Find(t)
  <2>1. Alive' = {t} /\ thread'[t] \in {"make", "test", "close"} /\ Held' = Held
    BY <1>3, <1>6 DEF Find, Held
  <2> QED
    BY <1>1, <1>2, <1>6, <2>1 DEF Find, ThreadInv, GuiInv, GlobalInv
<1>7. CASE Make(t)
  <2>1. Alive' = {t} /\ thread'[t] = "connect"
    BY <1>3, <1>7 DEF Make
  <2>2. Held' \subseteq {sock'}
    <3>1. Held = {} /\ \E c \in Sockets : link' = [link EXCEPT ![c] = "made"] /\ sock' = c
      BY <1>1, <1>7 DEF Make, ThreadInv
    <3> QED
      BY <1>4, <3>1 DEF Held, TypeOK
  <2> QED
    BY <1>1, <1>2, <1>7, <2>1, <2>2 DEF Make, ThreadInv, GuiInv, GlobalInv
<1>8. CASE Connect(t)
  <2>1. Alive' = {t} /\ thread'[t] \in {"note", "close"} /\ (thread'[t] = "note" => sock # 0)
    BY <1>3, <1>8 DEF Connect
  <2>2. Held' = Held
    BY <1>4, <1>8, SameHeld DEF Connect, TypeOK
  <2> QED
    BY <1>1, <1>2, <1>8, <2>1, <2>2 DEF Connect, ThreadInv, GuiInv, GlobalInv
<1>9. CASE Note(t)
  <2>1. Alive' = {t} /\ thread'[t] = "enable" /\ Held' = Held
    BY <1>3, <1>9 DEF Note, Held
  <2> QED
    BY <1>1, <1>2, <1>9, <2>1 DEF Note, ThreadInv, GuiInv, GlobalInv
<1>10. CASE Enable(t)
  <2>1. Alive' = {t} /\ thread'[t] = "test" /\ Held' = Held
    BY <1>3, <1>10 DEF Enable, Held
  <2> QED
    BY <1>1, <1>2, <1>10, <2>1 DEF Enable, ThreadInv, GuiInv, GlobalInv
<1>11. CASE CloseSocket(t)
  <2>1. Alive' = {t} /\ thread'[t] = "reset"
    BY <1>3, <1>11 DEF CloseSocket
  <2>2. Held' = {}
    BY <1>2, <1>4, <1>11, HangupFacts DEF CloseSocket, GlobalInv
  <2> QED
    BY <1>1, <1>2, <1>11, <2>1, <2>2 DEF CloseSocket, ThreadInv, GuiInv, GlobalInv
<1>12. CASE Reset(t)
  <2>1. Alive' = {t} /\ thread'[t] = "test" /\ Held' = Held
    BY <1>3, <1>12 DEF Reset, Held
  <2> QED
    BY <1>1, <1>2, <1>12, <2>1 DEF Reset, ThreadInv, GuiInv, GlobalInv
<1> QED
  BY <1>5, <1>6, <1>7, <1>8, <1>9, <1>10, <1>11, <1>12 DEF AutoConnect

LEMMA LinkStep ==
  ASSUME IInv, [Next]_vars
  PROVE  LinkInv'
<1> USE DEF sensor, control, stack, screen
<1>0. TypeOK /\ LinkInv
  BY DEF IInv
<1>1. ASSUME NEW t \in Threads, AutoConnect(t) PROVE LinkInv'
  <2>1. overlapped' = overlapped
    BY <1>1 DEF AutoConnect, Test, Find, Make, Connect, Note, Enable, CloseSocket, Reset
  <2> QED
    BY <1>0, <1>1, <2>1, LinkThread DEF LinkInv
<1>2. CASE /\ UNCHANGED <<sock, connected, button, thread, overlapped>>
           /\ Held' = Held
           /\ gui' = gui \/ (gui' = "idle" /\ gui = "send") \/ (gui' = "fail" /\ gui = "send")
              \/ (gui = "idle" /\ gui' = "send" /\ button = "normal")
  <2>1. Alive' = Alive
    BY <1>2 DEF Alive
  <2> QED
    BY <1>0, <1>2, <2>1 DEF LinkInv, ThreadInv, GuiInv, GlobalInv
<1>3. CASE Fail
  <2>1. CASE Alive = {}
    <3>1. Alive' = {} /\ Held' = Held
      BY <1>3, <2>1 DEF Fail, Alive, Held
    <3> QED
      BY <1>0, <1>3, <3>1 DEF Fail, LinkInv, ThreadInv, GuiInv, GlobalInv
  <2>2. CASE Alive # {}
    BY <1>3, <2>2 DEF Fail, LinkInv
  <2> QED
    BY <2>1, <2>2
<1>4. CASE Drop
  <2>1. Alive' = Alive
    BY <1>4 DEF Drop, Alive
  <2>2. ~overlapped => Held' = {}
    BY <1>0, <1>4, HangupFacts DEF Drop, LinkInv, GlobalInv
  <2> QED
    BY <1>0, <1>4, <2>1, <2>2 DEF Drop, LinkInv, ThreadInv, GuiInv, GlobalInv
<1>5. CASE Restart
  <2>1. PICK t \in Threads : thread[t] = "unborn" /\ Goes(t, "test")
    BY <1>5 DEF Restart
  <2>2. Alive' = Alive \cup {t} /\ thread'[t] = "test" /\ Held' = Held
    BY <1>0, <1>5, <2>1, Going DEF Restart, Held
  <2> QED
    BY <1>0, <1>5, <2>2 DEF Restart, LinkInv, ThreadInv, GuiInv, GlobalInv
<1>6. CASE OnClosing
  <2>1. Alive' = {}
    BY <1>6 DEF OnClosing, Alive
  <2> QED
    BY <1>0, <1>6, <2>1 DEF OnClosing, LinkInv, ThreadInv, GuiInv, GlobalInv
<1>7. CASE Send
  <2>1. Held' = Held
    BY <1>7 DEF Send, Held
  <2> QED
    BY <1>2, <1>7, <2>1 DEF Send
<1>8. CASE Write
  <2>1. Held' = Held
    BY <1>8 DEF Write, Held
  <2> QED
    BY <1>2, <1>8, <2>1 DEF Write
<1>9. ASSUME NEW c \in Sockets, LoseLink(c) PROVE LinkInv'
  <2>1. Held' = Held
    BY <1>0, <1>9, SameHeld DEF LoseLink, TypeOK
  <2> QED
    BY <1>2, <1>9, <2>1 DEF LoseLink
<1>10. ASSUME NEW c \in Sockets, Read(c) PROVE LinkInv'
  <2>1. Held' = Held
    BY <1>0, <1>10, SameHeld DEF Read, CrashApp, TypeOK
  <2> QED
    BY <1>2, <1>10, <2>1 DEF Read
<1>12. ASSUME NEW s \in Servers, AcceptFails(s) PROVE LinkInv'
  <2>1. Held' = Held
    BY <1>0, <1>12, SameHeld DEF AcceptFails, CrashApp, TypeOK
  <2> QED
    BY <1>2, <1>12, <2>1 DEF AcceptFails
<1>11. CASE UNCHANGED <<sensor, thread, overlapped, gui, link>>
  <2>1. Held' = Held
    BY <1>11 DEF Held
  <2> QED
    BY <1>2, <1>11, <2>1
<1> QED
  BY <1>1, <1>3, <1>4, <1>5, <1>6, <1>7, <1>8, <1>9, <1>10, <1>11, <1>12
  DEF Next, SendValues, OnResume, Accept, EndOfStream, Draw, OnDestroy, vars

LEMMA Invariance == Spec => []IInv
<1>1. IInv /\ [Next]_vars => IInv'
  BY TypeStep, RoomStep, TriesStep, LinkStep DEF IInv
<1> QED
  BY <1>1, InitInv, PTL DEF Spec

(* Every variable keeps its type. *)
THEOREM TypeCorrect == Spec => []TypeOK
<1>1. IInv => TypeOK
  BY DEF IInv
<1> QED
  BY <1>1, Invariance, PTL

(* Whatever fails, while the sensor program is not connected some thread    *)
(* tries to connect it, or the main loop is about to start one              *)
(* (sensor_test.py:51, 119).                                                *)
THEOREM NeverGivesUp == Spec => []SomeoneTries
<1>1. IInv => SomeoneTries
  BY DEF IInv
<1> QED
  BY <1>1, Invariance, PTL

(* Until a send fails beside a connecting thread, one thread connects, no   *)
(* open socket is lost, and the button is enabled only with a socket.       *)
THEOREM OneThread == Spec => []OneThreadIsSafe
<1>1. IInv => OneThreadIsSafe
  <2> SUFFICES ASSUME IInv, ~overlapped, ThreadInv, GlobalInv
               PROVE  /\ Cardinality(Alive) <= 1
                      /\ gui # "closed" => Held \subseteq {sock}
                      /\ button = "normal" /\ gui = "idle" => connected /\ sock # 0
    BY DEF IInv, LinkInv, OneThreadIsSafe
  <2>1. Cardinality(Alive) <= 1
    <3>1. CASE Alive = {}
      BY <3>1, FS_EmptySet
    <3>2. CASE Alive # {}
      <4>1. PICK t \in Alive : Alive = {t}
        BY <3>2 DEF ThreadInv
      <4>2. Cardinality(Alive) = 1
        BY <4>1, FS_Singleton
      <4> QED
        BY <4>2
    <3> QED
      BY <3>1, <3>2
  <2> QED
    BY <2>1 DEF GlobalInv
<1> QED
  BY <1>1, Invariance, PTL

-----------------------------------------------------------------------------
(* The refinement of SensorChannel.  A message has one place: it is in one  *)
(* pipe, or among the posts, and once.                                      *)
Distinct(q) == \A i, j \in DOMAIN q : q[i] = q[j] => i = j

NumberInv ==
  /\ \A c \in Sockets : Distinct(pipe[c]) /\ Unread(pipe[c]) \subseteq 1 .. lines
  /\ Distinct(ui) /\ Unread(ui) \subseteq 1 .. lines
  /\ \A c, d \in Sockets : c # d => Unread(pipe[c]) \cap Unread(pipe[d]) = {}
  /\ \A c \in Sockets : Unread(pipe[c]) \cap Unread(ui) = {}

Travelling == (UNION {Unread(pipe[c]) : c \in Sockets}) \cup Unread(ui)

LEMMA NothingUnread == Unread(<<>>) = {} /\ Distinct(<<>>)
BY DEF Unread, Distinct

LEMMA AppendUnread ==
  ASSUME NEW S, NEW q \in Seq(S), NEW n \in S
  PROVE  /\ Unread(Append(q, n)) = Unread(q) \cup {n}
         /\ Distinct(q) /\ n \notin Unread(q) => Distinct(Append(q, n))
<1>1. /\ DOMAIN q = 1 .. Len(q) /\ Len(q) \in Nat
      /\ DOMAIN Append(q, n) = 1 .. Len(q) + 1
      /\ \A i \in 1 .. Len(q) : Append(q, n)[i] = q[i]
      /\ Append(q, n)[Len(q) + 1] = n
  BY AppendProperties
<1>2. \A i : i \in 1 .. Len(q) + 1 <=> i \in 1 .. Len(q) \/ i = Len(q) + 1
  BY <1>1
<1>3. Unread(Append(q, n)) = Unread(q) \cup {n}
  BY <1>1, <1>2, Zenon DEF Unread
<1>4. ASSUME Distinct(q), n \notin Unread(q) PROVE Distinct(Append(q, n))
  BY <1>1, <1>2, <1>4 DEF Distinct, Unread
<1> QED
  BY <1>3, <1>4

LEMMA TailUnread ==
  ASSUME NEW S, NEW q \in Seq(S), q # <<>>, Distinct(q)
  PROVE  /\ Head(q) \in Unread(q)
         /\ Unread(Tail(q)) = Unread(q) \ {Head(q)}
         /\ Distinct(Tail(q))
<1>1. /\ Len(q) \in Nat \ {0} /\ DOMAIN q = 1 .. Len(q) /\ Head(q) = q[1]
      /\ DOMAIN Tail(q) = 1 .. Len(q) - 1
      /\ \A i \in 1 .. Len(q) - 1 : Tail(q)[i] = q[i + 1]
  BY HeadTailProperties, EmptySeq, LenProperties
<1>2. Head(q) \in Unread(q)
  BY <1>1 DEF Unread
<1>3. Distinct(Tail(q))
  BY <1>1 DEF Distinct
<1>4. ASSUME NEW n \in Unread(Tail(q)) PROVE n \in Unread(q) \ {Head(q)}
  BY <1>1 DEF Unread, Distinct
<1>5. ASSUME NEW n \in Unread(q) \ {Head(q)} PROVE n \in Unread(Tail(q))
  <2>1. PICK i \in 1 .. Len(q) : n = q[i]
    BY <1>1 DEF Unread
  <2>2. i - 1 \in 1 .. Len(q) - 1 /\ Tail(q)[i - 1] = n
    BY <1>1, <2>1
  <2> QED
    BY <1>1, <2>2 DEF Unread
<1> QED
  BY <1>2, <1>3, <1>4, <1>5

LEMMA TravellingIs ==
  /\ \A n : n \in Travelling <=> n \in Unread(ui) \/ \E c \in Sockets : n \in Unread(pipe[c])
  /\ \A n : n \in Travelling' <=> n \in Unread(ui') \/ \E c \in Sockets : n \in Unread(pipe'[c])
BY DEF Travelling, Unread

LEMMA ChannelMoves ==
  ASSUME \/ UNCHANGED <<lines, Travelling, bars>>
         \/ lines' = lines + 1 /\ Travelling' \in {Travelling, Travelling \cup {lines'}} /\ bars' = bars
         \/ Travelling' \subseteq Travelling /\ UNCHANGED <<lines, bars>>
         \/ /\ \E n \in Travelling : bars' = n /\ Travelling' = Travelling \ {n}
            /\ lines' = lines
  PROVE  [Channel!Next]_(Channel!vars)
BY DEF Channel!Next, Channel!vars, Channel!Send, Channel!Lose, Channel!Show, Travelling

(* A message that is sent is new, whether it gets into the link or not. *)
LEMMA WriteMoves ==
  ASSUME TypeOK, RoomInv, NumberInv, Write
  PROVE  NumberInv' /\ [Channel!Next]_(Channel!vars)
<1>0. UNCHANGED <<ui, bars>>
  BY DEF Write, screen
<1>1. CASE UNCHANGED <<lines, pipe>>
  <2>1. UNCHANGED <<lines, Travelling, bars>>
    BY <1>0, <1>1 DEF Travelling
  <2> QED
    BY <1>0, <1>1, <2>1, ChannelMoves DEF NumberInv
<1>2. CASE lines' = lines + 1 /\ pipe' = pipe
  <2>1. Travelling' = Travelling
    BY <1>0, <1>2 DEF Travelling
  <2>2. \A n \in 1 .. lines : n \in 1 .. lines'
    BY <1>2 DEF TypeOK
  <2>3. NumberInv'
    BY <1>0, <1>2, <2>2 DEF NumberInv
  <2> QED
    BY <1>0, <1>2, <2>1, <2>3, ChannelMoves
<1>3. CASE lines' = lines + 1 /\ sock \in Sockets /\ pipe' = [pipe EXCEPT ![sock] = Append(@, lines')]
  <2>1. lines' \in 1 .. MaxLines /\ lines' \notin 1 .. lines /\ \A n \in 1 .. lines : n \in 1 .. lines'
    BY <1>3, SensorConstants DEF Write, RoomInv, TypeOK
  <2>2. /\ pipe'[sock] = Append(pipe[sock], lines')
        /\ \A c \in Sockets : c # sock => pipe'[c] = pipe[c]
    BY <1>3 DEF TypeOK
  <2>3. Unread(pipe'[sock]) = Unread(pipe[sock]) \cup {lines'} /\ Distinct(pipe'[sock])
    <3>1. pipe[sock] \in Seq(1 .. MaxLines) /\ Distinct(pipe[sock]) /\ lines' \notin Unread(pipe[sock])
      BY <1>3, <2>1 DEF TypeOK, NumberInv
    <3>2. ASSUME NEW n \in 1 .. MaxLines, n \notin Unread(pipe[sock])
          PROVE  /\ Unread(Append(pipe[sock], n)) = Unread(pipe[sock]) \cup {n}
                 /\ Distinct(Append(pipe[sock], n))
      BY <3>1, <3>2, AppendUnread
    <3> QED
      BY <2>1, <2>2, <3>1, <3>2
  <2>4. Travelling' = Travelling \cup {lines'}
    BY <1>0, <1>3, <2>2, <2>3 DEF Travelling
  <2>5. \A c \in Sockets : Distinct(pipe'[c]) /\ Unread(pipe'[c]) \subseteq 1 .. lines'
    <3> TAKE c \in Sockets
    <3>1. CASE c = sock
      BY <1>3, <2>1, <2>3, <3>1 DEF NumberInv
    <3>2. CASE c # sock
      BY <2>1, <2>2, <3>2 DEF NumberInv
    <3> QED
      BY <3>1, <3>2
  <2>6. Distinct(ui') /\ Unread(ui') \subseteq 1 .. lines'
    BY <1>0, <2>1 DEF NumberInv
  <2>7. \A c, d \in Sockets : c # d => Unread(pipe'[c]) \cap Unread(pipe'[d]) = {}
    <3> SUFFICES ASSUME NEW c \in Sockets, NEW d \in Sockets, c # d,
                        NEW n \in Unread(pipe'[c]), n \in Unread(pipe'[d])
                 PROVE  FALSE
      OBVIOUS
    <3>1. /\ n \in Unread(pipe[c]) \/ (c = sock /\ n = lines')
          /\ n \in Unread(pipe[d]) \/ (d = sock /\ n = lines')
      BY <2>2, <2>3
    <3> QED
      BY <2>1, <3>1 DEF NumberInv
  <2>8. \A c \in Sockets : Unread(pipe'[c]) \cap Unread(ui') = {}
    BY <1>0, <2>1, <2>2, <2>3 DEF NumberInv
  <2>9. NumberInv'
    BY <2>5, <2>6, <2>7, <2>8 DEF NumberInv
  <2> QED
    BY <1>0, <1>3, <2>4, <2>9, ChannelMoves
<1> QED
  BY <1>1, <1>2, <1>3 DEF Write, Sockets, TypeOK

(* What a pipe loses, or hands to the posts, is in it no more. *)
LEMMA PipeMoves ==
  ASSUME TypeOK, NumberInv, NEW c \in Sockets, NEW q,
         pipe' = [pipe EXCEPT ![c] = q], Distinct(q), Unread(q) \subseteq Unread(pipe[c]),
         Distinct(ui'), Unread(ui') \subseteq Unread(ui) \cup (Unread(pipe[c]) \ Unread(q)),
         UNCHANGED <<lines, bars>>
  PROVE  NumberInv' /\ [Channel!Next]_(Channel!vars)
<1>1. pipe'[c] = q /\ \A d \in Sockets : d # c => pipe'[d] = pipe[d]
  BY DEF TypeOK
<1>2. Travelling' \subseteq Travelling
  <2> SUFFICES ASSUME NEW n \in Travelling' PROVE n \in Travelling
    OBVIOUS
  <2>1. CASE n \in Unread(ui')
    BY <2>1, TravellingIs
  <2>2. CASE \E d \in Sockets : n \in Unread(pipe'[d])
    BY <1>1, <2>2, TravellingIs
  <2> QED
    BY <2>1, <2>2, TravellingIs
<1>3. NumberInv'
  BY <1>1 DEF NumberInv
<1> QED
  BY <1>2, <1>3, ChannelMoves

LEMMA ReadMoves ==
  ASSUME TypeOK, NumberInv, NEW c \in Sockets, Read(c)
  PROVE  NumberInv' /\ [Channel!Next]_(Channel!vars)
<1>1. /\ pipe[c] \in Seq(1 .. MaxLines) /\ pipe[c] # <<>> /\ Distinct(pipe[c])
      /\ pipe' = [pipe EXCEPT ![c] = Tail(pipe[c])] /\ UNCHANGED <<lines, bars>>
      /\ ui \in Seq(1 .. MaxLines) /\ Distinct(ui)
  BY DEF Read, TypeOK, NumberInv
<1>2. /\ Head(pipe[c]) \in Unread(pipe[c]) /\ Head(pipe[c]) \in 1 .. MaxLines
      /\ Unread(Tail(pipe[c])) = Unread(pipe[c]) \ {Head(pipe[c])}
      /\ Distinct(Tail(pipe[c]))
  BY <1>1, TailUnread, HeadTailProperties
<1>3. CASE ui' = ui
  BY <1>1, <1>2, <1>3, PipeMoves
<1>4. CASE ui' = Append(ui, Head(pipe[c]))
  <2>1. Head(pipe[c]) \notin Unread(ui)
    BY <1>2 DEF NumberInv
  <2>2. Unread(ui') = Unread(ui) \cup {Head(pipe[c])} /\ Distinct(ui')
    BY <1>1, <1>2, <1>4, <2>1, AppendUnread
  <2> QED
    BY <1>1, <1>2, <2>2, PipeMoves
<1> QED
  BY <1>3, <1>4 DEF Read

LEMMA DrawMoves ==
  ASSUME TypeOK, NumberInv, Draw
  PROVE  NumberInv' /\ [Channel!Next]_(Channel!vars)
<1>1. /\ ui \in Seq(1 .. MaxLines) /\ ui # <<>> /\ Distinct(ui)
      /\ bars' = Head(ui) /\ ui' = Tail(ui) /\ UNCHANGED <<lines, pipe>>
  BY DEF Draw, TypeOK, NumberInv, stack
<1>2. /\ Head(ui) \in Unread(ui) /\ Unread(ui') = Unread(ui) \ {Head(ui)} /\ Distinct(ui')
  BY <1>1, TailUnread
<1>3. \A c \in Sockets : Head(ui) \notin Unread(pipe[c])
  BY <1>2 DEF NumberInv
<1>4. Head(ui) \in Travelling /\ Travelling' = Travelling \ {Head(ui)}
  <2>1. \A n : n \in Travelling' <=> n \in Travelling /\ n # Head(ui)
    BY <1>1, <1>2, <1>3, TravellingIs
  <2>2. Head(ui) \in Travelling
    BY <1>2, TravellingIs
  <2> QED
    BY <2>1, <2>2
<1>5. NumberInv'
  BY <1>1, <1>2 DEF NumberInv
<1> QED
  BY <1>1, <1>4, <1>5, ChannelMoves

LEMMA ChannelStep ==
  ASSUME IInv, NumberInv, [Next]_vars
  PROVE  NumberInv' /\ [Channel!Next]_(Channel!vars)
<1> USE DEF sensor, control, stack, screen
<1>0. TypeOK /\ RoomInv
  BY DEF IInv
<1>1. CASE UNCHANGED <<pipe, lines, ui, bars>>
  <2>1. UNCHANGED <<lines, Travelling, bars>>
    BY <1>1 DEF Travelling
  <2> QED
    BY <1>1, <2>1, ChannelMoves DEF NumberInv
<1>2. CASE Write
  BY <1>0, <1>2, WriteMoves
<1>3. ASSUME NEW c \in Sockets, LoseLink(c) PROVE NumberInv' /\ [Channel!Next]_(Channel!vars)
  <2>1. CASE pipe' = pipe
    BY <1>1, <1>3, <2>1 DEF LoseLink
  <2>2. CASE pipe' = [pipe EXCEPT ![c] = <<>>]
    <3>1. UNCHANGED <<lines, ui, bars>>
      BY <1>3 DEF LoseLink
    <3>2. Distinct(ui') /\ Unread(ui') = Unread(ui)
      BY <3>1 DEF NumberInv
    <3> QED
      BY <1>0, <2>2, <3>1, <3>2, NothingUnread, PipeMoves
  <2> QED
    BY <1>3, <2>1, <2>2 DEF LoseLink
<1>4. ASSUME NEW c \in Sockets, Read(c) PROVE NumberInv' /\ [Channel!Next]_(Channel!vars)
  BY <1>0, <1>4, ReadMoves
<1>5. CASE Draw
  BY <1>0, <1>5, DrawMoves
<1>6. ASSUME NEW t \in Threads, AutoConnect(t) PROVE UNCHANGED <<pipe, lines, ui, bars>>
  BY <1>6 DEF AutoConnect, Test, Find, Make, Connect, Note, Enable, CloseSocket, Reset
<1>7. CASE \/ Send \/ Fail \/ Drop \/ Restart \/ OnClosing \/ OnResume \/ OnDestroy
           \/ \E s \in Servers : Accept(s) \/ AcceptFails(s)
           \/ \E c \in Sockets : EndOfStream(c)
           \/ UNCHANGED vars
  BY <1>1, <1>7 DEF Send, Fail, Drop, Restart, OnClosing, OnResume, OnDestroy, Accept,
                    AcceptFails, EndOfStream, vars
<1> QED
  BY <1>1, <1>2, <1>3, <1>4, <1>5, <1>6, <1>7 DEF Next, SendValues

(* From the Send button to the bars the application is a SensorChannel:     *)
(* what is shown was sent, and no message is shown twice, however many      *)
(* connections are lost and made, and however their readers overlap.        *)
THEOREM Refinement == Spec => IsChannel
<1>1. Init => NumberInv /\ Channel!Init
  <2> SUFFICES ASSUME Init PROVE NumberInv /\ Channel!Init
    OBVIOUS
  <2>1. lines = 0 /\ bars = 0 /\ ui = <<>> /\ \A c \in Sockets : pipe[c] = <<>>
    BY DEF Init
  <2>2. (UNION {Unread(pipe[c]) : c \in Sockets}) \cup Unread(ui) = {}
    BY <2>1, NothingUnread
  <2> QED
    BY <2>1, <2>2, NothingUnread DEF NumberInv, Channel!Init
<1>2. IInv /\ NumberInv /\ [Next]_vars => NumberInv' /\ [Channel!Next]_(Channel!vars)
  BY ChannelStep
<1> QED
  BY <1>1, <1>2, Invariance, PTL DEF Spec, IsChannel, Channel!Spec

=============================================================================

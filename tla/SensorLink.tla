----------------------------- MODULE SensorLink -----------------------------
(***************************************************************************)
(* The Bluetooth link of the distance sensors: the sensor program          *)
(* (sensor_test.py), with its connecting threads and its Send button, and  *)
(* the application (connectToBluetoothDevice and BluetoothReader of        *)
(* app/src/main/java/com/jiangdg/demo/DemoFragment.kt), with a server      *)
(* socket and one accept for each onResume, a reader for each accepted     *)
(* connection and the bars drawn on the main thread.                       *)
(*                                                                         *)
(* The globals of the sensor program are shared without a lock: a step is  *)
(* a line or a few of it.  The model begins when the main loop runs: until *)
(* then the first thread waits in status_label.config.  The Bluetooth      *)
(* stack (external) links a socket to any registered server socket,        *)
(* whether somebody accepts on it or not, and may drop the link at any     *)
(* time.  A message with four values is its number.                        *)
(***************************************************************************)
EXTENDS Integers, Sequences, FiniteSets

CONSTANTS
  MaxThreads,   (* bound: connecting threads started             *)
  MaxSockets,   (* bound: sockets the sensor makes               *)
  MaxResumes,   (* bound: calls of onResume that reach line 156  *)
  MaxLines,     (* bound: messages sent                          *)
  MaxLosses     (* bound: links dropped                          *)

ASSUME SensorConstants ==
  /\ MaxThreads \in Nat \ {0} /\ MaxSockets \in Nat
  /\ MaxResumes \in Nat /\ MaxLines \in Nat /\ MaxLosses \in Nat

VARIABLES
  sock,         (* the global socket, 0 is None                          *)
  connected,    (* the global flag                                       *)
  button,       (* the state of send_button: "normal" or "disabled"      *)
  thread,       (* where each connecting thread stands                   *)
  gui,          (* where the main loop stands in send_values             *)
  overlapped,   (* a send has failed while a thread was still connecting *)
  link,         (* each socket, at the sensor                            *)
  server,       (* the server socket each is linked to                   *)
  pipe,         (* the messages sent on it that are not read             *)
  lines,        (* messages sent so far                                  *)
  losses,
  acceptor,     (* the accept of each server socket                      *)
  reader,       (* the BluetoothReader of each connection                *)
  ui,           (* messages posted to the main thread                    *)
  bars,         (* the message the bars show                             *)
  fragment      (* "attached", "destroyed", or the application crashed   *)

sensor  == <<sock, connected, button>>
control == <<thread, gui, overlapped>>
stack   == <<link, server, pipe, lines, losses>>
screen  == <<acceptor, reader, ui, bars, fragment>>
vars    == <<sensor, control, stack, screen>>

Threads == 1 .. MaxThreads
Sockets == 1 .. MaxSockets
Servers == 1 .. MaxResumes

Alive    == {t \in Threads : thread[t] \notin {"unborn", "ended"}}
Resumed  == {s \in Servers : acceptor[s] # "none" /\ fragment # "crashed"}
Held     == {c \in Sockets : link[c] \in {"made", "up", "down"}}
Here(t, line) == thread[t] = line /\ gui # "closed"
Goes(t, line) == thread' = [thread EXCEPT ![t] = line]

(* An exception nobody catches: the application ends, and its links go down. *)
CrashApp ==
  /\ fragment' = "crashed"
  /\ link' = [d \in Sockets |-> IF link[d] = "up" THEN "down" ELSE link[d]]

(* sock.close(), if there is one. *)
Hangup == link' = [c \in Sockets |-> IF c = sock THEN "closed" ELSE link[c]]

Init ==
  /\ sock = 0 /\ connected = FALSE /\ button = "disabled"
  /\ thread = [t \in Threads |-> IF t = 1 THEN "test" ELSE "unborn"]
  /\ gui = "idle" /\ overlapped = FALSE
  /\ link = [c \in Sockets |-> "unused"] /\ server = [c \in Sockets |-> 0]
  /\ pipe = [c \in Sockets |-> <<>>] /\ lines = 0 /\ losses = 0
  /\ acceptor = [s \in Servers |-> "none"]
  /\ reader = [c \in Sockets |-> "none"]
  /\ ui = <<>> /\ bars = 0 /\ fragment = "attached"

-----------------------------------------------------------------------------
(* bluetooth_auto_connect, in thread t. *)

Test(t) ==
  /\ Here(t, "test")
  /\ Goes(t, IF connected THEN "ended" ELSE "find")
  /\ UNCHANGED <<sensor, gui, overlapped, stack, screen>>

(* find_service finds one, or none (and the loop goes on), or throws. *)
Find(t) ==
  /\ Here(t, "find")
  /\ \/ Resumed # {} /\ Goes(t, "make")
     \/ Goes(t, "test")
     \/ Goes(t, "close")
  /\ UNCHANGED <<sensor, gui, overlapped, stack, screen>>

Make(t) ==
  /\ Here(t, "make")
  /\ \E c \in Sockets :
       /\ link[c] = "unused" /\ \A d \in 1 .. c - 1 : link[d] # "unused"
       /\ link' = [link EXCEPT ![c] = "made"]
       /\ sock' = c
  /\ Goes(t, "connect")
  /\ UNCHANGED <<connected, button, gui, overlapped, server, pipe, lines, losses, screen>>

(* sock.connect, on the socket that is there now. *)
Connect(t) ==
  /\ Here(t, "connect")
  /\ \/ /\ sock # 0 /\ link[sock] = "made"
        /\ \E s \in Resumed : server' = [server EXCEPT ![sock] = s]
        /\ link' = [link EXCEPT ![sock] = "up"]
        /\ Goes(t, "note")
     \/ Goes(t, "close") /\ UNCHANGED <<link, server>>
  /\ UNCHANGED <<sensor, gui, overlapped, pipe, lines, losses, screen>>

Note(t) ==
  /\ Here(t, "note")
  /\ connected' = TRUE
  /\ Goes(t, "enable")
  /\ UNCHANGED <<sock, button, gui, overlapped, stack, screen>>

Enable(t) ==
  /\ Here(t, "enable")
  /\ button' = "normal"
  /\ Goes(t, "test")
  /\ UNCHANGED <<sock, connected, gui, overlapped, stack, screen>>

(* The handler: the socket that is there now is closed, ... *)
CloseSocket(t) ==
  /\ Here(t, "close")
  /\ Hangup
  /\ sock' = 0
  /\ Goes(t, "reset")
  /\ UNCHANGED <<connected, button, gui, overlapped, server, pipe, lines, losses, screen>>

(* ... and the loop goes on. *)
Reset(t) ==
  /\ Here(t, "reset")
  /\ connected' = FALSE /\ button' = "disabled"
  /\ Goes(t, "test")
  /\ UNCHANGED <<sock, gui, overlapped, stack, screen>>

(* Mutant of AutoConnect: the button is enabled first, connected set next. *)
AutoConnectButtonFirst(t) ==
  \/ Test(t) \/ Find(t) \/ Make(t) \/ Connect(t) \/ CloseSocket(t) \/ Reset(t)
  \/ /\ Here(t, "note") /\ Goes(t, "enable") /\ button' = "normal"
     /\ UNCHANGED <<sock, connected, gui, overlapped, stack, screen>>
  \/ /\ Here(t, "enable") /\ Goes(t, "test") /\ connected' = TRUE
     /\ UNCHANGED <<sock, button, gui, overlapped, stack, screen>>

AutoConnect(t) ==
  \/ Test(t) \/ Find(t) \/ Make(t) \/ Connect(t)
  \/ Note(t) \/ Enable(t) \/ CloseSocket(t) \/ Reset(t)

-----------------------------------------------------------------------------
(* send_values and on_closing, in the main loop. *)

Send ==
  /\ gui = "idle" /\ button = "normal" /\ connected /\ sock # 0
  /\ lines < MaxLines
  /\ gui' = "send"
  /\ UNCHANGED <<sensor, thread, overlapped, stack, screen>>

(* sock.send: into a link that is up, into one that is down and does not
   know, or it fails. *)
Write ==
  /\ gui = "send"
  /\ \/ /\ sock # 0 /\ link[sock] \in {"up", "down"}
        /\ lines' = lines + 1
        /\ pipe' = IF link[sock] = "up" THEN [pipe EXCEPT ![sock] = Append(@, lines')] ELSE pipe
        /\ gui' = "idle"
     \/ /\ sock # 0 => link[sock] # "up"
        /\ \E t \in Threads : thread[t] = "unborn"
        /\ gui' = "fail"
        /\ UNCHANGED <<lines, pipe>>
  /\ UNCHANGED <<sensor, thread, overlapped, link, server, losses, screen>>

Fail ==
  /\ gui = "fail"
  /\ connected' = FALSE /\ button' = "disabled"
  /\ overlapped' = (overlapped \/ Alive # {})
  /\ gui' = "drop"
  /\ UNCHANGED <<sock, thread, stack, screen>>

Drop ==
  /\ gui = "drop"
  /\ Hangup
  /\ sock' = 0
  /\ gui' = "restart"
  /\ UNCHANGED <<connected, button, thread, overlapped, server, pipe, lines, losses, screen>>

(* Mutant of Restart: the loop that connects is taken to run still. *)
RestartNothing ==
  /\ gui = "restart"
  /\ gui' = "idle"
  /\ UNCHANGED <<sensor, thread, overlapped, stack, screen>>

Restart ==
  /\ gui = "restart"
  /\ \E t \in Threads :
       /\ thread[t] = "unborn" /\ \A u \in 1 .. t - 1 : thread[u] # "unborn"
       /\ Goes(t, "test")
  /\ gui' = "idle"
  /\ UNCHANGED <<sensor, overlapped, stack, screen>>

(* The window is closed and the program ends, all its sockets with it. *)
OnClosing ==
  /\ gui = "idle"
  /\ gui' = "closed"
  /\ thread' = [t \in Threads |-> "ended"]
  /\ link' = [c \in Sockets |-> IF c \in Held THEN "closed" ELSE link[c]]
  /\ UNCHANGED <<sensor, overlapped, server, pipe, lines, losses, screen>>

SendValues == Write \/ Fail \/ Drop \/ Restart

-----------------------------------------------------------------------------
(* The Bluetooth stack drops a link, with or without what was on the way. *)
LoseLink(c) ==
  /\ link[c] = "up" /\ losses < MaxLosses
  /\ link' = [link EXCEPT ![c] = "down"]
  /\ pipe' \in {pipe, [pipe EXCEPT ![c] = <<>>]}
  /\ losses' = losses + 1
  /\ UNCHANGED <<sensor, control, server, lines, screen>>

(* onResume, when Bluetooth is on and the sensor is paired: one more server
   socket, one accept.  Nothing closes the one before. *)
OnResume ==
  /\ fragment = "attached"
  /\ \E s \in Servers :
       /\ acceptor[s] = "none" /\ \A r \in 1 .. s - 1 : acceptor[r] # "none"
       /\ acceptor' = [acceptor EXCEPT ![s] = "accepting"]
  /\ UNCHANGED <<sensor, control, stack, reader, ui, bars, fragment>>

Accept(s) ==
  /\ acceptor[s] = "accepting" /\ fragment # "crashed"
  /\ \E c \in Sockets :
       /\ link[c] = "up" /\ server[c] = s /\ reader[c] = "none"
       /\ reader' = [reader EXCEPT ![c] = "reading"]
  /\ acceptor' = [acceptor EXCEPT ![s] = "done"]
  /\ UNCHANGED <<sensor, control, stack, ui, bars, fragment>>

(* accept throws: Bluetooth is switched off, for example. *)
AcceptFails(s) ==
  /\ acceptor[s] = "accepting" /\ fragment # "crashed"
  /\ acceptor' = [acceptor EXCEPT ![s] = "done"]
  /\ CrashApp
  /\ UNCHANGED <<sensor, control, server, pipe, lines, losses, reader, ui, bars>>

(* Mutant of Read: the reader does not go back to readLine. *)
ReadOnce(c) ==
  /\ reader[c] = "reading" /\ pipe[c] # <<>> /\ fragment = "attached"
  /\ pipe' = [pipe EXCEPT ![c] = Tail(@)]
  /\ ui' = Append(ui, Head(pipe[c]))
  /\ reader' = [reader EXCEPT ![c] = "ended"]
  /\ UNCHANGED <<sensor, control, link, server, lines, losses, acceptor, bars, fragment>>

(* Mutant of Read: the line is looked at, and stays in the stream. *)
ReadAgain(c) ==
  /\ reader[c] = "reading" /\ pipe[c] # <<>> /\ fragment = "attached"
  /\ Len(ui) < MaxLines
  /\ ui' = Append(ui, Head(pipe[c]))
  /\ UNCHANGED <<sensor, control, stack, acceptor, reader, bars, fragment>>

(* A line is read and posted.  requireActivity throws when the fragment is
   gone, and nobody catches that. *)
Read(c) ==
  /\ reader[c] = "reading" /\ pipe[c] # <<>> /\ fragment # "crashed"
  /\ pipe' = [pipe EXCEPT ![c] = Tail(@)]
  /\ IF fragment = "destroyed"
     THEN CrashApp /\ UNCHANGED ui
     ELSE /\ ui' = Append(ui, Head(pipe[c])) /\ UNCHANGED <<fragment, link>>
  /\ UNCHANGED <<sensor, control, server, lines, losses, acceptor, reader, bars>>

(* The end of the stream as an IOException.  As a null the loop goes on, for
   ever. *)
EndOfStream(c) ==
  /\ reader[c] = "reading" /\ pipe[c] = <<>> /\ link[c] \in {"down", "closed"}
  /\ fragment # "crashed"
  /\ reader' = [reader EXCEPT ![c] = "ended"]
  /\ UNCHANGED <<sensor, control, stack, acceptor, ui, bars, fragment>>

Draw ==
  /\ ui # <<>> /\ fragment # "crashed"
  /\ bars' = Head(ui) /\ ui' = Tail(ui)
  /\ UNCHANGED <<sensor, control, stack, acceptor, reader, fragment>>

OnDestroy ==
  /\ fragment = "attached"
  /\ fragment' = "destroyed"
  /\ UNCHANGED <<sensor, control, stack, acceptor, reader, ui, bars>>

-----------------------------------------------------------------------------
Next ==
  \/ \E t \in Threads : AutoConnect(t)
  \/ Send
  \/ SendValues
  \/ OnClosing
  \/ \E c \in Sockets : LoseLink(c)
  \/ OnResume
  \/ \E s \in Servers : Accept(s) \/ AcceptFails(s)
  \/ \E c \in Sockets : Read(c)
  \/ \E c \in Sockets : EndOfStream(c)
  \/ Draw
  \/ OnDestroy

Spec == Init /\ [][Next]_vars

(* Threads run; neither the user nor the link owes anything. *)
FairSpec ==
  /\ Spec
  /\ \A t \in Threads : WF_vars(AutoConnect(t))
  /\ WF_vars(SendValues)
  /\ \A c \in Sockets : WF_vars(Read(c))
  /\ WF_vars(Draw)

-----------------------------------------------------------------------------
(* Every variable keeps its type. *)
TypeOK ==
  /\ sock \in 0 .. MaxSockets /\ connected \in BOOLEAN
  /\ button \in {"normal", "disabled"}
  /\ thread \in [Threads -> {"unborn", "test", "find", "make", "connect", "note", "enable",
                             "close", "reset", "ended"}]
  /\ gui \in {"idle", "send", "fail", "drop", "restart", "closed"}
  /\ overlapped \in BOOLEAN
  /\ link \in [Sockets -> {"unused", "made", "up", "down", "closed"}]
  /\ server \in [Sockets -> 0 .. MaxResumes]
  /\ pipe \in [Sockets -> Seq(1 .. MaxLines)]
  /\ lines \in 0 .. MaxLines /\ losses \in 0 .. MaxLosses
  /\ acceptor \in [Servers -> {"none", "accepting", "done"}]
  /\ reader \in [Sockets -> {"none", "reading", "ended"}]
  /\ ui \in Seq(1 .. MaxLines) /\ bars \in 0 .. MaxLines
  /\ fragment \in {"attached", "destroyed", "crashed"}

(* While the sensor program is not connected somebody tries to connect it: a
   thread ends only when it has seen connected, and whoever clears connected
   goes on itself or starts another thread (sensor_test.py:25, 51, 119). *)
SomeoneTries ==
  gui # "closed" /\ ~connected => Alive # {} \/ gui \in {"drop", "restart"}

(* As long as no send has failed between the line that enables the button and
   the next test of connected, one thread connects at a time, no open socket
   is forgotten, and the button is enabled only with a socket to send on.
   Once it has, there are two threads that close each other's sockets, and
   the program may stay "connected" with sock None for ever
   (sensor_test.py:43, 25, 117). *)
OneThreadIsSafe ==
  ~overlapped =>
    /\ Cardinality(Alive) <= 1
    /\ gui # "closed" => Held \subseteq {sock}
    /\ button = "normal" /\ gui = "idle" => connected /\ sock # 0

(* A message that arrives on a connection that was accepted is drawn, unless
   the link breaks or the fragment is destroyed: the reader survives whatever
   happens to the other connections (DemoFragment.kt:77, 164). *)
LineReachesScreen ==
  \A c \in Sockets, n \in 1 .. MaxLines :
    (reader[c] = "reading" /\ \E k \in 1 .. Len(pipe[c]) : pipe[c][k] = n)
      ~> (bars = n \/ link[c] # "up" \/ fragment # "attached")

(* From the Send button to the bars, over all the sockets, readers and posts, a
   SensorChannel: no reconnection, and no reader that is left over from an
   earlier connection, makes a message appear twice (sensor_test.py:108,
   DemoFragment.kt:80, 165). *)
Unread(q) == {q[k] : k \in DOMAIN q}

Channel ==
  INSTANCE SensorChannel WITH
    sent       <- lines,
    travelling <- (UNION {Unread(pipe[c]) : c \in Sockets}) \cup Unread(ui),
    shown      <- bars

IsChannel == Channel!Spec

=============================================================================

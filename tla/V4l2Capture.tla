---------------------------- MODULE V4l2Capture ----------------------------
(***************************************************************************)
(* The Linux capture program: main of linux/apps/uvccapture/uvccapture.cpp *)
(* with the UvcCamera it drives (linux/modules/sources/src/UvcCamera.cpp)  *)
(* and the loop of linux/modules/sdl/src/SdlTools.cpp.  One thread; beside *)
(* it the driver fills buffers and the user closes the window.             *)
(*                                                                         *)
(* UvcCamera.io is never assigned: only memory mapped buffers are in use.  *)
(* The driver keeps two queues, as V4L2 does: incoming, the buffers it may *)
(* fill, and outgoing, the filled ones.  It writes into the head of        *)
(* incoming from a frame's first packet on and moves the buffer with the   *)
(* last one.  A frame is its number; a frame that begins while incoming is *)
(* empty is dropped.  An exception ends main with -1 and no cleanup (the   *)
(* destructor is commented out), an exit() ends the process: both give     *)
(* everything back to the system, so after them only the way the program   *)
(* ended counts.                                                           *)
(***************************************************************************)
EXTENDS Integers, Sequences, FiniteSets

CONSTANTS
  MaxBuffers,   (* the most buffers a driver grants of the four asked for *)
  MaxFrames     (* bound: frames the camera sends *)

ASSUME V4l2Constants == MaxBuffers \in Nat \ {0} /\ MaxFrames \in Nat

VARIABLES
  pc,         (* where the program stands                                *)
  ending,     (* "none", "normal", "threw" or "exited"                   *)
  fd,         (* "open" or "closed"                                      *)
  count,      (* the buffers the driver granted, req.count after REQBUFS *)
  i,          (* n_buffers, or the index of the loops over the buffers   *)
  mapped,     (* the buffers that are mapped                             *)
  streaming,  (* between STREAMON and STREAMOFF                          *)
  running,    (* SdlLoop.running                                         *)
  quit,       (* an SDL_QUIT waits in the event queue                    *)
  incoming, outgoing,
  filling,    (* is the head of incoming partly written?                 *)
  content,    (* the frame in each buffer, whole or in part              *)
  frames,     (* frames the camera has begun to send                     *)
  result,     (* what readFrame returned: the buffer, the frame that was *)
              (* in it, and whether the driver has written over it since *)
  shown       (* the frame drawn last                                    *)

device  == <<fd, count, mapped, streaming>>
window  == <<running, quit>>
queues  == <<incoming, outgoing, filling>>
picture == <<result, shown>>
vars    == <<pc, ending, device, i, window, queues, content, frames, picture>>

Buffers  == 1 .. MaxBuffers
Steps    == {"open", "init", "request", "query", "queue", "streamon", "poll", "wait", "read",
             "requeue", "convert", "stop", "unmap", "close", "end"}
NoResult == [buffer |-> 0, frame |-> 0, torn |-> FALSE]

Init ==
  /\ pc = "open" /\ ending = "none"
  /\ fd = "closed" /\ count = 0 /\ i = 0 /\ mapped = {} /\ streaming = FALSE
  /\ running = TRUE /\ quit = FALSE
  /\ incoming = <<>> /\ outgoing = <<>> /\ filling = FALSE
  /\ content = [b \in Buffers |-> 0] /\ frames = 0
  /\ result = NoResult /\ shown = 0

Ends(how) == pc' = "end" /\ ending' = how
Goes(step) == pc' = step /\ UNCHANGED ending

-----------------------------------------------------------------------------
(* open and startCapturing. *)

Open ==
  /\ pc = "open"
  /\ \/ fd' = "open" /\ Goes("init")
     \/ Ends("threw") /\ UNCHANGED fd
  /\ UNCHANGED <<count, i, mapped, streaming, window, queues, content, frames, picture>>

(* init_device: no capture device or no streaming exits, a failed QUERYCAP
   or S_FMT throws. *)
InitDevice ==
  /\ pc = "init"
  /\ Goes("request") \/ Ends("exited") \/ Ends("threw")
  /\ UNCHANGED <<device, i, window, queues, content, frames, picture>>

(* REQBUFS: the driver grants what it has. *)
RequestBuffers ==
  /\ pc = "request"
  /\ count' \in 0 .. MaxBuffers /\ i' = 0
  /\ IF count' < 2 THEN Ends("exited") \/ (count' = 0 /\ Ends("threw"))
                   ELSE Goes("query")
  /\ UNCHANGED <<fd, mapped, streaming, window, queues, content, frames, picture>>

(* One turn of the loop of init_mmap: QUERYBUF and mmap, each may throw. *)
MapBuffer ==
  /\ pc = "query"
  /\ IF i = count THEN i' = 0 /\ Goes("queue") /\ UNCHANGED mapped
     ELSE \/ mapped' = mapped \cup {i + 1} /\ i' = i + 1 /\ Goes("query")
          \/ Ends("threw") /\ UNCHANGED <<i, mapped>>
  /\ UNCHANGED <<fd, count, streaming, window, queues, content, frames, picture>>

(* Mutant of QueueBuffer: the last buffer is not queued. *)
QueueAllButOne ==
  /\ pc = "queue"
  /\ IF i = count - 1 THEN Goes("streamon") /\ UNCHANGED <<i, incoming>>
     ELSE \/ incoming' = Append(incoming, i + 1) /\ i' = i + 1 /\ Goes("queue")
          \/ Ends("threw") /\ UNCHANGED <<i, incoming>>
  /\ UNCHANGED <<device, window, outgoing, filling, content, frames, picture>>

QueueBuffer ==
  /\ pc = "queue"
  /\ IF i = count THEN Goes("streamon") /\ UNCHANGED <<i, incoming>>
     ELSE \/ incoming' = Append(incoming, i + 1) /\ i' = i + 1 /\ Goes("queue")
          \/ Ends("threw") /\ UNCHANGED <<i, incoming>>
  /\ UNCHANGED <<device, window, outgoing, filling, content, frames, picture>>

StreamOn ==
  /\ pc = "streamon"
  /\ \/ streaming' = TRUE /\ Goes("poll")
     \/ Ends("threw") /\ UNCHANGED streaming
  /\ UNCHANGED <<fd, count, i, mapped, window, queues, content, frames, picture>>

-----------------------------------------------------------------------------
(* SdlLoop::loop: all events, then one draw, then the loop's condition. *)

PollEvents ==
  /\ pc = "poll"
  /\ quit' = FALSE
  /\ running' = (running /\ ~quit)
  /\ Goes("wait")
  /\ UNCHANGED <<device, i, queues, content, frames, picture>>

(* The end of a draw. *)
NextTurn ==
  Goes(IF running THEN "poll" ELSE "stop")

(* Mutant of WaitNextFrame: a frame is taken for none. *)
WaitNegated ==
  /\ pc = "wait"
  /\ NextTurn \/ (outgoing = <<>> /\ Ends("threw"))
  /\ UNCHANGED <<device, i, window, queues, content, frames, picture>>

(* select: a frame, two seconds without one, a signal while it waits, or
   another error. *)
WaitNextFrame ==
  /\ pc = "wait"
  /\ \/ outgoing # <<>> /\ Goes("read")
     \/ outgoing = <<>> /\ (Ends("threw") \/ NextTurn)
     \/ Ends("exited")
  /\ UNCHANGED <<device, i, window, queues, content, frames, picture>>

(* readFrame, DQBUF: the oldest filled buffer, no frame (EAGAIN), or an
   exception. *)
Dequeue ==
  /\ pc = "read"
  /\ \/ /\ outgoing # <<>>
        /\ result' = [buffer |-> Head(outgoing), frame |-> content[Head(outgoing)], torn |-> FALSE]
        /\ outgoing' = Tail(outgoing)
        /\ Goes("requeue")
     \/ outgoing = <<>> /\ NextTurn /\ UNCHANGED <<result, outgoing>>
     \/ Ends("threw") /\ UNCHANGED <<result, outgoing>>
  /\ UNCHANGED <<device, i, window, incoming, filling, content, frames, shown>>

(* Mutant of Requeue: the buffer is kept. *)
KeepBuffer ==
  /\ pc = "requeue"
  /\ Goes("convert")
  /\ UNCHANGED <<device, i, window, queues, content, frames, picture>>

(* readFrame, QBUF: the driver has the buffer again before the caller has
   looked at it. *)
Requeue ==
  /\ pc = "requeue"
  /\ \/ incoming' = Append(incoming, result.buffer) /\ Goes("convert")
     \/ Ends("threw") /\ UNCHANGED incoming
  /\ UNCHANGED <<device, i, window, outgoing, filling, content, frames, picture>>

(* Mutant of ConvertAndDraw: the index of the buffer is off by one. *)
DrawNextBuffer ==
  /\ pc = "convert"
  /\ shown' = content[(result.buffer % count) + 1]
  /\ result' = NoResult
  /\ NextTurn
  /\ UNCHANGED <<device, i, window, queues, content, frames>>

(* convert reads what is in the buffer now; the texture is drawn. *)
ConvertAndDraw ==
  /\ pc = "convert"
  /\ shown' = content[result.buffer]
  /\ result' = NoResult
  /\ NextTurn
  /\ UNCHANGED <<device, i, window, queues, content, frames>>

-----------------------------------------------------------------------------
(* stopCapturing and close. *)

(* Mutant of StopCapturing: STREAMOFF is forgotten. *)
StopWithoutStreamOff ==
  /\ pc = "stop"
  /\ i' = 0 /\ Goes("unmap")
  /\ UNCHANGED <<device, window, queues, content, frames, picture>>

(* STREAMOFF takes every buffer out of both queues. *)
StopCapturing ==
  /\ pc = "stop"
  /\ \/ /\ streaming' = FALSE
        /\ incoming' = <<>> /\ outgoing' = <<>> /\ filling' = FALSE
        /\ i' = 0 /\ Goes("unmap")
     \/ Ends("threw") /\ UNCHANGED <<streaming, queues, i>>
  /\ UNCHANGED <<fd, count, mapped, window, content, frames, picture>>

(* Mutant of UnmapBuffer: the loop stops too early. *)
UnmapAllButOne ==
  /\ pc = "unmap"
  /\ IF i = count - 1 THEN Goes("close") /\ UNCHANGED <<i, mapped>>
     ELSE \/ mapped' = mapped \ {i + 1} /\ i' = i + 1 /\ Goes("unmap")
          \/ Ends("threw") /\ UNCHANGED <<i, mapped>>
  /\ UNCHANGED <<fd, count, streaming, window, queues, content, frames, picture>>

UnmapBuffer ==
  /\ pc = "unmap"
  /\ IF i = count THEN Goes("close") /\ UNCHANGED <<i, mapped>>
     ELSE \/ mapped' = mapped \ {i + 1} /\ i' = i + 1 /\ Goes("unmap")
          \/ Ends("threw") /\ UNCHANGED <<i, mapped>>
  /\ UNCHANGED <<fd, count, streaming, window, queues, content, frames, picture>>

Close ==
  /\ pc = "close"
  /\ \/ fd' = "closed" /\ Ends("normal")
     \/ Ends("threw") /\ UNCHANGED fd
  /\ UNCHANGED <<count, i, mapped, streaming, window, queues, content, frames, picture>>

Program ==
  \/ Open \/ InitDevice \/ RequestBuffers \/ MapBuffer \/ QueueBuffer \/ StreamOn
  \/ PollEvents \/ WaitNextFrame \/ Dequeue \/ Requeue \/ ConvertAndDraw
  \/ StopCapturing \/ UnmapBuffer \/ Close

-----------------------------------------------------------------------------
(* The driver (external).  The first packet of a frame: it goes into the
   first buffer the driver has, which is no longer what it was. *)
FirstPacket ==
  /\ streaming /\ pc # "end" /\ ~filling /\ frames < MaxFrames
  /\ frames' = frames + 1
  /\ IF incoming = <<>> THEN UNCHANGED <<filling, content, result>>
     ELSE LET b == Head(incoming) IN
          /\ filling' = TRUE
          /\ content' = [content EXCEPT ![b] = frames']
          /\ result' = [result EXCEPT !.torn = @ \/ result.buffer = b]
  /\ UNCHANGED <<pc, ending, device, i, window, incoming, outgoing, shown>>

(* The last packet: the buffer is filled. *)
LastPacket ==
  /\ filling /\ pc # "end"
  /\ filling' = FALSE
  /\ incoming' = Tail(incoming)
  /\ outgoing' = Append(outgoing, Head(incoming))
  /\ UNCHANGED <<pc, ending, device, i, window, content, frames, picture>>

(* The user closes the window (external). *)
CloseWindow ==
  /\ pc # "end" /\ ~quit /\ running
  /\ quit' = TRUE
  /\ UNCHANGED <<pc, ending, device, i, running, queues, content, frames, picture>>

Next ==
  \/ Program
  \/ FirstPacket
  \/ LastPacket
  \/ CloseWindow

Spec == Init /\ [][Next]_vars

(* The program runs; neither the camera nor the user owes it anything. *)
FairSpec == Spec /\ WF_vars(Program)

-----------------------------------------------------------------------------
(* Every variable keeps its type. *)
TypeOK ==
  /\ pc \in Steps /\ ending \in {"none", "normal", "threw", "exited"}
  /\ fd \in {"open", "closed"}
  /\ count \in 0 .. MaxBuffers /\ i \in 0 .. MaxBuffers
  /\ mapped \subseteq Buffers /\ streaming \in BOOLEAN
  /\ running \in BOOLEAN /\ quit \in BOOLEAN
  /\ incoming \in Seq(Buffers) /\ outgoing \in Seq(Buffers) /\ filling \in BOOLEAN
  /\ content \in [Buffers -> 0 .. MaxFrames] /\ frames \in 0 .. MaxFrames
  /\ result \in [buffer : 0 .. MaxBuffers, frame : 0 .. MaxFrames, torn : BOOLEAN]
  /\ shown \in 0 .. MaxFrames

Entries(s) == {s[k] : k \in 1 .. Len(s)}

(* While it streams, every buffer the driver granted is in exactly one place:
   to fill, filled, or between the DQBUF and the QBUF of readFrame, never
   more than one there.  Hence a timeout is always the camera's silence,
   never a driver left without a buffer (UvcCamera.cpp:344, 431, 449). *)
BuffersCirculate ==
  streaming /\ pc # "end" =>
    LET held == IF pc = "requeue" THEN {result.buffer} ELSE {} IN
      /\ Entries(incoming) \cup Entries(outgoing) \cup held = 1 .. count
      /\ Len(incoming) + Len(outgoing) + Cardinality(held) = count
      /\ mapped = 1 .. count

(* readFrame gives the buffer back before the frame is converted.  The
   driver writes into it only when the program is a whole round behind:
   every other buffer has been filled since and waits, and the camera has
   begun a frame for which only this buffer is left (UvcCamera.cpp:449). *)
TornOnlyWhenBehind ==
  pc = "convert" /\ result.torn =>
    /\ (1 .. count) \ {result.buffer} \subseteq Entries(outgoing)
    /\ frames >= result.frame + count

(* A program that ends with 0 has stopped the stream, unmapped every buffer
   and closed the device, in that order (UvcCamera.cpp:196, 381). *)
NormalEndIsClean ==
  /\ ending = "normal" => fd = "closed" /\ mapped = {} /\ ~streaming
  /\ fd = "closed" => mapped = {}
  /\ pc = "unmap" => ~streaming

(* Frames are drawn in the order they came, with one exception: a frame that
   was overwritten while it was drawn shows a later one, whole or in part,
   before its turn, and that one is still in the driver's hands, filled or
   being filled, when an older one follows (UvcCamera.cpp:449). *)
Coming == Entries(outgoing) \cup (IF filling THEN {Head(incoming)} ELSE {})
DrawnInOrder ==
  [][shown' < shown => \E b \in Coming : content[b] = shown]_vars

(* A filled buffer is drawn, unless the program ends before. *)
FilledIsDrawn ==
  \A n \in 1 .. MaxFrames :
    (\E k \in 1 .. Len(outgoing) : content[outgoing[k]] = n) ~> (shown >= n \/ pc = "end")

(* Whatever fails, and whenever the user closes the window, the calls of
   the program keep V4L2's protocol: an end by exception or exit is a
   protocol left halfway, never a step outside it (UvcCamera.cpp:100-123,
   330-358, 381-451, 196-219). *)
place == [b \in Buffers |->
  IF b \notin mapped THEN "absent"
  ELSE IF b \in Entries(incoming) THEN "queued"
  ELSE IF b \in Entries(outgoing) THEN "filled" ELSE "mapped"]

Protocol ==
  INSTANCE V4l2Protocol WITH
    phase <- IF fd = "closed" THEN "closed" ELSE IF streaming THEN "streaming" ELSE "open"

KeepsProtocol == Protocol!Spec

=============================================================================

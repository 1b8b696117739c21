---------------------------- MODULE V4l2Protocol ----------------------------
(***************************************************************************)
(* What V4L2 asks of a program that streams into mapped buffers: a buffer  *)
(* is queued only when it is mapped and the driver does not have it, and   *)
(* taken only when it is filled; the stream starts with something to fill; *)
(* nothing is unmapped while the driver may write, and the device is       *)
(* closed last.                                                            *)
(***************************************************************************)
CONSTANT Buffers

VARIABLES
  phase,   (* "closed", "open" or "streaming"                              *)
  place    (* each buffer: "absent", "mapped", "queued" or "filled"        *)

vars == <<phase, place>>

Init == phase = "closed" /\ place = [b \in Buffers |-> "absent"]

Phase(from, to) == phase = from /\ phase' = to

Move(b, from, to) ==
  /\ b \in Buffers /\ place[b] = from
  /\ place' = [place EXCEPT ![b] = to]
  /\ UNCHANGED phase

Open      == Phase("closed", "open") /\ UNCHANGED place
Map(b)    == phase = "open" /\ Move(b, "absent", "mapped")
Queue(b)  == phase # "closed" /\ Move(b, "mapped", "queued")
StreamOn  == /\ Phase("open", "streaming") /\ UNCHANGED place
             /\ \E b \in Buffers : place[b] = "queued"
Fill(b)   == phase = "streaming" /\ Move(b, "queued", "filled")
Take(b)   == phase = "streaming" /\ Move(b, "filled", "mapped")
StreamOff == /\ Phase("streaming", "open")
             /\ place' = [b \in Buffers |-> IF place[b] = "absent" THEN "absent" ELSE "mapped"]
Unmap(b)  == phase = "open" /\ Move(b, "mapped", "absent")
Close     == /\ Phase("open", "closed") /\ UNCHANGED place
             /\ \A b \in Buffers : place[b] = "absent"

Next ==
  \/ Open \/ StreamOn \/ StreamOff \/ Close
  \/ \E b \in Buffers : Map(b) \/ Queue(b) \/ Fill(b) \/ Take(b) \/ Unmap(b)

Spec == Init /\ [][Next]_vars

=============================================================================

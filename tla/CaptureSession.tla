--------------------------- MODULE CaptureSession ---------------------------
(***************************************************************************)
(* What a capture promises its listener (UvcCaptureListener in             *)
(* UVCPreviewBase.h), with no threads, locks or buffers: sessions that are *)
(* prepared and finished, or fail, and a lossy first-in-first-out channel  *)
(* of bounded capacity that delivers frames only while the session is      *)
(* prepared and is empty between sessions.                                 *)
(***************************************************************************)
EXTENDS Naturals, Sequences

CONSTANTS
  Capacity,   (* frames accepted and not yet delivered or discarded *)
  MaxStamp    (* timestamps are 1..MaxStamp                         *)

VARIABLES
  phase,      (* "stopped", "started", "prepared", "finished", "failed" *)
  channel,    (* timestamps of the frames accepted                      *)
  delivered   (* timestamp of the last frame delivered                  *)

vars == <<phase, channel, delivered>>

Init == phase = "stopped" /\ channel = <<>> /\ delivered = 0

Lifecycle(from, to) ==
  /\ phase \in from /\ phase' = to
  /\ UNCHANGED <<channel, delivered>>

Start   == Lifecycle({"stopped"}, "started")
Prepare == Lifecycle({"started"}, "prepared")
Finish  == Lifecycle({"prepared"}, "finished")
Fail    == channel = <<>> /\ Lifecycle({"started"}, "failed")
Stop    == channel = <<>> /\ Lifecycle({"finished", "failed"}, "stopped")

Accept ==
  /\ phase \in {"started", "prepared", "finished"}
  /\ Len(channel) < Capacity
  /\ \E n \in 1..MaxStamp :
       /\ n > delivered
       /\ \A i \in 1..Len(channel) : n > channel[i]
       /\ channel' = Append(channel, n)
  /\ UNCHANGED <<phase, delivered>>

Discard ==
  /\ channel # <<>>
  /\ channel' = Tail(channel)
  /\ UNCHANGED <<phase, delivered>>

Deliver ==
  /\ phase = "prepared"
  /\ channel # <<>>
  /\ delivered' = Head(channel)
  /\ channel' = Tail(channel)
  /\ UNCHANGED phase

Next ==
  \/ Start \/ Prepare \/ Finish \/ Fail \/ Stop
  \/ Accept \/ Discard \/ Deliver

Spec == Init /\ [][Next]_vars

=============================================================================

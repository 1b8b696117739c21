---------------------------- MODULE SensorChannel ----------------------------
(***************************************************************************)
(* What the distance display may rely on, however often the sensor loses   *)
(* its connection and makes another: a message may be lost, and two may    *)
(* overtake each other, but what is shown was sent, and no message is      *)
(* shown twice.                                                            *)
(***************************************************************************)
EXTENDS Naturals

VARIABLES
  sent,       (* the messages sent so far are 1 .. sent      *)
  travelling, (* those that may still be shown               *)
  shown       (* the message on the display, 0 is none       *)

vars == <<sent, travelling, shown>>

Init == sent = 0 /\ travelling = {} /\ shown = 0

(* The message goes on its way, or is lost at once. *)
Send ==
  /\ sent' = sent + 1
  /\ travelling' \in {travelling, travelling \cup {sent'}}
  /\ UNCHANGED shown

Lose ==
  /\ travelling' \subseteq travelling
  /\ UNCHANGED <<sent, shown>>

Show ==
  /\ \E n \in travelling : shown' = n /\ travelling' = travelling \ {n}
  /\ UNCHANGED sent

Next == Send \/ Lose \/ Show

Spec == Init /\ [][Next]_vars

=============================================================================

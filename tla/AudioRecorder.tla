---------------------------- MODULE AudioRecorder ----------------------------
(***************************************************************************)
(* What the owner of a UACAudioHandler may rely on, whatever its status    *)
(* says: only the engine in use records, it is replaced only while it is   *)
(* silent, and a release silences the recorder for good.                   *)
(***************************************************************************)
CONSTANTS Engines, NoEngine

VARIABLES
  current,     (* the engine in use           *)
  recording,   (* the engines that record     *)
  closed       (* has the release begun?      *)

vars == <<current, recording, closed>>

Init == current = NoEngine /\ recording = {} /\ closed = FALSE

Provide(e) == /\ ~closed /\ recording = {}
              /\ current' = e /\ UNCHANGED <<recording, closed>>
Start      == /\ ~closed /\ recording = {} /\ current # NoEngine
              /\ recording' = {current} /\ UNCHANGED <<current, closed>>
Stop       == recording # {} /\ recording' = {} /\ UNCHANGED <<current, closed>>
Close      == ~closed /\ closed' = TRUE /\ recording' = {} /\ UNCHANGED current
Forget     == closed /\ current' = NoEngine /\ UNCHANGED <<recording, closed>>

Next == (\E e \in Engines : Provide(e)) \/ Start \/ Stop \/ Close \/ Forget

Spec == Init /\ [][Next]_vars

=============================================================================

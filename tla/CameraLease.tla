----------------------------- MODULE CameraLease -----------------------------
(***************************************************************************)
(* What a camera client promises: it takes the camera and the renderer in  *)
(* a session only, each for one holder at a time, shows the preview only   *)
(* while it has the camera, gives them back only after it has ceased to    *)
(* show, and ends with nothing left.                                       *)
(***************************************************************************)
CONSTANT Holders   (* who may hold the camera or the renderer              *)

VARIABLES
  session,    (* is a session under way?                                   *)
  camera,     (* who has the camera open                                   *)
  renderer,   (* whose renderer runs                                       *)
  shown       (* is the preview announced?                                 *)

vars == <<session, camera, renderer, shown>>

Init == ~session /\ camera = {} /\ renderer = {} /\ ~shown

Begin == ~session /\ session' /\ UNCHANGED <<camera, renderer, shown>>

TakeCamera ==
  /\ session /\ camera = {}
  /\ \E h \in Holders : camera' = {h}
  /\ UNCHANGED <<session, renderer, shown>>

TakeRenderer ==
  /\ session /\ renderer = {}
  /\ \E h \in Holders : renderer' = {h}
  /\ UNCHANGED <<session, camera, shown>>

Show == session /\ camera # {} /\ shown' /\ UNCHANGED <<session, camera, renderer>>
Hide == session /\ ~shown' /\ UNCHANGED <<session, camera, renderer>>

GiveCamera ==
  /\ camera # {} /\ ~shown
  /\ camera' = {} /\ UNCHANGED <<session, renderer, shown>>

GiveRenderer ==
  /\ renderer # {} /\ ~shown /\ camera = {}
  /\ renderer' = {} /\ UNCHANGED <<session, camera, shown>>

End == /\ session /\ camera = {} /\ renderer = {} /\ ~shown
       /\ ~session' /\ UNCHANGED <<camera, renderer, shown>>

Next ==
  \/ Begin \/ TakeCamera \/ TakeRenderer \/ Show \/ Hide
  \/ GiveCamera \/ GiveRenderer \/ End

Spec == Init /\ [][Next]_vars

=============================================================================

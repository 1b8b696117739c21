--------------------------- MODULE MCCameraClient ---------------------------
(* CameraClient with two camera threads. *)
EXTENDS CameraClient

CONSTANTS t1, t2, ui, null

=============================================================================

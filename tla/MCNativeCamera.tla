--------------------------- MODULE MCNativeCamera ---------------------------
(* NativeCamera with two windows. *)
EXTENDS NativeCamera

CONSTANTS w1, w2

=============================================================================

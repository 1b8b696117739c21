----------------------------- MODULE MCUacAudio -----------------------------
(* UacAudio with one thread that asks with a time limit and two without. *)
EXTENDS UacAudio

CONSTANTS s1, c1, c2

=============================================================================

-------------------------- MODULE MCSettableFuture --------------------------
(* Instances of SettableFuture for TLC. *)
EXTENDS SettableFuture

CONSTANTS s1, s2, s3, g1, g2, v1, v2, null

=============================================================================

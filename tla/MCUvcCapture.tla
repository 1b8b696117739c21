---------------------------- MODULE MCUvcCapture ----------------------------
(* Instances of UvcCapture for TLC. *)
EXTENDS UvcCapture, TLC

CONSTANTS f1, f2, f3, f4, f5, none, vga, hd, off

FourFrames == {f1, f2, f3, f4}
FiveFrames == {f1, f2, f3, f4, f5}

(* Buffers are interchangeable: only their identity matters. *)
FrameSymmetry == Permutations(Frames)

=============================================================================

---------------------------- MODULE MCV4l2Capture ----------------------------
(* V4l2Capture with the four buffers init_mmap asks for. *)
EXTENDS V4l2Capture

=============================================================================

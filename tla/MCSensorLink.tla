---------------------------- MODULE MCSensorLink ----------------------------
(* SensorLink with two connecting threads, two sockets and two resumes. *)
EXTENDS SensorLink

=============================================================================

---------------------------- MODULE MCUsbMonitor ----------------------------
(* Instances of UsbMonitor for TLC. *)
EXTENDS UsbMonitor

CONSTANTS d1, d2, b1, b2, b3, b4, null

=============================================================================

----------------------------- MODULE MCMainLoop -----------------------------
(* A low-speed keyboard with one key, and a full-speed mouse. *)
EXTENDS MainLoop

MCDevices == {[class |-> HID_K, low |-> TRUE], [class |-> HID_M, low |-> FALSE]}
MCKeys == {0, 26}
=============================================================================

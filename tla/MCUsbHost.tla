------------------------------ MODULE MCUsbHost ------------------------------
(* A low-speed keyboard and a full-speed mouse. *)
EXTENDS UsbHost

MCDevices == {[class |-> HID_K, low |-> TRUE], [class |-> HID_M, low |-> FALSE]}
=============================================================================

---------------------------- MODULE PortService ----------------------------
(***************************************************************************)
(* What the firmware does for the port, whatever happens at it: a device   *)
(* comes into service only after a look at the port, the one in service is *)
(* the one that was there, and a service or an error ends only when the    *)
(* connection has changed and the port was looked at again.  A change may  *)
(* be forgotten without a look, but never while a device is in service.    *)
(***************************************************************************)

CONSTANTS Devices, NoDevice,
          Drivers       \* the classes that there is a driver for

VARIABLES
    plugged,    \* the device at the port, or NoDevice
    changed,    \* the connection has changed and that was not yet acknowledged
    phase,      \* "off", "starting", "serving" or "failed"
    served      \* the class in service, as a set of at most one

vars == <<plugged, changed, phase, served>>

Init ==
    /\ plugged \in Devices \cup {NoDevice}
    /\ changed = FALSE /\ phase = "off" /\ served = {}

-----------------------------------------------------------------------------
(* The port *)

Plug ==
    /\ plugged = NoDevice /\ plugged' \in Devices
    /\ changed' = TRUE
    /\ UNCHANGED <<phase, served>>

Unplug ==
    /\ plugged # NoDevice /\ plugged' = NoDevice
    /\ changed' = TRUE
    /\ UNCHANGED <<phase, served>>

\* The contact bounces.
Noise ==
    /\ changed' = TRUE
    /\ UNCHANGED <<plugged, phase, served>>

-----------------------------------------------------------------------------
(* The firmware *)

\* What is seen may be a glitch.
Look ==
    /\ changed \/ phase \in {"off", "starting"}
    /\ phase' \in {"off", "starting"} /\ served' = {}
    /\ UNCHANGED <<plugged, changed>>

Acknowledge ==
    /\ phase \in {"off", "starting"}
    /\ changed' = FALSE
    /\ UNCHANGED <<plugged, phase, served>>

Serve ==
    /\ phase = "starting"
    /\ plugged # NoDevice /\ plugged.class \in Drivers
    /\ phase' = "serving" /\ served' = {plugged.class}
    /\ UNCHANGED <<plugged, changed>>

Fail ==
    /\ phase = "starting" /\ phase' = "failed"
    /\ UNCHANGED <<plugged, changed, served>>

Next == Plug \/ Unplug \/ Noise \/ Look \/ Acknowledge \/ Serve \/ Fail

Spec == Init /\ [][Next]_vars

\* What is in service is what is at the port, as long as no change is pending.
RightDevice ==
    phase = "serving" /\ ~changed => plugged # NoDevice /\ served = {plugged.class}

\* A device that is gone does not stay in service, and a start comes to an end.
Progress ==
    /\ (phase = "serving" /\ plugged = NoDevice) ~> phase # "serving"
    /\ phase = "starting" ~> (phase # "starting" \/ changed)
=============================================================================

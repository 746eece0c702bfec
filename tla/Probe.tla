------------------------------- MODULE Probe -------------------------------
(***************************************************************************)
(* The search for a driver: USB_Task's state CONFIGURING tries the drivers *)
(* of ClientDriverTable in turn, and the mouse's and the keyboard's read   *)
(* the device's descriptors into one buffer, look for their interface, and *)
(* configure the device.  Every transfer may fail, and a transfer that     *)
(* failed may have reached the device.  Translated from                    *)
(* src/software/usb_kb/usb_kb/transfer.c and HID.c.                        *)
(*                                                                         *)
(* A descriptor is one unit of the buffer.  An interface is known by its   *)
(* place among the descriptors.                                            *)
(***************************************************************************)
EXTENDS Naturals, Sequences, FiniteSets

CONSTANTS
    MaxDescr,       \* descriptors of a device
    Capacity        \* descriptors that fit into bigbuf

Classes == {"mouse", "keyboard"}
Interfaces == Classes \cup {"other"}
Endpoints == {"small", "large"}             \* by their packet size
Descriptors == Interfaces \cup Endpoints \cup {"hid"}
None == "none"

\* What a device may hold: its configuration first.
Devices ==
    {<<"config">> \o rest : rest \in UNION {[1..n -> Descriptors] : n \in 0..(MaxDescr - 1)}}

\* ClientDriverTable; the first and the last of them never take a device.
ClientDriverTable == <<"MSD", "mouse", "keyboard", "Dummy">>

VARIABLES
    \* the firmware
    pc,             \* where the driver's probe is; "running" and "error" end the search
    driver,         \* the place in ClientDriverTable
    bigbuf, total_length, ptr,
    devclass, interface, ep1,       \* of devtable, hid_device and hid_ep
    \* the device
    plugged,        \* its descriptors
    configured,     \* its configuration is set
    boot,           \* its interfaces in the boot protocol
    failed          \* a transfer failed in this search

search == <<pc, driver>>
parser == <<bigbuf, total_length, ptr>>
tables == <<devclass, interface, ep1>>
device == <<plugged, configured, boot>>
vars == <<search, parser, tables, device, failed>>

Class == ClientDriverTable[driver]

Smaller(m, n) == IF m < n THEN m ELSE n

\* The first n descriptors arrive in the buffer, and leave the rest of it.
Filled(n) == [i \in 1..Capacity |-> IF i <= n THEN plugged[i] ELSE bigbuf[i]]

Init ==
    /\ plugged \in Devices /\ configured = FALSE /\ boot = {}
    /\ pc = "search" /\ driver = 1 /\ failed = FALSE
    /\ bigbuf = [i \in 1..Capacity |-> None]
    /\ total_length = 0 /\ ptr = 1
    /\ devclass = None /\ interface = 0 /\ ep1 = None

-----------------------------------------------------------------------------
(* USB_Task, and the ends of a probe *)

\* A probe returned FALSE: the next driver's turn, or none is left.
Refused ==
    IF driver = Len(ClientDriverTable)
      THEN pc' = "error" /\ UNCHANGED driver
      ELSE pc' = "search" /\ driver' = driver + 1

NoProbe ==
    /\ pc = "search" /\ Class \notin Classes
    /\ Refused
    /\ UNCHANGED <<parser, tables, device, failed>>

-----------------------------------------------------------------------------
(* HIDMProbe and HIDKProbe *)

\* The configuration descriptor tells how much there is.
GetHeader ==
    /\ pc = "search" /\ Class \in Classes
    /\ bigbuf' = Filled(1)
    /\ total_length' = Smaller(Len(plugged), Capacity)
    /\ ptr' = 1
    /\ pc' = "whole"
    /\ UNCHANGED <<driver, tables, device, failed>>

GetWhole ==
    /\ pc = "whole"
    /\ bigbuf' = Filled(total_length)
    /\ pc' = "interface"
    /\ UNCHANGED <<driver, total_length, ptr, tables, device, failed>>

\* A part may have arrived when a transfer fails.
GetFails ==
    /\ pc \in {"search", "whole"} /\ Class \in Classes
    /\ \E n \in 0..(IF pc = "search" THEN 1 ELSE total_length) : bigbuf' = Filled(n)
    /\ failed' = TRUE
    /\ Refused
    /\ UNCHANGED <<total_length, ptr, tables, device>>

\* Mutation: the walk goes to the end of the buffer.
WithinBuffer == ptr <= Capacity

\* The walk goes to the end of what the device sent.
Within == ptr <= total_length

Skip ==
    /\ Within
    /\ \/ pc = "interface" /\ bigbuf[ptr] \notin Interfaces
       \/ pc = "endpoint" /\ bigbuf[ptr] \notin Endpoints
    /\ ptr' = ptr + 1
    /\ UNCHANGED <<search, bigbuf, total_length, tables, device, failed>>

\* The driver's interface: the device's entry is taken over.
Claim ==
    /\ pc = "interface" /\ Within
    /\ bigbuf[ptr] = Class
    /\ devclass' = Class
    /\ interface' = ptr
    /\ ptr' = ptr + 1
    /\ pc' = "endpoint"
    /\ UNCHANGED <<driver, bigbuf, total_length, ep1, device, failed>>

\* Mutation: the search ends with the first interface.
NotMineNorAnyones ==
    /\ pc = "interface" /\ Within
    /\ bigbuf[ptr] \in Interfaces \ {Class}
    /\ pc' = "error"
    /\ UNCHANGED <<driver, parser, tables, device, failed>>

\* Another interface comes first.
NotMine ==
    /\ pc = "interface" /\ Within
    /\ bigbuf[ptr] \in Interfaces \ {Class}
    /\ Refused
    /\ UNCHANGED <<parser, tables, device, failed>>

NothingFound ==
    /\ pc \in {"interface", "endpoint"} /\ ~Within
    /\ Refused
    /\ UNCHANGED <<parser, tables, device, failed>>

FillEndpoint ==
    /\ pc = "endpoint" /\ Within
    /\ bigbuf[ptr] \in Endpoints
    /\ ep1' = bigbuf[ptr]
    /\ pc' = "setconf"
    /\ UNCHANGED <<driver, parser, devclass, interface, device, failed>>

SetConf ==
    /\ pc = "setconf" /\ pc' = "setproto"
    /\ configured' = TRUE
    /\ UNCHANGED <<driver, parser, tables, plugged, boot, failed>>

SetProto ==
    /\ pc = "setproto" /\ pc' = "running"
    /\ boot' = boot \cup {interface}
    /\ UNCHANGED <<driver, parser, tables, plugged, configured, failed>>

\* The request, or only the answer to it, was lost.
SetFails ==
    /\ pc \in {"setconf", "setproto"}
    /\ failed' = TRUE
    /\ Refused
    /\ \/ UNCHANGED device
       \/ pc = "setconf" /\ configured' = TRUE /\ UNCHANGED <<plugged, boot>>
       \/ pc = "setproto" /\ boot' = boot \cup {interface} /\ UNCHANGED <<plugged, configured>>
    /\ UNCHANGED <<parser, tables>>

Configuring ==
    \/ NoProbe
    \/ GetHeader \/ GetWhole \/ GetFails
    \/ Skip \/ Claim \/ NotMine \/ NothingFound
    \/ FillEndpoint \/ SetConf \/ SetProto \/ SetFails

\* The device is pulled out, and the clean-up empties its entry of the table.  What
\* bigbuf, hid_device and hid_ep hold stays there.
Detach ==
    /\ pc \in {"running", "error"} /\ pc' = "detached"
    /\ plugged' = <<>> /\ configured' = FALSE /\ boot' = {}
    /\ devclass' = None
    /\ total_length' = 0 /\ ptr' = 1 /\ driver' = 1 /\ failed' = FALSE
    /\ UNCHANGED <<bigbuf, interface, ep1>>

\* Another one is plugged in, and addressed.
Attach ==
    /\ pc = "detached" /\ pc' = "search"
    /\ plugged' \in Devices
    /\ UNCHANGED <<driver, parser, tables, configured, boot, failed>>

Next == Configuring \/ Detach \/ Attach

Spec == Init /\ [][Next]_vars /\ WF_vars(Configuring)

-----------------------------------------------------------------------------
\* What the comments above the probes say of a device they take: its first interface
\* is of the driver's class, and an endpoint follows.
Seen == SubSeq(plugged, 1, Smaller(Len(plugged), Capacity))

FirstIn(kinds, from) ==
    LET found == {i \in from..Len(Seen) : Seen[i] \in kinds}
    IN IF found = {} THEN 0 ELSE CHOOSE i \in found : \A j \in found : i <= j

FirstInterface == FirstIn(Interfaces, 1)
ItsEndpoint == FirstIn(Endpoints, FirstInterface + 1)

Suits == FirstInterface # 0 /\ Seen[FirstInterface] \in Classes /\ ItsEndpoint # 0

\* What is polled has been set up: the device in service is configured, its own first
\* interface is the one in boot protocol, of the class the main loop polls and with the
\* packet size of its endpoint, whatever an earlier device or an earlier attempt left.
SetUpAsPolled ==
    pc = "running" =>
        /\ Suits
        /\ interface = FirstInterface /\ devclass = Seen[FirstInterface]
        /\ ep1 = Seen[ItsEndpoint]
        /\ configured /\ interface \in boot

\* A device that one of the drivers suits is refused only because a transfer failed.
RefusedForCause == pc = "error" /\ ~failed => ~Suits

=============================================================================

------------------------------- MODULE UsbHost -------------------------------
(***************************************************************************)
(* The firmware that keeps a USB device in service: the main loop, its     *)
(* interrupt poll and bus probe, and the state machine USB_Task, over a    *)
(* MAX3421E and a port where devices are plugged in and out at any time.   *)
(*                                                                         *)
(* The processor runs one loop; the chip and the port act between any two  *)
(* of its accesses to the chip's interrupt and sample registers.  pc is    *)
(* the place in the loop.  A transfer is one step that succeeds only if a  *)
(* device with that address is there and the bus runs at its speed, and    *)
(* that may always fail.                                                   *)
(***************************************************************************)
EXTENDS Integers

CONSTANTS
    USB_NUMDEVICES,     \* 8: addresses are 1 to 7, and 0 for an unaddressed device
    Devices             \* what may be plugged in

\* The classes of transfer.h; UNINIT also stands for a class without a driver.
UNINIT == 0
HID_K == 1
HID_M == 2

ASSUME UsbAssumption ==
    /\ USB_NUMDEVICES \in Nat \ {0, 1}
    /\ Devices \subseteq [class : {UNINIT, HID_K, HID_M}, low : BOOLEAN]

\* The states of USB.h.  The interrupt handler increments them, so they are
\* numbers; below 16, the masked state is USB_STATE_DETACHED.
INITIALIZE == 1
WAIT_FOR_DEVICE == 3
ILLEGAL == 4
ATTACHED == 16
SETTLE == 17
RESET_DEVICE == 18
WAIT_RESET_COMPLETE == 19
WAIT_SOF == 20
GET_DESCRIPTOR_SIZE == 21
ADDRESSING == 32
CONFIGURING == 48
RUNNING == 64
ERROR == 255

NoDevice == [class |-> -1, low |-> FALSE]
Unreset == -1                       \* a device that has not seen a bus reset
Address == 0..(USB_NUMDEVICES - 1)

VARIABLES
    \* the firmware
    pc,                 \* "poll", "probe", "ack", "task", "main", "reset", "reprobe" or "clear"
    usb_task_state,
    irqs,               \* HIRQ and HIRQ_sendback of MaxIntHandler, without CONDETIRQ
    epinfo,             \* epinfo[a]: whose endpoint records devtable[a] points to
    devclass,           \* devclass of devtable[a]
    tmp_addr,
    hid_addr,           \* hid_device.addr
    runningdebugflag,
    device,             \* the class the main loop polls
    \* the chip
    condet, busevent, frame,    \* CONDETIRQ, BUSEVENTIRQ, FRAMEIRQ
    busrst,             \* BUSRST: a bus reset is going on
    mode,               \* LOWSPEED and SOFKAENAB of the MODE register
    bus_sample,         \* JSTATUS and KSTATUS
    settled,            \* the clock has passed usb_delay
    \* the port
    plugged,            \* the device there, or NoDevice
    devaddr             \* the address it answers to

tables == <<epinfo, devclass, tmp_addr, hid_addr>>
loop == <<runningdebugflag, device>>
firmware == <<pc, usb_task_state, irqs, tables, loop>>
flags == <<condet, busevent, frame>>
chip == <<flags, busrst, mode, bus_sample, settled>>
port == <<plugged, devaddr>>
vars == <<firmware, chip, port>>

Detached == usb_task_state < ATTACHED
Attaching == usb_task_state \in ATTACHED..CONFIGURING

-----------------------------------------------------------------------------
(* The chip and the port *)

\* An idle full-speed device shows J on a full-speed bus; its polarity and the
\* bus's are reversed for low speed.
Idle(p, low) == IF p = NoDevice THEN "SE0" ELSE IF p.low = low THEN "J" ELSE "K"

\* The connection detector samples the port; a glitch may show the illegal state.
ConnectionChange ==
    /\ condet' = TRUE
    /\ bus_sample' \in {Idle(plugged', mode.low), "SE1"}

Attach ==
    /\ plugged = NoDevice
    /\ plugged' \in Devices
    /\ devaddr' = Unreset
    /\ ConnectionChange
    /\ UNCHANGED <<firmware, busevent, frame, busrst, mode, settled>>

Detach ==
    /\ plugged # NoDevice
    /\ plugged' = NoDevice
    /\ devaddr' = Unreset
    /\ ConnectionChange
    /\ UNCHANGED <<firmware, busevent, frame, busrst, mode, settled>>

\* A bus reset may look like a connection change.
ResetNoise ==
    /\ busrst
    /\ UNCHANGED <<firmware, busevent, frame, busrst, mode, settled, port>>
    /\ ConnectionChange

ResetDone ==
    /\ busrst
    /\ busrst' = FALSE
    /\ busevent' = TRUE
    /\ devaddr' = IF plugged = NoDevice THEN Unreset ELSE 0
    /\ UNCHANGED <<firmware, condet, frame, mode, bus_sample, settled, plugged>>

\* A frame marker goes out.
SofSent ==
    /\ mode.sof /\ ~busrst /\ ~frame
    /\ frame' = TRUE
    /\ UNCHANGED <<firmware, condet, busevent, busrst, mode, bus_sample, settled, port>>

SettleTimeOver ==
    /\ ~settled
    /\ settled' = TRUE
    /\ UNCHANGED <<firmware, flags, busrst, mode, bus_sample, port>>

\* A transfer to address a can succeed.
Answers(a) == plugged # NoDevice /\ devaddr = a /\ plugged.low = mode.low /\ ~busrst

-----------------------------------------------------------------------------
(* The bus probe *)

\* Mutation: a connection change is also taken for a bus reset while a device runs.
NextTaskStateRunning(sample) ==
    CASE sample \in {"J", "K"} ->
            IF usb_task_state \in {WAIT_RESET_COMPLETE, RUNNING} THEN usb_task_state ELSE ATTACHED
      [] sample = "SE1" -> ILLEGAL
      [] sample = "SE0" -> IF Detached THEN WAIT_FOR_DEVICE ELSE INITIALIZE

\* Mutation: a disconnection is looked for only where one is waited for.
NextTaskStateConnect(sample) ==
    CASE sample \in {"J", "K"} ->
            IF usb_task_state = WAIT_RESET_COMPLETE THEN usb_task_state ELSE ATTACHED
      [] sample = "SE1" -> ILLEGAL
      [] sample = "SE0" -> IF Detached THEN WAIT_FOR_DEVICE ELSE usb_task_state

\* A connection change during a bus reset is taken to come from the reset.
NextTaskState(sample) ==
    CASE sample \in {"J", "K"} ->
            IF usb_task_state = WAIT_RESET_COMPLETE THEN usb_task_state ELSE ATTACHED
      [] sample = "SE1" -> ILLEGAL
      [] sample = "SE0" -> IF Detached THEN WAIT_FOR_DEVICE ELSE INITIALIZE

\* J keeps the speed of the bus, K changes it.
NextMode(sample) ==
    CASE sample \in {"J", "K"} /\ usb_task_state # WAIT_RESET_COMPLETE ->
            [low |-> (sample = "J") = mode.low, sof |-> TRUE]
      [] sample = "SE0" /\ Detached -> [low |-> FALSE, sof |-> TRUE]
      [] OTHER -> mode

MAX_busprobe(sample) ==
    /\ usb_task_state' = NextTaskState(sample)
    /\ mode' = NextMode(sample)

-----------------------------------------------------------------------------
(* MAX3421E_Task: the interrupt is polled; only CONDETIRQ drives the pin *)

\* The handler's variables hold nothing between its calls.
NoIrqs == [busevent |-> FALSE, frame |-> FALSE]

MAX3421E_Task ==
    /\ pc = "poll"
    /\ IF condet
         THEN irqs' = [busevent |-> busevent, frame |-> frame] /\ pc' = "probe"
         ELSE UNCHANGED irqs /\ pc' = "task"
    /\ UNCHANGED <<usb_task_state, tables, loop, chip, port>>

Probe ==
    /\ pc = "probe"
    /\ MAX_busprobe(bus_sample)
    /\ pc' = "ack"
    /\ UNCHANGED <<irqs, tables, loop, flags, busrst, bus_sample, settled, port>>

\* The bus event that was read advances the state machine, whatever its state; the
\* flags that were read are written back, and CONDETIRQ with them.
Acknowledge ==
    /\ pc = "ack"
    /\ usb_task_state' = IF irqs.busevent THEN (usb_task_state + 1) % 256 ELSE usb_task_state
    /\ condet' = FALSE
    /\ busevent' = (busevent /\ ~irqs.busevent)
    /\ frame' = (frame /\ ~irqs.frame)
    /\ irqs' = NoIrqs
    /\ pc' = "task"
    /\ UNCHANGED <<tables, loop, busrst, mode, bus_sample, settled, port>>

-----------------------------------------------------------------------------
(* USB_Task: one case of the switch in every turn of the main loop *)

Task(state) == pc = "task" /\ usb_task_state = state /\ pc' = "main"

USB_init ==
    /\ epinfo' = [a \in Address |-> IF a = 0 THEN "dev0ep" ELSE "NULL"]
    /\ devclass' = [a \in Address |-> UNINIT]
    /\ UNCHANGED <<tmp_addr, hid_addr>>

Initialize ==
    /\ Task(INITIALIZE)
    /\ USB_init
    /\ usb_task_state' = WAIT_FOR_DEVICE
    /\ UNCHANGED <<irqs, loop, chip, port>>

\* Writes SAMPLEBUS.
WaitForDevice ==
    /\ Task(WAIT_FOR_DEVICE)
    /\ bus_sample' = Idle(plugged, mode.low)
    /\ UNCHANGED <<usb_task_state, irqs, tables, loop, flags, busrst, mode, settled, port>>

StartSettling ==
    /\ Task(ATTACHED)
    /\ settled' = FALSE
    /\ usb_task_state' = SETTLE
    /\ UNCHANGED <<irqs, tables, loop, flags, busrst, mode, bus_sample, port>>

Settle ==
    /\ Task(SETTLE)
    /\ settled
    /\ usb_task_state' = RESET_DEVICE
    /\ UNCHANGED <<irqs, tables, loop, chip, port>>

\* Mutation: an old bus event is left pending.
ResetDeviceKeepsEvent ==
    /\ Task(RESET_DEVICE)
    /\ busrst' = TRUE
    /\ usb_task_state' = WAIT_RESET_COMPLETE
    /\ UNCHANGED <<irqs, tables, loop, flags, mode, bus_sample, settled, port>>

ResetDevice ==
    /\ Task(RESET_DEVICE)
    /\ busevent' = FALSE
    /\ busrst' = TRUE
    /\ usb_task_state' = WAIT_RESET_COMPLETE
    /\ UNCHANGED <<irqs, tables, loop, condet, frame, mode, bus_sample, settled, port>>

ResetComplete ==
    /\ Task(WAIT_RESET_COMPLETE)
    /\ ~busrst
    /\ mode' = [mode EXCEPT !.sof = TRUE]
    /\ usb_task_state' = WAIT_SOF
    /\ UNCHANGED <<irqs, tables, loop, flags, busrst, bus_sample, settled, port>>

\* HIRQ | bmFRAMEIRQ is true whatever HIRQ is.
WaitSof ==
    /\ Task(WAIT_SOF)
    /\ usb_task_state' = GET_DESCRIPTOR_SIZE
    /\ UNCHANGED <<irqs, tables, loop, chip, port>>

\* The result of the first transfer decides; those of the strings are not looked at.
GetDeviceDescriptor ==
    /\ Task(GET_DESCRIPTOR_SIZE)
    /\ \/ Answers(0) /\ usb_task_state' = ADDRESSING
       \/ usb_task_state' = ERROR
    /\ UNCHANGED <<irqs, tables, loop, chip, port>>

\* Mutation: the search for an address runs downwards.
FreeAddressDown(a) ==
    /\ a # 0 /\ epinfo[a] = "NULL"
    /\ \A b \in Address : b > a => epinfo[b] # "NULL"

\* The first address that is not in use.
FreeAddress(a) ==
    /\ a # 0 /\ epinfo[a] = "NULL"
    /\ \A b \in Address : 0 < b /\ b < a => epinfo[b] # "NULL"

\* The entry is taken before the transfer, and kept if it fails.  The device may
\* have accepted an address whose acknowledgement was lost.
SetAddress ==
    /\ Task(ADDRESSING)
    /\ \E a \in Address :
         /\ FreeAddress(a)
         /\ epinfo' = [epinfo EXCEPT ![a] = epinfo[0]]
         /\ \/ /\ Answers(0)
               /\ devaddr' = a
               /\ \/ usb_task_state' = CONFIGURING /\ tmp_addr' = a
                  \/ usb_task_state' = ERROR /\ UNCHANGED tmp_addr
            \/ usb_task_state' = ERROR /\ UNCHANGED <<tmp_addr, devaddr>>
    /\ UNCHANGED <<irqs, devclass, hid_addr, loop, chip, plugged>>

\* Mutation: running out of addresses is not noticed.
NoAddressUnnoticed ==
    /\ Task(ADDRESSING)
    /\ \A a \in Address : epinfo[a] # "NULL"
    /\ UNCHANGED <<usb_task_state, irqs, tables, loop, chip, port>>

NoAddress ==
    /\ Task(ADDRESSING)
    /\ \A a \in Address : epinfo[a] # "NULL"
    /\ usb_task_state' = ERROR
    /\ UNCHANGED <<irqs, tables, loop, chip, port>>

\* No probe recognises the device, or none gets that far.
NoDriver ==
    /\ Task(CONFIGURING)
    /\ usb_task_state' = ERROR
    /\ UNCHANGED <<irqs, tables, loop, chip, port>>

\* The probe of the device's class finds its interface and takes over the entry;
\* setting the configuration and the protocol may still fail.
ProbeDriver ==
    /\ Task(CONFIGURING)
    /\ Answers(tmp_addr)
    /\ plugged.class \in {HID_K, HID_M}
    /\ devclass' = [devclass EXCEPT ![tmp_addr] = plugged.class]
    /\ epinfo' = [epinfo EXCEPT ![tmp_addr] = "hid_ep"]
    /\ hid_addr' = tmp_addr
    /\ usb_task_state' \in {RUNNING, ERROR}
    /\ UNCHANGED <<irqs, tmp_addr, loop, chip, port>>

\* Every other case of the switch, and the states no case handles.
NothingToDo ==
    /\ pc = "task" /\ pc' = "main"
    /\ \/ usb_task_state \notin {INITIALIZE, WAIT_FOR_DEVICE, ADDRESSING, CONFIGURING}
                                  \cup (ATTACHED..GET_DESCRIPTOR_SIZE)
       \/ usb_task_state = SETTLE /\ ~settled
       \/ usb_task_state = WAIT_RESET_COMPLETE /\ busrst
    /\ UNCHANGED <<usb_task_state, irqs, tables, loop, chip, port>>

USB_Task ==
    \/ Initialize \/ WaitForDevice
    \/ StartSettling \/ Settle \/ ResetDevice \/ ResetComplete \/ WaitSof \/ GetDeviceDescriptor
    \/ SetAddress \/ NoAddress \/ NoDriver \/ ProbeDriver \/ NothingToDo

-----------------------------------------------------------------------------
(* The rest of the main loop's turn *)

\* GetDriverandReport: the class of the last device in the table.
LastClass ==
    LET used == {a \in Address : a # 0 /\ epinfo[a] # "NULL"} IN
    IF used = {} THEN 255
    ELSE devclass[CHOOSE a \in used : \A b \in used : b <= a]

\* Mutation: the end of the service is not noted, and nothing is set up again.
StopServingUnnoted ==
    /\ pc = "main"
    /\ usb_task_state \notin {RUNNING, ERROR}
    /\ pc' = "poll"
    /\ UNCHANGED <<usb_task_state, irqs, tables, loop, chip, port>>

\* Neither running nor failed: after a device was served, all is set up again.
StopServing ==
    /\ pc = "main"
    /\ usb_task_state \notin {RUNNING, ERROR}
    /\ runningdebugflag' = FALSE
    /\ pc' = IF runningdebugflag THEN "reset" ELSE "poll"
    /\ UNCHANGED <<usb_task_state, irqs, tables, device, chip, port>>

FindDriver ==
    /\ pc = "main"
    /\ usb_task_state = RUNNING /\ ~runningdebugflag
    /\ runningdebugflag' = TRUE
    /\ device' = LastClass
    /\ pc' = "poll"
    /\ UNCHANGED <<usb_task_state, irqs, tables, chip, port>>

\* A report is polled, or the error is told.
Serve ==
    /\ pc = "main"
    /\ usb_task_state = ERROR \/ (usb_task_state = RUNNING /\ runningdebugflag)
    /\ pc' = "poll"
    /\ UNCHANGED <<usb_task_state, irqs, tables, loop, chip, port>>

\* MAX3421E_init up to the mode register: a reset chip on a full-speed bus.
ChipReset ==
    /\ pc = "reset" /\ pc' = "reprobe"
    /\ condet' = FALSE /\ busevent' = FALSE /\ frame' = FALSE /\ busrst' = FALSE
    /\ mode' = [low |-> FALSE, sof |-> FALSE]
    /\ UNCHANGED <<usb_task_state, irqs, tables, loop, bus_sample, settled, port>>

\* Its SAMPLEBUS and MAX_busprobe.
Reprobe ==
    /\ pc = "reprobe" /\ pc' = "clear"
    /\ bus_sample' = Idle(plugged, mode.low)
    /\ MAX_busprobe(bus_sample')
    /\ UNCHANGED <<irqs, tables, loop, flags, busrst, settled, port>>

\* Its clearing of CONDETIRQ, and USB_init.
ClearAndInit ==
    /\ pc = "clear" /\ pc' = "poll"
    /\ condet' = FALSE
    /\ USB_init
    /\ UNCHANGED <<usb_task_state, irqs, loop, busevent, frame, busrst, mode, bus_sample,
                   settled, port>>

-----------------------------------------------------------------------------
\* Power-up: static data are zero, and usb_delay is in the past.
Init ==
    /\ pc = "reset"
    /\ usb_task_state = INITIALIZE
    /\ irqs = NoIrqs
    /\ epinfo = [a \in Address |-> "NULL"]
    /\ devclass = [a \in Address |-> UNINIT]
    /\ tmp_addr = 0 /\ hid_addr = 0
    /\ runningdebugflag = FALSE /\ device = 255
    /\ condet = FALSE /\ busevent = FALSE /\ frame = FALSE /\ busrst = FALSE
    /\ mode = [low |-> FALSE, sof |-> FALSE]
    /\ bus_sample = "SE0"
    /\ settled = TRUE
    /\ plugged \in Devices \cup {NoDevice}
    /\ devaddr = Unreset

Firmware ==
    \/ MAX3421E_Task \/ Probe \/ Acknowledge
    \/ USB_Task
    \/ StopServing \/ FindDriver \/ Serve
    \/ ChipReset \/ Reprobe \/ ClearAndInit

Environment == Attach \/ Detach \/ ResetNoise \/ ResetDone \/ SofSent \/ SettleTimeOver

Next == Firmware \/ Environment

\* The loop never waits, a bus reset ends, and time passes.
Fairness == WF_vars(Firmware) /\ WF_vars(ResetDone) /\ WF_vars(SettleTimeOver)

Spec == Init /\ [][Next]_vars /\ Fairness

-----------------------------------------------------------------------------
\* Types and, for usb_task_state, the states that are left: what the handler's
\* increment makes of a state that the probe has just set is never more than the
\* two extra detached ones (2 and 5) and the next step of an attachment.
TypeOK ==
    /\ pc \in {"poll", "probe", "ack", "task", "main", "reset", "reprobe", "clear"}
    /\ usb_task_state \in (1..5) \cup (16..21) \cup {32, 48, 64, 255}
    /\ irqs \in [busevent : BOOLEAN, frame : BOOLEAN]
    /\ epinfo \in [Address -> {"NULL", "dev0ep", "hid_ep"}]
    /\ devclass \in [Address -> {UNINIT, HID_K, HID_M}]
    /\ tmp_addr \in Address /\ hid_addr \in Address
    /\ runningdebugflag \in BOOLEAN /\ device \in {UNINIT, HID_K, HID_M, 255}
    /\ condet \in BOOLEAN /\ busevent \in BOOLEAN /\ frame \in BOOLEAN /\ busrst \in BOOLEAN
    /\ mode \in [low : BOOLEAN, sof : BOOLEAN]
    /\ bus_sample \in {"SE0", "J", "K", "SE1"}
    /\ settled \in BOOLEAN
    /\ plugged \in Devices \cup {NoDevice}
    /\ devaddr \in Address \cup {Unreset}

\* The device is spoken to only after the bus reset is over: no bus event of an
\* earlier reset, acknowledged late, carries the task past the wait.
ResetBeforeTalk ==
    usb_task_state \in {WAIT_SOF, GET_DESCRIPTOR_SIZE, ADDRESSING, CONFIGURING} => ~busrst

\* Every pointer that is followed is set: the default address from the moment the
\* loop starts, every entry up to the one in use (main.c asks address 1 whatever
\* the address of the device, and polls hid_device.addr).
NoNullEndpoint ==
    /\ pc \notin {"reset", "reprobe", "clear"} => epinfo[0] # "NULL"
    /\ usb_task_state \in {CONFIGURING, RUNNING} =>
         \A a \in Address : a <= tmp_addr => epinfo[a] # "NULL"
    /\ usb_task_state = RUNNING => epinfo[hid_addr] = "hid_ep"

\* While a device is served and no change of connection is pending, the device
\* polled is the one plugged in, at its address and its speed.
RunsTheDevice ==
    usb_task_state = RUNNING /\ ~condet =>
        /\ Answers(hid_addr)
        /\ devclass[hid_addr] = plugged.class

\* The main loop, which looks the driver up once, polls with the routine of the
\* device now in service, also after a device of another class was swapped in.
DriverMatches ==
    usb_task_state = RUNNING /\ runningdebugflag => device = devclass[hid_addr]

\* What the state machine is doing for the port.
Phase ==
    CASE Detached                  -> "off"
      [] Attaching                 -> "starting"
      [] usb_task_state = RUNNING  -> "serving"
      [] usb_task_state = ERROR    -> "failed"

InService == IF usb_task_state = RUNNING THEN {devclass[hid_addr]} ELSE {}

Port == INSTANCE PortService WITH
    Drivers <- {HID_K, HID_M},
    changed <- condet,
    phase   <- Phase,
    served  <- InService

\* Loop, handler and task together are a PortService, wherever plugs fall between the
\* reading of the flags, the probe and the acknowledgement: a service or an error ends
\* by a probe with a change pending and in no other way, a change is acknowledged
\* unseen only while nothing is in service, and what comes into service is there.
HostIsService == Port!Spec

\* The removal of a device in service is noticed, and an attachment comes to an end,
\* unless the connection changes again.
ServiceGoesOn == Port!Progress

-----------------------------------------------------------------------------
\* transfer.c:260 and MAX3421E.c:178 say that the detached states clean up the
\* device table: when the main loop finds the firmware detached and every change
\* handled, no device is left in the table.
DetachedIsClean ==
    pc = "main" /\ usb_task_state \in 1..3 /\ ~condet =>
        \A a \in Address : a # 0 => epinfo[a] = "NULL"
=============================================================================

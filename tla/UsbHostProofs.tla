---------------------------- MODULE UsbHostProofs ----------------------------
(***************************************************************************)
(* Theorems about UsbHost and the MainLoop around it, for any number of    *)
(* addresses and any set of devices and keys.                              *)
(***************************************************************************)
EXTENDS MainLoop, TLAPS

\* What the place in the loop says of the state and of the handler's variables:
\* the increment is applied only to a state the probe has just set.
Places ==
    /\ pc \in {"ack", "clear"} =>
         usb_task_state \in {INITIALIZE, WAIT_FOR_DEVICE, ILLEGAL, ATTACHED, WAIT_RESET_COMPLETE}
    /\ pc \in {"reset", "reprobe"} => usb_task_state \notin {RUNNING, ERROR}
    /\ pc \notin {"probe", "ack"} => irqs = NoIrqs

\* A bus event seen during the wait for the reset is the end of that reset.
ResetWait ==
    /\ ResetBeforeTalk
    /\ usb_task_state = WAIT_RESET_COMPLETE /\ (busevent \/ irqs.busevent) => ~busrst

\* The addresses in use are the first ones, and the last of them is the current one.
Table ==
    /\ \A a, b \in Address : 0 < a /\ a < b /\ epinfo[a] = "NULL" => epinfo[b] = "NULL"
    /\ usb_task_state \in {CONFIGURING, RUNNING} =>
         /\ tmp_addr # 0
         /\ \A a \in Address : tmp_addr < a => epinfo[a] = "NULL"
    /\ usb_task_state = RUNNING => hid_addr = tmp_addr

\* Where the probe leads out of a service or an error, in what is left of the turn.
Leaving ==
    \/ pc = "ack" /\ usb_task_state \in {INITIALIZE, ILLEGAL, ATTACHED}
    \/ pc = "task" /\ usb_task_state \in {1, 2, 4, 5, 16, 17}
    \/ pc = "main" /\ usb_task_state \in {2, 3, 4, 5, 17, 18}

\* The flag that a driver was found outlives the service by less than one turn.
FlagPlace == runningdebugflag => usb_task_state = RUNNING \/ Leaving

Service == FlagPlace /\ DriverMatches

\* A device that has the address in service is of the class in service, whether or not
\* a change of connection is pending.
Served ==
    usb_task_state = RUNNING /\ plugged # NoDevice /\ devaddr = hid_addr =>
        devclass[hid_addr] = plugged.class

IInv ==
    /\ TypeOK /\ Places /\ ResetWait /\ Table /\ NoNullEndpoint /\ Service
    /\ RunsTheDevice /\ Served

\* Light 9 is lit with the flag of the service, and an error's flag outlives the error
\* by less than one turn.
BoardPlace ==
    /\ led9 => runningdebugflag
    /\ errorflag => usb_task_state = ERROR \/ Leaving

\* The parts of the types: TypeOK is their conjunction.
Values ==
    /\ pc \in {"poll", "probe", "ack", "task", "main", "reset", "reprobe", "clear"}
    /\ usb_task_state \in (1..5) \cup (16..21) \cup {32, 48, 64, 255}
    /\ epinfo \in [Address -> {"NULL", "dev0ep", "hid_ep"}]
    /\ devclass \in [Address -> {UNINIT, HID_K, HID_M}]
    /\ tmp_addr \in Address /\ hid_addr \in Address
    /\ device \in {UNINIT, HID_K, HID_M, 255}
    /\ bus_sample \in {"SE0", "J", "K", "SE1"}
    /\ plugged \in Devices \cup {NoDevice} /\ devaddr \in Address \cup {Unreset}

Bits ==
    /\ runningdebugflag \in BOOLEAN
    /\ condet \in BOOLEAN /\ busevent \in BOOLEAN /\ frame \in BOOLEAN /\ busrst \in BOOLEAN
    /\ settled \in BOOLEAN

Records == irqs \in [busevent : BOOLEAN, frame : BOOLEAN] /\ mode \in [low : BOOLEAN, sof : BOOLEAN]

-----------------------------------------------------------------------------
(* The steps *)

USE DEF INITIALIZE, WAIT_FOR_DEVICE, ILLEGAL, ATTACHED, SETTLE, RESET_DEVICE, WAIT_RESET_COMPLETE,
    WAIT_SOF, GET_DESCRIPTOR_SIZE, ADDRESSING, CONFIGURING, RUNNING, ERROR

\* The default address is one of the addresses, and they are numbers.
LEMMA Addresses == 0 \in Address /\ \A a \in Address : a \in Nat
  BY UsbAssumption DEF UsbAssumption, Address

\* While a device is served, the last entry of the table is its own.
LEMMA LastIsCurrent ==
    ASSUME TypeOK, Table, NoNullEndpoint, usb_task_state = RUNNING
    PROVE  LastClass = devclass[hid_addr]
<1> DEFINE used == {a \in Address : a # 0 /\ epinfo[a] # "NULL"}
<1>1. tmp_addr \in Address /\ tmp_addr # 0 /\ hid_addr = tmp_addr
  BY DEF TypeOK, Table
<1>2. tmp_addr \in used
  BY <1>1 DEF NoNullEndpoint, Address
<1>3. \A b \in used : b <= tmp_addr
  BY <1>1 DEF Table, Address
<1>4. \A a \in used : (\A b \in used : b <= a) => a = tmp_addr
  BY <1>2, <1>3 DEF Address
<1>5. (CHOOSE a \in used : \A b \in used : b <= a) = tmp_addr
  BY <1>2, <1>3, <1>4
<1>6. QED
  BY <1>1, <1>2, <1>5 DEF LastClass

\* The chip and the port do not write the firmware's variables.
LEMMA EnvironmentFrame == Environment => UNCHANGED firmware
  BY DEF Environment, Attach, Detach, ResetNoise, ResetDone, SofSent, SettleTimeOver

\* Every step keeps the types: the increment is harmless where Places allows it, and a
\* driver is looked up only while the last table entry is a device's.
LEMMA TypeStep ==
    ASSUME TypeOK, Places, Table, NoNullEndpoint, Next
    PROVE  TypeOK'
<1>1. CASE MAX3421E_Task
  BY <1>1 DEF MAX3421E_Task, tables, loop, flags, chip, port, TypeOK
<1>2. CASE Probe
  BY <1>2 DEF Probe, MAX_busprobe, NextTaskState, NextMode, tables, loop, flags, port, TypeOK
<1>3. CASE Acknowledge
  <2>1. Values'
    BY <1>3 DEF Acknowledge, tables, loop, port, TypeOK, Places, Values
  <2>2. Bits'
    BY <1>3 DEF Acknowledge, loop, TypeOK, Bits
  <2>3. Records'
    BY <1>3 DEF Acknowledge, NoIrqs, TypeOK, Records
  <2>4. QED
    BY <2>1, <2>2, <2>3 DEF TypeOK, Values, Bits, Records
<1>4. CASE Initialize
  BY <1>4 DEF Initialize, USB_init, Task, loop, flags, chip, port, TypeOK
<1>5. CASE WaitForDevice
  BY <1>5 DEF WaitForDevice, Idle, Task, tables, loop, flags, port, TypeOK
<1>6. CASE StartSettling
  <2>1. Values'
    BY <1>6 DEF StartSettling, Task, tables, loop, port, TypeOK, Values
  <2>2. Bits'
    BY <1>6 DEF StartSettling, loop, flags, TypeOK, Bits
  <2>3. Records'
    BY <1>6 DEF StartSettling, TypeOK, Records
  <2>4. QED
    BY <2>1, <2>2, <2>3 DEF TypeOK, Values, Bits, Records
<1>7. CASE Settle
  BY <1>7 DEF Settle, Task, tables, loop, flags, chip, port, TypeOK
<1>8. CASE ResetDevice
  <2>1. Values'
    BY <1>8 DEF ResetDevice, Task, tables, loop, port, TypeOK, Values
  <2>2. Bits'
    BY <1>8 DEF ResetDevice, loop, TypeOK, Bits
  <2>3. Records'
    BY <1>8 DEF ResetDevice, TypeOK, Records
  <2>4. QED
    BY <2>1, <2>2, <2>3 DEF TypeOK, Values, Bits, Records
<1>9. CASE ResetComplete
  <2>1. Values'
    BY <1>9 DEF ResetComplete, Task, tables, loop, port, TypeOK, Values
  <2>2. Bits'
    BY <1>9 DEF ResetComplete, loop, flags, TypeOK, Bits
  <2>3. Records'
    BY <1>9 DEF ResetComplete, TypeOK, Records
  <2>4. QED
    BY <2>1, <2>2, <2>3 DEF TypeOK, Values, Bits, Records
<1>10. CASE WaitSof
  BY <1>10 DEF WaitSof, Task, tables, loop, flags, chip, port, TypeOK
<1>11. CASE GetDeviceDescriptor
  BY <1>11 DEF GetDeviceDescriptor, Task, tables, loop, flags, chip, port, TypeOK
<1>12. CASE SetAddress
  <2>1. Values'
    BY <1>12, Addresses DEF SetAddress, Task, loop, chip, TypeOK, Values
  <2>2. Bits'
    BY <1>12 DEF SetAddress, loop, flags, chip, TypeOK, Bits
  <2>3. Records'
    BY <1>12 DEF SetAddress, chip, TypeOK, Records
  <2>4. QED
    BY <2>1, <2>2, <2>3 DEF TypeOK, Values, Bits, Records
<1>13. CASE NoAddress
  BY <1>13 DEF NoAddress, Task, tables, loop, flags, chip, port, TypeOK
<1>14. CASE NoDriver
  BY <1>14 DEF NoDriver, Task, tables, loop, flags, chip, port, TypeOK
<1>15. CASE ProbeDriver
  BY <1>15 DEF ProbeDriver, Task, loop, flags, chip, port, TypeOK
<1>16. CASE NothingToDo
  BY <1>16 DEF NothingToDo, tables, loop, flags, chip, port, TypeOK
<1>17. CASE StopServing
  <2>1. Values'
    BY <1>17 DEF StopServing, tables, chip, port, TypeOK, Values
  <2>2. Bits'
    BY <1>17 DEF StopServing, flags, chip, TypeOK, Bits
  <2>3. Records'
    BY <1>17 DEF StopServing, chip, TypeOK, Records
  <2>4. QED
    BY <2>1, <2>2, <2>3 DEF TypeOK, Values, Bits, Records
<1>18. CASE FindDriver
  <2>1. LastClass \in {UNINIT, HID_K, HID_M}
    <3>1. usb_task_state = RUNNING
      BY <1>18 DEF FindDriver
    <3>2. QED
      BY <3>1, LastIsCurrent DEF TypeOK
  <2>2. Values'
    BY <1>18, <2>1 DEF FindDriver, tables, chip, port, TypeOK, Values
  <2>3. Bits'
    BY <1>18 DEF FindDriver, flags, chip, TypeOK, Bits
  <2>4. Records'
    BY <1>18 DEF FindDriver, chip, TypeOK, Records
  <2>5. QED
    BY <2>2, <2>3, <2>4 DEF TypeOK, Values, Bits, Records
<1>19. CASE Serve
  BY <1>19 DEF Serve, tables, loop, flags, chip, port, TypeOK
<1>20. CASE ChipReset
  <2>1. Values'
    BY <1>20 DEF ChipReset, tables, loop, port, TypeOK, Values
  <2>2. Bits'
    BY <1>20 DEF ChipReset, loop, TypeOK, Bits
  <2>3. Records'
    BY <1>20 DEF ChipReset, TypeOK, Records
  <2>4. QED
    BY <2>1, <2>2, <2>3 DEF TypeOK, Values, Bits, Records
<1>21. CASE Reprobe
  BY <1>21 DEF Reprobe, MAX_busprobe, NextTaskState, NextMode, Idle, tables, loop, flags, port,
        TypeOK
<1>22. CASE ClearAndInit
  <2>1. Values'
    BY <1>22 DEF ClearAndInit, USB_init, loop, port, TypeOK, Values
  <2>2. Bits'
    BY <1>22 DEF ClearAndInit, loop, TypeOK, Bits
  <2>3. Records'
    BY <1>22 DEF ClearAndInit, TypeOK, Records
  <2>4. QED
    BY <2>1, <2>2, <2>3 DEF TypeOK, Values, Bits, Records
<1>23. CASE Attach
  BY <1>23 DEF Attach, ConnectionChange, Idle, firmware, tables, loop, TypeOK
<1>24. CASE Detach
  BY <1>24 DEF Detach, ConnectionChange, Idle, firmware, tables, loop, TypeOK
<1>25. CASE ResetNoise
  BY <1>25 DEF ResetNoise, ConnectionChange, Idle, firmware, tables, loop, port, TypeOK
<1>26. CASE ResetDone
  <2>1. Values'
    BY <1>26, Addresses DEF ResetDone, firmware, tables, loop, TypeOK, Values
  <2>2. Bits'
    BY <1>26 DEF ResetDone, firmware, loop, TypeOK, Bits
  <2>3. Records'
    BY <1>26 DEF ResetDone, firmware, TypeOK, Records
  <2>4. QED
    BY <2>1, <2>2, <2>3 DEF TypeOK, Values, Bits, Records
<1>27. CASE SofSent
  BY <1>27 DEF SofSent, firmware, tables, loop, port, TypeOK
<1>28. CASE SettleTimeOver
  BY <1>28 DEF SettleTimeOver, firmware, tables, loop, flags, port, TypeOK
<1>29. QED
  BY <1>1, <1>2, <1>3, <1>4, <1>5, <1>6, <1>7, <1>8, <1>9, <1>10, <1>11, <1>12, <1>13, <1>14,
        <1>15, <1>16, <1>17, <1>18, <1>19, <1>20, <1>21, <1>22, <1>23, <1>24, <1>25, <1>26,
        <1>27, <1>28 DEF Next, Firmware, USB_Task, Environment

\* The probe alone comes before the increment, and the handler leaves nothing behind.
LEMMA PlacesStep ==
    ASSUME TypeOK, Places, Next
    PROVE  Places'
<1>1. CASE MAX3421E_Task
  BY <1>1 DEF MAX3421E_Task, Places
<1>2. CASE Probe
  BY <1>2 DEF Probe, MAX_busprobe, NextTaskState, TypeOK, Places
<1>3. CASE Acknowledge
  BY <1>3 DEF Acknowledge, Places
<1>4. CASE Initialize
  BY <1>4 DEF Initialize, Task, Places
<1>5. CASE WaitForDevice
  BY <1>5 DEF WaitForDevice, Task, Places
<1>6. CASE StartSettling
  BY <1>6 DEF StartSettling, Task, Places
<1>7. CASE Settle
  BY <1>7 DEF Settle, Task, Places
<1>8. CASE ResetDevice
  BY <1>8 DEF ResetDevice, Task, Places
<1>9. CASE ResetComplete
  BY <1>9 DEF ResetComplete, Task, Places
<1>10. CASE WaitSof
  BY <1>10 DEF WaitSof, Task, Places
<1>11. CASE GetDeviceDescriptor
  BY <1>11 DEF GetDeviceDescriptor, Task, Places
<1>12. CASE SetAddress
  BY <1>12 DEF SetAddress, Task, Places
<1>13. CASE NoAddress
  BY <1>13 DEF NoAddress, Task, Places
<1>14. CASE NoDriver
  BY <1>14 DEF NoDriver, Task, Places
<1>15. CASE ProbeDriver
  BY <1>15 DEF ProbeDriver, Task, Places
<1>16. CASE NothingToDo
  BY <1>16 DEF NothingToDo, Places
<1>17. CASE StopServing
  BY <1>17 DEF StopServing, Places
<1>18. CASE FindDriver
  BY <1>18 DEF FindDriver, Places
<1>19. CASE Serve
  BY <1>19 DEF Serve, Places
<1>20. CASE ChipReset
  BY <1>20 DEF ChipReset, Places
<1>21. CASE Reprobe
  BY <1>21 DEF Reprobe, MAX_busprobe, NextTaskState, Idle, Places
<1>22. CASE ClearAndInit
  BY <1>22 DEF ClearAndInit, Places
<1>23. CASE Environment
  BY <1>23, EnvironmentFrame DEF firmware, tables, loop, Places
<1>24. QED
  BY <1>1, <1>2, <1>3, <1>4, <1>5, <1>6, <1>7, <1>8, <1>9, <1>10, <1>11, <1>12, <1>13, <1>14,
        <1>15, <1>16, <1>17, <1>18, <1>19, <1>20, <1>21, <1>22, <1>23 DEF Next, Firmware, USB_Task

\* The events of an earlier reset are gone when the wait for this one starts.
LEMMA ResetStep ==
    ASSUME TypeOK, Places, ResetWait, Next
    PROVE  ResetWait'
<1>1. CASE MAX3421E_Task
  BY <1>1 DEF MAX3421E_Task, flags, chip, ResetWait, ResetBeforeTalk
<1>2. CASE Probe
  BY <1>2 DEF Probe, MAX_busprobe, NextTaskState, flags, TypeOK, ResetWait, ResetBeforeTalk
<1>3. CASE Acknowledge
  BY <1>3 DEF Acknowledge, NoIrqs, TypeOK, Places, ResetWait, ResetBeforeTalk
<1>4. CASE Initialize
  BY <1>4 DEF Initialize, ResetWait, ResetBeforeTalk
<1>5. CASE WaitForDevice
  BY <1>5 DEF WaitForDevice, Task, ResetWait, ResetBeforeTalk
<1>6. CASE StartSettling
  BY <1>6 DEF StartSettling, ResetWait, ResetBeforeTalk
<1>7. CASE Settle
  BY <1>7 DEF Settle, ResetWait, ResetBeforeTalk
<1>8. CASE ResetDevice
  <2>1. irqs' = NoIrqs /\ ~busevent'
    BY <1>8 DEF ResetDevice, Task, Places
  <2>2. ~irqs'.busevent
    BY <2>1 DEF NoIrqs
  <2>3. usb_task_state' = WAIT_RESET_COMPLETE
    BY <1>8 DEF ResetDevice
  <2>4. QED
    BY <2>1, <2>2, <2>3 DEF ResetWait, ResetBeforeTalk
<1>9. CASE ResetComplete
  BY <1>9 DEF ResetComplete, ResetWait, ResetBeforeTalk
<1>10. CASE WaitSof
  BY <1>10 DEF WaitSof, Task, chip, ResetWait, ResetBeforeTalk
<1>11. CASE GetDeviceDescriptor
  BY <1>11 DEF GetDeviceDescriptor, Task, chip, ResetWait, ResetBeforeTalk
<1>12. CASE SetAddress
  BY <1>12 DEF SetAddress, Task, chip, ResetWait, ResetBeforeTalk
<1>13. CASE NoAddress
  BY <1>13 DEF NoAddress, ResetWait, ResetBeforeTalk
<1>14. CASE NoDriver
  BY <1>14 DEF NoDriver, ResetWait, ResetBeforeTalk
<1>15. CASE ProbeDriver
  BY <1>15 DEF ProbeDriver, ResetWait, ResetBeforeTalk
<1>16. CASE NothingToDo
  BY <1>16 DEF NothingToDo, flags, chip, ResetWait, ResetBeforeTalk
<1>17. CASE StopServing
  BY <1>17 DEF StopServing, flags, chip, ResetWait, ResetBeforeTalk
<1>18. CASE FindDriver
  BY <1>18 DEF FindDriver, ResetWait, ResetBeforeTalk
<1>19. CASE Serve
  BY <1>19 DEF Serve, ResetWait, ResetBeforeTalk
<1>20. CASE ChipReset
  BY <1>20 DEF ChipReset, ResetWait, ResetBeforeTalk
<1>21. CASE Reprobe
  BY <1>21 DEF Reprobe, MAX_busprobe, NextTaskState, Idle, flags, ResetWait, ResetBeforeTalk
<1>22. CASE ClearAndInit
  BY <1>22 DEF ClearAndInit, ResetWait, ResetBeforeTalk
<1>23. CASE Attach
  BY <1>23 DEF Attach, firmware, ResetWait, ResetBeforeTalk
<1>24. CASE Detach
  BY <1>24 DEF Detach, firmware, ResetWait, ResetBeforeTalk
<1>25. CASE ResetNoise
  BY <1>25 DEF ResetNoise, firmware, ResetWait, ResetBeforeTalk
<1>26. CASE ResetDone
  BY <1>26 DEF ResetDone, ResetWait, ResetBeforeTalk
<1>27. CASE SofSent
  BY <1>27 DEF SofSent, ResetWait, ResetBeforeTalk
<1>28. CASE SettleTimeOver
  BY <1>28 DEF SettleTimeOver, firmware, flags, ResetWait, ResetBeforeTalk
<1>29. QED
  BY <1>1, <1>2, <1>3, <1>4, <1>5, <1>6, <1>7, <1>8, <1>9, <1>10, <1>11, <1>12, <1>13, <1>14,
        <1>15, <1>16, <1>17, <1>18, <1>19, <1>20, <1>21, <1>22, <1>23, <1>24, <1>25, <1>26,
        <1>27, <1>28 DEF Next, Firmware, USB_Task, Environment

\* Addresses are taken in order, and only the table's initialisation gives them back.
LEMMA TableStep ==
    ASSUME TypeOK, Places, Table, NoNullEndpoint, Next
    PROVE  (Table /\ NoNullEndpoint)'
<1>1. CASE MAX3421E_Task
  BY <1>1 DEF MAX3421E_Task, tables, Table, NoNullEndpoint
<1>2. CASE Probe
  BY <1>2 DEF Probe, MAX_busprobe, NextTaskState, tables, TypeOK, Table, NoNullEndpoint
<1>3. CASE Acknowledge
  BY <1>3 DEF Acknowledge, tables, TypeOK, Table, NoNullEndpoint
<1>4. CASE Initialize
  BY <1>4, Addresses DEF Initialize, USB_init, Table, NoNullEndpoint
<1>5. CASE WaitForDevice
  BY <1>5 DEF WaitForDevice, Task, tables, Table, NoNullEndpoint
<1>6. CASE StartSettling
  BY <1>6 DEF StartSettling, Task, tables, Table, NoNullEndpoint
<1>7. CASE Settle
  BY <1>7 DEF Settle, Task, tables, Table, NoNullEndpoint
<1>8. CASE ResetDevice
  BY <1>8 DEF ResetDevice, Task, tables, Table, NoNullEndpoint
<1>9. CASE ResetComplete
  BY <1>9 DEF ResetComplete, Task, tables, Table, NoNullEndpoint
<1>10. CASE WaitSof
  BY <1>10 DEF WaitSof, Task, tables, Table, NoNullEndpoint
<1>11. CASE GetDeviceDescriptor
  BY <1>11 DEF GetDeviceDescriptor, Task, tables, Table, NoNullEndpoint
<1>12. CASE SetAddress
  BY <1>12, Addresses DEF SetAddress, FreeAddress, Task, TypeOK, Table, NoNullEndpoint
<1>13. CASE NoAddress
  BY <1>13 DEF NoAddress, Task, tables, Table, NoNullEndpoint
<1>14. CASE NoDriver
  BY <1>14 DEF NoDriver, Task, tables, Table, NoNullEndpoint
<1>15. CASE ProbeDriver
  BY <1>15, Addresses DEF ProbeDriver, Task, TypeOK, Table, NoNullEndpoint
<1>16. CASE NothingToDo
  BY <1>16 DEF NothingToDo, tables, Table, NoNullEndpoint
<1>17. CASE StopServing
  BY <1>17 DEF StopServing, tables, Table, NoNullEndpoint
<1>18. CASE FindDriver
  BY <1>18 DEF FindDriver, tables, Table, NoNullEndpoint
<1>19. CASE Serve
  BY <1>19 DEF Serve, tables, Table, NoNullEndpoint
<1>20. CASE ChipReset
  BY <1>20 DEF ChipReset, tables, Table, NoNullEndpoint
<1>21. CASE Reprobe
  BY <1>21 DEF Reprobe, MAX_busprobe, NextTaskState, Idle, tables, Table, NoNullEndpoint
<1>22. CASE ClearAndInit
  BY <1>22, Addresses DEF ClearAndInit, USB_init, Places, Table, NoNullEndpoint
<1>23. CASE Environment
  BY <1>23, EnvironmentFrame DEF firmware, tables, loop, Table, NoNullEndpoint
<1>24. QED
  BY <1>1, <1>2, <1>3, <1>4, <1>5, <1>6, <1>7, <1>8, <1>9, <1>10, <1>11, <1>12, <1>13, <1>14,
        <1>15, <1>16, <1>17, <1>18, <1>19, <1>20, <1>21, <1>22, <1>23 DEF Next, Firmware, USB_Task

\* The flag is cleared before another device can be in service.
LEMMA ServiceStep ==
    ASSUME TypeOK, Places, Table, NoNullEndpoint, Service, Next
    PROVE  Service'
<1>1. CASE MAX3421E_Task
  BY <1>1 DEF MAX3421E_Task, tables, loop, Service, FlagPlace, Leaving, DriverMatches
<1>2. CASE Probe
  BY <1>2 DEF Probe, MAX_busprobe, NextTaskState, Detached, loop, TypeOK, Service, FlagPlace, Leaving,
        DriverMatches
<1>3. CASE Acknowledge
  BY <1>3 DEF Acknowledge, loop, Places, Service, FlagPlace, Leaving, DriverMatches
<1>4. CASE Initialize
  BY <1>4 DEF Initialize, Task, Service, FlagPlace, Leaving, DriverMatches
<1>5. CASE WaitForDevice
  BY <1>5 DEF WaitForDevice, Task, Service, FlagPlace, Leaving, DriverMatches
<1>6. CASE StartSettling
  BY <1>6 DEF StartSettling, Task, Service, FlagPlace, Leaving, DriverMatches
<1>7. CASE Settle
  BY <1>7 DEF Settle, Task, Service, FlagPlace, Leaving, DriverMatches
<1>8. CASE ResetDevice
  BY <1>8 DEF ResetDevice, Task, loop, Service, FlagPlace, Leaving, DriverMatches
<1>9. CASE ResetComplete
  BY <1>9 DEF ResetComplete, Task, loop, Service, FlagPlace, Leaving, DriverMatches
<1>10. CASE WaitSof
  BY <1>10 DEF WaitSof, Task, loop, Service, FlagPlace, Leaving, DriverMatches
<1>11. CASE GetDeviceDescriptor
  BY <1>11 DEF GetDeviceDescriptor, Task, loop, Service, FlagPlace, Leaving, DriverMatches
<1>12. CASE SetAddress
  BY <1>12 DEF SetAddress, Task, loop, Service, FlagPlace, Leaving, DriverMatches
<1>13. CASE NoAddress
  BY <1>13 DEF NoAddress, Task, loop, Service, FlagPlace, Leaving, DriverMatches
<1>14. CASE NoDriver
  BY <1>14 DEF NoDriver, Task, loop, Service, FlagPlace, Leaving, DriverMatches
<1>15. CASE ProbeDriver
  BY <1>15 DEF ProbeDriver, Task, loop, Service, FlagPlace, Leaving, DriverMatches
<1>16. CASE NothingToDo
  BY <1>16 DEF NothingToDo, tables, loop, Service, FlagPlace, Leaving, DriverMatches
<1>17. CASE StopServing
  BY <1>17 DEF StopServing, Service, FlagPlace, Leaving, DriverMatches
<1>18. CASE FindDriver
  BY <1>18, LastIsCurrent DEF FindDriver, tables, Service, FlagPlace, Leaving, DriverMatches
<1>19. CASE Serve
  BY <1>19 DEF Serve, tables, loop, Service, FlagPlace, Leaving, DriverMatches
<1>20. CASE ChipReset
  BY <1>20 DEF ChipReset, tables, loop, Service, FlagPlace, Leaving, DriverMatches
<1>21. CASE Reprobe
  BY <1>21 DEF Reprobe, loop, Places, Service, FlagPlace, Leaving, DriverMatches
<1>22. CASE ClearAndInit
  BY <1>22 DEF ClearAndInit, loop, Places, Service, FlagPlace, Leaving, DriverMatches
<1>23. CASE Environment
  BY <1>23, EnvironmentFrame DEF firmware, tables, loop, Service, FlagPlace, Leaving, DriverMatches
<1>24. QED
  BY <1>1, <1>2, <1>3, <1>4, <1>5, <1>6, <1>7, <1>8, <1>9, <1>10, <1>11, <1>12, <1>13, <1>14,
        <1>15, <1>16, <1>17, <1>18, <1>19, <1>20, <1>21, <1>22, <1>23 DEF Next, Firmware, USB_Task

\* A device in service changes only with a change of connection, which stays pending
\* until the probe has taken the firmware out of the service.
LEMMA RunsStep ==
    ASSUME TypeOK, Places, RunsTheDevice, Next
    PROVE  RunsTheDevice'
<1>1. CASE MAX3421E_Task
  BY <1>1 DEF MAX3421E_Task, tables, flags, chip, port, RunsTheDevice, Answers
<1>2. CASE Probe
  BY <1>2 DEF Probe, MAX_busprobe, NextTaskState, TypeOK, RunsTheDevice
<1>3. CASE Acknowledge
  BY <1>3 DEF Acknowledge, Places, RunsTheDevice
<1>4. CASE Initialize
  BY <1>4 DEF Initialize, RunsTheDevice
<1>5. CASE WaitForDevice
  BY <1>5 DEF WaitForDevice, Task, RunsTheDevice
<1>6. CASE StartSettling
  BY <1>6 DEF StartSettling, RunsTheDevice
<1>7. CASE Settle
  BY <1>7 DEF Settle, RunsTheDevice
<1>8. CASE ResetDevice
  BY <1>8 DEF ResetDevice, RunsTheDevice
<1>9. CASE ResetComplete
  BY <1>9 DEF ResetComplete, RunsTheDevice
<1>10. CASE WaitSof
  BY <1>10 DEF WaitSof, RunsTheDevice
<1>11. CASE GetDeviceDescriptor
  BY <1>11 DEF GetDeviceDescriptor, RunsTheDevice
<1>12. CASE SetAddress
  BY <1>12 DEF SetAddress, RunsTheDevice
<1>13. CASE NoAddress
  BY <1>13 DEF NoAddress, RunsTheDevice
<1>14. CASE NoDriver
  BY <1>14 DEF NoDriver, RunsTheDevice
<1>15. CASE ProbeDriver
  BY <1>15 DEF ProbeDriver, Answers, chip, port, TypeOK, RunsTheDevice
<1>16. CASE NothingToDo
  BY <1>16 DEF NothingToDo, tables, flags, chip, port, RunsTheDevice, Answers
<1>17. CASE StopServing
  BY <1>17 DEF StopServing, RunsTheDevice
<1>18. CASE FindDriver
  BY <1>18 DEF FindDriver, tables, flags, chip, port, RunsTheDevice, Answers
<1>19. CASE Serve
  BY <1>19 DEF Serve, tables, flags, chip, port, RunsTheDevice, Answers
<1>20. CASE ChipReset
  BY <1>20 DEF ChipReset, Places, RunsTheDevice
<1>21. CASE Reprobe
  BY <1>21 DEF Reprobe, MAX_busprobe, NextTaskState, Idle, RunsTheDevice
<1>22. CASE ClearAndInit
  BY <1>22 DEF ClearAndInit, Places, RunsTheDevice
<1>23. CASE Attach
  BY <1>23 DEF Attach, ConnectionChange, RunsTheDevice
<1>24. CASE Detach
  BY <1>24 DEF Detach, ConnectionChange, RunsTheDevice
<1>25. CASE ResetNoise
  BY <1>25 DEF ResetNoise, ConnectionChange, RunsTheDevice
<1>26. CASE ResetDone
  BY <1>26 DEF ResetDone, firmware, RunsTheDevice, Answers
<1>27. CASE SofSent
  BY <1>27 DEF SofSent, firmware, tables, port, RunsTheDevice, Answers
<1>28. CASE SettleTimeOver
  BY <1>28 DEF SettleTimeOver, firmware, tables, flags, port, RunsTheDevice, Answers
<1>29. QED
  BY <1>1, <1>2, <1>3, <1>4, <1>5, <1>6, <1>7, <1>8, <1>9, <1>10, <1>11, <1>12, <1>13, <1>14,
        <1>15, <1>16, <1>17, <1>18, <1>19, <1>20, <1>21, <1>22, <1>23, <1>24, <1>25, <1>26,
        <1>27, <1>28 DEF Next, Firmware, USB_Task, Environment

\* A new device does not answer, and a bus reset gives back an address that no device
\* is served at.
LEMMA ServedStep ==
    ASSUME TypeOK, Places, Table, Served, Next
    PROVE  Served'
<1>1. CASE MAX3421E_Task
  BY <1>1 DEF MAX3421E_Task, tables, chip, port, Served
<1>2. CASE Probe
  BY <1>2 DEF Probe, MAX_busprobe, NextTaskState, TypeOK, Served
<1>3. CASE Acknowledge
  BY <1>3 DEF Acknowledge, Places, Served
<1>4. CASE Initialize
  BY <1>4 DEF Initialize, Served
<1>5. CASE WaitForDevice
  BY <1>5 DEF WaitForDevice, Task, Served
<1>6. CASE StartSettling
  BY <1>6 DEF StartSettling, Served
<1>7. CASE Settle
  BY <1>7 DEF Settle, Served
<1>8. CASE ResetDevice
  BY <1>8 DEF ResetDevice, Served
<1>9. CASE ResetComplete
  BY <1>9 DEF ResetComplete, Served
<1>10. CASE WaitSof
  BY <1>10 DEF WaitSof, Served
<1>11. CASE GetDeviceDescriptor
  BY <1>11 DEF GetDeviceDescriptor, Served
<1>12. CASE SetAddress
  BY <1>12 DEF SetAddress, Served
<1>13. CASE NoAddress
  BY <1>13 DEF NoAddress, Served
<1>14. CASE NoDriver
  BY <1>14 DEF NoDriver, Served
<1>15. CASE ProbeDriver
  BY <1>15 DEF ProbeDriver, Answers, chip, port, TypeOK, Served
<1>16. CASE NothingToDo
  BY <1>16 DEF NothingToDo, tables, chip, port, Served
<1>17. CASE StopServing
  BY <1>17 DEF StopServing, Served
<1>18. CASE FindDriver
  BY <1>18 DEF FindDriver, tables, chip, port, Served
<1>19. CASE Serve
  BY <1>19 DEF Serve, tables, chip, port, Served
<1>20. CASE ChipReset
  BY <1>20 DEF ChipReset, Places, Served
<1>21. CASE Reprobe
  BY <1>21 DEF Reprobe, MAX_busprobe, NextTaskState, Idle, Served
<1>22. CASE ClearAndInit
  BY <1>22 DEF ClearAndInit, Places, Served
<1>23. CASE Attach
  BY <1>23 DEF Attach, firmware, tables, Unreset, Address, TypeOK, Served
<1>24. CASE Detach
  BY <1>24 DEF Detach, Served
<1>25. CASE ResetNoise
  BY <1>25 DEF ResetNoise, firmware, tables, port, Served
<1>26. CASE ResetDone
  BY <1>26 DEF ResetDone, firmware, tables, Table, Served
<1>27. CASE SofSent
  BY <1>27 DEF SofSent, firmware, tables, port, Served
<1>28. CASE SettleTimeOver
  BY <1>28 DEF SettleTimeOver, firmware, tables, port, Served
<1>29. QED
  BY <1>1, <1>2, <1>3, <1>4, <1>5, <1>6, <1>7, <1>8, <1>9, <1>10, <1>11, <1>12, <1>13, <1>14, <1>15, <1>16, <1>17, <1>18, <1>19, <1>20, <1>21, <1>22, <1>23, <1>24, <1>25, <1>26, <1>27, <1>28
     DEF Next, Firmware, USB_Task, Environment

-----------------------------------------------------------------------------
(* The inductive invariant and the theorems *)

\* The firmware starts before the set-up of the chip, with every table empty.
LEMMA InitIInv == Init => IInv
<1> SUFFICES ASSUME Init PROVE IInv
  OBVIOUS
<1>1. TypeOK
  <2>1. devaddr \in Address \cup {Unreset} /\ plugged \in Devices \cup {NoDevice}
    BY DEF Init
  <2>2. epinfo \in [Address -> {"NULL", "dev0ep", "hid_ep"}]
    BY DEF Init
  <2>3. devclass \in [Address -> {UNINIT, HID_K, HID_M}]
    BY DEF Init
  <2>4. irqs \in [busevent : BOOLEAN, frame : BOOLEAN] /\ mode \in [low : BOOLEAN, sof : BOOLEAN]
    BY DEF Init, NoIrqs
  <2>5. tmp_addr \in Address /\ hid_addr \in Address
    BY Addresses DEF Init
  <2>6. /\ runningdebugflag \in BOOLEAN /\ condet \in BOOLEAN /\ busevent \in BOOLEAN
        /\ frame \in BOOLEAN /\ busrst \in BOOLEAN /\ settled \in BOOLEAN
    BY DEF Init
  <2>7. QED
    BY <2>1, <2>2, <2>3, <2>4, <2>5, <2>6 DEF Init, TypeOK
<1>2. Places /\ ResetWait /\ Table /\ NoNullEndpoint
  BY Addresses DEF Init, NoIrqs, Places, ResetWait, ResetBeforeTalk, Table, NoNullEndpoint
<1>3. Service /\ RunsTheDevice /\ Served
  BY DEF Init, Service, FlagPlace, DriverMatches, RunsTheDevice, Served
<1>4. QED
  BY <1>1, <1>2, <1>3 DEF IInv

\* Every step, of the firmware or around it, keeps the invariant.
LEMMA NextIInv == IInv /\ [Next]_vars => IInv'
<1> SUFFICES ASSUME IInv, [Next]_vars PROVE IInv'
  OBVIOUS
<1>1. CASE Next
  BY <1>1, TypeStep, PlacesStep, ResetStep, TableStep, ServiceStep, RunsStep,
     ServedStep DEF IInv
<1>2. CASE UNCHANGED vars
  BY <1>2 DEF vars, firmware, tables, loop, chip, flags, port, IInv, TypeOK, Places, ResetWait,
         ResetBeforeTalk, Table, NoNullEndpoint, Service, FlagPlace, Leaving,
         DriverMatches, RunsTheDevice, Served, Answers
<1>3. QED
  BY <1>1, <1>2

\* So it holds in every state.
LEMMA Invariance == Spec => []IInv
  BY InitIInv, NextIInv, PTL DEF Spec

\* usb_task_state never leaves the states of the switch and the two that the
\* increment adds, and no address or table entry leaves its range.
THEOREM TypeCorrect == Spec => []TypeOK
<1>1. IInv => TypeOK
  BY DEF IInv
<1>2. QED
  BY <1>1, Invariance, PTL

\* No late bus event carries the task past the wait for the bus reset.
THEOREM ResetSafe == Spec => []ResetBeforeTalk
<1>1. IInv => ResetBeforeTalk
  BY DEF IInv, ResetWait
<1>2. QED
  BY <1>1, Invariance, PTL

\* No table entry that is followed is empty, however devices come and go.
THEOREM EndpointsSet == Spec => []NoNullEndpoint
<1>1. IInv => NoNullEndpoint
  BY DEF IInv
<1>2. QED
  BY <1>1, Invariance, PTL

\* The main loop polls with the routine of the device in service.
THEOREM DriverSafe == Spec => []DriverMatches
<1>1. IInv => DriverMatches
  BY DEF IInv, Service
<1>2. QED
  BY <1>1, Invariance, PTL

\* What is polled is the device plugged in, unless a change is pending.
THEOREM DeviceServed == Spec => []RunsTheDevice
<1>1. IInv => RunsTheDevice
  BY DEF IInv
<1>2. QED
  BY <1>1, Invariance, PTL

-----------------------------------------------------------------------------
(* The service of the port *)

\* The bus is probed in the loop only with a connection change pending.
ProbePending == pc = "probe" => condet

\* The phase is told by the state, before and after a step.
LEMMA PhaseNow ==
    ASSUME TypeOK
    PROVE  /\ usb_task_state \in 1..5 => Phase = "off"
           /\ usb_task_state \in (16..21) \cup {32, 48} => Phase = "starting"
           /\ usb_task_state = RUNNING => Phase = "serving"
           /\ usb_task_state = ERROR => Phase = "failed"
           /\ usb_task_state # RUNNING => InService = {}
  BY DEF TypeOK, Phase, Detached, Attaching, InService

LEMMA PhaseNext ==
    ASSUME TypeOK'
    PROVE  /\ usb_task_state' \in 1..5 => Phase' = "off"
           /\ usb_task_state' \in (16..21) \cup {32, 48} => Phase' = "starting"
           /\ usb_task_state' = RUNNING => Phase' = "serving"
           /\ usb_task_state' = ERROR => Phase' = "failed"
           /\ usb_task_state' # RUNNING => InService' = {}
  BY DEF TypeOK, Phase, Detached, Attaching, InService

LEMMA ProbePendingStep == ProbePending /\ [Next]_vars => ProbePending'
<1> SUFFICES ASSUME ProbePending, [Next]_vars PROVE ProbePending'
  OBVIOUS
<1>1. CASE MAX3421E_Task
  BY <1>1 DEF MAX3421E_Task, chip, flags, ProbePending
<1>2. CASE Probe \/ Acknowledge \/ USB_Task
  BY <1>2 DEF Probe, Acknowledge, USB_Task, Task, Initialize, WaitForDevice, StartSettling, Settle,
         ResetDevice, ResetComplete, WaitSof, GetDeviceDescriptor, SetAddress, NoAddress, NoDriver,
         ProbeDriver, NothingToDo, ProbePending
<1>3. CASE StopServing \/ FindDriver \/ Serve \/ ChipReset \/ Reprobe \/ ClearAndInit
  BY <1>3 DEF StopServing, FindDriver, Serve, ChipReset, Reprobe, ClearAndInit, ProbePending
<1>4. CASE Environment
  BY <1>4 DEF Environment, Attach, Detach, ResetNoise, ResetDone, SofSent, SettleTimeOver,
         ConnectionChange, firmware, flags, ProbePending
<1>5. CASE UNCHANGED vars
  BY <1>5 DEF vars, firmware, chip, flags, ProbePending
<1>6. QED
  BY <1>1, <1>2, <1>3, <1>4, <1>5 DEF Next, Firmware

\* A step that leaves state, table and port alone is none of the service.
LEMMA Elsewise ==
    ASSUME UNCHANGED <<usb_task_state, devclass, hid_addr, condet, plugged>>
    PROVE  UNCHANGED Port!vars
  BY DEF Port!vars, Phase, Detached, Attaching, InService

\* A probe of the bus looks at the port, in the loop and after a reset of the chip.
LEMMA ProbeLooks ==
    ASSUME IInv, TypeOK', NEW sample \in {"SE0", "J", "K", "SE1"}, MAX_busprobe(sample),
           condet \/ usb_task_state \notin {RUNNING, ERROR},
           UNCHANGED <<condet, plugged>>
    PROVE  Port!Look
<1>1. usb_task_state' \in {INITIALIZE, WAIT_FOR_DEVICE, ILLEGAL, ATTACHED, WAIT_RESET_COMPLETE}
  BY DEF MAX_busprobe, NextTaskState
<1>2. Phase' \in {"off", "starting"} /\ InService' = {}
  BY <1>1, PhaseNext
<1>3. condet \/ Phase \in {"off", "starting"}
  BY PhaseNow DEF IInv, TypeOK
<1>4. QED
  BY <1>2, <1>3 DEF Port!Look

\* The three places that clear CONDETIRQ do so with nothing in service.
LEMMA ForgetIsHarmless ==
    ASSUME IInv, TypeOK',
           usb_task_state \notin {RUNNING, ERROR}, usb_task_state' \notin {RUNNING, ERROR},
           Detached <=> Detached', condet' = FALSE, plugged' = plugged
    PROVE  Port!Acknowledge
<1>1. Phase \in {"off", "starting"} /\ InService = {}
  BY PhaseNow DEF IInv, TypeOK
<1>2. InService' = {}
  BY PhaseNext
<1>3. Phase' = Phase
  <2>1. CASE Detached
    BY <2>1, PhaseNow, PhaseNext DEF Phase, Detached, IInv, TypeOK
  <2>2. CASE ~Detached
    BY <2>2, PhaseNow, PhaseNext DEF Detached, IInv, TypeOK
  <2>3. QED
    BY <2>1, <2>2
<1>4. QED
  BY <1>1, <1>2, <1>3 DEF Port!Acknowledge

\* Steps of an attachment that do not end it, and of the detached states.
LEMMA SamePhase ==
    ASSUME IInv, TypeOK', UNCHANGED <<condet, plugged>>,
           \/ usb_task_state' = usb_task_state /\ UNCHANGED <<devclass, hid_addr>>
           \/ usb_task_state \in 1..5 /\ usb_task_state' \in 1..5
           \/ /\ usb_task_state \in (16..21) \cup {32, 48}
              /\ usb_task_state' \in (16..21) \cup {32, 48}
    PROVE  UNCHANGED Port!vars
<1>1. CASE usb_task_state' = usb_task_state /\ UNCHANGED <<devclass, hid_addr>>
  BY <1>1, Elsewise
<1>2. CASE usb_task_state \in 1..5 /\ usb_task_state' \in 1..5
  BY <1>2, PhaseNow, PhaseNext DEF Port!vars, IInv
<1>3. CASE /\ usb_task_state \in (16..21) \cup {32, 48}
           /\ usb_task_state' \in (16..21) \cup {32, 48}
  BY <1>3, PhaseNow, PhaseNext DEF Port!vars, IInv
<1>4. QED
  BY <1>1, <1>2, <1>3

\* An attachment that fails, at whichever transfer.
LEMMA Fails ==
    ASSUME IInv, TypeOK', UNCHANGED <<condet, plugged>>,
           usb_task_state \in (16..21) \cup {32, 48}, usb_task_state' = ERROR
    PROVE  Port!Fail
  BY PhaseNow, PhaseNext DEF Port!Fail, IInv

LEMMA TaskServes ==
    ASSUME IInv, TypeOK', USB_Task
    PROVE  [Port!Next]_(Port!vars)
<1>1. CASE Initialize \/ WaitForDevice \/ StartSettling \/ Settle \/ ResetDevice \/ ResetComplete
           \/ WaitSof \/ NothingToDo
  <2>1. /\ UNCHANGED <<condet, plugged>>
        /\ \/ usb_task_state' = usb_task_state /\ UNCHANGED <<devclass, hid_addr>>
           \/ usb_task_state \in 1..5 /\ usb_task_state' \in 1..5
           \/ /\ usb_task_state \in (16..21) \cup {32, 48}
              /\ usb_task_state' \in (16..21) \cup {32, 48}
    BY <1>1 DEF Initialize, WaitForDevice, StartSettling, Settle, ResetDevice, ResetComplete, WaitSof,
           NothingToDo, Task, tables, chip, flags, port
  <2>2. QED
    BY <2>1, SamePhase
<1>2. CASE GetDeviceDescriptor \/ SetAddress \/ NoAddress \/ NoDriver
  <2>1. /\ UNCHANGED <<condet, plugged>>
        /\ usb_task_state \in (16..21) \cup {32, 48}
        /\ usb_task_state' \in {ADDRESSING, CONFIGURING, ERROR}
    BY <1>2 DEF GetDeviceDescriptor, SetAddress, NoAddress, NoDriver, Task, chip, flags, port
  <2>2. CASE usb_task_state' = ERROR
    BY <2>1, <2>2, Fails DEF Port!Next
  <2>3. CASE usb_task_state' \in {ADDRESSING, CONFIGURING}
    BY <2>1, <2>3, SamePhase
  <2>4. QED
    BY <2>1, <2>2, <2>3
<1>3. CASE ProbeDriver
  <2>1. /\ UNCHANGED <<condet, plugged>>
        /\ usb_task_state = CONFIGURING /\ usb_task_state' \in {RUNNING, ERROR}
        /\ plugged # NoDevice /\ plugged.class \in {HID_K, HID_M}
        /\ hid_addr' = tmp_addr
        /\ devclass' = [devclass EXCEPT ![tmp_addr] = plugged.class]
    BY <1>3 DEF ProbeDriver, Task, Answers, chip, flags, port
  <2>2. CASE usb_task_state' = ERROR
    BY <2>1, <2>2, Fails DEF Port!Next
  <2>3. CASE usb_task_state' = RUNNING
    <3>1. devclass'[hid_addr'] = plugged.class
      BY <2>1 DEF IInv, TypeOK
    <3>2. InService' = {plugged.class}
      BY <2>3, <3>1 DEF InService
    <3>3. Phase = "starting" /\ Phase' = "serving"
      BY <2>1, <2>3, PhaseNow, PhaseNext DEF IInv
    <3>4. Port!Serve
      BY <2>1, <3>2, <3>3 DEF Port!Serve
    <3>5. QED
      BY <3>4 DEF Port!Next
  <2>4. QED
    BY <2>1, <2>2, <2>3
<1>4. QED
  BY <1>1, <1>2, <1>3 DEF USB_Task

LEMMA LoopServes ==
    ASSUME IInv, TypeOK', ProbePending, Firmware, ~USB_Task
    PROVE  [Port!Next]_(Port!vars)
<1>1. CASE MAX3421E_Task \/ StopServing \/ FindDriver \/ Serve
  <2>1. UNCHANGED <<usb_task_state, devclass, hid_addr, condet, plugged>>
    BY <1>1 DEF MAX3421E_Task, StopServing, FindDriver, Serve, tables, chip, flags, port
  <2>2. QED
    BY <2>1, Elsewise
<1>2. CASE Probe
  <2>1. /\ MAX_busprobe(bus_sample) /\ bus_sample \in {"SE0", "J", "K", "SE1"}
        /\ condet /\ UNCHANGED <<condet, plugged>>
    BY <1>2 DEF Probe, ProbePending, flags, port, IInv, TypeOK
  <2>2. Port!Look
    BY <2>1, ProbeLooks
  <2>3. QED
    BY <2>2 DEF Port!Next
<1>3. CASE Reprobe
  <2>1. /\ MAX_busprobe(bus_sample') /\ bus_sample' \in {"SE0", "J", "K", "SE1"}
        /\ usb_task_state \notin {RUNNING, ERROR} /\ UNCHANGED <<condet, plugged>>
    BY <1>3 DEF Reprobe, flags, port, IInv, TypeOK, Places
  <2>2. Port!Look
    BY <2>1, ProbeLooks
  <2>3. QED
    BY <2>2 DEF Port!Next
<1>4. CASE Acknowledge
  <2>1. /\ usb_task_state \in {INITIALIZE, WAIT_FOR_DEVICE, ILLEGAL, ATTACHED, WAIT_RESET_COMPLETE}
        /\ usb_task_state' \in {usb_task_state, usb_task_state + 1}
        /\ condet' = FALSE /\ plugged' = plugged
    BY <1>4 DEF Acknowledge, port, IInv, Places
  <2>2. /\ usb_task_state \notin {RUNNING, ERROR} /\ usb_task_state' \notin {RUNNING, ERROR}
        /\ Detached <=> Detached'
    BY <2>1 DEF Detached
  <2>3. Port!Acknowledge
    BY <2>1, <2>2, ForgetIsHarmless
  <2>4. QED
    BY <2>3 DEF Port!Next
<1>5. CASE ChipReset \/ ClearAndInit
  <2>1. /\ usb_task_state \notin {RUNNING, ERROR} /\ usb_task_state' = usb_task_state
        /\ condet' = FALSE /\ plugged' = plugged
    BY <1>5 DEF ChipReset, ClearAndInit, port, IInv, Places
  <2>2. Port!Acknowledge
    BY <2>1, ForgetIsHarmless DEF Detached
  <2>3. QED
    BY <2>2 DEF Port!Next
<1>6. QED
  BY <1>1, <1>2, <1>3, <1>4, <1>5 DEF Firmware

LEMMA PortServes ==
    ASSUME IInv, TypeOK', Environment
    PROVE  [Port!Next]_(Port!vars)
<1>1. UNCHANGED <<usb_task_state, devclass, hid_addr>>
  BY EnvironmentFrame DEF firmware, tables
<1>2. Phase' = Phase /\ InService' = InService
  BY <1>1 DEF Phase, Detached, Attaching, InService
<1>3. CASE Attach
  BY <1>2, <1>3 DEF Attach, ConnectionChange, Port!Plug, Port!Next
<1>4. CASE Detach
  BY <1>2, <1>4 DEF Detach, ConnectionChange, Port!Unplug, Port!Next
<1>5. CASE ResetNoise
  BY <1>2, <1>5 DEF ResetNoise, ConnectionChange, port, Port!Noise, Port!Next
<1>6. CASE ResetDone \/ SofSent \/ SettleTimeOver
  <2>1. UNCHANGED <<condet, plugged>>
    BY <1>6 DEF ResetDone, SofSent, SettleTimeOver, flags, port
  <2>2. QED
    BY <1>1, <2>1, Elsewise
<1>7. QED
  BY <1>3, <1>4, <1>5, <1>6 DEF Environment

\* Loop, handler and task keep the port's service, wherever plugs fall between their steps.
THEOREM ServiceKept == Spec => HostIsService
<1>1. Init => IInv /\ ProbePending /\ Port!Init
  <2> SUFFICES ASSUME Init PROVE IInv /\ ProbePending /\ Port!Init
    OBVIOUS
  <2>1. IInv /\ ProbePending
    BY InitIInv DEF Init, ProbePending
  <2>2. Phase = "off" /\ InService = {}
    BY <2>1, PhaseNow DEF Init, IInv
  <2>3. QED
    BY <2>1, <2>2 DEF Init, Port!Init
<1>2. IInv /\ ProbePending /\ [Next]_vars => [Port!Next]_(Port!vars)
  <2> SUFFICES ASSUME IInv, ProbePending, [Next]_vars PROVE [Port!Next]_(Port!vars)
    OBVIOUS
  <2>1. TypeOK'
    BY NextIInv DEF IInv
  <2>2. CASE UNCHANGED vars
    BY <2>2, Elsewise DEF vars, firmware, tables, chip, flags, port
  <2>3. QED
    BY <2>1, <2>2, TaskServes, LoopServes, PortServes DEF Next
<1>3. QED
  BY <1>1, <1>2, NextIInv, ProbePendingStep, PTL DEF Spec, HostIsService, Port!Spec

\* That is enough for the right device: whatever keeps this service serves what is at the
\* port, although a change of connection may be acknowledged without being seen.
THEOREM ServiceIsRight == Port!Spec => []Port!RightDevice
<1>1. Port!Init => Port!RightDevice
  BY DEF Port!Init, Port!RightDevice
<1>2. Port!RightDevice /\ [Port!Next]_(Port!vars) => Port!RightDevice'
  BY DEF Port!RightDevice, Port!Next, Port!Plug, Port!Unplug, Port!Noise, Port!Look,
         Port!Acknowledge, Port!Serve, Port!Fail, Port!vars
<1>3. QED
  BY <1>1, <1>2, PTL DEF Port!Spec

-----------------------------------------------------------------------------
(* The main loop *)

\* The loop is the host with a board beside it: everything said of the host is true of
\* the loop, its fairness included.
THEOREM LoopIsHost == LoopSpec => Spec
<1>1. LoopInit => Init
  BY DEF LoopInit
<1>2. [LoopNext]_loopVars => [Next]_vars
  <2>1. LoopNext => Next
    BY DEF LoopNext, Turn, LightOn, PollKeyboard, PollOther, TellError, LightOff, Elsewhere,
           Next, Firmware
  <2>2. UNCHANGED loopVars => UNCHANGED vars
    BY DEF loopVars
  <2>3. QED
    BY <2>1, <2>2
<1>3. QED
  BY <1>1, <1>2, PTL DEF LoopSpec, Spec

\* The host's invariant in every state of the loop.
LEMMA LoopIInv == LoopSpec => []IInv
  BY LoopIsHost, Invariance, PTL

\* The steps that leave the board alone do not end a service without a turn that puts
\* out the light, nor an error without one that clears its flag.
LEMMA BoardStep ==
    ASSUME IInv, BoardPlace, LoopNext
    PROVE  BoardPlace'
<1>1. CASE LightOn
  BY <1>1 DEF LightOn, FindDriver, Leaving, BoardPlace
<1>2. CASE PollKeyboard
  BY <1>2 DEF PollKeyboard, Serve, loop, Leaving, BoardPlace
<1>3. CASE PollOther
  BY <1>3 DEF PollOther, board, Serve, loop, Leaving, BoardPlace
<1>4. CASE TellError
  BY <1>4 DEF TellError, Serve, loop, IInv, Service, FlagPlace, Leaving, BoardPlace
<1>5. CASE LightOff
  BY <1>5 DEF LightOff, BoardPlace
<1>6. CASE Elsewhere
  <2>1. UNCHANGED <<errorflag, led9>>
    BY <1>6 DEF Elsewhere, board
  <2>2. CASE MAX3421E_Task
    BY <2>1, <2>2 DEF MAX3421E_Task, loop, Leaving, BoardPlace
  <2>3. CASE Probe
    BY <2>1, <2>3 DEF Probe, MAX_busprobe, NextTaskState, Detached, loop, IInv, TypeOK, Leaving, BoardPlace
  <2>4. CASE Acknowledge
    BY <2>1, <2>4 DEF Acknowledge, loop, IInv, Places, Leaving, BoardPlace
  <2>5. CASE Initialize
    BY <2>1, <2>5 DEF Initialize, Task, loop, Leaving, BoardPlace
  <2>6. CASE WaitForDevice
    BY <2>1, <2>6 DEF WaitForDevice, Task, loop, Leaving, BoardPlace
  <2>7. CASE StartSettling
    BY <2>1, <2>7 DEF StartSettling, Task, loop, Leaving, BoardPlace
  <2>8. CASE Settle
    BY <2>1, <2>8 DEF Settle, Task, loop, Leaving, BoardPlace
  <2>9. CASE ResetDevice
    BY <2>1, <2>9 DEF ResetDevice, Task, loop, Leaving, BoardPlace
  <2>10. CASE ResetComplete
    BY <2>1, <2>10 DEF ResetComplete, Task, loop, Leaving, BoardPlace
  <2>11. CASE WaitSof
    BY <2>1, <2>11 DEF WaitSof, Task, loop, Leaving, BoardPlace
  <2>12. CASE GetDeviceDescriptor
    BY <2>1, <2>12 DEF GetDeviceDescriptor, Task, loop, Leaving, BoardPlace
  <2>13. CASE SetAddress
    BY <2>1, <2>13 DEF SetAddress, Task, loop, Leaving, BoardPlace
  <2>14. CASE NoAddress
    BY <2>1, <2>14 DEF NoAddress, Task, loop, Leaving, BoardPlace
  <2>15. CASE NoDriver
    BY <2>1, <2>15 DEF NoDriver, Task, loop, Leaving, BoardPlace
  <2>16. CASE ProbeDriver
    BY <2>1, <2>16 DEF ProbeDriver, Task, loop, Leaving, BoardPlace
  <2>17. CASE NothingToDo
    BY <2>1, <2>17 DEF NothingToDo, loop, Leaving, BoardPlace
  <2>18. CASE ChipReset
    BY <2>1, <2>18 DEF ChipReset, loop, IInv, Places, Leaving, BoardPlace
  <2>19. CASE Reprobe
    BY <2>1, <2>19 DEF Reprobe, loop, IInv, Places, Leaving, BoardPlace
  <2>20. CASE ClearAndInit
    BY <2>1, <2>20 DEF ClearAndInit, loop, IInv, Places, Leaving, BoardPlace
  <2>21. CASE Environment
    BY <2>1, <2>21, EnvironmentFrame DEF firmware, loop, Leaving, BoardPlace
  <2>22. QED
    BY <1>6, <2>2, <2>3, <2>4, <2>5, <2>6, <2>7, <2>8, <2>9, <2>10, <2>11, <2>12, <2>13, <2>14, <2>15, <2>16, <2>17, <2>18, <2>19, <2>20, <2>21
       DEF Elsewhere, USB_Task
<1>7. QED
  BY <1>1, <1>2, <1>3, <1>4, <1>5, <1>6 DEF LoopNext, Turn

\* So the board is right in every state of the loop.
LEMMA BoardInvariance == LoopSpec => []BoardPlace
<1>1. LoopInit => BoardPlace
  BY DEF LoopInit, BoardPlace
<1>2. IInv /\ BoardPlace /\ [LoopNext]_loopVars => BoardPlace'
  <2> SUFFICES ASSUME IInv, BoardPlace, [LoopNext]_loopVars PROVE BoardPlace'
    OBVIOUS
  <2>1. CASE LoopNext
    BY <2>1, BoardStep
  <2>2. CASE UNCHANGED loopVars
    BY <2>2 DEF loopVars, vars, firmware, loop, board, Leaving, BoardPlace
  <2>3. QED
    BY <2>1, <2>2
<1>3. QED
  BY <1>1, <1>2, LoopIInv, PTL DEF LoopSpec

\* Light 9 means service in every state, and every error finds its flag cleared: between
\* a service and an error, and between two errors, there is a turn with neither.
THEOREM BoardTells == LoopSpec => BoardTellsService
<1>1. IInv /\ BoardPlace => LightMeansService
  BY DEF IInv, Service, FlagPlace, Leaving, BoardPlace, LightMeansService
<1>2. IInv /\ BoardPlace /\ [LoopNext]_loopVars => ErrorToldAfresh
  <2> SUFFICES ASSUME IInv, BoardPlace, [LoopNext]_loopVars, errorflag, usb_task_state # ERROR
               PROVE  usb_task_state' # ERROR
    BY DEF ErrorToldAfresh
  <2>1. Leaving
    BY DEF BoardPlace
  <2>2. CASE Turn
    BY <2>2 DEF Turn, LightOn, PollKeyboard, PollOther, TellError, LightOff, FindDriver, Serve,
                StopServing
  <2>3. CASE Elsewhere
    <3>1. CASE Probe
      BY <3>1, <2>1 DEF Probe, Leaving
    <3>2. CASE Acknowledge
      BY <3>2, <2>1 DEF Acknowledge, Leaving
    <3>3. CASE USB_Task
      BY <3>3, <2>1 DEF USB_Task, Task, Leaving, Initialize, WaitForDevice, StartSettling,
            Settle, ResetDevice, ResetComplete, WaitSof, GetDeviceDescriptor, SetAddress,
            NoAddress, NoDriver, ProbeDriver, NothingToDo
    <3>4. CASE ChipReset \/ Reprobe \/ ClearAndInit \/ MAX3421E_Task
      BY <3>4, <2>1 DEF ChipReset, Reprobe, ClearAndInit, MAX3421E_Task, Leaving
    <3>5. CASE Environment
      BY <3>5, EnvironmentFrame DEF firmware
    <3>6. QED
      BY <2>3, <3>1, <3>2, <3>3, <3>4, <3>5 DEF Elsewhere
  <2>4. CASE UNCHANGED loopVars
    BY <2>4 DEF loopVars, vars, firmware
  <2>5. QED
    BY <2>2, <2>3, <2>4 DEF LoopNext
<1>3. QED
  BY <1>1, <1>2, LoopIInv, BoardInvariance, PTL DEF LoopSpec, BoardTellsService

\* Only a keyboard that is plugged in changes the key code.
THEOREM KeysSafe == LoopSpec => KeysFromKeyboard
<1>1. IInv /\ [LoopNext]_loopVars =>
        (keycode' # keycode => plugged # NoDevice /\ plugged.class = HID_K)
  <2> SUFFICES ASSUME IInv, LoopNext, keycode' # keycode
               PROVE  plugged # NoDevice /\ plugged.class = HID_K
    BY DEF loopVars, board
  <2>1. PollKeyboard /\ Answers(hid_addr)
    BY DEF LoopNext, Turn, LightOn, PollKeyboard, PollOther, TellError, LightOff, Elsewhere,
           board
  <2>2. usb_task_state = RUNNING /\ runningdebugflag /\ device = HID_K
    BY <2>1 DEF PollKeyboard, Serve
  <2>3. devclass[hid_addr] = HID_K
    BY <2>2 DEF IInv, Service, DriverMatches
  <2>4. QED
    BY <2>1, <2>2, <2>3 DEF Answers, IInv, Served
<1>2. QED
  BY <1>1, LoopIInv, PTL DEF LoopSpec, KeysFromKeyboard
=============================================================================

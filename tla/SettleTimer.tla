---------------------------- MODULE SettleTimer ----------------------------
(***************************************************************************)
(* The wait between the attachment of a device and the bus reset           *)
(* (transfer.c:277-285), measured with the tick counter: the part of       *)
(* UsbHost that its variable "settled" stands for.                         *)
(*                                                                         *)
(* Milliseconds are alt_nticks()*1000/alt_ticks_per_second() in 32-bit     *)
(* arithmetic, so they go back to 0 long before the tick counter does.     *)
(*                                                                         *)
(* The same interrupt counts the ticks and calls the alarms: the loop, the *)
(* alarms and the interrupt share nticks.                                  *)
(***************************************************************************)
EXTENDS Alarm

CONSTANTS
    Thousand,           \* 1000, which is also alt_ticks_per_second()
    SettleTime          \* 200

\* usb_delay itself does not wrap: 4294967 milliseconds and 200 are far below 2^32.
ASSUME SettleAssumption ==
    /\ {Thousand, SettleTime} \subseteq Nat \ {0}
    /\ (Word - 1) \div Thousand + SettleTime < Word

VARIABLES
    usb_task_state,     \* "DETACHED", "ATTACHED", "SETTLE", "RESET_DEVICE"
    usb_delay,
    \* history, since the attachment:
    waited,             \* ticks, at most SettleTime
    skipped             \* a bus event has taken the place of the start of the timer

settle == <<usb_task_state, usb_delay, waited, skipped>>
clockVars == <<vars, settle>>

Now == ((nticks * Thousand) % Word) \div Thousand
LastNow == (Word - 1) \div Thousand         \* the milliseconds go no further

ClockInit ==
    /\ Init
    /\ usb_task_state = "DETACHED"
    /\ usb_delay = 0 /\ waited = 0 /\ skipped = FALSE

Tick ==
    /\ alt_tick
    /\ waited' = IF waited < SettleTime THEN waited + 1 ELSE waited
    /\ UNCHANGED <<usb_task_state, usb_delay, skipped>>

\* MaxIntHandler: the bus probe has found a device; a bus event read together
\* with the connection change increments the state that the probe has set.
Attached ==
    /\ \/ usb_task_state' = "ATTACHED" /\ skipped' = FALSE
       \/ usb_task_state' = "SETTLE" /\ skipped' = TRUE
    /\ waited' = 0
    /\ UNCHANGED <<vars, usb_delay>>

\* The probe has found the port empty.
Detached ==
    /\ usb_task_state # "DETACHED"
    /\ usb_task_state' = "DETACHED"
    /\ UNCHANGED <<vars, usb_delay, waited, skipped>>

StartTimer ==
    /\ usb_task_state = "ATTACHED"
    /\ usb_delay' = (Now + SettleTime) % Word
    /\ usb_task_state' = "SETTLE"
    /\ UNCHANGED <<vars, waited, skipped>>

\* Mutation: the test is >= on the next millisecond.
TimerExpiresEarly ==
    /\ usb_task_state = "SETTLE" /\ Now + 1 >= usb_delay
    /\ usb_task_state' = "RESET_DEVICE"
    /\ UNCHANGED <<vars, usb_delay, waited, skipped>>

\* Mutation: the settle time is added again.
TimerExpiresLate ==
    /\ usb_task_state = "SETTLE" /\ Now > usb_delay + SettleTime
    /\ usb_task_state' = "RESET_DEVICE"
    /\ UNCHANGED <<vars, usb_delay, waited, skipped>>

TimerExpires ==
    /\ usb_task_state = "SETTLE" /\ Now > usb_delay
    /\ usb_task_state' = "RESET_DEVICE"
    /\ UNCHANGED <<vars, usb_delay, waited, skipped>>

USB_Task == StartTimer \/ TimerExpires

SetAlarm ==
    /\ \E a \in Alarms : alt_alarm_stop(a) \/ \E n \in Periods : alt_alarm_start(a, n)
    /\ UNCHANGED settle

ClockNext == Tick \/ SetAlarm \/ Attached \/ Detached \/ USB_Task

\* The clock ticks, and the loop comes back to the task while its test is true:
\* a turn is short against the time for which it is, except at the very end of
\* the range.
ClockSpec ==
    ClockInit /\ [][ClockNext]_clockVars /\ WF_clockVars(Tick) /\ SF_clockVars(USB_Task)

-----------------------------------------------------------------------------
\* The task goes on to the bus reset only when the device has had its settle
\* time ("initial settle 200ms"), whatever the timer was used for before and
\* wherever the milliseconds go back to 0 meanwhile; unless the timer was not started.
SettleWaited == [][TimerExpires => waited = SettleTime \/ skipped]_clockVars

\* A device that stays is reset at last, if the timer was started early
\* enough before the milliseconds go back to 0.
SettleEndsIfInRange ==
    (usb_task_state = "SETTLE" /\ usb_delay < LastNow)
        ~> (usb_task_state # "SETTLE" \/ usb_delay >= LastNow)
=============================================================================

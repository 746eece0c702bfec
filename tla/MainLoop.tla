------------------------------ MODULE MainLoop ------------------------------
(***************************************************************************)
(* The turn of the firmware's main loop with what it shows of the host:    *)
(* light 9, which says that a device is served, the flag that has an error *)
(* told once, and the key code register, which is all that the game reads  *)
(* of the keyboard.  The host, the chip and the port are those of UsbHost; *)
(* translated from src/software/usb_kb/main.c.                             *)
(***************************************************************************)
EXTENDS UsbHost

CONSTANT Keys       \* the codes in a report, 0 for no key

ASSUME NoKeyIsAKey == 0 \in Keys

VARIABLES
    errorflag,      \* the error was told
    led9,           \* bit 9 of the LEDS register
    keycode         \* the KEYCODE register

board == <<errorflag, led9, keycode>>
loopVars == <<vars, board>>

LoopInit ==
    /\ Init
    /\ errorflag = FALSE /\ led9 = FALSE /\ keycode = 0

-----------------------------------------------------------------------------
LightOn ==
    /\ FindDriver
    /\ led9' = TRUE
    /\ UNCHANGED <<errorflag, keycode>>

\* kbdPoll: a device that answers may have a report, of which a mouse fills a part;
\* with no report the turn ends early.
PollKeyboard ==
    /\ Serve
    /\ usb_task_state = RUNNING /\ device = HID_K
    /\ \/ Answers(hid_addr) /\ keycode' \in Keys
       \/ UNCHANGED keycode
    /\ UNCHANGED <<errorflag, led9>>

\* mousePoll, whose report the displays show, or a device of no driver.
PollOther ==
    /\ Serve
    /\ usb_task_state = RUNNING /\ device # HID_K
    /\ UNCHANGED board

TellError ==
    /\ Serve
    /\ usb_task_state = ERROR
    /\ errorflag' = TRUE
    /\ led9' = IF errorflag THEN led9 ELSE FALSE
    /\ UNCHANGED keycode

\* Mutation: the flag stays set.
LightOffErrorKept ==
    /\ StopServing
    /\ led9' = FALSE
    /\ UNCHANGED <<errorflag, keycode>>

\* Neither running nor failed.
LightOff ==
    /\ StopServing
    /\ errorflag' = FALSE /\ led9' = FALSE
    /\ UNCHANGED keycode

Turn == LightOn \/ PollKeyboard \/ PollOther \/ TellError \/ LightOff

\* Steps that do not touch the board.
Elsewhere ==
    /\ \/ MAX3421E_Task \/ Probe \/ Acknowledge
       \/ USB_Task
       \/ ChipReset \/ Reprobe \/ ClearAndInit
       \/ Environment
    /\ UNCHANGED board

LoopNext == Turn \/ Elsewhere

\* Every step of the host has its step here, so what is fair there is fair here.
LoopSpec == LoopInit /\ [][LoopNext]_loopVars /\ Fairness

-----------------------------------------------------------------------------
\* Light 9 means service, and every error is told.  The error branch does both only the
\* first time since the last turn that found neither service nor error: enough,
\* because the host passes through such a turn between a service and an error, and
\* between one error and the next, whatever is plugged when.
LightMeansService == led9 => runningdebugflag /\ (pc = "poll" => usb_task_state # ERROR)
ErrorToldAfresh == usb_task_state # ERROR /\ usb_task_state' = ERROR => ~errorflag
BoardTellsService == [][LightMeansService' /\ ErrorToldAfresh]_loopVars

\* The game is given a key only by a keyboard that is plugged in, also when a mouse
\* takes its place between two turns.
KeysFromKeyboard ==
    [][keycode' # keycode => plugged # NoDevice /\ plugged.class = HID_K]_loopVars
=============================================================================

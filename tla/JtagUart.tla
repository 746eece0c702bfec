------------------------------ MODULE JtagUart ------------------------------
(***************************************************************************)
(* The terminal that the firmware prints to: the driver of the JTAG UART   *)
(* (altera_avalon_jtag_uart_*.c) with the core it drives                   *)
(* (lab62_soc_jtag_uart_0.v).                                              *)
(*                                                                         *)
(* The program writes into one ring and reads from another; the interrupt  *)
(* routine moves characters between the rings and the two FIFOs of the     *)
(* core; the host empties and fills the FIFOs over JTAG, or has gone.      *)
(* There is no operating system, so the program waits in loops; the        *)
(* interrupt routine and the alarm run between any two of its accesses to  *)
(* what they share, and never inside each other.                           *)
(***************************************************************************)
EXTENDS Integers, Sequences

CONSTANTS
    TIMEOUT,            \* 10: seconds until the host is assumed inactive
    MAX_INACTIVE,       \* INT_MAX - 2
    Chars,
    MaxRequest,         \* how many characters a call writes or asks for, at most
    Settings            \* records of the six below, one of which holds throughout

ASSUME JtagUartAssumption ==
    /\ {TIMEOUT, MAX_INACTIVE, MaxRequest} \subseteq Nat \ {0}
    /\ TIMEOUT <= MAX_INACTIVE
    /\ \A s \in Settings :
        /\ s.ring \in Nat \ {0, 1} /\ s.fifo \in Nat \ {0}
        /\ s.threshold \in 0..(s.fifo - 1)
        /\ s.request \in 1..MaxRequest
        /\ s.chars # {} /\ s.chars \subseteq Chars
        /\ s.directions \subseteq {"down", "up"}

VARIABLES
    \* the program
    pc,                 \* "idle"; look, put, kick, wait, judge in write; take, await, listen in read
    todo, written,      \* ptr and count of write
    seen, n,            \* write: out and n; read: in
    buffer, space,      \* of read
    result,             \* what the last call returned
    \* the driver
    tx_buf, tx_in, tx_out,
    rx_buf, rx_in, rx_out,
    irq_enable,         \* the interrupts that are on: "RE", "WE".  The core has a copy
    host_inactive,
    isr,                \* "off", "loop" or "serve"
    control,            \* what the interrupt routine has read from the control register
    \* the core
    wfifo, rfifo,
    pause_irq,          \* the host has stopped typing and there is something to read
    ac,                 \* the host has been active
    host,               \* whether a terminal is connected
    \* fixed from the start
    setting

call == <<pc, todo, written, seen, n, buffer, space, result>>
tx == <<tx_buf, tx_in, tx_out>>
rx == <<rx_buf, rx_in, rx_out>>
core == <<wfifo, rfifo, pause_irq, ac, host>>
uartVars == <<call, tx, rx, irq_enable, host_inactive, isr, control, core, setting>>

BUF_LEN == setting.ring             \* 2048: the size of both rings
FIFO_LEN == setting.fifo            \* 64
THRESHOLD == setting.threshold      \* 8: interrupts come when this many are left
Alphabet == setting.chars
Request == setting.request
Directions == setting.directions    \* "down": the program writes; "up": it reads and the host types

MinOf(a, b) == IF a < b THEN a ELSE b

\* The index k places after i, at most one round on.
Step(i, k) == IF i + k < BUF_LEN THEN i + k ELSE i + k - BUF_LEN
Used(in, out) == IF in >= out THEN in - out ELSE in - out + BUF_LEN
Content(buf, in, out) == [k \in 1..Used(in, out) |-> buf[Step(out, k - 1)]]
Fill(buf, in, s) ==
    [i \in 0..(BUF_LEN - 1) |-> IF \E k \in 1..Len(s) : i = Step(in, k - 1)
                                THEN s[Used(i, in) + 1] ELSE buf[i]]
First(s, k) == SubSeq(s, 1, k)
Rest(s, k) == SubSeq(s, k + 1, Len(s))

-----------------------------------------------------------------------------
(* altera_avalon_jtag_uart_write *)

Texts == UNION {[1..k -> Alphabet] : k \in 1..Request}

Write(s) ==
    /\ "down" \in Directions
    /\ pc = "idle" /\ isr = "off"
    /\ pc' = "look"
    /\ todo' = s /\ written' = 0 /\ seen' = 0 /\ n' = 0 /\ result' = 0
    /\ UNCHANGED <<buffer, space, tx, rx, irq_enable, host_inactive, isr, control, core>>

\* Mutation: the free place between a full and an empty ring is used.
RoomToTheEnd(in, out) == IF in < out THEN out - 1 - in ELSE BUF_LEN - in

\* How much can be copied to the ring in one piece, from an out read once.
Room(in, out) ==
    IF in < out THEN out - 1 - in
    ELSE IF out > 0 THEN BUF_LEN - in
    ELSE BUF_LEN - 1 - in

Look ==
    /\ pc = "look" /\ isr = "off"
    /\ IF todo = <<>>
       THEN pc' = "kick" /\ UNCHANGED <<seen, n>>
       ELSE /\ seen' = tx_out
            /\ n' = MinOf(Room(tx_in, tx_out), Len(todo))
            /\ pc' = IF n' = 0 THEN "kick" ELSE "put"
    /\ UNCHANGED <<todo, written, buffer, space, result, tx, rx, irq_enable, host_inactive, isr, control, core>>

Put ==
    /\ pc = "put" /\ isr = "off"
    /\ tx_buf' = Fill(tx_buf, tx_in, First(todo, n))
    /\ tx_in' = Step(tx_in, n)
    /\ todo' = Rest(todo, n)
    /\ written' = written + n
    /\ pc' = "look"
    /\ UNCHANGED <<seen, n, buffer, space, result, tx_out, rx, irq_enable, host_inactive, isr, control, core>>

EIO == -5
Outcome(k) == IF k > 0 THEN k ELSE EIO

\* With interrupts disabled.
Kick ==
    /\ pc = "kick" /\ isr = "off"
    /\ irq_enable' = irq_enable \cup {"WE"}
    /\ IF todo = <<>>
       THEN pc' = "idle" /\ result' = Outcome(written)
       ELSE pc' = "wait" /\ UNCHANGED result
    /\ UNCHANGED <<todo, written, seen, n, buffer, space, tx, rx, host_inactive, isr, control, core>>

\* Mutation: the wait does not look at host_inactive.
WaitForRoom ==
    /\ pc = "wait" /\ isr = "off" /\ seen # tx_out
    /\ pc' = "judge"
    /\ UNCHANGED <<todo, written, seen, n, buffer, space, result, tx, rx, irq_enable, host_inactive, isr, control, core>>

\* The wait ends when something was sent or the host has gone.
Wait ==
    /\ pc = "wait" /\ isr = "off"
    /\ seen # tx_out \/ host_inactive >= TIMEOUT
    /\ pc' = "judge"
    /\ UNCHANGED <<todo, written, seen, n, buffer, space, result, tx, rx, irq_enable, host_inactive, isr, control, core>>

\* A write that then finds the host inactive returns with what it has written,
\* or with an error.
Judge ==
    /\ pc = "judge" /\ isr = "off"
    /\ IF host_inactive > 0
       THEN pc' = "idle" /\ todo' = <<>> /\ result' = Outcome(written)
       ELSE pc' = "look" /\ UNCHANGED <<todo, result>>
    /\ UNCHANGED <<written, seen, n, buffer, space, tx, rx, irq_enable, host_inactive, isr, control, core>>

-----------------------------------------------------------------------------
(* altera_avalon_jtag_uart_read *)

Read(k) ==
    /\ "up" \in Directions
    /\ pc = "idle" /\ isr = "off"
    /\ pc' = "take"
    /\ buffer' = <<>> /\ space' = k /\ seen' = 0 /\ result' = 0
    /\ UNCHANGED <<todo, written, n, tx, rx, irq_enable, host_inactive, isr, control, core>>

\* One round of the copying loop, which ends when it has all it wants or the
\* ring is empty.
Take ==
    /\ pc = "take" /\ isr = "off" /\ space > 0
    /\ LET all == IF rx_in >= rx_out THEN rx_in - rx_out ELSE BUF_LEN - rx_out
           k == MinOf(all, space)
       IN /\ seen' = rx_in
          /\ buffer' = buffer \o First(Content(rx_buf, Step(rx_out, k), rx_out), k)
          /\ rx_out' = Step(rx_out, k)
          /\ space' = space - k
          /\ pc' = IF k > 0 THEN "take" ELSE IF buffer # <<>> THEN "listen" ELSE "await"
    /\ UNCHANGED <<todo, written, n, result, tx, rx_buf, rx_in, irq_enable, host_inactive, isr, control, core>>

Satisfied ==
    /\ pc = "take" /\ isr = "off" /\ space = 0
    /\ pc' = "listen"
    /\ UNCHANGED <<todo, written, seen, n, buffer, space, result, tx, rx, irq_enable, host_inactive, isr, control, core>>

Await ==
    /\ pc = "await" /\ isr = "off"
    /\ seen # rx_in \/ host_inactive >= TIMEOUT
    /\ IF seen = rx_in
       THEN pc' = "idle" /\ result' = EIO
       ELSE pc' = "take" /\ UNCHANGED result
    /\ UNCHANGED <<todo, written, seen, n, buffer, space, tx, rx, irq_enable, host_inactive, isr, control, core>>

\* Mutation: the read interrupt is not switched on.
ListenNot ==
    /\ pc = "listen" /\ isr = "off"
    /\ pc' = "idle" /\ result' = Len(buffer)
    /\ UNCHANGED <<todo, written, seen, n, buffer, space, irq_enable, tx, rx, host_inactive, isr, control, core>>

\* There is space in the ring, so the interrupt is switched on.
Listen ==
    /\ pc = "listen" /\ isr = "off"
    /\ irq_enable' = irq_enable \cup {"RE"}
    /\ pc' = "idle" /\ result' = Len(buffer)
    /\ UNCHANGED <<todo, written, seen, n, buffer, space, tx, rx, host_inactive, isr, control, core>>

-----------------------------------------------------------------------------
(* altera_avalon_jtag_uart_irq *)

\* ipen_AF and ipen_AE of the core.
ReadPending == "RE" \in irq_enable /\ (pause_irq \/ FIFO_LEN - Len(rfifo) <= THRESHOLD)
WritePending == "WE" \in irq_enable /\ Len(wfifo) <= THRESHOLD

NoControl == [ri |-> FALSE, wi |-> FALSE, wspace |-> 0]

Interrupt ==
    /\ isr = "off" /\ (ReadPending \/ WritePending)
    /\ isr' = "loop"
    /\ UNCHANGED <<call, tx, rx, irq_enable, host_inactive, control, core>>

ReadControl ==
    /\ isr = "loop"
    /\ IF ReadPending \/ WritePending
       THEN /\ isr' = "serve"
            /\ control' = [ri |-> ReadPending, wi |-> WritePending,
                           wspace |-> FIFO_LEN - Len(wfifo)]
       ELSE isr' = "off" /\ UNCHANGED control
    /\ UNCHANGED <<call, tx, rx, irq_enable, host_inactive, core>>

\* The read half empties the FIFO into the ring; if the ring fills up first, it
\* switches its interrupt off.
Free == BUF_LEN - 1 - Used(rx_in, rx_out)

Taken == IF control.ri THEN MinOf(Free, Len(rfifo)) ELSE 0
RingFull == control.ri /\ Taken = Free /\ (Taken < Len(rfifo) \/ Taken = 0)

\* The write half fills the FIFO as far as the control register said; if the
\* ring is empty first, it switches its interrupt off.
Sent == IF control.wi THEN MinOf(control.wspace, Used(tx_in, tx_out)) ELSE 0

\* Mutation: the write interrupt goes off with every service.
RingEmptyAlways == control.wi

RingEmpty == control.wi /\ Sent < control.wspace

\* The core drops what is written to a full FIFO.
Kept(s) == First(s, MinOf(Len(s), FIFO_LEN))

Serve ==
    /\ isr = "serve"
    /\ rx_buf' = Fill(rx_buf, rx_in, First(rfifo, Taken))
    /\ rx_in' = Step(rx_in, Taken)
    /\ rfifo' = Rest(rfifo, Taken)
    /\ pause_irq' = (pause_irq /\ ~(control.ri /\ Free > 0))
    /\ wfifo' = Kept(wfifo \o First(Content(tx_buf, tx_in, tx_out), Sent))
    /\ tx_out' = Step(tx_out, Sent)
    /\ irq_enable' = irq_enable \ ((IF RingFull THEN {"RE"} ELSE {})
                                      \cup (IF RingEmpty THEN {"WE"} ELSE {}))
    /\ isr' = "loop" /\ control' = NoControl
    /\ UNCHANGED <<call, tx_buf, tx_in, rx_out, host_inactive, ac, host>>

\* altera_avalon_jtag_uart_timeout, once a second.
Second ==
    /\ isr = "off"
    /\ IF ac
       THEN ac' = FALSE /\ host_inactive' = 0
       ELSE /\ host_inactive' = IF host_inactive < MAX_INACTIVE THEN host_inactive + 1
                                ELSE host_inactive
            /\ UNCHANGED ac
    /\ UNCHANGED <<call, tx, rx, irq_enable, isr, control, wfifo, rfifo, pause_irq, host>>

-----------------------------------------------------------------------------
(* The host *)

Connect ==
    /\ host' = ~host
    /\ UNCHANGED <<call, tx, rx, irq_enable, host_inactive, isr, control, wfifo, rfifo, pause_irq, ac>>

HostReads ==
    /\ host /\ wfifo # <<>>
    /\ wfifo' = Tail(wfifo)
    /\ ac' \in {ac, TRUE}
    /\ UNCHANGED <<call, tx, rx, irq_enable, host_inactive, isr, control, rfifo, pause_irq, host>>

HostTypes ==
    /\ "up" \in Directions
    /\ host /\ Len(rfifo) < FIFO_LEN
    /\ \E c \in Alphabet : rfifo' = Append(rfifo, c)
    /\ ac' = TRUE
    /\ UNCHANGED <<call, tx, rx, irq_enable, host_inactive, isr, control, wfifo, pause_irq, host>>

HostPauses ==
    /\ host
    /\ pause_irq' = (pause_irq \/ rfifo # <<>>)
    /\ ac' = TRUE
    /\ UNCHANGED <<call, tx, rx, irq_enable, host_inactive, isr, control, wfifo, rfifo, host>>

-----------------------------------------------------------------------------
Blank == CHOOSE c \in Alphabet : TRUE

UartInit ==
    /\ setting \in Settings
    /\ pc = "idle" /\ todo = <<>> /\ written = 0 /\ seen = 0 /\ n = 0
    /\ buffer = <<>> /\ space = 0 /\ result = 0
    /\ tx_buf = [i \in 0..(BUF_LEN - 1) |-> Blank] /\ tx_in = 0 /\ tx_out = 0
    /\ rx_buf = [i \in 0..(BUF_LEN - 1) |-> Blank] /\ rx_in = 0 /\ rx_out = 0
    /\ irq_enable = {"RE"} /\ host_inactive = 0
    /\ isr = "off" /\ control = NoControl
    /\ wfifo = <<>> /\ rfifo = <<>> /\ pause_irq = FALSE /\ ac = FALSE /\ host \in BOOLEAN

Begin == (\E s \in Texts : Write(s)) \/ \E k \in 1..Request : Read(k)
Program == Look \/ Put \/ Kick \/ Wait \/ Judge \/ Take \/ Satisfied \/ Await \/ Listen
Irq == Interrupt \/ ReadControl \/ Serve
Host == Connect \/ HostReads \/ HostTypes \/ HostPauses

UartNext ==
    /\ Begin \/ Program \/ Irq \/ Second \/ Host
    /\ UNCHANGED setting

\* The processor runs on, the alarm is called, and a terminal that is there time
\* and again takes what is sent to it and pauses in its typing.
Fairness ==
    /\ WF_uartVars(Program /\ UNCHANGED setting)
    /\ WF_uartVars(Irq /\ UNCHANGED setting)
    /\ WF_uartVars(Second /\ UNCHANGED setting)
    /\ SF_uartVars(HostReads /\ UNCHANGED setting)
    /\ SF_uartVars(HostPauses /\ UNCHANGED setting)

UartSpec == UartInit /\ [][UartNext]_uartVars /\ Fairness

-----------------------------------------------------------------------------
\* Driver and core together are the two queues of Link: no character is lost,
\* overwritten, repeated or reordered in the rings, whatever the interrupt
\* routine and the host do between two steps of a call.  What is on its way to the
\* terminal leaves only there: the FIFO has room for what is written to it, and no
\* timeout or later call drops a character that a write has counted.
Down == wfifo \o Content(tx_buf, tx_in, tx_out)
Up == Content(rx_buf, rx_in, rx_out) \o rfifo
L == INSTANCE Link WITH down <- Down, up <- Up
IsLink == L!Spec /\ [][Down' # Down => HostReads \/ Put]_uartVars

\* No character is left behind in the ring: when the interrupt routine has
\* switched its write interrupt off, the ring is empty or a write is on its way
\* to switch it on again.
WriteKicked == "WE" \in irq_enable \/ tx_in = tx_out \/ pc \in {"look", "put", "kick"}

\* A write returns: the terminal takes the characters, or is found to be gone.
Writing == pc \in {"look", "put", "kick", "wait", "judge"}
WriteReturns == Writing ~> ~Writing

\* A read that waits while something has been typed gets characters, or gives up with
\* the -EIO of the timeout.  Giving up loses nothing: what is typed is read in the end by
\* a program that reads time and again from a terminal that is there time and again,
\* however often the interrupt routine has switched its read interrupt off.  (The queue
\* Up is short and in order, so a program that takes something time and again takes all.)
ReadAnswered ==
    /\ (pc = "await" /\ rfifo # <<>>) ~> (buffer # <<>> \/ result = EIO)
    /\ []<>host /\ []<>(pc = "take") => []<>(Up = <<>>) \/ []<><<Take /\ space' < space>>_uartVars

=============================================================================

-------------------------------- MODULE Spi --------------------------------
(***************************************************************************)
(* How the firmware reads and writes the registers of the MAX3421E: the    *)
(* accessors of MAX3421E.c, the driver altera_avalon_spi.c and the SPI     *)
(* core lab62_soc_spi_0.v.                                                 *)
(*                                                                         *)
(* The driver polls the core's status and acts on what it has read, while  *)
(* the core moves bytes from its holding register to its shift register    *)
(* and out to the chip, one back for each.  A read that comes too late     *)
(* loses a byte, and so does a write that comes too early.                 *)
(*                                                                         *)
(* Every call uses slave 0 and no flags, so neither is modelled.           *)
(***************************************************************************)
EXTENDS Integers, Sequences

CONSTANT MaxBytes       \* 64: the bytes that an accessor moves at once

ASSUME SpiAssumption == MaxBytes \in Nat

VARIABLES
    \* alt_avalon_spi_command
    pc,                 \* "idle", "select", "discard", "poll", "write", "read", "drain", "release"
    command,            \* which command: consecutive ones differ
    write_length, read_length,
    written,            \* bytes and zeros written
    read_ignore,
    read_data,
    credits,
    status,             \* what the last read of the status register has returned
    \* the core
    tx_holding, tx_holding_primed, shift, transmitting,
    rx_holding, RRDY, ROE, TOE, SSO,
    \* the chip
    taken               \* the bytes it has been sent since it was selected

driver == <<pc, command, write_length, read_length, written, read_ignore, read_data, credits, status>>
core == <<tx_holding, tx_holding_primed, shift, transmitting, rx_holding, RRDY, ROE, TOE, SSO>>
vars == <<driver, core, taken>>

\* Byte k of a command; the chip's answer to it is known by the same name.
Byte(k) == [command |-> command, number |-> k]
Stale == [command |-> 2, number |-> 0]

TRDY == ~(transmitting /\ tx_holding_primed)
TMT == ~transmitting /\ ~tx_holding_primed

-----------------------------------------------------------------------------
(* The accessors: MAXreg_wr and MAXbytes_wr, MAXreg_rd and MAXbytes_rd *)

Writes == {<<n + 1, 0>> : n \in 0..MaxBytes}
Reads == {<<1, n>> : n \in 0..MaxBytes}

Start(lengths) ==
    /\ pc = "idle"
    /\ pc' = "select"
    /\ command' = 1 - command
    /\ write_length' = lengths[1] /\ read_length' = lengths[2]
    /\ written' = 0 /\ read_data' = <<>>
    /\ read_ignore' = lengths[1]
    /\ credits' = 1
    /\ UNCHANGED <<status, core, taken>>

-----------------------------------------------------------------------------
(* alt_avalon_spi_command *)

\* Mutation: the bit is left to the core.
SelectByByte ==
    /\ pc = "select"
    /\ pc' = "discard"
    /\ UNCHANGED <<command, write_length, read_length, written, read_ignore, read_data, credits, status, core, taken>>

\* The SSO bit keeps the chip selected between the bytes.
ForceSelect ==
    /\ pc = "select"
    /\ pc' = "discard"
    /\ SSO' = TRUE
    /\ UNCHANGED <<command, write_length, read_length, written, read_ignore, read_data, credits, status>>
    /\ UNCHANGED <<tx_holding, tx_holding_primed, shift, transmitting, rx_holding, RRDY, ROE, TOE, taken>>

\* Mutation: RXDATA is not read.
NoDiscard ==
    /\ pc = "discard"
    /\ pc' = "poll"
    /\ UNCHANGED <<command, write_length, read_length, written, read_ignore, read_data, credits, status, core, taken>>

\* RXDATA is read for what an interrupted command may have left there.
Discard ==
    /\ pc = "discard"
    /\ pc' = "poll"
    /\ RRDY' = FALSE
    /\ UNCHANGED <<command, write_length, read_length, written, read_ignore, read_data, credits, status>>
    /\ UNCHANGED <<tx_holding, tx_holding_primed, shift, transmitting, rx_holding, ROE, TOE, SSO, taken>>

\* The inner loop ends when there is something to do.
Poll ==
    /\ pc = "poll"
    /\ (TRDY /\ credits # 0) \/ RRDY
    /\ status' = [TRDY |-> TRDY, RRDY |-> RRDY]
    /\ pc' = "write"
    /\ UNCHANGED <<command, write_length, read_length, written, read_ignore, read_data, credits, core, taken>>

\* TXDATA is written: the core keeps the byte only if there is room.
Transmit ==
    /\ written' = written + 1
    /\ IF TRDY
       THEN tx_holding' = Byte(written + 1) /\ tx_holding_primed' = TRUE /\ UNCHANGED TOE
       ELSE TOE' = TRUE /\ UNCHANGED <<tx_holding, tx_holding_primed>>

MayWrite == status.TRDY /\ credits > 0

\* The bytes of write_data, then zeros.
WriteByte ==
    /\ pc = "write" /\ MayWrite
    /\ pc' = "read"
    /\ IF written < write_length + read_length
       THEN Transmit /\ credits' = credits - 1
       ELSE credits' = -1024 /\ UNCHANGED <<written, tx_holding, tx_holding_primed, TOE>>
    /\ UNCHANGED <<command, write_length, read_length, read_ignore, read_data, status>>
    /\ UNCHANGED <<shift, transmitting, rx_holding, RRDY, ROE, SSO, taken>>

NoWrite ==
    /\ pc = "write" /\ ~MayWrite
    /\ pc' = "read"
    /\ UNCHANGED <<command, write_length, read_length, written, read_ignore, read_data, credits, status, core, taken>>

\* Mutation: the end is one byte late.
FinishedLate(ignore, data) == ignore = 0 /\ Len(data) > read_length

Finished(ignore, data) == ignore = 0 /\ Len(data) = read_length

\* RXDATA is read: the answers to the bytes written are dropped.
ReadByte ==
    /\ pc = "read" /\ status.RRDY
    /\ RRDY' = FALSE
    /\ credits' = credits + 1
    /\ read_ignore' = IF read_ignore > 0 THEN read_ignore - 1 ELSE 0
    /\ read_data' = IF read_ignore > 0 THEN read_data ELSE Append(read_data, rx_holding)
    /\ pc' = IF Finished(read_ignore', read_data') THEN "drain" ELSE "poll"
    /\ UNCHANGED <<command, write_length, read_length, written, status>>
    /\ UNCHANGED <<tx_holding, tx_holding_primed, shift, transmitting, rx_holding, ROE, TOE, SSO, taken>>

NoRead ==
    /\ pc = "read" /\ ~status.RRDY
    /\ pc' = "poll"
    /\ UNCHANGED <<command, write_length, read_length, written, read_ignore, read_data, credits, status, core, taken>>

Drain ==
    /\ pc = "drain" /\ TMT
    /\ pc' = "release"
    /\ UNCHANGED <<command, write_length, read_length, written, read_ignore, read_data, credits, status, core, taken>>

\* SSO is cleared, and the chip is no longer selected.
Release ==
    /\ pc = "release"
    /\ pc' = "idle"
    /\ SSO' = FALSE
    /\ taken' = IF transmitting THEN taken ELSE <<>>
    /\ UNCHANGED <<command, write_length, read_length, written, read_ignore, read_data, credits, status>>
    /\ UNCHANGED <<tx_holding, tx_holding_primed, shift, transmitting, rx_holding, RRDY, ROE, TOE>>

-----------------------------------------------------------------------------
(* The core *)

\* write_shift_reg
Load ==
    /\ tx_holding_primed /\ ~transmitting
    /\ shift' = tx_holding /\ transmitting' = TRUE
    /\ tx_holding_primed' = FALSE
    /\ UNCHANGED <<driver, tx_holding, rx_holding, RRDY, ROE, TOE, SSO, taken>>

\* The eighth bit is out, and the chip's answer in.
Shifted ==
    /\ transmitting
    /\ transmitting' = FALSE
    /\ taken' = IF SSO THEN Append(taken, shift) ELSE <<>>
    /\ rx_holding' = shift
    /\ RRDY' = TRUE
    /\ ROE' = (ROE \/ RRDY)
    /\ UNCHANGED <<driver, tx_holding, tx_holding_primed, shift, TOE, SSO>>

-----------------------------------------------------------------------------
Init ==
    /\ pc = "idle" /\ command = 0
    /\ write_length = 0 /\ read_length = 0 /\ written = 0
    /\ read_ignore = 0 /\ read_data = <<>> /\ credits = 1
    /\ status = [TRDY |-> TRUE, RRDY |-> FALSE]
    /\ tx_holding = Stale /\ tx_holding_primed = FALSE
    /\ shift = Stale /\ transmitting = FALSE
    /\ rx_holding = Stale /\ RRDY \in BOOLEAN
    /\ ROE = FALSE /\ TOE = FALSE /\ SSO = FALSE /\ taken = <<>>

Command ==
    \/ ForceSelect \/ Discard \/ Poll \/ WriteByte \/ NoWrite
    \/ ReadByte \/ NoRead \/ Drain \/ Release

Next == (\E lengths \in Writes \cup Reads : Start(lengths)) \/ Command \/ Load \/ Shifted

Spec == Init /\ [][Next]_vars /\ WF_vars(Command) /\ WF_vars(Load) /\ WF_vars(Shifted)

-----------------------------------------------------------------------------
\* The 32-bit credits stay 0 or 1: the branch that takes them to -1024, from
\* which the loop would not return, is never reached.
TypeOK ==
    /\ pc \in {"idle", "select", "discard", "poll", "write", "read", "drain", "release"}
    /\ command \in {0, 1} /\ write_length \in 0..(MaxBytes + 1) /\ read_length \in 0..MaxBytes
    /\ written \in 0..(2 * MaxBytes + 1) /\ read_ignore \in 0..write_length
    /\ credits \in {0, 1}
    /\ status \in [TRDY : BOOLEAN, RRDY : BOOLEAN]
    /\ {tx_holding_primed, transmitting, RRDY, ROE, TOE, SSO} \subseteq BOOLEAN

\* However late the driver comes back to the status register, no byte is lost on
\* the way out or on the way in.
NothingLost == ~TOE /\ ~ROE

\* A command returns the chip's answers to its own last bytes, in order, and
\* nothing that an earlier command left behind.
OwnAnswers ==
    pc = "idle" /\ ~SSO =>
        read_data = [k \in 1..read_length |-> Byte(write_length + k)]

\* The chip is sent a command whole, under one selection.
WholeCommand ==
    pc = "release" => taken = [k \in 1..(write_length + read_length) |-> Byte(k)]

\* Every command returns.
CommandReturns == (pc # "idle") ~> (pc = "idle")

=============================================================================

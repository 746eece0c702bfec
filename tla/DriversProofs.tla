--------------------------- MODULE DriversProofs ---------------------------
(***************************************************************************)
(* Proofs about the three parts of Drivers, each alone and side by side.   *)
(*                                                                         *)
(* Spi, for every number of bytes: one byte at a time is on its way.  The  *)
(* credit for it is with the driver, or the byte is in the holding         *)
(* register, in the shift register or waiting to be read.  From where it   *)
(* is follows what the chip has been sent and what has been read.          *)
(*                                                                         *)
(* Probe, for devices and a buffer of any size, and Panel, for every byte. *)
(***************************************************************************)
EXTENDS Drivers, SequenceTheorems, WellFoundedInduction, TLAPS

\* The bytes m + 1 to m + n of command c.
Run(c, m, n) == [k \in 1..n |-> [command |-> c, number |-> m + k]]

\* Append, kept closed where the provers need not look into it.
Extended(s, e) == Append(s, e)

Total == write_length + read_length
Answered == write_length - read_ignore + Len(read_data)

Typed ==
    /\ pc \in {"idle", "select", "discard", "poll", "write", "read", "drain", "release"}
    /\ command \in {0, 1} /\ write_length \in 0..(MaxBytes + 1) /\ read_length \in 0..MaxBytes
    /\ read_ignore \in 0..write_length /\ written \in 0..Total
    /\ credits \in {0, 1}
    /\ status \in [TRDY : BOOLEAN, RRDY : BOOLEAN]
    /\ tx_holding_primed \in BOOLEAN /\ transmitting \in BOOLEAN /\ RRDY \in BOOLEAN
    /\ SSO \in BOOLEAN
    /\ ROE = FALSE /\ TOE = FALSE

\* What has been read are the answers to the last bytes, once the others are dropped.
Reading ==
    /\ Len(read_data) \in 0..read_length
    /\ read_data = Run(command, write_length, Len(read_data))
    /\ read_ignore > 0 => Len(read_data) = 0

Quiet == ~tx_holding_primed /\ ~transmitting

BetweenCommands == pc \in {"idle", "select"} => Quiet /\ ~SSO /\ taken = <<>>

Selected == pc \notin {"idle", "select"} => SSO

Fresh ==
    pc \in {"select", "discard"} =>
        /\ written = 0 /\ read_data = <<>> /\ credits = 1 /\ read_ignore = write_length
        /\ write_length > 0
        /\ taken = <<>> /\ Quiet

\* Where the one byte is.
OneByte ==
    pc \in {"poll", "write", "read"} =>
        /\ write_length > 0 /\ Answered < Total
        /\ written = Answered + 1 - credits
        /\ credits = 1 => ~tx_holding_primed /\ ~transmitting /\ ~RRDY
        /\ credits = 0 =>
              \/ tx_holding_primed /\ ~transmitting /\ ~RRDY
              \/ ~tx_holding_primed /\ transmitting /\ ~RRDY
              \/ ~tx_holding_primed /\ ~transmitting /\ RRDY
        /\ tx_holding_primed => tx_holding = Byte(written)
        /\ transmitting => shift = Byte(written)
        /\ RRDY => rx_holding = Byte(written)
        /\ taken = Run(command, 0, IF Quiet THEN written ELSE written - 1)

Known ==
    /\ pc \in {"write", "read"} => (status.RRDY => RRDY)
    /\ pc = "write" => status.TRDY

Over ==
    pc \in {"drain", "release"} =>
        /\ Quiet /\ written = Total /\ credits = 1
        /\ taken = Run(command, 0, Total)

Complete == pc \in {"drain", "release", "idle"} => read_ignore = 0 /\ Len(read_data) = read_length

IInv ==
    /\ Typed /\ Reading /\ BetweenCommands /\ Selected /\ Fresh
    /\ OneByte /\ Known /\ Over /\ Complete

-----------------------------------------------------------------------------
LEMMA RunGrows ==
    ASSUME NEW c, NEW m \in Nat, NEW n \in Nat,
           NEW e, e = [command |-> c, number |-> m + n + 1]
    PROVE  /\ Len(Run(c, m, n)) = n /\ Len(Run(c, m, n + 1)) = n + 1
           /\ Extended(Run(c, m, n), e) = Run(c, m, n + 1)
<1> DEFINE E == [command : {c}, number : Nat]
<1>1. Run(c, m, n) \in [1..n -> E] /\ e \in E
    BY DEF Run
<1>2. Run(c, m, n) \in Seq(E) /\ Len(Run(c, m, n)) = n
    <2>1. Run(c, m, n) \in Seq(E)
        BY <1>1 DEF Run
    <2>2. DOMAIN Run(c, m, n) = 1..n
        BY <1>1
    <2> QED
        BY <2>1, <2>2
<1>3. Append(Run(c, m, n), e) \in [1..(n + 1) -> E]
    <2>1. Append(Run(c, m, n), e) \in Seq(E) /\ Len(Append(Run(c, m, n), e)) = n + 1
        BY <1>1, <1>2
    <2> QED
        BY <2>1, LenProperties
<1>4. ASSUME NEW k \in 1..(n + 1) PROVE Append(Run(c, m, n), e)[k] = Run(c, m, n + 1)[k]
    BY <1>1, <1>2 DEF Run
<1>5. Run(c, m, n + 1) \in [1..(n + 1) -> E]
    BY DEF Run
<1>6. Append(Run(c, m, n), e) = Run(c, m, n + 1)
    <2> DEFINE f == Append(Run(c, m, n), e)
               g == Run(c, m, n + 1)
    <2>1. f \in [1..(n + 1) -> E] /\ g \in [1..(n + 1) -> E] /\ \A k \in 1..(n + 1) : f[k] = g[k]
        BY <1>3, <1>4, <1>5
    <2> HIDE DEF f, g, E
    <2>2. f = g
        BY <2>1
    <2> QED
        BY <2>2 DEF f, g
<1>7. Len(Run(c, m, n + 1)) = n + 1
    BY <1>2, <1>6, <1>1
<1> QED
    BY <1>2, <1>6, <1>7 DEF Extended

LEMMA EmptyRun == ASSUME NEW c, NEW m \in Nat PROVE Run(c, m, 0) = <<>> /\ Len(<<>>) = 0
BY DEF Run

-----------------------------------------------------------------------------
\* Everything is at rest before the first command.
LEMMA InitHolds == Init => IInv
<1> SUFFICES ASSUME Init PROVE IInv
    OBVIOUS
<1>1. read_data = Run(command, write_length, 0) /\ Len(read_data) = 0
    BY EmptyRun DEF Init
<1>11. Typed
    <2>1. /\ write_length \in 0..(MaxBytes + 1) /\ read_length \in 0..MaxBytes
          /\ read_ignore \in 0..write_length /\ written \in 0..Total
        BY SpiAssumption DEF Init, Total
    <2>2. status \in [TRDY : BOOLEAN, RRDY : BOOLEAN]
        BY DEF Init
    <2> QED
        BY <2>1, <2>2 DEF Init, Typed
<1>12. Reading
    BY <1>1 DEF Init, Reading
<1>13. BetweenCommands
    BY <1>1 DEF Init, BetweenCommands, Quiet
<1>14. Selected
    BY <1>1 DEF Init, Selected
<1>15. Fresh
    BY <1>1 DEF Init, Fresh
<1>16. OneByte
    BY <1>1 DEF Init, OneByte
<1>17. Known
    BY <1>1 DEF Init, Known
<1>18. Over
    BY <1>1 DEF Init, Over
<1>19. Complete
    BY <1>1 DEF Init, Complete
<1> QED
    BY <1>11, <1>12, <1>13, <1>14, <1>15, <1>16, <1>17, <1>18, <1>19 DEF IInv

\* Every step of the driver or the core keeps the one byte accounted for.
LEMMA StepHolds == IInv /\ [Next]_vars => IInv'
<1> SUFFICES ASSUME IInv, [Next]_vars PROVE IInv'
    OBVIOUS
<1>1. ASSUME NEW lengths \in Writes \cup Reads, Start(lengths) PROVE IInv'
    BY <1>1, EmptyRun, SpiAssumption DEF Start, Writes, Reads, core, IInv, Typed, Reading,
       BetweenCommands, Selected, Fresh, OneByte, Known, Over, Complete, Quiet, Total
<1>2. CASE ForceSelect
    BY <1>2 DEF ForceSelect, IInv, Typed, Reading, BetweenCommands, Selected, Fresh, OneByte,
       Known, Over, Complete, Quiet, Total
<1>3. CASE Discard
    <2>1. taken = Run(command, 0, 0) /\ Len(read_data) = 0
        BY <1>3, EmptyRun DEF Discard, IInv, Fresh
    <2>11. Typed'
        BY <1>3, <2>1 DEF Discard, IInv, Typed, Total
    <2>12. Reading'
        BY <1>3, <2>1 DEF Discard, IInv, Reading
    <2>13. BetweenCommands'
        BY <1>3, <2>1 DEF Discard, BetweenCommands
    <2>14. Selected'
        BY <1>3, <2>1 DEF Discard, IInv, Selected
    <2>15. Fresh'
        BY <1>3, <2>1 DEF Discard, Fresh
    <2>16. OneByte'
        BY <1>3, <2>1 DEF Discard, IInv, Typed, Fresh, OneByte, Quiet, Total, Answered
    <2>17. Known'
        BY <1>3, <2>1 DEF Discard, Known
    <2>18. Over'
        BY <1>3, <2>1 DEF Discard, Over
    <2>19. Complete'
        BY <1>3, <2>1 DEF Discard, Complete
    <2> QED
        BY <2>11, <2>12, <2>13, <2>14, <2>15, <2>16, <2>17, <2>18, <2>19 DEF IInv
<1>4. CASE Poll
    BY <1>4 DEF Poll, TRDY, core, Byte, IInv, Typed, Reading, BetweenCommands, Selected, Fresh,
       OneByte, Known, Over, Complete, Quiet, Total, Answered
<1>5. CASE WriteByte
    <2>1. credits = 1 /\ written < Total /\ TRDY
        BY <1>5 DEF WriteByte, MayWrite, TRDY, IInv, Typed, OneByte, Answered
    <2>2. written' = written + 1 /\ tx_holding' = Byte(written + 1) /\ tx_holding_primed' = TRUE
          /\ TOE' = TOE /\ credits' = 0
        BY <1>5, <2>1 DEF WriteByte, Transmit, Total
    <2> QED
        BY <1>5, <2>1, <2>2 DEF WriteByte, Byte, IInv, Typed, Reading, BetweenCommands, Selected,
           Fresh, OneByte, Known, Over, Complete, Quiet, Total, Answered
<1>6. CASE NoWrite
    BY <1>6 DEF NoWrite, core, Byte, IInv, Typed, Reading, BetweenCommands, Selected, Fresh,
       OneByte, Known, Over, Complete, Quiet, Total, Answered
<1>7. CASE ReadByte
    <2>1. RRDY /\ credits = 0 /\ ~tx_holding_primed /\ ~transmitting /\ written = Answered + 1
        BY <1>7 DEF ReadByte, IInv, Typed, OneByte, Known
    <2>2. CASE read_ignore > 0
        <3>1. read_data' = read_data /\ read_ignore' = read_ignore - 1 /\ Len(read_data) = 0
            BY <1>7, <2>2 DEF ReadByte, IInv, Reading
        <3>11. Typed'
            <4>1. /\ UNCHANGED <<command, write_length, read_length, written, status, tx_holding_primed>>
                  /\ UNCHANGED <<transmitting, ROE, TOE, SSO>>
                  /\ RRDY' = FALSE /\ credits' = 1 /\ pc' \in {"drain", "poll"}
                BY <1>7, <2>1 DEF ReadByte
            <4>2. read_ignore' \in 0..write_length'
                BY <1>7 DEF ReadByte, IInv, Typed
            <4> QED
                BY <4>1, <4>2 DEF IInv, Typed, Total
        <3>12. Reading'
            BY <1>7, <2>1, <2>2, <3>1 DEF ReadByte, IInv, Reading
        <3>13. BetweenCommands'
            BY <1>7, <2>1, <2>2, <3>1 DEF ReadByte, BetweenCommands
        <3>14. Selected'
            BY <1>7, <2>1, <2>2, <3>1 DEF ReadByte, IInv, Selected
        <3>15. Fresh'
            BY <1>7, <2>1, <2>2, <3>1 DEF ReadByte, Fresh
        <3>16. OneByte'
            BY <1>7, <2>1, <2>2, <3>1 DEF ReadByte, Finished, IInv, Typed, OneByte, Quiet, Total,
               Answered
        <3>17. Known'
            BY <1>7, <2>1, <2>2, <3>1 DEF ReadByte, Known
        <3>18. Over'
            BY <1>7, <2>1, <2>2, <3>1 DEF ReadByte, Finished, IInv, Typed, OneByte, Over, Quiet,
               Total, Answered
        <3>19. Complete'
            BY <1>7, <2>1, <2>2, <3>1 DEF ReadByte, Finished, Complete
        <3> QED
            BY <3>11, <3>12, <3>13, <3>14, <3>15, <3>16, <3>17, <3>18, <3>19 DEF IInv
    <2>3. CASE read_ignore = 0
        <3>1. /\ read_data' = Extended(Run(command, write_length, Len(read_data)), rx_holding)
              /\ rx_holding = [command |-> command, number |-> write_length + Len(read_data) + 1]
              /\ write_length \in Nat /\ Len(read_data) \in Nat
            BY <1>7, <2>1, <2>3 DEF ReadByte, Byte, Extended, IInv, Typed, Reading, OneByte,
               Answered
        <3>2. /\ read_data' = Run(command, write_length, Len(read_data) + 1)
              /\ Len(read_data') = Len(read_data) + 1
            BY <3>1, RunGrows
        <3>11. Typed'
            <4>1. /\ UNCHANGED <<command, write_length, read_length, written, status, tx_holding_primed>>
                  /\ UNCHANGED <<transmitting, ROE, TOE, SSO>>
                  /\ RRDY' = FALSE /\ credits' = 1 /\ pc' \in {"drain", "poll"}
                BY <1>7, <2>1 DEF ReadByte
            <4>2. read_ignore' \in 0..write_length'
                BY <1>7 DEF ReadByte, IInv, Typed
            <4> QED
                BY <4>1, <4>2 DEF IInv, Typed, Total
        <3>12. Reading'
            BY <1>7, <2>1, <2>3, <3>2 DEF ReadByte, IInv, Typed, Reading, Total, Answered
        <3>13. BetweenCommands'
            BY <1>7, <2>1, <2>3, <3>2 DEF ReadByte, BetweenCommands
        <3>14. Selected'
            BY <1>7, <2>1, <2>3, <3>2 DEF ReadByte, IInv, Selected
        <3>15. Fresh'
            BY <1>7, <2>1, <2>3, <3>2 DEF ReadByte, Fresh
        <3>16. OneByte'
            BY <1>7, <2>1, <2>3, <3>2 DEF ReadByte, Finished, IInv, Typed, OneByte, Quiet, Total,
               Answered
        <3>17. Known'
            BY <1>7, <2>1, <2>3, <3>2 DEF ReadByte, Known
        <3>18. Over'
            BY <1>7, <2>1, <2>3, <3>2, SpiAssumption DEF ReadByte, Finished, Byte, IInv, Typed,
               Reading, BetweenCommands, Selected, Fresh, OneByte, Known, Over, Complete, Quiet,
               Total, Answered
        <3>19. Complete'
            BY <1>7, <2>1, <2>3, <3>2 DEF ReadByte, Finished, Complete
        <3> QED
            BY <3>11, <3>12, <3>13, <3>14, <3>15, <3>16, <3>17, <3>18, <3>19 DEF IInv
    <2>4. read_ignore > 0 \/ read_ignore = 0
        BY DEF IInv, Typed
    <2> QED
        BY <2>2, <2>3, <2>4
<1>8. CASE NoRead
    BY <1>8 DEF NoRead, core, Byte, IInv, Typed, Reading, BetweenCommands, Selected, Fresh,
       OneByte, Known, Over, Complete, Quiet, Total, Answered
<1>9. CASE Drain
    BY <1>9 DEF Drain, core, IInv, Typed, Reading, BetweenCommands, Selected, Fresh, OneByte,
       Known, Over, Complete, Quiet, Total
<1>10. CASE Release
    BY <1>10 DEF Release, IInv, Typed, Reading, BetweenCommands, Selected, Fresh, OneByte, Known,
       Over, Complete, Quiet, Total
<1>11. CASE Load
    BY <1>11 DEF Load, driver, Byte, IInv, Typed, Reading, BetweenCommands, Selected, Fresh,
       OneByte, Known, Over, Complete, Quiet, Total, Answered
<1>12. CASE Shifted
    <2>1. pc \in {"poll", "write", "read"} /\ transmitting /\ SSO /\ credits = 0 /\ ~RRDY
        BY <1>12 DEF Shifted, IInv, Typed, BetweenCommands, Selected, Fresh, OneByte, Over, Quiet
    <2>2. taken' = Extended(Run(command, 0, written - 1), Byte(written))
        BY <1>12, <2>1 DEF Extended, Shifted, IInv, OneByte, Quiet
    <2>3. written \in Nat /\ written - 1 \in Nat
        BY <2>1 DEF IInv, Typed, OneByte, Answered
    <2>4. taken' = Run(command, 0, (written - 1) + 1)
        <3>1. Byte(written) = [command |-> command, number |-> 0 + (written - 1) + 1]
            BY <2>3 DEF Byte
        <3>2. 0 \in Nat
            OBVIOUS
        <3> QED
            BY <2>2, <2>3, <3>1, <3>2, RunGrows
    <2>5. taken' = Run(command, 0, written)
        BY <2>3, <2>4
    <2> QED
        BY <1>12, <2>1, <2>5 DEF Shifted, driver, Byte, IInv, Typed, Reading, BetweenCommands,
           Selected, Fresh, OneByte, Known, Over, Complete, Quiet, Total, Answered
<1>13. CASE UNCHANGED vars
    BY <1>13 DEF vars, driver, core, Byte, IInv, Typed, Reading, BetweenCommands, Selected,
       Fresh, OneByte, Known, Over, Complete, Quiet, Total, Answered
<1> QED
    BY <1>1, <1>2, <1>3, <1>4, <1>5, <1>6, <1>7, <1>8, <1>9, <1>10, <1>11, <1>12, <1>13 DEF Next,
       Command

\* The invariant of the SPI driver holds of it alone.
LEMMA Invariant == Init /\ [][Next]_vars => []IInv
BY InitHolds, StepHolds, PTL

\* The credits stay 0 or 1, whatever the lengths of the commands.
THEOREM TypeCorrect == Spec => []TypeOK
<1>1. IInv => written \in 0..(2 * MaxBytes + 1)
    BY SpiAssumption, SMT DEF IInv, Typed, Total
<1>2. IInv => {tx_holding_primed, transmitting, RRDY, ROE, TOE, SSO} \subseteq BOOLEAN
    BY DEF IInv, Typed
<1>3. IInv => TypeOK
    BY <1>1, <1>2 DEF IInv, Typed, TypeOK
<1> QED
    BY <1>3, Invariant, PTL DEF Spec

\* No byte is lost on the way out or in.
THEOREM BytesSafe == Spec => []NothingLost
<1>1. IInv => NothingLost
    BY DEF IInv, Typed, NothingLost
<1> QED
    BY <1>1, Invariant, PTL DEF Spec

\* A command returns the answers to its own last bytes.
THEOREM AnswersOwn == Spec => []OwnAnswers
<1>1. IInv => OwnAnswers
    BY DEF IInv, Reading, Complete, OwnAnswers, Run, Byte
<1> QED
    BY <1>1, Invariant, PTL DEF Spec

\* The chip gets every command whole.
THEOREM CommandsWhole == Spec => []WholeCommand
<1>1. IInv => WholeCommand
    BY DEF IInv, Over, WholeCommand, Run, Byte, Total
<1> QED
    BY <1>1, Invariant, PTL DEF Spec

-----------------------------------------------------------------------------
(* The search for a driver *)

\* What fits into the buffer.
Size == S!Smaller(Len(plugged), Capacity)

Told == S!Descriptors \cup {"config"}

\* The walk of the driver has found the first interface, and it is the driver's.
Claimed ==
    /\ devclass = S!Class
    /\ interface \in 1..Size /\ plugged[interface] = S!Class
    /\ \A i \in 1..(interface - 1) : plugged[i] \notin S!Interfaces

NoEndpointBefore(p) == \A i \in (interface + 1)..(p - 1) : plugged[i] \notin S!Endpoints

\* A driver for class c has what it looks for in the device.
Fits(c) ==
    /\ c \in S!Classes
    /\ \E i, j \in 1..Size :
         /\ i < j /\ plugged[i] = c /\ plugged[j] \in S!Endpoints
         /\ \A k \in 1..(i - 1) : plugged[k] \notin S!Interfaces

Trying == {"search", "whole", "interface", "endpoint", "setconf", "setproto"}

SearchTyped ==
    /\ turn \in 1..4
    /\ plugged \in Seq(Told)
    /\ probe \in Trying \cup {"running", "error", "detached"}
    /\ probe \in (Trying \ {"search"}) \cup {"running"} => S!Class \in S!Classes
    /\ probe = "detached" => turn = 1

\* The buffer holds the device in the search, and not what was there before.
Arrived ==
    /\ probe = "whole" => total_length = Size /\ ptr = 1
    /\ probe \in {"interface", "endpoint", "setconf", "setproto", "running"} =>
         total_length = Size /\ \A i \in 1..Size : bigbuf[i] = plugged[i]

\* How far the walk has come, and what it has passed.
Walked ==
    /\ probe = "interface" =>
         ptr \in 1..(Size + 1) /\ \A i \in 1..(ptr - 1) : plugged[i] \notin S!Interfaces
    /\ probe \in {"endpoint", "setconf", "setproto", "running"} => Claimed
    /\ probe = "endpoint" => ptr \in (interface + 1)..(Size + 1) /\ NoEndpointBefore(ptr)
    /\ probe \in {"setconf", "setproto", "running"} =>
         /\ ptr \in (interface + 1)..Size /\ NoEndpointBefore(ptr)
         /\ plugged[ptr] \in S!Endpoints /\ ep1 = plugged[ptr]
    /\ probe \in {"setproto", "running"} => configured
    /\ probe = "running" => interface \in boot

\* Without a failed transfer, the drivers that were tried do not suit the device.
Tried ==
    /\ probe \in Trying /\ ~failed => \A d \in 1..(turn - 1) : ~Fits(S!ClientDriverTable[d])
    /\ probe = "error" /\ ~failed => \A d \in 1..4 : ~Fits(S!ClientDriverTable[d])

SearchInv == SearchTyped /\ Arrived /\ Walked /\ Tried

\* The drivers that take devices are the second and the third.
LEMMA DriverTable ==
    /\ S!ClientDriverTable[1] = "MSD" /\ S!ClientDriverTable[2] = "mouse"
    /\ S!ClientDriverTable[3] = "keyboard" /\ S!ClientDriverTable[4] = "Dummy"
    /\ Len(S!ClientDriverTable) = 4
  BY DEF S!ClientDriverTable

LEMMA SizeFits ==
    ASSUME plugged \in Seq(Told)
    PROVE  Size \in Nat /\ Size <= Len(plugged) /\ Size <= Capacity /\ Len(plugged) \in Nat
  BY DriversAssumption DEF DriversAssumption, Size, S!Smaller

\* A device is a sequence of descriptors.
LEMMA DevicesAreTold == S!Devices \subseteq Seq(Told)
<1> SUFFICES ASSUME NEW d \in S!Devices PROVE d \in Seq(Told)
  OBVIOUS
<1>1. PICK n \in 0..(MaxDescr - 1) : \E rest \in [1..n -> S!Descriptors] : d = <<"config">> \o rest
  BY DEF S!Devices
<1>5. PICK rest \in [1..n -> S!Descriptors] : d = <<"config">> \o rest
  BY <1>1
<1>2. rest \in Seq(Told)
  <2>1. n \in Nat /\ rest \in [1..n -> Told]
    BY DriversAssumption DEF DriversAssumption, Told
  <2>2. QED
    BY <2>1
<1>3. <<"config">> \in Seq(Told)
  BY DEF Told
<1>4. QED
  BY <1>5, <1>2, <1>3

\* The part of the device that the search sees.
LEMMA SeenPart ==
    ASSUME plugged \in Seq(Told)
    PROVE  Len(S!Seen) = Size /\ \A i \in 1..Size : S!Seen[i] = plugged[i]
<1>1. Size \in 0..Len(plugged) /\ 1 \in 1..(Len(plugged) + 1) /\ Len(plugged) \in Nat
  BY SizeFits
<1>2. S!Seen = SubSeq(plugged, 1, Size)
  BY DEF S!Seen, Size
<1> HIDE DEF Size
<1>3. S!Seen = [i \in 1..Size |-> plugged[i]]
  BY <1>1, <1>2
<1>4. Len(S!Seen) = Size
  BY <1>1, <1>3
<1>5. QED
  BY <1>3, <1>4

\* A set of naturals has a least member.
LEMMA Least ==
    ASSUME NEW T \in SUBSET Nat, T # {}
    PROVE  \E m \in T : \A k \in T : m <= k
<1> DEFINE R == OpToRel(<, Nat)
<1>1. R = {ss \in Nat \X Nat : ss[1] < ss[2]}
  BY DEF OpToRel
<1>2. IsWellFoundedOn(R, Nat)
  BY NatLessThanWellFounded
<1> HIDE DEF R
<1>3. PICK m \in T : \A k \in T : ~ (<<k, m>> \in R)
  BY <1>2, WFMin
<1>4. ASSUME NEW k \in T PROVE m <= k
  <2>1. <<k, m>> \in R <=> k < m
    BY <1>1
  <2>2. ~(k < m)
    BY <1>3, <2>1
  <2>3. k \in Nat /\ m \in Nat
    OBVIOUS
  <2>4. QED
    BY <2>2, <2>3
<1>5. QED
  BY <1>4

\* The first place of a kind is where there is one with none before it.
LEMMA FirstPlace ==
    ASSUME plugged \in Seq(Told), NEW kinds, NEW from \in Nat \ {0}, NEW i \in from..Size,
           plugged[i] \in kinds, \A k \in from..(i - 1) : plugged[k] \notin kinds
    PROVE  S!FirstIn(kinds, from) = i
<1> DEFINE found == {k \in from..Len(S!Seen) : S!Seen[k] \in kinds}
<1>1. Size \in Nat /\ Len(S!Seen) = Size /\ \A k \in 1..Size : S!Seen[k] = plugged[k]
  BY SizeFits, SeenPart
<1> HIDE DEF Size
<1>2. i \in found /\ \A k \in found : i <= k
  BY <1>1
<1>3. \A m \in found : (\A k \in found : m <= k) => m = i
  BY <1>1, <1>2
<1>4. (CHOOSE m \in found : \A k \in found : m <= k) = i
  BY <1>2, <1>3
<1>5. found # {}
  BY <1>2
<1>6. QED
  BY <1>4, <1>5 DEF S!FirstIn

\* Where there is a first place, it is of its kind, with none before it.
LEMMA PlaceFound ==
    ASSUME plugged \in Seq(Told), NEW kinds, NEW from \in Nat \ {0},
           NEW i, i = S!FirstIn(kinds, from), i # 0
    PROVE  /\ i \in from..Size /\ plugged[i] \in kinds
           /\ \A k \in from..(i - 1) : plugged[k] \notin kinds
<1> DEFINE found == {k \in from..Len(S!Seen) : S!Seen[k] \in kinds}
<1>1. Size \in Nat /\ Len(S!Seen) = Size /\ \A k \in 1..Size : S!Seen[k] = plugged[k]
  BY SizeFits, SeenPart
<1> HIDE DEF Size
<1>2. found # {} /\ i = CHOOSE m \in found : \A k \in found : m <= k
  BY DEF S!FirstIn
<1>3. found \subseteq Nat
  BY <1>1
<1>4. PICK m \in found : \A k \in found : m <= k
  BY <1>2, <1>3, Least
<1>5. i \in found /\ \A k \in found : i <= k
  BY <1>2, <1>4
<1>6. QED
  BY <1>1, <1>5

\* Whoever suits the device by the comments' words fits by the driver's search, and
\* the walk that has claimed an interface and met an endpoint is at those.
LEMMA SuitsFits ==
    ASSUME plugged \in Seq(Told), S!Suits
    PROVE  \E d \in 1..4 : Fits(S!ClientDriverTable[d])
<1> DEFINE i == S!FirstInterface
           j == S!ItsEndpoint
<1>1. i # 0 /\ i = S!FirstIn(S!Interfaces, 1) /\ S!Seen[i] \in S!Classes
  BY DEF S!Suits, S!FirstInterface
<1>2. /\ i \in 1..Size /\ \A k \in 1..(i - 1) : plugged[k] \notin S!Interfaces
  BY <1>1, PlaceFound
<1>3. j # 0 /\ j = S!FirstIn(S!Endpoints, i + 1)
  BY DEF S!Suits, S!ItsEndpoint
<1> HIDE DEF i, j
<1>4. Size \in Nat /\ i + 1 \in Nat \ {0}
  BY <1>2, SizeFits
<1>5. j \in (i + 1)..Size /\ plugged[j] \in S!Endpoints
  BY <1>3, <1>4, PlaceFound
<1>6. plugged[i] \in S!Classes
  BY <1>1, <1>2, SeenPart
<1>7. Fits(plugged[i])
  BY <1>2, <1>4, <1>5, <1>6 DEF Fits
<1>8. \E d \in 1..4 : S!ClientDriverTable[d] = plugged[i]
  BY <1>6, DriverTable DEF S!Classes
<1>9. QED
  BY <1>7, <1>8

LEMMA ClaimedSuits ==
    ASSUME plugged \in Seq(Told), Claimed, S!Class \in S!Classes,
           ptr \in (interface + 1)..Size, NoEndpointBefore(ptr), plugged[ptr] \in S!Endpoints
    PROVE  /\ S!Suits /\ S!FirstInterface = interface /\ S!ItsEndpoint = ptr
           /\ S!Seen[interface] = S!Class /\ S!Seen[ptr] = plugged[ptr]
<1>1. /\ interface \in 1..Size /\ plugged[interface] \in S!Interfaces
      /\ \A k \in 1..(interface - 1) : plugged[k] \notin S!Interfaces
  BY DEF Claimed, S!Interfaces
<1>2. S!FirstInterface = interface
  BY <1>1, FirstPlace DEF S!FirstInterface
<1>3. Size \in Nat /\ interface + 1 \in Nat \ {0} /\ interface \in Nat /\ ptr \in 1..Size
  BY <1>1, SizeFits
<1>4. S!ItsEndpoint = ptr
  BY <1>2, <1>3, FirstPlace DEF S!ItsEndpoint, NoEndpointBefore
<1>5. S!Seen[interface] = S!Class /\ S!Seen[ptr] = plugged[ptr]
  BY <1>1, <1>3, SeenPart DEF Claimed
<1>6. QED
  BY <1>1, <1>2, <1>3, <1>4, <1>5 DEF S!Suits

\* What the search has reached when it is over.
LEMMA SearchOver == SearchInv => SetUpAsPolled /\ RefusedForCause
<1> SUFFICES ASSUME SearchInv PROVE SetUpAsPolled /\ RefusedForCause
  OBVIOUS
<1>1. SetUpAsPolled
  <2> SUFFICES ASSUME probe = "running"
               PROVE  /\ S!Suits
                      /\ interface = S!FirstInterface /\ devclass = S!Seen[S!FirstInterface]
                      /\ ep1 = S!Seen[S!ItsEndpoint]
                      /\ configured /\ interface \in boot
    BY DEF SetUpAsPolled, S!SetUpAsPolled
  <2>1. /\ plugged \in Seq(Told) /\ Claimed /\ S!Class \in S!Classes
        /\ ptr \in (interface + 1)..Size /\ NoEndpointBefore(ptr) /\ plugged[ptr] \in S!Endpoints
    BY DEF SearchInv, SearchTyped, Walked
  <2>2. QED
    BY <2>1, ClaimedSuits DEF SearchInv, Walked, Claimed
<1>2. RefusedForCause
  BY SuitsFits DEF SearchInv, SearchTyped, Tried, RefusedForCause, S!RefusedForCause
<1>3. QED
  BY <1>1, <1>2

\* A driver that gives up leaves the device to the next one, or ends the search.
LEMMA RefusedStep ==
    ASSUME SearchInv, probe \in Trying, S!Refused, plugged' = plugged,
           ~failed' => ~failed /\ ~Fits(S!Class)
    PROVE  SearchInv'
<1>1. turn \in 1..4 /\ plugged \in Seq(Told)
  BY DEF SearchInv, SearchTyped
<1>2. /\ probe' \in {"search", "error"} /\ turn' \in 1..4
      /\ probe' = "search" => turn' = turn + 1
      /\ probe' = "error" => turn = 4
  BY <1>1, DriverTable DEF S!Refused
<1>3. SearchTyped'
  BY <1>1, <1>2 DEF SearchTyped, Trying
<1>4. Arrived' /\ Walked'
  BY <1>2 DEF Arrived, Walked
<1>5. Tried'
  <2>1. \A d \in 1..4 : Fits(S!ClientDriverTable[d])' <=> Fits(S!ClientDriverTable[d])
    BY DEF Fits, Size
  <2>2. ~failed' => \A d \in 1..turn : ~Fits(S!ClientDriverTable[d])
    <3> SUFFICES ASSUME ~failed', NEW d \in 1..turn PROVE ~Fits(S!ClientDriverTable[d])
      OBVIOUS
    <3>1. CASE d = turn
      BY <3>1 DEF S!Class
    <3>2. CASE d \in 1..(turn - 1)
      BY <3>2 DEF SearchInv, Tried
    <3>3. QED
      BY <1>1, <3>1, <3>2
  <2>3. CASE probe' = "search"
    <3>1. \A d \in 1..(turn' - 1) : d \in 1..turn /\ d \in 1..4
      BY <1>1, <1>2, <2>3
    <3>2. QED
      BY <2>1, <2>2, <2>3, <3>1 DEF Tried
  <2>4. CASE probe' = "error"
    BY <1>2, <2>1, <2>2, <2>4 DEF Tried, Trying
  <2>5. QED
    BY <1>2, <2>3, <2>4
<1>6. QED
  BY <1>3, <1>4, <1>5 DEF SearchInv

\* A step of a driver's own probe, which does not change the device's descriptors, the
\* turn or what is known of the drivers before it.
LEMMA OwnStep ==
    ASSUME SearchInv, probe \in Trying, probe' \in Trying \cup {"running"}, S!Class \in S!Classes,
           UNCHANGED <<turn, plugged, failed>>
    PROVE  SearchTyped' /\ Tried' /\ Size' = Size
<1>1. SearchTyped'
  BY DEF SearchInv, SearchTyped, Trying, S!Class
<1>2. \A d \in 1..(turn - 1) : Fits(S!ClientDriverTable[d])' <=> Fits(S!ClientDriverTable[d])
  BY DEF Fits, Size
<1>3. Tried'
  BY <1>2 DEF SearchInv, Tried, Trying
<1>4. QED
  BY <1>1, <1>3 DEF Size

\* Every step of the search keeps what it knows of the device.
LEMMA SearchStep ==
    ASSUME SearchInv, S!Next
    PROVE  SearchInv'
<1> USE DEF Trying
<1>0. /\ plugged \in Seq(Told) /\ turn \in 1..4
      /\ Size \in Nat /\ Size <= Capacity /\ Capacity \in Nat
  BY SizeFits, DriversAssumption DEF DriversAssumption, SearchInv, SearchTyped
<1>1. CASE S!NoProbe
  BY <1>1, RefusedStep DEF S!NoProbe, S!device, Fits
<1>2. CASE S!GetHeader
  <2>1. /\ probe = "search" /\ probe' = "whole" /\ S!Class \in S!Classes
        /\ UNCHANGED <<turn, plugged, failed>> /\ total_length' = Size /\ ptr' = 1
    BY <1>2 DEF S!GetHeader, S!device, Size
  <2>2. SearchTyped' /\ Tried' /\ Size' = Size
    BY <2>1, OwnStep
  <2>3. Arrived' /\ Walked'
    BY <2>1, <2>2 DEF Arrived, Walked
  <2>4. QED
    BY <2>2, <2>3 DEF SearchInv
<1>3. CASE S!GetWhole
  <2>1. /\ probe = "whole" /\ probe' = "interface" /\ S!Class \in S!Classes
        /\ UNCHANGED <<turn, plugged, failed, total_length, ptr>>
        /\ bigbuf' = S!Filled(total_length)
    BY <1>3 DEF S!GetWhole, S!device, SearchInv, SearchTyped
  <2>2. SearchTyped' /\ Tried' /\ Size' = Size
    BY <2>1, OwnStep
  <2>3. total_length = Size /\ ptr = 1
    BY <2>1 DEF SearchInv, Arrived
  <2>4. \A i \in 1..Size : bigbuf'[i] = plugged[i]
    BY <1>0, <2>1, <2>3 DEF S!Filled
  <2>5. Arrived'
    BY <2>1, <2>2, <2>3, <2>4 DEF Arrived
  <2>6. Walked'
    BY <1>0, <2>1, <2>2, <2>3 DEF Walked
  <2>7. QED
    BY <2>2, <2>5, <2>6 DEF SearchInv
<1>4. CASE S!GetFails
  BY <1>4, RefusedStep DEF S!GetFails, S!device
<1>5. CASE S!Skip
  <2>1. /\ probe \in {"interface", "endpoint"} /\ S!Class \in S!Classes
        /\ UNCHANGED <<probe, turn, plugged, failed, bigbuf, total_length, devclass, interface>>
        /\ ptr' = ptr + 1 /\ ptr <= total_length
    BY <1>5 DEF S!Skip, S!Within, S!search, S!tables, S!device, SearchInv, SearchTyped
  <2>2. SearchTyped' /\ Tried' /\ Size' = Size
    BY <2>1, OwnStep
  <2>3. total_length = Size /\ \A i \in 1..Size : bigbuf[i] = plugged[i]
    BY <2>1 DEF SearchInv, Arrived
  <2>4. Arrived'
    BY <2>1, <2>2, <2>3 DEF Arrived
  <2>5. CASE probe = "interface"
    <3>1. ptr \in 1..Size /\ \A i \in 1..(ptr - 1) : plugged[i] \notin S!Interfaces
      BY <1>0, <2>1, <2>3, <2>5 DEF SearchInv, Walked
    <3>2. plugged[ptr] \notin S!Interfaces
      BY <1>5, <2>3, <2>5, <3>1 DEF S!Skip
    <3>3. ptr' \in 1..(Size + 1) /\ \A i \in 1..(ptr' - 1) : plugged[i] \notin S!Interfaces
      BY <1>0, <2>1, <3>1, <3>2
    <3>4. Walked'
      BY <2>1, <2>2, <2>5, <3>3 DEF Walked
    <3>5. QED
      BY <2>2, <2>4, <3>4 DEF SearchInv
  <2>6. CASE probe = "endpoint"
    <3>1. Claimed /\ ptr \in (interface + 1)..Size /\ NoEndpointBefore(ptr)
      BY <1>0, <2>1, <2>3, <2>6 DEF SearchInv, Walked, Claimed
    <3>2. interface \in Nat /\ ptr \in 1..Size
      BY <1>0, <3>1 DEF Claimed
    <3>3. plugged[ptr] \notin S!Endpoints
      BY <1>5, <2>3, <2>6, <3>2 DEF S!Skip
    <3>4. ptr' \in (interface + 1)..(Size + 1) /\ NoEndpointBefore(ptr + 1)
      BY <1>0, <2>1, <3>1, <3>2, <3>3 DEF NoEndpointBefore
    <3>5. Claimed'
      BY <2>1, <2>2, <3>1 DEF Claimed, S!Class
    <3>6. Walked'
      <4>1. ptr' \in (interface' + 1)..(Size + 1) /\ NoEndpointBefore(ptr)'
        BY <2>1, <2>2, <3>4 DEF NoEndpointBefore
      <4>2. QED
        BY <2>1, <2>2, <2>6, <3>5, <4>1 DEF Walked
    <3>7. QED
      BY <2>2, <2>4, <3>6 DEF SearchInv
  <2>7. QED
    BY <2>1, <2>5, <2>6
<1>6. CASE S!Claim
  <2>1. /\ probe = "interface" /\ probe' = "endpoint" /\ S!Class \in S!Classes
        /\ UNCHANGED <<turn, plugged, failed, bigbuf, total_length>>
        /\ devclass' = S!Class /\ interface' = ptr /\ ptr' = ptr + 1
        /\ ptr <= total_length /\ bigbuf[ptr] = S!Class
    BY <1>6 DEF S!Claim, S!Within, S!device, SearchInv, SearchTyped
  <2>2. SearchTyped' /\ Tried' /\ Size' = Size
    BY <2>1, OwnStep
  <2>3. total_length = Size /\ \A i \in 1..Size : bigbuf[i] = plugged[i]
    BY <2>1 DEF SearchInv, Arrived
  <2>4. Arrived'
    BY <2>1, <2>2, <2>3 DEF Arrived
  <2>5. ptr \in 1..Size /\ \A i \in 1..(ptr - 1) : plugged[i] \notin S!Interfaces
    BY <1>0, <2>1, <2>3 DEF SearchInv, Walked
  <2>6. Claimed'
    BY <2>1, <2>2, <2>3, <2>5 DEF Claimed, S!Class
  <2>7. ptr' \in (interface' + 1)..(Size + 1) /\ NoEndpointBefore(ptr)'
    BY <1>0, <2>1, <2>5 DEF NoEndpointBefore
  <2>8. Walked'
    BY <2>1, <2>2, <2>6, <2>7 DEF Walked
  <2>9. QED
    BY <2>2, <2>4, <2>8 DEF SearchInv
<1>7. CASE S!NotMine
  <2>1. /\ probe = "interface" /\ S!Refused /\ UNCHANGED <<plugged, failed>>
        /\ ptr <= total_length /\ bigbuf[ptr] \in S!Interfaces \ {S!Class}
    BY <1>7 DEF S!NotMine, S!Within, S!device
  <2>2. total_length = Size /\ \A i \in 1..Size : bigbuf[i] = plugged[i]
    BY <2>1 DEF SearchInv, Arrived
  <2>3. ptr \in 1..Size /\ \A i \in 1..(ptr - 1) : plugged[i] \notin S!Interfaces
    BY <1>0, <2>1, <2>2 DEF SearchInv, Walked
  <2>4. plugged[ptr] \in S!Interfaces /\ plugged[ptr] # S!Class
    BY <2>1, <2>2, <2>3
  <2>5. ~Fits(S!Class)
    <3> SUFFICES ASSUME NEW i \in 1..Size, plugged[i] = S!Class, S!Class \in S!Classes,
                        \A k \in 1..(i - 1) : plugged[k] \notin S!Interfaces
                 PROVE  FALSE
      BY DEF Fits
    <3>1. CASE i < ptr
      BY <2>3, <3>1 DEF S!Interfaces
    <3>2. CASE i = ptr
      BY <2>4, <3>2
    <3>3. CASE ptr < i
      BY <2>3, <2>4, <3>3
    <3>4. QED
      BY <1>0, <2>3, <3>1, <3>2, <3>3
  <2>6. QED
    BY <2>1, <2>5, RefusedStep
<1>8. CASE S!NothingFound
  <2>1. /\ probe \in {"interface", "endpoint"} /\ S!Refused /\ UNCHANGED <<plugged, failed>>
        /\ ~(ptr <= total_length)
    BY <1>8 DEF S!NothingFound, S!Within, S!device
  <2>2. total_length = Size
    BY <2>1 DEF SearchInv, Arrived
  <2>3. ~Fits(S!Class)
    <3> SUFFICES ASSUME NEW i \in 1..Size, NEW j \in 1..Size, i < j, plugged[i] = S!Class,
                        S!Class \in S!Classes, plugged[j] \in S!Endpoints,
                        \A k \in 1..(i - 1) : plugged[k] \notin S!Interfaces
                 PROVE  FALSE
      BY DEF Fits
    <3>1. CASE probe = "interface"
      <4>1. ptr = Size + 1 /\ \A k \in 1..(ptr - 1) : plugged[k] \notin S!Interfaces
        BY <1>0, <2>1, <2>2, <3>1 DEF SearchInv, Walked
      <4>2. plugged[i] \notin S!Interfaces
        BY <1>0, <4>1
      <4>3. QED
        BY <4>2 DEF S!Interfaces
    <3>2. CASE probe = "endpoint"
      <4>1. Claimed /\ ptr \in (interface + 1)..(Size + 1) /\ NoEndpointBefore(ptr)
        BY <3>2 DEF SearchInv, Walked
      <4>2. interface \in 1..Size /\ ptr = Size + 1
        BY <1>0, <2>1, <2>2, <4>1 DEF Claimed
      <4>3. CASE i < interface
        BY <4>1, <4>2, <4>3 DEF Claimed, S!Interfaces
      <4>4. CASE interface < i
        BY <4>1, <4>2, <4>4 DEF Claimed, S!Interfaces
      <4>5. CASE i = interface
        BY <1>0, <4>1, <4>2, <4>5 DEF NoEndpointBefore
      <4>6. QED
        BY <4>2, <4>3, <4>4, <4>5
    <3>3. QED
      BY <2>1, <3>1, <3>2
  <2>4. QED
    BY <2>1, <2>3, RefusedStep
<1>9. CASE S!FillEndpoint
  <2>1. /\ probe = "endpoint" /\ probe' = "setconf" /\ S!Class \in S!Classes
        /\ UNCHANGED <<turn, plugged, failed, bigbuf, total_length, ptr, devclass, interface>>
        /\ ptr <= total_length /\ bigbuf[ptr] \in S!Endpoints /\ ep1' = bigbuf[ptr]
    BY <1>9 DEF S!FillEndpoint, S!Within, S!parser, S!device, SearchInv, SearchTyped
  <2>2. SearchTyped' /\ Tried' /\ Size' = Size
    BY <2>1, OwnStep
  <2>3. total_length = Size /\ \A i \in 1..Size : bigbuf[i] = plugged[i]
    BY <2>1 DEF SearchInv, Arrived
  <2>4. Arrived'
    BY <2>1, <2>2, <2>3 DEF Arrived
  <2>5. Claimed /\ ptr \in (interface + 1)..Size /\ NoEndpointBefore(ptr)
    BY <1>0, <2>1, <2>3 DEF SearchInv, Walked, Claimed
  <2>6. ptr \in 1..Size
    BY <1>0, <2>5 DEF Claimed
  <2>7. plugged[ptr] \in S!Endpoints /\ ep1' = plugged[ptr]
    BY <2>1, <2>3, <2>6
  <2>8. Claimed' /\ NoEndpointBefore(ptr)'
    BY <2>1, <2>2, <2>5 DEF Claimed, NoEndpointBefore, S!Class
  <2>9. Walked'
    BY <2>1, <2>2, <2>5, <2>7, <2>8 DEF Walked
  <2>10. QED
    BY <2>2, <2>4, <2>9 DEF SearchInv
<1>10. CASE S!SetConf \/ S!SetProto
  <2>1. /\ \/ probe = "setconf" /\ probe' = "setproto" /\ configured' = TRUE
           \/ probe = "setproto" /\ probe' = "running" /\ boot' = boot \cup {interface}
                                 /\ configured' = configured
        /\ S!Class \in S!Classes
        /\ UNCHANGED <<turn, plugged, failed, bigbuf, total_length, ptr, devclass, interface, ep1>>
    BY <1>10 DEF S!SetConf, S!SetProto, S!parser, S!tables, SearchInv, SearchTyped
  <2>2. SearchTyped' /\ Tried' /\ Size' = Size
    BY <2>1, OwnStep
  <2>3. Arrived'
    BY <2>1, <2>2 DEF SearchInv, Arrived
  <2>4. Claimed' /\ NoEndpointBefore(ptr)'
    BY <2>1, <2>2 DEF SearchInv, Walked, Claimed, NoEndpointBefore, S!Class
  <2>5. Walked'
    BY <2>1, <2>2, <2>4 DEF SearchInv, Walked
  <2>6. QED
    BY <2>2, <2>3, <2>5 DEF SearchInv
<1>11. CASE S!SetFails
  BY <1>11, RefusedStep DEF S!SetFails, S!device
<1>12. CASE S!Detach
  BY <1>12 DEF S!Detach, SearchInv, SearchTyped, Arrived, Walked, Tried
<1>13. CASE S!Attach
  <2>1. /\ probe = "detached" /\ probe' = "search" /\ turn' = turn
        /\ plugged' \in S!Devices
    BY <1>13 DEF S!Attach
  <2>2. turn = 1 /\ plugged' \in Seq(Told)
    BY <2>1, DevicesAreTold DEF SearchInv, SearchTyped
  <2>3. SearchTyped' /\ Arrived' /\ Walked'
    BY <2>1, <2>2 DEF SearchTyped, Arrived, Walked
  <2>4. Tried'
    BY <2>1, <2>2 DEF Tried
  <2>5. QED
    BY <2>3, <2>4 DEF SearchInv
<1>14. QED
  BY <1>1, <1>2, <1>3, <1>4, <1>5, <1>6, <1>7, <1>8, <1>9, <1>10, <1>11, <1>12, <1>13
     DEF S!Next, S!Configuring
\* Where the search starts from.
LEMMA SearchInit == S!Init => SearchInv
<1> SUFFICES ASSUME S!Init PROVE SearchInv
  OBVIOUS
<1>1. plugged \in Seq(Told) /\ probe = "search" /\ turn = 1
  BY DevicesAreTold DEF S!Init
<1>2. SearchTyped /\ Arrived /\ Walked
  BY <1>1 DEF SearchTyped, Trying, Arrived, Walked
<1>3. Tried
  BY <1>1 DEF Tried
<1>4. QED
  BY <1>2, <1>3 DEF SearchInv

-----------------------------------------------------------------------------
(* The panel *)

\* What a signed char holds, without the value that has no opposite.
Shows == -127..127

\* The weight that a bit adds to a digit.
Weight(bits, k, w) == IF k \in bits THEN w ELSE 0
Weights(bits) == Weight(bits, 0, 1) + Weight(bits, 1, 2) + Weight(bits, 2, 4) + Weight(bits, 3, 8)

LEMMA Converted == ASSUME NEW b \in 0..255 PROVE P!Signed(b) \in -128..127
  BY DEF P!Signed

\* The two digits and the hundreds make up the value.
LEMMA DigitsOfValue ==
    ASSUME NEW v \in Shows
    PROVE  /\ P!Tens(v) \in 0..9 /\ P!Ones(v) \in 0..9
           /\ 10 * P!Tens(v) + P!Ones(v)
                + (IF P!Quotient(P!Signed(P!Abs(v)), 100) # 0 THEN 100 ELSE 0) = P!Abs(v)
<1> DEFINE a == P!Abs(v)
<1>1. a \in 0..127 /\ P!Signed(a) = a
  BY DEF P!Abs, P!Signed, Shows
<1> HIDE DEF a
<1>2. P!Quotient(a, 100) = IF a < 100 THEN 0 ELSE 1
  BY <1>1 DEF P!Quotient
<1>3. P!Remainder(a, 100) = IF a < 100 THEN a ELSE a - 100
  BY <1>1, <1>2 DEF P!Remainder
<1> DEFINE r == P!Remainder(a, 100)
<1>4. r \in 0..99
  BY <1>1, <1>3
<1> HIDE DEF r
<1>5. P!Quotient(r, 10) \in 0..9 /\ P!Quotient(r, 10) = r \div 10
  BY <1>4 DEF P!Quotient
<1>6. P!Remainder(r, 10) \in 0..9 /\ P!Remainder(r, 10) = r - 10 * (r \div 10)
  <2>1. P!Remainder(r, 10) = r - 10 * (r \div 10)
    BY <1>5 DEF P!Remainder
  <2>2. r - 10 * (r \div 10) \in 0..9
    BY <1>4
  <2>3. QED
    BY <2>1, <2>2
<1>7. P!Tens(v) = r \div 10 /\ P!Ones(v) = r - 10 * (r \div 10)
  BY <1>1, <1>5, <1>6 DEF P!Tens, P!Ones, r, a
<1>8. 10 * P!Tens(v) + P!Ones(v) = r
  BY <1>4, <1>7
<1>9. QED
  BY <1>1, <1>2, <1>3, <1>5, <1>6, <1>7, <1>8 DEF r, a

\* The four bits of a digit tell it.
LEMMA BitsOfDigit ==
    ASSUME NEW d \in 0..9
    PROVE  P!Bits(d) \subseteq 0..3 /\ Weights(P!Bits(d)) = d
<1> DEFINE powers == <<1, 2, 4, 8, 16, 32, 64, 128>>
<1>1. \A k \in 0..7 : k \in P!Bits(d) <=> (d \div powers[k + 1]) % 2 = 1
  BY DEF P!Bits
<1>2. /\ powers[1] = 1 /\ powers[2] = 2 /\ powers[3] = 4 /\ powers[4] = 8
      /\ powers[5] = 16 /\ powers[6] = 32 /\ powers[7] = 64 /\ powers[8] = 128
  OBVIOUS
<1> HIDE DEF powers
<1>3. /\ 0 \in P!Bits(d) <=> (d \div powers[1]) % 2 = 1
      /\ 1 \in P!Bits(d) <=> (d \div powers[2]) % 2 = 1
      /\ 2 \in P!Bits(d) <=> (d \div powers[3]) % 2 = 1
      /\ 3 \in P!Bits(d) <=> (d \div powers[4]) % 2 = 1
  BY <1>1
<1>4. /\ 4 \in P!Bits(d) <=> (d \div powers[5]) % 2 = 1
      /\ 5 \in P!Bits(d) <=> (d \div powers[6]) % 2 = 1
      /\ 6 \in P!Bits(d) <=> (d \div powers[7]) % 2 = 1
      /\ 7 \in P!Bits(d) <=> (d \div powers[8]) % 2 = 1
  BY <1>1
<1>5. P!Bits(d) \subseteq 0..3
  <2>1. 4 \notin P!Bits(d) /\ 5 \notin P!Bits(d) /\ 6 \notin P!Bits(d) /\ 7 \notin P!Bits(d)
    BY <1>2, <1>4
  <2>2. P!Bits(d) \subseteq 0..7
    BY DEF P!Bits
  <2>3. QED
    BY <2>1, <2>2
<1>6. Weights(P!Bits(d)) = d
  BY <1>2, <1>3 DEF Weights, Weight
<1>7. QED
  BY <1>5, <1>6

\* Both calls write their own half of the register, whatever was in it.
LEMMA Halves ==
    ASSUME NEW first \in Shows, NEW second \in Shows, hex' = P!Digits(first, second)
    PROVE  /\ P!Digit(12)' = P!Tens(first) /\ P!Digit(8)' = P!Ones(first)
           /\ P!Digit(4)' = P!Tens(second) /\ P!Digit(0)' = P!Ones(second)
<1> DEFINE t1 == P!Bits(P!Tens(first))
           o1 == P!Bits(P!Ones(first))
           t2 == P!Bits(P!Tens(second))
           o2 == P!Bits(P!Ones(second))
<1>1. /\ t1 \subseteq 0..3 /\ Weights(t1) = P!Tens(first)
      /\ o1 \subseteq 0..3 /\ Weights(o1) = P!Ones(first)
      /\ t2 \subseteq 0..3 /\ Weights(t2) = P!Tens(second)
      /\ o2 \subseteq 0..3 /\ Weights(o2) = P!Ones(second)
  BY DigitsOfValue, BitsOfDigit
<1> DEFINE upper == P!UpperDigits(hex, first)
<1>2. upper = 0..15 \cap ((hex \cap 0..7) \cup P!Shifted(t1, 12) \cup P!Shifted(o1, 8))
  BY DEF P!UpperDigits
<1>3. hex' = 0..15 \cap ((upper \cap 8..15) \cup P!Shifted(t2, 4) \cup o2)
  BY DEF P!Digits, P!LowerDigits
<1> HIDE DEF t1, o1, t2, o2, upper
<1>4. \A k \in 0..3 : /\ 12 + k \in upper <=> k \in t1
                      /\ 8 + k \in upper <=> k \in o1
  BY <1>1, <1>2 DEF P!Shifted
<1>5. \A k \in 0..3 : /\ 12 + k \in hex' <=> k \in t1
                      /\ 8 + k \in hex' <=> k \in o1
  BY <1>1, <1>3, <1>4 DEF P!Shifted
<1>6. \A k \in 0..3 : /\ 4 + k \in hex' <=> k \in t2
                      /\ 0 + k \in hex' <=> k \in o2
  BY <1>1, <1>3 DEF P!Shifted
<1>7. P!Digit(12)' = Weights(t1) /\ P!Digit(8)' = Weights(o1)
  BY <1>5 DEF P!Digit, Weights, Weight
<1>8. P!Digit(4)' = Weights(t2) /\ P!Digit(0)' = Weights(o2)
  BY <1>6 DEF P!Digit, Weights, Weight
<1>9. QED
  BY <1>1, <1>7, <1>8

\* The lights tell the signs and the hundreds, whatever the buttons add.
LEMMA Lights ==
    ASSUME NEW first, NEW second, NEW lit, lit = P!Signs(first, second)
    PROVE  /\ 11 \in lit <=> first < 0
           /\ 13 \in lit <=> P!Quotient(P!Signed(P!Abs(first)), 100) # 0
           /\ 10 \in lit <=> second < 0
           /\ 12 \in lit <=> P!Quotient(P!Signed(P!Abs(second)), 100) # 0
  BY DEF P!Signs, P!SignAndHundreds, P!Light

\* A report leaves its two values on the panel.
LEMMA ReportTells ==
    ASSUME NEW first \in Shows, NEW second \in Shows,
           hex' = P!Digits(first, second), shown' = <<first, second>>,
           \A n \in 10..13 : n \in leds' <=> n \in P!Signs(first, second)
    PROVE  ReadsBack'
<1>1. /\ 11 \in leds' <=> first < 0
      /\ 13 \in leds' <=> P!Quotient(P!Signed(P!Abs(first)), 100) # 0
      /\ 10 \in leds' <=> second < 0
      /\ 12 \in leds' <=> P!Quotient(P!Signed(P!Abs(second)), 100) # 0
  BY Lights
<1>2. P!Value(P!Tens(first), P!Ones(first), 11 \in leds', 13 \in leds') = first
  <2>1. \A v \in Shows : v = IF v < 0 THEN -P!Abs(v) ELSE P!Abs(v)
    BY DEF Shows, P!Abs
  <2>2. QED
    BY <1>1, <2>1, DigitsOfValue DEF P!Value
<1>3. P!Value(P!Tens(second), P!Ones(second), 10 \in leds', 12 \in leds') = second
  <2>1. \A v \in Shows : v = IF v < 0 THEN -P!Abs(v) ELSE P!Abs(v)
    BY DEF Shows, P!Abs
  <2>2. QED
    BY <1>1, <2>1, DigitsOfValue DEF P!Value
<1>4. QED
  BY <1>2, <1>3, Halves DEF ReadsBack, P!ReadsBack

\* Every report leaves its values on the panel, whatever was there before.
LEMMA PanelStep == P!Next => ReadsBack'
<1> SUFFICES ASSUME P!Next PROVE ReadsBack'
  OBVIOUS
<1> DEFINE Told2(x, y) == /\ hex' = P!Digits(x, y) /\ shown' = <<x, y>>
                          /\ \A n \in 10..13 : n \in leds' <=> n \in P!Signs(x, y)
<1>1. ASSUME NEW first \in Bytes, NEW second \in Bytes,
             Told2(P!Signed(first), P!Signed(second))
      PROVE  ReadsBack'
  <2>0. first \in 0..255 /\ second \in 0..255
    BY DriversAssumption, SMTT(30) DEF DriversAssumption
  <2>1. P!Signed(first) \in -128..127 /\ P!Signed(second) \in -128..127
    BY <2>0, Converted
  <2>2. CASE -128 \in {P!Signed(first), P!Signed(second)}
    BY <1>1, <2>2 DEF ReadsBack, P!ReadsBack
  <2>3. CASE -128 \notin {P!Signed(first), P!Signed(second)}
    <3>1. P!Signed(first) \in Shows /\ P!Signed(second) \in Shows
      BY <2>1, <2>3 DEF Shows
    <3>2. QED
      BY <1>1, <3>1, ReportTells
  <2>4. QED
    BY <2>2, <2>3
<1>2. CASE \E first, second \in Bytes : P!KeyboardReport(first, second)
  BY <1>1, <1>2 DEF P!KeyboardReport
<1>3. CASE \E x, y \in Bytes, buttons \in {{}, {0}, {1, 2}} : P!MouseReport(x, y, buttons)
  <2>1. PICK x \in Bytes, y \in Bytes, buttons \in {{}, {0}, {1, 2}} : P!MouseReport(x, y, buttons)
    BY <1>3
  <2>2. \A n \in 10..13 : n \notin {0, 1, 2} /\ n \notin buttons
    OBVIOUS
  <2>3. Told2(P!Signed(x), P!Signed(y))
    BY <2>1, <2>2 DEF P!MouseReport
  <2>4. QED
    BY <1>1, <2>3
<1>4. QED
  BY <1>2, <1>3 DEF P!Next

LEMMA PanelInit == P!Init => ReadsBack
  BY DEF P!Init, ReadsBack, P!ReadsBack, P!Digit, P!Value

-----------------------------------------------------------------------------
(* Side by side *)

\* What holds of each part, whichever one moves.
AllInv == IInv /\ SearchInv /\ ReadsBack

\* A part that does not move keeps what it knows.
LEMMA StandStill ==
    /\ UNCHANGED search /\ SearchInv => SearchInv'
    /\ UNCHANGED panel /\ ReadsBack => ReadsBack'
<1>1. ASSUME UNCHANGED search, SearchInv PROVE SearchInv'
  <2>1. SearchTyped' /\ Size' = Size
    BY <1>1 DEF search, SearchInv, SearchTyped, S!Class, Size
  <2>2. Arrived'
    BY <1>1, <2>1 DEF search, SearchInv, Arrived
  <2>3. Claimed' <=> Claimed
    BY <1>1, <2>1 DEF search, Claimed, S!Class
  <2>4. Walked'
    BY <1>1, <2>1, <2>3 DEF search, SearchInv, Walked, NoEndpointBefore
  <2>5. \A c : Fits(c)' <=> Fits(c)
    BY <1>1, <2>1 DEF search, Fits
  <2>6. Tried'
    BY <1>1, <2>5 DEF search, SearchInv, Tried
  <2>7. QED
    BY <2>1, <2>2, <2>4, <2>6 DEF SearchInv
<1>2. ASSUME UNCHANGED panel, ReadsBack PROVE ReadsBack'
  BY <1>2 DEF panel, ReadsBack, P!ReadsBack, P!Digit
<1>3. QED
  BY <1>1, <1>2

LEMMA AllInvariant == AllSpec => []AllInv
<1>1. AllInit => AllInv
  BY InitHolds, SearchInit, PanelInit DEF AllInit, AllInv
<1>2. AllInv /\ [AllNext]_all => AllInv'
  <2> SUFFICES ASSUME AllInv, [AllNext]_all PROVE AllInv'
    OBVIOUS
  <2>1. CASE SpiMoves(Next)
    BY <2>1, StepHolds, StandStill DEF SpiMoves, AllInv
  <2>2. CASE SearchMoves(S!Next)
    BY <2>2, StepHolds, StandStill, SearchStep DEF SearchMoves, AllInv
  <2>3. CASE PanelMoves(P!Next)
    BY <2>3, StepHolds, StandStill, PanelStep DEF PanelMoves, AllInv
  <2>4. CASE UNCHANGED all
    BY <2>4, StepHolds, StandStill DEF all, AllInv
  <2>5. QED
    BY <2>1, <2>2, <2>3, <2>4 DEF AllNext
<1>3. QED
  BY <1>1, <1>2, PTL DEF AllSpec

\* What is polled has been set up: for devices and a buffer of any size, the device in
\* service is configured, in boot protocol, and has the class and the packet size of its
\* own first interface, whatever an earlier device or attempt has left.
THEOREM PolledIsSetUp == AllSpec => []SetUpAsPolled
<1>1. AllInv => SetUpAsPolled
  BY SearchOver DEF AllInv
<1>2. QED
  BY <1>1, AllInvariant, PTL

\* A device that one of the drivers suits is refused only because a transfer failed.
THEOREM RefusalsHaveCause == AllSpec => []RefusedForCause
<1>1. AllInv => RefusedForCause
  BY SearchOver DEF AllInv
<1>2. QED
  BY <1>1, AllInvariant, PTL

\* The two displays and the lights tell both values of the last report, for every byte.
THEOREM PanelTells == AllSpec => []ReadsBack
<1>1. AllInv => ReadsBack
  BY DEF AllInv
<1>2. QED
  BY <1>1, AllInvariant, PTL
=============================================================================

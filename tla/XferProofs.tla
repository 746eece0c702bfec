---------------------------- MODULE XferProofs ----------------------------
(***************************************************************************)
(* Proofs about Xfer, for every limit and every setting: reports and       *)
(* answers of any length, in any number of packets.                        *)
(*                                                                         *)
(* What the chip carries out is the packet that the processor waits for,   *)
(* or one that was given up, whose result is not taken for a success of    *)
(* the next one.  If the chip keeps its deadlines, more is known: which    *)
(* packets of which report or answer the transfer has, and whether the     *)
(* device offers the packet after the newest of them or still that one.    *)
(***************************************************************************)
EXTENDS Xfer, SequenceTheorems, TLAPS

Tokens == {"SETUP", "IN", "INHS", "OUTHS"}
Packet == [item : 0..2, part : Nat \ {0}]
Results == {"BUSY", "SUCCESS", "TIMEOUT", "CRCERR", "NAK", "STALL", "TOGERR"}

Typed ==
    /\ setting \in Settings
    /\ pc \in {"idle", "launch", "wait", "judge", "read"}
    /\ kind \in {"poll", "get", "set"} /\ request \in {0, 1} /\ token \in Tokens
    /\ rcvToggle \in [{0, 1} -> {0, 1}] /\ rcvtog \in {0, 1}
    /\ tog \in [{0, 1} -> {0, 1}] /\ item \in [{0, 1} -> 0..2] /\ part \in [{0, 1} -> Nat \ {0}]
    /\ ready \in BOOLEAN /\ announced \in BOOLEAN /\ unheard \subseteq 0..2
    /\ hxfrdnirq \in BOOLEAN
    /\ sie \in {None} \cup [token : Tokens, ep : {0, 1}]
    /\ hrsl \in Results
    /\ xfrlen \in Nat
    /\ data \in Seq(Packet) /\ rcvfifo \in Seq(Packet)

\* The processor waits for a packet, or looks at its result.
Running == pc \in {"wait", "judge"}

\* What the chip is doing, and the tokens that make up a transfer.
Carried ==
    /\ sie # None => hrsl = "BUSY"
    /\ sie # None /\ Running => sie = [token |-> token, ep |-> Endpoint]
    /\ pc = "launch" /\ token # "SETUP" /\ kind # "poll" => sie = None
    /\ pc = "read" => hrsl = "SUCCESS" /\ token = "IN"
    /\ pc = "idle" /\ rcode = "SUCCESS" => sie = None
    /\ pc # "idle" => /\ kind = "poll" => token = "IN"
                      /\ kind = "get" => token \in {"SETUP", "IN", "OUTHS"}
                      /\ kind = "set" => token \in {"SETUP", "INHS"}

\* How far the device is with the request.
Requested ==
    /\ pc # "idle" /\ kind # "poll" /\ token # "SETUP" => item[Control] = request
    /\ Running /\ token = "SETUP" /\ kind # "poll" /\ hrsl = "SUCCESS" => item[Control] = request
    /\ Running /\ token \in {"INHS", "OUTHS"} /\ hrsl = "SUCCESS" => done = request
    /\ RequestDone

RequestInv == Typed /\ Carried /\ Requested

\* A product does not fall when a factor grows.
LEMMA Products ==
    ASSUME NEW a \in Nat, NEW b \in Nat, NEW m \in Nat, a <= b
    PROVE  a * m <= b * m
  OBVIOUS

\* The number of packets that b bytes take.
LEMMA Ceiling ==
    ASSUME NEW b \in Nat \ {0}, NEW m \in Nat \ {0}, NEW q, q = (b + m - 1) \div m
    PROVE  q \in Nat \ {0} /\ (q - 1) * m < b /\ b <= q * m
<1> DEFINE r == (b + m - 1) % m
<1>1. q \in Nat /\ r \in 0..(m - 1) /\ b + m - 1 = m * q + r
  OBVIOUS
<1> HIDE DEF r
<1>2. q # 0
  BY <1>1
<1>3. (q - 1) * m = q * m - m
  BY <1>1
<1>4. QED
  BY <1>1, <1>2, <1>3

\* What all settings have.
LEMMA SettingFits ==
    ASSUME setting \in Settings, NEW e \in Endpoints
    PROVE  /\ MaxPktSize(e) \in Nat \ {0} /\ Length(e) \in Nat \ {0} /\ NBytes(e) \in Nat \ {0}
           /\ Length(e) <= NBytes(e) /\ Parts(e) \in Nat \ {0}
           /\ (Parts(e) - 1) * MaxPktSize(e) < Length(e) /\ Length(e) <= Parts(e) * MaxPktSize(e)
<1>1. /\ Settings \subseteq [packet : [Endpoints -> Nat \ {0}], length : [Endpoints -> Nat \ {0}],
                             nbytes : [Endpoints -> Nat \ {0}],
                             kinds : SUBSET {"poll", "get", "set"}, hangs : BOOLEAN]
      /\ \A s \in Settings : \A d \in Endpoints : s.length[d] <= s.nbytes[d]
  BY XferAssumption DEF XferAssumption
<1>2. /\ MaxPktSize(e) \in Nat \ {0} /\ Length(e) \in Nat \ {0} /\ NBytes(e) \in Nat \ {0}
      /\ Length(e) <= NBytes(e)
  BY <1>1 DEF MaxPktSize, Length, NBytes
<1>3. QED
  BY <1>2, Ceiling DEF Parts

\* Packets are full, but for the last and the empty ones after it.
LEMMA Sizes ==
    ASSUME setting \in Settings, NEW e \in Endpoints, NEW p \in Nat \ {0}
    PROVE  /\ Size(e, p) \in 0..MaxPktSize(e)
           /\ p < Parts(e) => Size(e, p) = MaxPktSize(e)
           /\ p = Parts(e) => Size(e, p) = Length(e) - (Parts(e) - 1) * MaxPktSize(e)
           /\ p > Parts(e) => Size(e, p) = 0
<1> DEFINE M == MaxPktSize(e)
           L == Length(e)
           n == Parts(e)
           k == (n - 1) * M
<1>1. M \in Nat \ {0} /\ L \in Nat /\ n \in Nat \ {0} /\ k < L /\ L <= n * M
  BY SettingFits
<1>2. k \in Nat /\ k + M = n * M
  BY <1>1
<1>3. Size(e, p) = IF p > n THEN 0 ELSE IF p < n THEN M ELSE L - k
  BY <1>1 DEF Size
<1> HIDE DEF M, L, n, k
<1>4. /\ Size(e, p) \in 0..M
      /\ p < n => Size(e, p) = M
      /\ p = n => Size(e, p) = L - k
      /\ p > n => Size(e, p) = 0
  BY <1>1, <1>2, <1>3
<1>5. QED
  BY <1>4 DEF M, L, n, k

\* The sizes and the numbers of the packets in terms of the next state are the same.
LEMMA SettingStays ==
    ASSUME UNCHANGED setting
    PROVE  /\ (MayHang' <=> MayHang)
           /\ \A e : /\ MaxPktSize(e)' = MaxPktSize(e) /\ NBytes(e)' = NBytes(e)
                     /\ Parts(e)' = Parts(e) /\ (ShowsEnd(e)' <=> ShowsEnd(e))
           /\ \A e, p : Size(e, p)' = Size(e, p)
  BY DEF MaxPktSize, Length, NBytes, Parts, MayHang, ShowsEnd, Size

\* A transfer starts as a poll or as a request.
LEMMA Starting ==
    ASSUME setting \in Settings, Start
    PROVE  Poll \/ \E k \in {"get", "set"} : XferCtrlReq(k)
<1>1. Kinds \subseteq {"poll", "get", "set"}
  <2>1. Settings \subseteq [packet : [Endpoints -> Nat \ {0}], length : [Endpoints -> Nat \ {0}],
                            nbytes : [Endpoints -> Nat \ {0}],
                            kinds : SUBSET {"poll", "get", "set"}, hangs : BOOLEAN]
    BY XferAssumption DEF XferAssumption
  <2>2. QED
    BY <2>1 DEF Kinds
<1>2. QED
  BY <1>1 DEF Start

LEMMA RequestInit == Init => RequestInv
<1> SUFFICES ASSUME Init PROVE RequestInv
  OBVIOUS
<1>1. Typed
  BY DEF Init, Typed, Tokens, Results, None, Control, Report, Packet
<1>2. Carried /\ Requested
  BY DEF Init, Carried, Requested, RequestDone, Successful, Running, None, Control, Report
<1>3. QED
  BY <1>1, <1>2 DEF RequestInv

\* The steps between the packets.
LEMMA TypedStep ==
    ASSUME Typed, Next
    PROVE  Typed'
<1> USE DEF firmware, chip, device, history, Return, Dispatch, Ended, Control, Report
<1>0. UNCHANGED setting /\ setting \in Settings
  BY DEF Next, Typed
<1>1. CASE Poll
  BY <1>0, <1>1 DEF Poll, Typed, Tokens
<1>2. CASE \E k \in {"get", "set"} : XferCtrlReq(k)
  BY <1>0, <1>2 DEF XferCtrlReq, Typed, Tokens
<1>3. CASE Launch
  <2>1. sie' \in [token : Tokens, ep : {0, 1}] /\ hrsl' \in Results
    BY <1>3 DEF Launch, Typed, Endpoint, Results
  <2>2. QED
    BY <1>0, <1>3, <2>1 DEF Launch, Typed
<1>4. CASE SeeDone
  BY <1>0, <1>4 DEF SeeDone, Typed
<1>5. CASE TimedOut
  <2>1. announced' \in BOOLEAN
    BY <1>5 DEF TimedOut, Typed
  <2>2. QED
    BY <1>0, <1>5, <2>1 DEF TimedOut, Typed
<1>6. CASE Repeat
  <2>1. announced' \in BOOLEAN
    BY <1>6 DEF Repeat, Typed
  <2>2. pc' \in {"idle", "launch"} /\ token' = token /\ xfrlen' \in Nat
    BY <1>6 DEF Repeat, Typed
  <2>3. UNCHANGED <<kind, request, rcvToggle, data, chip, device, unheard>>
    BY <1>6 DEF Repeat
  <2>4. QED
    BY <1>0, <2>1, <2>2, <2>3 DEF Typed
<1>7. CASE Fail
  <2>1. announced' \in BOOLEAN
    BY <1>7 DEF Fail, Typed
  <2>2. QED
    BY <1>0, <1>7, <2>1 DEF Fail, Typed
<1>8. CASE SetupSent
  BY <1>0, <1>8 DEF SetupSent, Typed, Tokens
<1>9. CASE StatusSent
  <2>1. announced' \in BOOLEAN
    BY <1>9 DEF StatusSent, Typed
  <2>2. QED
    BY <1>0, <1>9, <2>1 DEF StatusSent, Typed
<1>10. CASE PacketIn
  BY <1>0, <1>10 DEF PacketIn, Typed, Tokens
<1>11. CASE NothingToRead
  <2>1. announced' \in BOOLEAN
    BY <1>11 DEF NothingToRead, Typed
  <2>2. QED
    BY <1>0, <1>11, <2>1 DEF NothingToRead, Typed
<1>12. CASE Read
  <2>1. Head(rcvfifo) \in Packet /\ Tail(rcvfifo) \in Seq(Packet) /\ xfrlen \in Nat
    BY <1>12 DEF Read, Typed
  <2>2. Append(data, Head(rcvfifo)) \in Seq(Packet)
    BY <2>1 DEF Typed
  <2>3. Size(Endpoint, Head(rcvfifo).part) \in Nat
    BY <1>0, <2>1, Sizes DEF Packet, Endpoint, Endpoints
  <2>4. data' \in Seq(Packet) /\ rcvfifo' \in Seq(Packet)
    BY <1>12, <2>1, <2>2 DEF Read
  <2>5. xfrlen' \in Nat
    <3>1. xfrlen' \in {0, xfrlen, xfrlen + Size(Endpoint, Head(rcvfifo).part)}
      BY <1>12 DEF Read
    <3>2. QED
      BY <2>1, <2>3, <3>1
  <2>6. announced' \in BOOLEAN /\ unheard' \subseteq 0..2
    BY <1>12 DEF Read, Typed
  <2>7. /\ pc' \in {"idle", "launch"} /\ token' \in Tokens
        /\ rcvToggle' \in [{0, 1} -> {0, 1}]
    BY <1>12 DEF Read, Typed, Tokens, Endpoint
  <2>8. QED
    BY <1>0, <1>12, <2>4, <2>5, <2>6, <2>7 DEF Read, Typed
<1>13. CASE Lost
  BY <1>0, <1>13 DEF Lost, None, Results, Typed, Tokens
<1>14. CASE Refused
  BY <1>0, <1>14 DEF Refused, None, Results, Typed, Tokens
<1>15. CASE SetupTaken
  BY <1>0, <1>15 DEF SetupTaken, None, Results, Typed, Tokens
<1>16. CASE DataIn
  <2>1. PICK e \in {0, 1} : e = sie.ep
    BY <1>16 DEF DataIn, Typed, None
  <2>2. /\ hrsl' \in Results /\ sie' = None /\ hxfrdnirq' = TRUE
        /\ rcvtog' \in {0, 1} /\ UNCHANGED firmware
    BY <1>16 DEF DataIn, Typed, Results
  <2>3. [item |-> item[e], part |-> part[e]] \in Packet
    BY DEF Typed, Packet
  <2>4. rcvfifo' \in Seq(Packet)
    <3>1. Append(rcvfifo, [item |-> item[e], part |-> part[e]]) \in Seq(Packet)
      BY <2>3 DEF Typed
    <3>2. QED
      BY <1>16, <2>1, <3>1 DEF DataIn, Typed
  <2>5. CASE Advance(e)
    <3>1. /\ tog' = [tog EXCEPT ![e] = 1 - @]
          /\ part' \in [{0, 1} -> Nat \ {0}] /\ item' \in [{0, 1} -> 0..2]
      BY <1>0, <2>5 DEF Advance, Typed, Following
    <3>2. tog' \in [{0, 1} -> {0, 1}]
      BY <3>1 DEF Typed
    <3>3. ready' \in BOOLEAN
      BY <2>5 DEF Advance, Typed
    <3>4. QED
      BY <1>0, <1>16, <2>2, <2>4, <3>1, <3>2, <3>3 DEF DataIn, Typed
  <2>6. CASE UNCHANGED <<tog, item, part, ready>>
    BY <1>0, <1>16, <2>2, <2>4, <2>6 DEF DataIn, Typed
  <2>7. QED
    BY <1>16, <2>1, <2>5, <2>6 DEF DataIn
<1>17. CASE StatusIn
  BY <1>0, <1>17 DEF StatusIn, None, Results, Typed, Tokens
<1>18. CASE StatusOut
  BY <1>0, <1>18 DEF StatusOut, None, Results, Typed, Tokens
<1>19. CASE NewReport
  <2>1. ready' = TRUE /\ unheard' \subseteq 0..2
    BY <1>19 DEF NewReport, Typed
  <2>2. QED
    BY <1>0, <1>19, <2>1 DEF NewReport, Typed
<1>20. QED
  BY <1>1, <1>2, <1>3, <1>4, <1>5, <1>6, <1>7, <1>8, <1>9, <1>10, <1>11, <1>12, <1>13, <1>14,
     <1>15, <1>16, <1>17, <1>18, <1>19, Starting
    DEF Next, Transfer, Bus, RequestInv, Typed

LEMMA CarriedStep ==
    ASSUME RequestInv, Next
    PROVE  Carried'
<1> USE DEF firmware, chip, device, history, Return, Dispatch, Ended, RequestInv, Carried, Running
<1>1. CASE Poll
  BY <1>1 DEF Poll
<1>2. CASE \E k \in {"get", "set"} : XferCtrlReq(k)
  BY <1>2 DEF XferCtrlReq
<1>3. CASE Launch
  BY <1>3 DEF Launch, Endpoint
<1>4. CASE SeeDone
  BY <1>4 DEF SeeDone, Endpoint
<1>5. CASE TimedOut
  BY <1>5 DEF TimedOut
<1>6. CASE Repeat
  BY <1>6 DEF Repeat, GivesUp
<1>7. CASE Fail
  BY <1>7 DEF Fail
<1>8. CASE SetupSent
  BY <1>8 DEF SetupSent, Typed, Tokens
<1>9. CASE StatusSent
  BY <1>9 DEF StatusSent
<1>10. CASE PacketIn
  BY <1>10 DEF PacketIn
<1>11. CASE NothingToRead
  BY <1>11 DEF NothingToRead
<1>12. CASE Read
  BY <1>12 DEF Read, Complete
<1>13. CASE Lost
  BY <1>13 DEF Lost
<1>14. CASE Refused
  BY <1>14 DEF Refused, None, Endpoint
<1>15. CASE SetupTaken
  BY <1>15 DEF SetupTaken, None, Endpoint
<1>16. CASE DataIn
  BY <1>16 DEF DataIn, None, Endpoint
<1>17. CASE StatusIn
  BY <1>17 DEF StatusIn, None, Endpoint
<1>18. CASE StatusOut
  BY <1>18 DEF StatusOut, None, Endpoint
<1>19. CASE NewReport
  BY <1>19 DEF NewReport, Endpoint
<1>20. QED
  BY <1>1, <1>2, <1>3, <1>4, <1>5, <1>6, <1>7, <1>8, <1>9, <1>10, <1>11, <1>12, <1>13, <1>14,
     <1>15, <1>16, <1>17, <1>18, <1>19, Starting
    DEF Next, Transfer, Bus, RequestInv, Typed

LEMMA RequestedStep ==
    ASSUME RequestInv, Next
    PROVE  Requested'
<1> USE DEF firmware, chip, device, history, Return, Dispatch, Ended, RequestInv, Requested,
            RequestDone, Successful, Running
<1>1. CASE Poll
  BY <1>1 DEF Poll, Carried
<1>2. CASE \E k \in {"get", "set"} : XferCtrlReq(k)
  BY <1>2 DEF XferCtrlReq, Carried
<1>3. CASE Launch
  BY <1>3 DEF Launch, Tokens, Carried
<1>4. CASE SeeDone
  BY <1>4 DEF SeeDone, Carried
<1>5. CASE TimedOut
  BY <1>5 DEF TimedOut, Carried
<1>6. CASE Repeat
  BY <1>6 DEF Repeat, Carried
<1>7. CASE Fail
  BY <1>7 DEF Fail, Carried
<1>8. CASE SetupSent
  BY <1>8 DEF SetupSent, Carried
<1>9. CASE StatusSent
  BY <1>9 DEF StatusSent, Carried
<1>10. CASE PacketIn
  BY <1>10 DEF PacketIn, Carried
<1>11. CASE NothingToRead
  BY <1>11 DEF NothingToRead, Carried
<1>12. CASE Read
  BY <1>12 DEF Read, Carried
<1>13. CASE Lost
  BY <1>13 DEF Lost, Carried
<1>14. CASE Refused
  BY <1>14 DEF Refused, Carried
<1>15. CASE SetupTaken
  BY <1>15 DEF SetupTaken, Typed, None, Control, Report, Carried
<1>16. CASE DataIn
  BY <1>16 DEF DataIn, Advance, Typed, None, Control, Report, Carried
<1>17. CASE StatusIn
  BY <1>17 DEF StatusIn, None, Carried
<1>18. CASE StatusOut
  BY <1>18 DEF StatusOut, None, Carried
<1>19. CASE NewReport
  BY <1>19 DEF NewReport, Carried
<1>20. QED
  BY <1>1, <1>2, <1>3, <1>4, <1>5, <1>6, <1>7, <1>8, <1>9, <1>10, <1>11, <1>12, <1>13, <1>14,
     <1>15, <1>16, <1>17, <1>18, <1>19, Starting
    DEF Next, Transfer, Bus, RequestInv, Typed

\* What holds of every chip, also of one that ends packets too late.
LEMMA RequestStep == RequestInv /\ [Next]_vars => RequestInv'
<1> SUFFICES ASSUME RequestInv, [Next]_vars PROVE RequestInv'
  OBVIOUS
<1>1. CASE Next
  BY <1>1, TypedStep, CarriedStep, RequestedStep DEF RequestInv
<1>2. CASE UNCHANGED vars
  BY <1>2 DEF RequestInv, Typed, Carried, Requested, RequestDone, Successful, Running, Endpoint,
     vars, firmware, chip, device, history
<1>3. QED
  BY <1>1, <1>2

\* The processor and the chip stay in step with each other.
LEMMA RequestInvariant == Spec => []RequestInv
<1>1. QED
  BY RequestInit, RequestStep, PTL DEF Spec

\* A request that returns success was carried out by the device: this request and not
\* the one before it, for every limit and setting, also with a chip that ends packets
\* too late.
THEOREM RequestsDone == Spec => []RequestDone
<1>1. RequestInv => RequestDone
  BY DEF RequestInv, Requested
<1>2. QED
  BY <1>1, RequestInvariant, PTL

-----------------------------------------------------------------------------
(* A chip that keeps its deadlines *)

\* The chip carries out a packet only while the processor waits for it, and what it has
\* received is read before the next packet.
Steady ==
    /\ sie # None <=> pc = "wait" /\ ~hxfrdnirq
    /\ hxfrdnirq => pc = "wait"
    /\ pc = "judge" \/ hxfrdnirq => hrsl # "BUSY"
    /\ IF (Running \/ pc = "read") /\ token = "IN" /\ hrsl = "SUCCESS"
         THEN Len(rcvfifo) = 1 ELSE rcvfifo = <<>>
    /\ pc = "idle" => xfrlen = 0
    /\ token = "SETUP" /\ pc # "idle" => data = <<>> /\ xfrlen = 0

Polling == kind = "poll" /\ pc # "idle"
Getting == kind = "get" /\ pc # "idle" /\ token = "IN"

\* All packets read so far were full, and more is asked for.
Counted ==
    Polling \/ Getting =>
        xfrlen = Len(data) * MaxPktSize(Endpoint) /\ xfrlen < NBytes(Endpoint)

\* The transfer has received a packet, how many, and which one last.
Received == data # <<>> \/ rcvfifo # <<>>
Count == Len(data) + Len(rcvfifo)
Newest == IF rcvfifo # <<>> THEN Head(rcvfifo) ELSE data[Len(data)]

\* The first n packets of report or answer i.
First(i, n) == [k \in 1..n |-> [item |-> i, part |-> k]]

\* The packets received are the first of i.
InOrder(i) ==
    /\ data = First(i, Len(data))
    /\ rcvfifo # <<>> => Head(rcvfifo) = [item |-> i, part |-> Len(data) + 1]

\* The device has not seen the newest packet acknowledged, and repeats it, or it is at
\* the one after it.
Aligned(e) ==
    \/ /\ tog[e] # rcvtog /\ item[e] = Newest.item /\ part[e] = Newest.part
       /\ e = Report => ready
    \/ /\ tog[e] = rcvtog
       /\ IF e = Report /\ Newest.part = Parts(e)
            THEN part[e] = 1 /\ item[e] = Following(Newest.item)
            ELSE /\ part[e] = IF Newest.part > Parts(e) THEN Newest.part ELSE Newest.part + 1
                 /\ item[e] = Newest.item
                 /\ e = Report => ready

Get ==
    /\ Running /\ token = "SETUP" /\ hrsl = "SUCCESS" => tog[Control] = 1 /\ part[Control] = 1
    /\ Getting =>
        /\ InOrder(request)
        /\ Len(data) <= Parts(Control) /\ (Len(data) = Parts(Control) => ~ShowsEnd(Control))
        /\ Received => Aligned(Control)
        /\ ~Received => tog[Control] = 1 /\ rcvtog = 1 /\ part[Control] = 1
    /\ kind = "get" /\ pc # "idle" /\ token = "OUTHS" => data \in Answers(request)
    /\ Successful({"get"}) => data \in Answers(request)

\* The last packet of a report is as long as the others.
Fills == Size(Report, Parts(Report)) = MaxPktSize(Report)

\* Where a poll is in the device's reports.  One whose last packet is short ends there, so
\* the packets of a poll are then all of one report.
Polled ==
    /\ part[Report] <= Parts(Report) /\ (~ready => part[Report] = 1)
    /\ Polling =>
        /\ Received => Aligned(Report) /\ Newest.part <= Parts(Report)
        /\ ~Received => rcvtog = rcvToggle[Report]
        /\ Received /\ ~Fills => Count <= Newest.part
        /\ Received /\ rcvfifo = <<>> /\ ~Fills => Newest.part < Parts(Report)

\* Reports of two packets start with DATA0, and so does every poll of them: a packet
\* whose report's head was lost has the other toggle.
Framed ==
    Parts(Report) <= 2 =>
        /\ Parts(Report) = 2 => tog[Report] = part[Report] - 1
        /\ Parts(Report) = 2 /\ ShowsEnd(Report) => rcvToggle[Report] = 0
        /\ Polling /\ ShowsEnd(Report) =>
            /\ Received => InOrder(Newest.item)
            /\ Len(data) < Parts(Report)
            /\ Parts(Report) = 2 => rcvtog = IF Count = 1 THEN 1 ELSE 0
        /\ Successful({"poll"}) /\ ShowsEnd(Report) => \E i \in 0..2 : data = Whole(Report, i)

\* The toggle of the next packet that a poll takes for a new one.
Expected == IF Polling THEN rcvtog ELSE rcvToggle[Report]

\* A report that has been returned and is still offered is repeated, and has the other
\* toggle, or the poll ended inside it, because it had begun inside another.  What is left
\* of such a report is less than a poll asks for.
Heard ==
    /\ ready /\ item[Report] \notin unheard /\ ~(Polling /\ Received) =>
        /\ Fills \/ part[Report] = Parts(Report)
        /\ tog[Report] = Expected => Fills /\ part[Report] > 1
    /\ Polling /\ Received /\ Newest.item \notin unheard => Fills /\ Newest.part > Count
    /\ Polling /\ Received /\ ready /\ item[Report] \notin unheard => item[Report] = Newest.item

\* A repetition has been received, which will be returned as an error.
Repeated == Running /\ hrsl = "TOGERR"

\* The reports not returned are the one offered and the one being received, and of that the
\* poll has all packets from the first.
Missed ==
    ShowsEnd(Report) /\ ~announced =>
        /\ ~(Polling /\ (Received \/ Repeated)) =>
            unheard \subseteq {item[Report]} /\ (item[Report] \in unheard => part[Report] = 1)
        /\ Polling /\ Received /\ ~Repeated =>
            /\ unheard \subseteq {item[Report], Newest.item}
            /\ Newest.item \in unheard => Count >= Newest.part

\* A poll that is refused after it has received something has received the rest of a report
\* that was returned before.
Refusal ==
    ShowsEnd(Report) /\ ~announced /\ Polling /\ Running /\ hrsl = "NAK" /\ Received =>
        part[Report] = 1 /\ Newest.item \notin unheard

Known == Get /\ Polled /\ Framed /\ Heard /\ Missed /\ Refusal
Kept == Steady /\ Counted /\ Known
TransferInv == RequestInv /\ (~MayHang => Kept)

\* One more packet.
LEMMA OneMore ==
    ASSUME NEW i, NEW n \in Nat, NEW p, p = [item |-> i, part |-> n + 1]
    PROVE  /\ Len(First(i, n)) = n
           /\ Append(First(i, n), p) = First(i, n + 1)
<1> DEFINE E == [item : {i}, part : Nat]
<1>1. First(i, n) \in [1..n -> E] /\ p \in E
  BY DEF First
<1>2. First(i, n) \in Seq(E) /\ Len(First(i, n)) = n
  <2>1. First(i, n) \in Seq(E)
    BY <1>1 DEF First
  <2>2. DOMAIN First(i, n) = 1..n
    BY <1>1
  <2>3. QED
    BY <2>1, <2>2
<1>3. Append(First(i, n), p) \in [1..(n + 1) -> E]
  <2>1. Append(First(i, n), p) \in Seq(E) /\ Len(Append(First(i, n), p)) = n + 1
    BY <1>1, <1>2
  <2>2. QED
    BY <2>1, LenProperties
<1>4. ASSUME NEW k \in 1..(n + 1) PROVE Append(First(i, n), p)[k] = First(i, n + 1)[k]
  BY <1>1, <1>2 DEF First
<1>5. First(i, n + 1) \in [1..(n + 1) -> E]
  BY DEF First
<1>6. Append(First(i, n), p) = First(i, n + 1)
  <2> DEFINE f == Append(First(i, n), p)
             g == First(i, n + 1)
  <2>1. f \in [1..(n + 1) -> E] /\ g \in [1..(n + 1) -> E] /\ \A k \in 1..(n + 1) : f[k] = g[k]
    BY <1>3, <1>4, <1>5
  <2> HIDE DEF f, g, E
  <2>2. f = g
    BY <2>1
  <2>3. QED
    BY <2>2 DEF f, g
<1>7. QED
  BY <1>2, <1>6

LEMMA EmptyFirst == ASSUME NEW i PROVE First(i, 0) = <<>> /\ Len(<<>>) = 0
  BY DEF First

LEMMA EndpointFits == Endpoint \in Endpoints /\ Report \in Endpoints /\ Control \in Endpoints
  BY DEF Endpoint, Endpoints

\* A packet that does not complete the stage is full, and leaves something to ask for.
LEMMA Partial ==
    ASSUME setting \in Settings, xfrlen \in Nat,
           NEW p \in Nat \ {0}, ~Complete(Size(Endpoint, p))
    PROVE  /\ Size(Endpoint, p) = MaxPktSize(Endpoint)
           /\ xfrlen + MaxPktSize(Endpoint) < NBytes(Endpoint)
<1>1. MaxPktSize(Endpoint) \in Nat /\ NBytes(Endpoint) \in Nat
  BY EndpointFits, SettingFits
<1>2. Size(Endpoint, p) \in 0..MaxPktSize(Endpoint)
  BY EndpointFits, Sizes
<1>3. QED
  BY <1>1, <1>2 DEF Complete

\* After n full packets, the next one completes the stage if it is the last one or the
\* empty one that follows it.
LEMMA Completes ==
    ASSUME setting \in Settings, NEW n \in Nat, xfrlen = n * MaxPktSize(Endpoint),
           n <= Parts(Endpoint), n = Parts(Endpoint) => ~ShowsEnd(Endpoint)
    PROVE  Complete(Size(Endpoint, n + 1)) <=>
                (n + 1 = Parts(Endpoint) /\ ShowsEnd(Endpoint)) \/ n = Parts(Endpoint)
<1> DEFINE M == MaxPktSize(Endpoint)
           L == Length(Endpoint)
           N == NBytes(Endpoint)
           k == Parts(Endpoint)
           z == Size(Endpoint, n + 1)
           t == n * M
<1>1. /\ M \in Nat \ {0} /\ L \in Nat \ {0} /\ N \in Nat /\ L <= N /\ k \in Nat \ {0}
      /\ (k - 1) * M < L
  BY EndpointFits, SettingFits
<1>2. /\ z \in 0..M
      /\ n + 1 < k => z = M
      /\ n + 1 = k => z = L - (k - 1) * M
      /\ n + 1 > k => z = 0
  BY EndpointFits, Sizes
<1>3. Complete(z) <=> z < M \/ t + z >= N
  BY DEF Complete
<1>4. ShowsEnd(Endpoint) <=> Size(Endpoint, k) < M \/ L = N
  BY DEF ShowsEnd
<1>5. CASE n + 1 < k
  <2>1. (n + 1) * M <= (k - 1) * M /\ (n + 1) * M = t + M
    BY <1>1, <1>5, Products
  <2>2. t + M < N
    <3> DEFINE u == (n + 1) * M
               v == (k - 1) * M
    <3>1. u <= v /\ u = t + M /\ v < L /\ u \in Nat /\ v \in Nat
      BY <1>1, <2>1
    <3>2. t \in Nat
      BY <1>1
    <3> HIDE DEF u, v, M, L, N, t
    <3>3. QED
      BY <1>1, <3>1, <3>2
  <2>3. t \in Nat
    BY <1>1
  <2> HIDE DEF M, L, N, k, z, t
  <2>4. ~Complete(z)
    BY <1>1, <1>2, <1>3, <1>5, <2>2, <2>3
  <2>5. QED
    BY <1>1, <1>5, <2>4 DEF k, z
<1>6. CASE n + 1 = k
  <2>1. k - 1 = n /\ z = L - t /\ t \in Nat
    BY <1>1, <1>2, <1>6
  <2>2. Size(Endpoint, k) = z
    BY <1>6
  <2> HIDE DEF M, L, N, k, z, t
  <2>3. Complete(z) <=> ShowsEnd(Endpoint)
    BY <1>1, <1>2, <1>3, <1>4, <2>1, <2>2
  <2>4. QED
    BY <1>1, <1>6, <2>3 DEF k, z
<1>7. CASE n = k
  BY <1>1, <1>2, <1>3, <1>7
<1>8. n + 1 < k \/ n + 1 = k \/ n = k
  <2> HIDE DEF k
  <2>1. n <= k
    BY DEF k
  <2>2. QED
    BY <1>1, <2>1
<1>9. QED
  BY <1>5, <1>6, <1>7, <1>8

LEMMA SteadyStep ==
    ASSUME RequestInv, ~MayHang, Steady, Next
    PROVE  Steady'
<1> USE DEF firmware, chip, device, history, Return, Dispatch, Ended, RequestInv, Steady, Running
<1>1. CASE Poll
  BY <1>1 DEF Poll, Carried, Typed, None, Tokens
<1>2. CASE \E k \in {"get", "set"} : XferCtrlReq(k)
  BY <1>2 DEF XferCtrlReq, Carried, Typed, None, Tokens
<1>3. CASE Launch
  BY <1>3 DEF Launch, Carried, Typed, None, Tokens
<1>4. CASE SeeDone
  BY <1>4 DEF SeeDone, Carried, Typed, None, Tokens
<1>5. CASE TimedOut
  BY <1>5 DEF TimedOut, Carried, Typed, None, Tokens
<1>6. CASE Repeat
  BY <1>6 DEF Repeat, Carried, Typed, None, Tokens
<1>7. CASE Fail
  BY <1>7 DEF Fail, Carried, Typed, None, Tokens
<1>8. CASE SetupSent
  BY <1>8 DEF SetupSent, Carried, Typed, None, Tokens
<1>9. CASE StatusSent
  BY <1>9 DEF StatusSent, Carried, Typed, None, Tokens
<1>10. CASE PacketIn
  BY <1>10 DEF PacketIn, Carried, Typed, None, Tokens
<1>11. CASE NothingToRead
  BY <1>11 DEF NothingToRead, Carried, Typed, None, Tokens
<1>12. CASE Read
  BY <1>12 DEF Read, Carried, Typed, None, Tokens
<1>13. CASE Lost
  BY <1>13 DEF Lost, Carried, Typed, None, Tokens
<1>14. CASE Refused
  BY <1>14 DEF Refused, Carried, Typed, None, Tokens
<1>15. CASE SetupTaken
  BY <1>15 DEF SetupTaken, Carried, Typed, None, Tokens
<1>16. CASE DataIn
  <2>1. pc = "wait" /\ rcvfifo = <<>> /\ token = "IN" /\ sie' = None /\ hxfrdnirq' = TRUE
    BY <1>16 DEF DataIn, Carried, Typed, None
  <2>2. \A p : Len(Append(<<>>, p)) = 1
    OBVIOUS
  <2>3. IF hrsl' = "SUCCESS" THEN Len(rcvfifo') = 1 ELSE rcvfifo' = <<>>
    BY <1>16, <2>1, <2>2 DEF DataIn
  <2>4. hrsl' \in {"SUCCESS", "TOGERR"} /\ UNCHANGED firmware
    BY <1>16 DEF DataIn
  <2>5. QED
    BY <2>1, <2>3, <2>4 DEF None
<1>17. CASE StatusIn
  BY <1>17 DEF StatusIn, Carried, Typed, None, Tokens
<1>18. CASE StatusOut
  BY <1>18 DEF StatusOut, Carried, Typed, None, Tokens
<1>19. CASE NewReport
  BY <1>19 DEF NewReport, Carried, Typed, None, Tokens
<1>20. QED
  BY <1>1, <1>2, <1>3, <1>4, <1>5, <1>6, <1>7, <1>8, <1>9, <1>10, <1>11, <1>12, <1>13, <1>14,
     <1>15, <1>16, <1>17, <1>18, <1>19, Starting
    DEF Next, Transfer, Bus, RequestInv, Typed

\* The packets read so far stay counted.
LEMMA CountedStep ==
    ASSUME RequestInv, Steady, Counted, Next
    PROVE  Counted'
<1> USE DEF firmware, chip, device, history, Return, Dispatch, Ended
<1>0. /\ UNCHANGED setting /\ setting \in Settings /\ xfrlen \in Nat
      /\ \A e : MaxPktSize(e)' = MaxPktSize(e) /\ NBytes(e)' = NBytes(e)
      /\ Len(<<>>) = 0
  BY SettingStays DEF Next, RequestInv, Typed
<1>1. ASSUME pc # "idle", UNCHANGED <<kind, token, data, xfrlen>> PROVE Counted'
  BY <1>0, <1>1 DEF Counted, Polling, Getting, Endpoint
<1>2. ASSUME xfrlen' = 0, data' = <<>> PROVE Counted'
  <2>1. Endpoint' \in Endpoints
    BY DEF Endpoint, Endpoints
  <2>2. MaxPktSize(Endpoint)' \in Nat \ {0} /\ NBytes(Endpoint)' \in Nat \ {0}
    BY <1>0, <2>1, SettingFits
  <2>3. Len(data)' * MaxPktSize(Endpoint)' = 0
    BY <1>0, <1>2, <2>2
  <2>4. QED
    BY <1>2, <2>2, <2>3 DEF Counted
<1>3. ASSUME ~Polling', ~Getting' PROVE Counted'
  BY <1>3 DEF Counted
<1>4. CASE Poll \/ \E k \in {"get", "set"} : XferCtrlReq(k)
  BY <1>2, <1>4 DEF Poll, XferCtrlReq, Steady
<1>5. CASE SetupSent
  BY <1>2, <1>5 DEF SetupSent, Steady
<1>6. CASE TimedOut \/ Fail \/ StatusSent \/ NothingToRead
  <2>1. pc' = "idle"
    BY <1>6 DEF TimedOut, Fail, StatusSent, NothingToRead
  <2>2. QED
    BY <1>3, <2>1 DEF Polling, Getting
<1>7. CASE Repeat
  <2>1. CASE GivesUp
    <3>1. pc' = "idle"
      BY <1>7, <2>1 DEF Repeat
    <3>2. QED
      BY <1>3, <3>1 DEF Polling, Getting
  <2>2. CASE ~GivesUp
    BY <1>1, <1>7, <2>2 DEF Repeat
  <2>3. QED
    BY <2>1, <2>2
<1>8. CASE Read
  <2> DEFINE z == Size(Endpoint, Head(rcvfifo).part)
  <2>1. CASE Complete(z)
    <3>1. pc' = "idle" \/ (kind' = "get" /\ token' = "OUTHS")
      BY <1>8, <2>1 DEF Read
    <3>2. QED
      BY <1>3, <3>1 DEF Polling, Getting
  <2>2. CASE ~Complete(z)
    <3>1. /\ pc = "read" /\ token = "IN" /\ kind \in {"poll", "get"} /\ kind' = kind
          /\ xfrlen' = xfrlen + z /\ data' = Append(data, Head(rcvfifo))
      BY <1>8, <2>2 DEF Read, RequestInv, Carried, Typed
    <3>2. Head(rcvfifo) \in Packet /\ data \in Seq(Packet)
      BY <1>8 DEF Read, RequestInv, Typed
    <3>3. z = MaxPktSize(Endpoint) /\ xfrlen + MaxPktSize(Endpoint) < NBytes(Endpoint)
      BY <1>0, <2>2, <3>2, Partial DEF Packet
    <3>4. Len(data') = Len(data) + 1 /\ Len(data) \in Nat
      BY <3>1, <3>2
    <3>5. xfrlen = Len(data) * MaxPktSize(Endpoint)
      BY <3>1 DEF Counted, Polling, Getting
    <3>6. MaxPktSize(Endpoint) \in Nat
      BY <1>0, EndpointFits, SettingFits
    <3>7. xfrlen' = Len(data') * MaxPktSize(Endpoint)
      BY <3>1, <3>3, <3>4, <3>5, <3>6
    <3>8. MaxPktSize(Endpoint)' = MaxPktSize(Endpoint) /\ NBytes(Endpoint)' = NBytes(Endpoint)
      BY <1>0, <3>1 DEF Endpoint
    <3>9. QED
      BY <3>1, <3>3, <3>7, <3>8 DEF Counted
  <2>3. QED
    BY <2>1, <2>2
<1>9. CASE Launch \/ SeeDone \/ PacketIn
  BY <1>1, <1>9 DEF Launch, SeeDone, PacketIn
<1>10. CASE Bus \/ NewReport
  <2>1. UNCHANGED <<pc, kind, token, data, xfrlen>>
    BY <1>10 DEF Bus, NewReport, Lost, Refused, SetupTaken, DataIn, StatusIn, StatusOut
  <2>2. CASE pc = "idle"
    BY <1>3, <2>1, <2>2 DEF Polling, Getting
  <2>3. QED
    BY <1>1, <2>1, <2>2
<1>11. QED
  BY <1>4, <1>5, <1>6, <1>7, <1>8, <1>9, <1>10, Starting
     DEF Next, Transfer, RequestInv, Typed

\* What does not change keeps what is said of it.
LEMMA SameSetting ==
    ASSUME UNCHANGED setting
    PROVE  /\ (Fills' <=> Fills)
           /\ \A e, i : Whole(e, i)' = Whole(e, i)
           /\ \A i : Answers(i)' = Answers(i)
  BY SettingStays DEF Fills, Whole, Answers

LEMMA SamePackets ==
    ASSUME UNCHANGED <<data, rcvfifo>>
    PROVE  /\ Newest' = Newest /\ (Received' <=> Received) /\ Count' = Count
           /\ \A i : InOrder(i)' <=> InOrder(i)
  BY DEF Newest, Received, Count, InOrder

LEMMA SamePlace ==
    ASSUME UNCHANGED <<setting, rcvtog, tog, item, part, ready>>, Newest' = Newest
    PROVE  \A e : Aligned(e)' <=> Aligned(e)
  BY SettingStays DEF Aligned

\* A step within a transfer that changes neither packets nor toggles.
LEMMA QuietStep ==
    ASSUME RequestInv, Kept, pc # "idle", pc' # "idle",
           UNCHANGED <<kind, request, token, rcvToggle, rcvtog, data, rcvfifo,
                       tog, item, part, ready, unheard, announced, setting>>,
           Repeated => Repeated',
           ShowsEnd(Report) /\ ~announced /\ Polling /\ Running' /\ hrsl' = "NAK" /\ Received =>
                part[Report] = 1 /\ Newest.item \notin unheard,
           Running' /\ token = "SETUP" /\ hrsl' = "SUCCESS" => tog[Control] = 1 /\ part[Control] = 1
    PROVE  Known'
<1>1. /\ Newest' = Newest /\ (Received' <=> Received) /\ Count' = Count
      /\ \A i : InOrder(i)' <=> InOrder(i)
  BY SamePackets
<1>2. \A e : Aligned(e)' <=> Aligned(e)
  BY <1>1, SamePlace
<1>3. /\ \A e : Parts(e)' = Parts(e) /\ (ShowsEnd(e)' <=> ShowsEnd(e))
      /\ (Fills' <=> Fills)
      /\ \A i : Answers(i)' = Answers(i)
  BY SettingStays, SameSetting
<1>4. /\ (Polling' <=> Polling) /\ (Getting' <=> Getting)
  BY DEF Polling, Getting
<1>5. Get'
  BY <1>1, <1>2, <1>3, <1>4 DEF Kept, Known, Get, Successful
<1>6. Polled'
  BY <1>1, <1>2, <1>3, <1>4 DEF Kept, Known, Polled
<1>7. Framed'
  BY <1>1, <1>3, <1>4 DEF Kept, Known, Framed, Successful
<1>8. Heard'
  <2>1. Expected' = Expected
    BY <1>4 DEF Expected
  <2>2. QED
    BY <1>1, <1>3, <1>4, <2>1 DEF Kept, Known, Heard
<1>9. Missed'
  BY <1>1, <1>3, <1>4 DEF Kept, Known, Missed
<1>10. Refusal'
  BY <1>1, <1>3, <1>4 DEF Refusal
<1>11. QED
  BY <1>5, <1>6, <1>7, <1>8, <1>9, <1>10 DEF Known

\* What was received last is a packet.
LEMMA NewestTyped ==
    ASSUME RequestInv, Received
    PROVE  Newest \in Packet /\ Newest.part \in Nat \ {0} /\ Newest.item \in 0..2
           /\ Count \in Nat \ {0}
<1>1. data \in Seq(Packet) /\ rcvfifo \in Seq(Packet)
  BY DEF RequestInv, Typed
<1>2. Newest \in Packet
  <2>1. rcvfifo # <<>> => Head(rcvfifo) \in Packet
    BY <1>1
  <2>2. rcvfifo = <<>> => data[Len(data)] \in Packet
    BY <1>1 DEF Received
  <2>3. QED
    BY <2>1, <2>2 DEF Newest
<1>3. Count \in Nat \ {0}
  BY <1>1 DEF Received, Count
<1>4. QED
  BY <1>2, <1>3 DEF Packet

\* The device's places in terms of the newest packet: at it, after it in the same report,
\* or at the next report.
LEMMA Places ==
    ASSUME RequestInv, Kept, Polling, Received
    PROVE  /\ Newest.part \in Nat \ {0} /\ Newest.part <= Parts(Report) /\ Parts(Report) \in Nat
           /\ \/ /\ tog[Report] # rcvtog /\ ready
                 /\ item[Report] = Newest.item /\ part[Report] = Newest.part
              \/ /\ tog[Report] = rcvtog /\ ready /\ Newest.part < Parts(Report)
                 /\ item[Report] = Newest.item /\ part[Report] = Newest.part + 1
              \/ /\ tog[Report] = rcvtog /\ Newest.part = Parts(Report)
                 /\ item[Report] # Newest.item /\ part[Report] = 1
<1>1. Newest.part \in Nat \ {0} /\ Newest.item \in 0..2
  BY NewestTyped
<1>2. Following(Newest.item) # Newest.item
  BY <1>1 DEF Following
<1>3. Aligned(Report) /\ Newest.part <= Parts(Report)
  BY DEF Kept, Known, Polled
<1>4. Parts(Report) \in Nat
  BY EndpointFits, SettingFits DEF RequestInv, Typed
<1>5. ~(Newest.part > Parts(Report)) /\ (Newest.part # Parts(Report) => Newest.part < Parts(Report))
  BY <1>1, <1>3, <1>4
<1>6. QED
  BY <1>1, <1>2, <1>3, <1>4, <1>5 DEF Aligned

\* A transfer that returns something else than success, or a request that succeeds.
LEMMA EndStep ==
    ASSUME RequestInv, Kept, pc # "idle", pc' = "idle",
           UNCHANGED <<kind, request, rcvToggle, rcvtog, data, rcvfifo, tog, item, part,
                       ready, unheard, setting>>,
           announced' = IF kind = "poll" /\ hrsl # "NAK" THEN TRUE ELSE announced,
           kind = "poll" => Running /\ rcode' # "SUCCESS",
           kind = "get" /\ rcode' = "SUCCESS" => token = "OUTHS"
    PROVE  Known'
<1>1. /\ \A e : Parts(e)' = Parts(e) /\ (ShowsEnd(e)' <=> ShowsEnd(e))
      /\ (Fills' <=> Fills)
      /\ \A i : Answers(i)' = Answers(i)
  BY SettingStays, SameSetting
<1>2. ~Polling' /\ ~Getting' /\ ~Running'
  BY DEF Polling, Getting, Running
<1>3. Get'
  BY <1>1, <1>2 DEF Kept, Known, Get, Successful
<1>4. Polled'
  BY <1>1, <1>2 DEF Kept, Known, Polled
<1>5. Framed'
  BY <1>1, <1>2 DEF Kept, Known, Framed, Successful
<1>6. Heard'
  <2>1. Expected = (IF kind = "poll" THEN rcvtog ELSE rcvToggle[Report]) /\ Expected' = rcvToggle[Report]
    BY <1>2 DEF Expected, Polling
  <2>2. CASE Polling /\ Received
    <3>1. ASSUME ready, item[Report] \notin unheard PROVE Fills /\ part[Report] > 1
      <4>1. item[Report] = Newest.item /\ Fills /\ Newest.part > Count
        BY <2>2, <3>1 DEF Kept, Known, Heard
      <4>2. Count \in Nat \ {0} /\ Newest.part \in Nat \ {0}
        BY <2>2, NewestTyped
      <4>3. part[Report] \in {Newest.part, Newest.part + 1}
        BY <2>2, <4>1, Places
      <4>4. QED
        BY <4>1, <4>2, <4>3
    <3>2. QED
      BY <1>1, <1>2, <3>1 DEF Heard
  <2>3. CASE ~(Polling /\ Received)
    <3>1. Expected = rcvToggle[Report]
      BY <2>1, <2>3 DEF Kept, Known, Polled, Polling
    <3>2. QED
      BY <1>1, <1>2, <2>1, <2>3, <3>1 DEF Kept, Known, Heard
  <2>4. QED
    BY <2>2, <2>3
<1>7. Missed'
  <2> SUFFICES ASSUME ShowsEnd(Report), ~announced'
               PROVE  unheard \subseteq {item[Report]} /\ (item[Report] \in unheard => part[Report] = 1)
    BY <1>1, <1>2 DEF Missed
  <2>1. ~announced /\ (kind = "poll" => hrsl = "NAK" /\ Running)
    OBVIOUS
  <2>2. CASE Polling /\ Received
    <3>1. part[Report] = 1 /\ Newest.item \notin unheard
      BY <2>1, <2>2 DEF Kept, Known, Refusal, Polling
    <3>2. unheard \subseteq {item[Report], Newest.item}
      BY <2>1, <2>2 DEF Kept, Known, Missed, Repeated, Polling
    <3>3. QED
      BY <3>1, <3>2
  <2>3. CASE ~(Polling /\ Received)
    <3>1. ~(Polling /\ Repeated)
      BY <2>1 DEF Repeated, Polling
    <3>2. QED
      BY <2>1, <2>3, <3>1 DEF Kept, Known, Missed
  <2>4. QED
    BY <2>2, <2>3
<1>8. Refusal'
  BY <1>2 DEF Refusal
<1>9. QED
  BY <1>3, <1>4, <1>5, <1>6, <1>7, <1>8 DEF Known

\* A transfer starts with nothing received.
LEMMA StartStep ==
    ASSUME RequestInv, Kept, Poll \/ (\E k \in {"get", "set"} : XferCtrlReq(k)), UNCHANGED setting
    PROVE  Known'
<1> USE DEF chip, device, history, Dispatch
<1>0. /\ \A e : Parts(e)' = Parts(e) /\ (ShowsEnd(e)' <=> ShowsEnd(e))
      /\ (Fills' <=> Fills)
  BY SettingStays, SameSetting
<1>1. /\ pc = "idle" /\ pc' = "launch" /\ data' = <<>> /\ rcvfifo' = <<>>
      /\ rcvfifo = <<>>
      /\ UNCHANGED <<rcvToggle, tog, item, part, ready, unheard, announced>>
      /\ \/ kind' = "poll" /\ token' = "IN" /\ rcvtog' = rcvToggle[Report]
         \/ kind' \in {"get", "set"} /\ token' = "SETUP" /\ rcvtog' = rcvtog
  BY DEF Poll, XferCtrlReq, Kept, Steady, Running
<1>2. ~Received' /\ ~Getting' /\ ~Running' /\ ~Polling /\ ~Repeated'
  BY <1>1 DEF Received, Getting, Running, Polling, Repeated
<1>3. Get'
  BY <1>1, <1>2 DEF Get, Successful
<1>4. Polled'
  BY <1>0, <1>1, <1>2 DEF Kept, Known, Polled, Polling
<1>5. Framed'
  <2>1. Len(data') = 0 /\ Len(rcvfifo') = 0 /\ Parts(Report) \in Nat \ {0} /\ Count' = 0
    BY <1>1, EndpointFits, SettingFits DEF RequestInv, Typed, Count
  <2>2. QED
    BY <1>0, <1>1, <1>2, <2>1 DEF Kept, Known, Framed, Polling, Successful
<1>6. Heard'
  <2>1. Expected = rcvToggle[Report] /\ Expected' = rcvToggle[Report]
    BY <1>1, <1>2 DEF Expected, Polling
  <2>2. QED
    BY <1>0, <1>1, <1>2, <2>1 DEF Kept, Known, Heard
<1>7. Missed' /\ Refusal'
  BY <1>0, <1>1, <1>2 DEF Kept, Known, Missed, Refusal, Polling
<1>8. QED
  BY <1>3, <1>4, <1>5, <1>6, <1>7 DEF Known

\* A step of a control request leaves the reports alone.
LEMMA ControlStep ==
    ASSUME RequestInv, Kept, pc # "idle", pc' # "idle", kind # "poll", UNCHANGED setting,
           UNCHANGED <<kind, rcvToggle[Report], tog[Report], item[Report], part[Report], ready,
                       unheard, announced>>
    PROVE  Polled' /\ Framed' /\ Heard' /\ Missed' /\ Refusal'
<1>1. /\ \A e : Parts(e)' = Parts(e) /\ (ShowsEnd(e)' <=> ShowsEnd(e))
      /\ (Fills' <=> Fills)
  BY SettingStays, SameSetting
<1>2. ~Polling /\ ~Polling' /\ Expected = rcvToggle[Report] /\ Expected' = rcvToggle'[Report]
  BY DEF Polling, Expected
<1>3. Polled' /\ Framed'
  BY <1>1, <1>2 DEF Kept, Known, Polled, Framed, Successful
<1>4. Heard'
  BY <1>1, <1>2 DEF Kept, Known, Heard
<1>5. Missed' /\ Refusal'
  BY <1>1, <1>2 DEF Kept, Known, Missed, Refusal
<1>6. QED
  BY <1>3, <1>4, <1>5

\* The setup packet has been taken: the data stage of a request starts with DATA1.
LEMMA SetupStep ==
    ASSUME RequestInv, Kept, SetupSent, UNCHANGED setting
    PROVE  Known'
<1> USE DEF chip, device, history, Dispatch
<1>0. \A e : Parts(e)' = Parts(e) /\ (ShowsEnd(e)' <=> ShowsEnd(e))
  BY SettingStays
<1>1. /\ pc = "judge" /\ pc' = "launch" /\ kind \in {"get", "set"} /\ token = "SETUP"
      /\ hrsl = "SUCCESS" /\ data = <<>> /\ rcvfifo = <<>>
      /\ tog[Control] = 1 /\ part[Control] = 1
      /\ UNCHANGED <<kind, request, data, rcvfifo, tog, item, part, ready, unheard, announced>>
      /\ rcvToggle'[Report] = rcvToggle[Report]
      /\ \/ kind = "set" /\ token' = "INHS"
         \/ kind = "get" /\ token' = "IN" /\ rcvtog' = 1
  BY DEF SetupSent, Kept, Steady, Known, Get, Running, RequestInv, Typed, Control, Report
<1>2. ~Received' /\ ~Running'
  BY <1>1 DEF Received, Running
<1>3. Get'
  <2>1. InOrder(request)'
    BY <1>1, EmptyFirst DEF InOrder
  <2>2. Len(data') = 0 /\ Parts(Control) \in Nat \ {0}
    BY <1>1, EndpointFits, SettingFits DEF RequestInv, Typed
  <2>3. ~(pc' = "idle") /\ ~(token' = "OUTHS")
    BY <1>1
  <2>4. Getting' => /\ Len(data') <= Parts(Control)' /\ Len(data') # Parts(Control)'
                    /\ rcvtog' = 1 /\ tog'[Control] = 1 /\ part'[Control] = 1
    BY <1>0, <1>1, <2>2 DEF Getting
  <2>5. QED
    BY <1>2, <2>1, <2>3, <2>4 DEF Get, Successful
<1>4. QED
  BY <1>1, <1>3, ControlStep DEF Known

\* The device takes a setup packet.
LEMMA SetupTakenStep ==
    ASSUME RequestInv, Kept, SetupTaken, UNCHANGED setting
    PROVE  Known'
<1> USE DEF Ended, firmware, history
<1>1. /\ pc = "wait" /\ token = "SETUP" /\ kind # "poll"
      /\ UNCHANGED <<pc, kind, request, token, rcvToggle, rcvtog, data, rcvfifo, rcode,
                     ready, unheard, announced>>
      /\ tog'[Control] = 1 /\ part'[Control] = 1
      /\ tog'[Report] = tog[Report] /\ part'[Report] = part[Report] /\ item'[Report] = item[Report]
  <2>1. sie # None
    BY DEF SetupTaken, None
  <2>2. pc = "wait" /\ token = "SETUP" /\ kind # "poll"
    BY <2>1 DEF SetupTaken, Kept, Steady, RequestInv, Carried, Running
  <2>3. 0 \in DOMAIN tog /\ 0 \in DOMAIN part
    BY DEF RequestInv, Typed
  <2>4. QED
    BY <2>2, <2>3 DEF SetupTaken, Control, Report
<1>2. ~Getting' /\ pc' # "idle" /\ token' = "SETUP"
  BY <1>1 DEF Getting
<1>3. Get'
  BY <1>1, <1>2 DEF Get, Successful
<1>4. QED
  BY <1>1, <1>3, ControlStep DEF Known

\* The device has a new report.
LEMMA NewReportStep ==
    ASSUME RequestInv, Kept, NewReport, UNCHANGED setting
    PROVE  Known'
<1> USE DEF firmware, chip
<1>0. /\ \A e : Parts(e)' = Parts(e) /\ (ShowsEnd(e)' <=> ShowsEnd(e))
      /\ (Fills' <=> Fills)
      /\ \A e, i : Whole(e, i)' = Whole(e, i)
      /\ \A i : Answers(i)' = Answers(i)
  BY SettingStays, SameSetting
<1>1. /\ ~ready /\ ready' = TRUE /\ unheard' = unheard \cup {item[Report]}
      /\ UNCHANGED <<pc, kind, request, token, rcvToggle, rcvtog, xfrlen, data, rcvfifo, hrsl,
                     rcode, tog, item, part, announced>>
      /\ part[Report] = 1
  BY DEF NewReport, Kept, Known, Polled
<1>2. /\ Newest' = Newest /\ (Received' <=> Received) /\ Count' = Count
      /\ \A i : InOrder(i)' <=> InOrder(i)
  BY <1>1, SamePackets
<1>3. \A e : Aligned(e) => Aligned(e)'
  BY <1>0, <1>1, <1>2 DEF Aligned
<1>4. /\ (Polling' <=> Polling) /\ (Getting' <=> Getting) /\ (Running' <=> Running)
      /\ (Repeated' <=> Repeated)
  BY <1>1 DEF Polling, Getting, Running, Repeated
<1>5. Polling /\ Received => item[Report] # Newest.item
  BY <1>1, Places
<1>6. Get'
  BY <1>0, <1>1, <1>2, <1>3, <1>4 DEF Kept, Known, Get, Successful
<1>7. Polled'
  BY <1>0, <1>1, <1>2, <1>3, <1>4 DEF Kept, Known, Polled
<1>8. Framed'
  <2>1. Successful({"poll"})' <=> Successful({"poll"})
    BY <1>1 DEF Successful
  <2>2. QED
    BY <1>0, <1>1, <1>2, <1>4, <2>1 DEF Kept, Known, Framed
<1>9. Heard'
  BY <1>0, <1>1, <1>2, <1>4 DEF Kept, Known, Heard
<1>10. Missed' /\ Refusal'
  BY <1>0, <1>1, <1>2, <1>4, <1>5 DEF Kept, Known, Missed, Refusal
<1>11. QED
  BY <1>6, <1>7, <1>8, <1>9, <1>10 DEF Known

\* The packet that is read is the newest, and the only one in the receive buffers.
LEMMA ReadFacts ==
    ASSUME RequestInv, Kept, Read, UNCHANGED setting
    PROVE  /\ pc = "read" /\ token = "IN" /\ kind \in {"poll", "get"}
           /\ rcvfifo # <<>> /\ rcvfifo' = <<>> /\ Received /\ Received'
           /\ Newest = Head(rcvfifo) /\ Newest' = Newest /\ Newest \in Packet
           /\ data' = Append(data, Newest) /\ data' # <<>>
           /\ Len(data) \in Nat /\ Len(data') = Len(data) + 1
           /\ Count = Len(data) + 1 /\ Count' = Count
           /\ UNCHANGED <<kind, request, hrsl, rcvtog, tog, item, part, ready>>
           /\ \A e : Aligned(e)' <=> Aligned(e)
<1>1. /\ pc = "read" /\ token = "IN" /\ hrsl = "SUCCESS" /\ rcvfifo # <<>>
      /\ kind \in {"poll", "get"}
  BY DEF Read, RequestInv, Carried, Typed
<1>2. Len(rcvfifo) = 1 /\ rcvfifo \in Seq(Packet) /\ data \in Seq(Packet)
  BY <1>1 DEF Kept, Steady, RequestInv, Typed
<1>3. Newest = Head(rcvfifo) /\ Head(rcvfifo) \in Packet
  BY <1>1, <1>2 DEF Newest
<1>4. rcvfifo' = <<>> /\ Len(rcvfifo') = 0
  BY <1>2 DEF Read
<1>5. data' = Append(data, Newest)
  BY <1>3 DEF Read
<1>6. /\ Len(data) \in Nat /\ Len(data') = Len(data) + 1 /\ data'[Len(data) + 1] = Newest
      /\ data' # <<>>
  BY <1>2, <1>3, <1>5
<1>7. Newest' = Newest /\ Received /\ Received'
  BY <1>1, <1>4, <1>6 DEF Newest, Received
<1>8. Count = Len(data) + 1 /\ Count' = Count
  BY <1>2, <1>4, <1>6 DEF Count
<1>9. UNCHANGED <<kind, request, hrsl, rcvtog, tog, item, part, ready>>
  BY DEF Read, device
<1>10. \A e : Aligned(e)' <=> Aligned(e)
  BY <1>7, <1>9, SamePlace
<1>11. QED
  BY <1>1, <1>2, <1>3, <1>4, <1>5, <1>6, <1>7, <1>8, <1>9, <1>10

\* A packet that continues what is in order.
LEMMA ReadInOrder ==
    ASSUME RequestInv, Kept, Read, UNCHANGED setting, NEW i, InOrder(i)
    PROVE  /\ Newest.part = Len(data) + 1
           /\ data' = First(i, Len(data) + 1)
           /\ InOrder(i)'
<1> DEFINE n == Len(data)
<1>1. n \in Nat /\ Newest = [item |-> i, part |-> n + 1] /\ data = First(i, n)
  BY ReadFacts DEF InOrder
<1>2. Append(First(i, n), Newest) = First(i, n + 1)
  BY <1>1, OneMore
<1>3. data' = First(i, n + 1) /\ Len(data') = n + 1 /\ rcvfifo' = <<>>
  BY <1>1, <1>2, ReadFacts
<1>4. InOrder(i)'
  BY <1>3 DEF InOrder
<1>5. QED
  BY <1>1, <1>3, <1>4

\* A packet of an answer is read.
LEMMA ReadGetStep ==
    ASSUME RequestInv, Kept, Read, kind = "get", UNCHANGED setting
    PROVE  Known'
<1> USE DEF history, Dispatch
<1> DEFINE n == Len(data)
           P == Parts(Control)
<1>0. /\ P' = P /\ (ShowsEnd(Control)' <=> ShowsEnd(Control)) /\ P \in Nat \ {0}
      /\ \A i : Answers(i)' = Answers(i)
      /\ Endpoint = Control /\ setting \in Settings
  BY SettingStays, SameSetting, EndpointFits, SettingFits DEF RequestInv, Typed, Endpoint
<1>1. Getting
  BY ReadFacts DEF Getting
<1>2. InOrder(request) /\ n <= P /\ (n = P => ~ShowsEnd(Control)) /\ Aligned(Control) /\ n \in Nat
  BY <1>1, ReadFacts DEF Kept, Known, Get
<1>3. Complete(Size(Endpoint, Newest.part)) <=> (n + 1 = P /\ ShowsEnd(Control)) \/ n = P
  <2>1. xfrlen = n * MaxPktSize(Endpoint)
    BY <1>1 DEF Kept, Counted
  <2>2. Newest.part = n + 1
    BY <1>2, ReadInOrder
  <2>3. QED
    BY <1>0, <1>2, <2>1, <2>2, Completes
<1>4. data' = First(request, n + 1) /\ InOrder(request)'
  <2>1. PICK i : i = request
    OBVIOUS
  <2>2. InOrder(i)
    BY <1>2, <2>1
  <2>3. data' = First(i, n + 1) /\ InOrder(i)'
    BY <2>2, ReadInOrder
  <2>4. request' = i
    BY <2>1, ReadFacts
  <2>5. QED
    BY <2>1, <2>3, <2>4 DEF InOrder
<1>5. /\ pc' = "launch" /\ UNCHANGED <<unheard, announced>>
      /\ rcvToggle'[Report] = rcvToggle[Report]
      /\ token' = IF Complete(Size(Endpoint, Newest.part)) THEN "OUTHS" ELSE "IN"
  BY ReadFacts DEF Read, Return, Endpoint, RequestInv, Typed, Control, Report
<1>6. Get'
  <2>1. CASE Complete(Size(Endpoint, Newest.part))
    <3>1. First(request, P) = Whole(Control, request)
      BY DEF First, Whole
    <3>2. First(request, P + 1) = Append(Whole(Control, request), [item |-> request, part |-> P + 1])
      BY <1>0, <3>1, OneMore
    <3>3. data' \in Answers(request)
      BY <1>3, <1>4, <2>1, <3>1, <3>2 DEF Answers
    <3>4. ~Running' /\ ~Getting' /\ pc' # "idle"
      BY <1>5, <2>1 DEF Running, Getting
    <3>5. request' = request /\ data' \in Answers(request)'
      BY <1>0, <3>3, ReadFacts
    <3>6. QED
      BY <3>4, <3>5 DEF Get, Successful
  <2>2. CASE ~Complete(Size(Endpoint, Newest.part))
    <3>1. ~Running' /\ token' = "IN" /\ pc' # "idle"
      BY <1>5, <2>2 DEF Running
    <3>2. InOrder(request)' /\ Aligned(Control)' /\ Received'
      BY <1>2, <1>4, ReadFacts
    <3>3. Len(data') <= P /\ (Len(data') = P => ~ShowsEnd(Control))
      BY <1>0, <1>2, <1>3, <2>2, ReadFacts
    <3>4. QED
      BY <1>0, <3>1, <3>2, <3>3 DEF Get, Successful
  <2>3. QED
    BY <2>1, <2>2
<1>7. QED
  BY <1>5, <1>6, ControlStep, ReadFacts DEF Known

\* A full packet does not end a poll that has fewer packets than a report.
LEMMA NotYet ==
    ASSUME RequestInv, Kept, Read, kind = "poll", UNCHANGED setting,
           Size(Report, Newest.part) = MaxPktSize(Report), Count < Parts(Report)
    PROVE  ~Complete(Size(Report, Newest.part))
<1> DEFINE M == MaxPktSize(Report)
           n == Len(data)
           u == (n + 1) * M
           v == (Parts(Report) - 1) * M
<1>1. /\ M \in Nat \ {0} /\ NBytes(Report) \in Nat /\ Length(Report) <= NBytes(Report)
      /\ v < Length(Report) /\ Length(Report) \in Nat /\ Parts(Report) \in Nat \ {0}
  BY EndpointFits, SettingFits DEF RequestInv, Typed
<1>2. Endpoint = Report /\ n \in Nat /\ n + 1 <= Parts(Report) - 1
  BY <1>1, ReadFacts DEF Endpoint
<1>3. xfrlen = n * M
  BY <1>2, ReadFacts DEF Kept, Counted, Polling
<1>4. u <= v /\ u = xfrlen + M /\ xfrlen \in Nat /\ v \in Nat
  <2>1. n + 1 \in Nat /\ Parts(Report) - 1 \in Nat
    <3>1. Parts(Report) \in Nat \ {0}
      BY <1>1
    <3>2. QED
      BY <1>2, <3>1
  <2>2. u <= v
    BY <1>1, <1>2, <2>1, Products
  <2>3. v \in Nat
    BY <1>1, <2>1
  <2>4. u = n * M + M /\ n * M \in Nat
    <3>1. M \in Nat /\ n \in Nat
      BY <1>1, <1>2
    <3> HIDE DEF M, n, v
    <3>2. QED
      BY <3>1
  <2>5. QED
    BY <1>3, <2>2, <2>3, <2>4
<1> HIDE DEF M, u, v
<1>5. xfrlen + M < NBytes(Report)
  BY <1>1, <1>4
<1>6. ~(M < M) /\ ~(xfrlen + M >= NBytes(Report))
  BY <1>1, <1>4, <1>5
<1>7. QED
  BY <1>2, <1>6 DEF Complete, M

\* A packet of a report is read: what it tells if it ends the poll.
LEMMA ReadEnds ==
    ASSUME RequestInv, Kept, Read, kind = "poll", UNCHANGED setting,
           Complete(Size(Report, Newest.part))
    PROVE  /\ Newest.item \in unheard
           /\ Fills \/ Newest.part = Parts(Report)
           /\ ShowsEnd(Report) /\ ~announced => unheard \subseteq {item[Report], Newest.item}
<1>1. Polling /\ Received /\ ~Repeated /\ Count \in Nat
  BY ReadFacts DEF Polling, Repeated, Running
<1>2. /\ Newest.part \in Nat \ {0} /\ Newest.part <= Parts(Report) /\ Parts(Report) \in Nat
  BY <1>1, Places
<1>3. setting \in Settings /\ Report \in Endpoints
  BY EndpointFits DEF RequestInv, Typed
<1>4. Newest.item \in unheard
  <2> SUFFICES ASSUME Newest.item \notin unheard PROVE FALSE
    OBVIOUS
  <2>1. Fills /\ Newest.part > Count
    BY <1>1 DEF Kept, Known, Heard
  <2>2. Size(Report, Newest.part) = MaxPktSize(Report)
    <3>1. CASE Newest.part = Parts(Report)
      BY <2>1, <3>1 DEF Fills
    <3>2. CASE Newest.part < Parts(Report)
      BY <1>2, <1>3, <3>2, Sizes
    <3>3. QED
      BY <1>2, <3>1, <3>2
  <2>3. Count < Parts(Report)
    BY <1>1, <1>2, <2>1
  <2>4. QED
    BY <2>2, <2>3, NotYet
<1>5. Fills \/ Newest.part = Parts(Report)
  <2> SUFFICES ASSUME ~Fills, Newest.part < Parts(Report) PROVE FALSE
    BY <1>2
  <2>1. Count <= Newest.part
    BY <1>1 DEF Kept, Known, Polled
  <2>2. Size(Report, Newest.part) = MaxPktSize(Report)
    BY <1>2, <1>3, Sizes
  <2>3. Count < Parts(Report)
    BY <1>1, <1>2, <2>1
  <2>4. QED
    BY <2>2, <2>3, NotYet
<1>6. ShowsEnd(Report) /\ ~announced => unheard \subseteq {item[Report], Newest.item}
  BY <1>1 DEF Kept, Known, Missed
<1>7. QED
  BY <1>4, <1>5, <1>6

\* Where a poll of reports of one packet or two is that show their end.
LEMMA ReadFramed ==
    ASSUME RequestInv, Kept, Read, kind = "poll", UNCHANGED setting,
           Parts(Report) <= 2, ShowsEnd(Report)
    PROVE  /\ Complete(Size(Report, Newest.part)) <=> Count = Parts(Report)
           /\ Count <= Parts(Report) /\ Count \in Nat
           /\ Newest.part = Count /\ data' = First(Newest.item, Count) /\ InOrder(Newest.item)'
           /\ Parts(Report) = 2 => rcvtog = IF Count = 1 THEN 1 ELSE 0
<1> DEFINE n == Len(data)
<1>1. Polling /\ Received /\ Endpoint = Report /\ setting \in Settings /\ n \in Nat /\ Count = n + 1
  BY ReadFacts DEF Polling, RequestInv, Typed, Endpoint
<1>2. InOrder(Newest.item) /\ n < Parts(Report) /\ Parts(Report) \in Nat
  BY <1>1, EndpointFits, SettingFits DEF Kept, Known, Framed
<1>3. PICK i : i = Newest.item
  OBVIOUS
<1>4. Newest.part = n + 1 /\ data' = First(i, n + 1) /\ InOrder(i)'
  BY <1>2, <1>3, ReadInOrder
<1>5. Newest'.item = i
  BY <1>3, ReadFacts
<1>6. InOrder(Newest.item)'
  BY <1>4, <1>5 DEF InOrder
<1>7. Complete(Size(Report, n + 1)) <=> n + 1 = Parts(Report)
  <2>1. xfrlen = n * MaxPktSize(Endpoint)
    BY <1>1 DEF Kept, Counted
  <2>2. n <= Parts(Report) /\ n # Parts(Report)
    BY <1>1, <1>2
  <2>3. QED
    BY <1>1, <2>1, <2>2, Completes
<1>8. Parts(Report) = 2 => rcvtog = IF Count = 1 THEN 1 ELSE 0
  BY <1>1 DEF Kept, Known, Framed
<1>9. n + 1 <= Parts(Report)
  BY <1>1, <1>2
<1>10. QED
  BY <1>1, <1>3, <1>4, <1>6, <1>7, <1>8, <1>9

\* A packet of a report is read.
LEMMA ReadPollStep ==
    ASSUME RequestInv, Kept, Read, kind = "poll", UNCHANGED setting
    PROVE  Known'
<1> USE DEF history, Dispatch, Return
<1>0. /\ \A e : Parts(e)' = Parts(e) /\ (ShowsEnd(e)' <=> ShowsEnd(e))
      /\ (Fills' <=> Fills)
      /\ \A e, i : Whole(e, i)' = Whole(e, i)
      /\ Parts(Report) \in Nat \ {0} /\ setting \in Settings /\ Report \in Endpoints
  BY SettingStays, SameSetting, EndpointFits, SettingFits DEF RequestInv, Typed
<1>1. /\ Polling /\ ~Getting' /\ kind' = "poll" /\ Received /\ Received' /\ Endpoint = Report
      /\ Expected = rcvtog /\ ~Repeated
  BY ReadFacts DEF Getting, Polling, Endpoint, Expected, Repeated, Running
<1>2. ~Running' /\ Get'
  BY <1>1, ReadFacts DEF Read, Running, Get, Successful
<1>3. CASE Complete(Size(Report, Newest.part))
  <2>1. /\ pc' = "idle" /\ rcvToggle'[Report] = rcvtog
        /\ unheard' = unheard \cap ({item[Report]} \ {Newest.item})
    BY <1>1, <1>3, ReadFacts DEF Read, RequestInv, Typed, Control, Report
  <2>2. ~Polling' /\ Expected' = rcvtog
    BY <2>1 DEF Polling, Expected
  <2>3. Polled'
    BY <1>0, <2>2, ReadFacts DEF Kept, Known, Polled
  <2>4. Framed'
    <3> SUFFICES ASSUME Parts(Report) <= 2
                 PROVE  /\ Parts(Report) = 2 => tog[Report] = part[Report] - 1
                        /\ Parts(Report) = 2 /\ ShowsEnd(Report) => rcvToggle'[Report] = 0
                        /\ ShowsEnd(Report) => \E i \in 0..2 : data' = Whole(Report, i)
      BY <1>0, <2>2, ReadFacts DEF Framed, Successful
    <3>1. Parts(Report) = 2 => tog[Report] = part[Report] - 1
      BY DEF Kept, Known, Framed
    <3>2. ASSUME ShowsEnd(Report)
          PROVE  (Parts(Report) = 2 => rcvtog = 0) /\ data' = First(Newest.item, Parts(Report))
      BY <1>3, <3>2, ReadFramed
    <3>3. ShowsEnd(Report) => \E i \in 0..2 : data' = Whole(Report, i)
      <4>1. Newest.item \in 0..2
        BY ReadFacts DEF Packet
      <4>2. QED
        BY <3>2, <4>1 DEF First, Whole
    <3>4. QED
      BY <2>1, <3>1, <3>2, <3>3
  <2>5. Heard'
    <3> SUFFICES ASSUME ready, item[Report] \notin unheard'
                 PROVE  /\ Fills \/ part[Report] = Parts(Report)
                        /\ tog[Report] = rcvtog => Fills /\ part[Report] > 1
      BY <1>0, <2>2, ReadFacts DEF Heard
    <3>1. Newest.item \in unheard /\ (Fills \/ Newest.part = Parts(Report))
      BY <1>3, ReadEnds
    <3>2. item[Report] = Newest.item
      BY <1>1, <2>1, <3>1 DEF Kept, Known, Heard
    <3>3. \/ tog[Report] # rcvtog /\ part[Report] = Newest.part
          \/ Newest.part < Parts(Report) /\ part[Report] = Newest.part + 1
      BY <1>1, <3>2, Places
    <3>4. Newest.part \in Nat \ {0}
      BY <1>1, NewestTyped
    <3>5. QED
      BY <1>0, <3>1, <3>3, <3>4
  <2>6. Missed'
    <3> SUFFICES item[Report] \in unheard' => part[Report] = 1
      BY <1>0, <2>1, <2>2, ReadFacts DEF Missed
    <3>1. QED
      BY <1>1, <2>1, Places
  <2>7. Refusal'
    BY <1>2 DEF Refusal
  <2>8. QED
    BY <1>2, <2>3, <2>4, <2>5, <2>6, <2>7 DEF Known
<1>4. CASE ~Complete(Size(Report, Newest.part))
  <2>1. pc' = "launch" /\ UNCHANGED <<rcvToggle, unheard, announced>>
    BY <1>1, <1>4, ReadFacts DEF Read
  <2>2. Polling' /\ Expected' = rcvtog /\ ~Repeated'
    BY <1>1, <1>2, <2>1, ReadFacts DEF Polling, Expected, Repeated
  <2>3. Polled'
    <3>1. ~Fills => Newest.part < Parts(Report)
      <4> SUFFICES ASSUME ~Fills, Newest.part = Parts(Report) PROVE FALSE
        BY <1>0, <1>1, Places
      <4>1. xfrlen \in Nat /\ Size(Endpoint, Newest.part) = MaxPktSize(Endpoint)
        BY <1>0, <1>1, <1>4, Partial DEF RequestInv, Typed
      <4>2. QED
        BY <1>1, <4>1 DEF Fills
    <3>2. QED
      BY <1>0, <1>1, <2>2, <3>1, ReadFacts DEF Kept, Known, Polled
  <2>4. Framed'
    <3>1. ASSUME Parts(Report) <= 2, ShowsEnd(Report)
          PROVE  /\ InOrder(Newest.item)' /\ Len(data') < Parts(Report)
                 /\ Parts(Report) = 2 => rcvtog = IF Count' = 1 THEN 1 ELSE 0
      <4>1. /\ Count # Parts(Report) /\ Count <= Parts(Report) /\ Count \in Nat
            /\ InOrder(Newest.item)'
            /\ Parts(Report) = 2 => rcvtog = IF Count = 1 THEN 1 ELSE 0
        BY <1>4, <3>1, ReadFramed
      <4>2. Count' = Count /\ Len(data') = Count
        BY ReadFacts
      <4>3. Count < Parts(Report)
        BY <1>0, <4>1
      <4>4. QED
        BY <4>1, <4>2, <4>3
    <3>2. pc' # "idle" /\ Parts(Report)' = Parts(Report)
      BY <1>0, <2>1
    <3>3. QED
      BY <1>0, <2>1, <2>2, <3>1, <3>2, ReadFacts DEF Kept, Known, Framed, Successful
  <2>5. Heard'
    BY <1>0, <1>1, <2>1, <2>2, ReadFacts DEF Kept, Known, Heard
  <2>6. Missed' /\ Refusal'
    BY <1>0, <1>1, <1>2, <2>1, <2>2, ReadFacts DEF Kept, Known, Missed, Refusal
  <2>7. QED
    BY <1>2, <2>3, <2>4, <2>5, <2>6 DEF Known
<1>5. QED
  BY <1>3, <1>4


\* A device that advances toggles its endpoint and leaves the other one alone.
LEMMA Advanced ==
    ASSUME Typed, NEW e \in Endpoints, Advance(e)
    PROVE  /\ tog'[e] = 1 - tog[e]
           /\ \/ /\ e = Report /\ part[e] = Parts(e)
                 /\ part'[e] = 1 /\ item'[e] = Following(item[e]) /\ ready' = FALSE
              \/ /\ ~(e = Report /\ part[e] = Parts(e))
                 /\ part'[e] = IF part[e] > Parts(e) THEN part[e] ELSE part[e] + 1
                 /\ item'[e] = item[e] /\ ready' = ready
           /\ \A d \in Endpoints \ {e} :
                tog'[d] = tog[d] /\ part'[d] = part[d] /\ item'[d] = item[d]
<1>1. e \in DOMAIN tog /\ e \in DOMAIN part /\ e \in DOMAIN item /\ ready \in BOOLEAN
  BY DEF Typed, Endpoints, Control, Report
<1>2. /\ tog'[e] = 1 - tog[e]
      /\ \A d \in Endpoints \ {e} :
           tog'[d] = tog[d] /\ part'[d] = part[d] /\ item'[d] = item[d]
  BY <1>1 DEF Advance, Typed, Endpoints, Control, Report
<1>3. CASE e = Report /\ part[e] = Parts(e)
  BY <1>1, <1>2, <1>3 DEF Advance
<1>4. CASE ~(e = Report /\ part[e] = Parts(e))
  BY <1>1, <1>2, <1>4 DEF Advance
<1>5. QED
  BY <1>2, <1>3, <1>4

\* A data packet arrives, and is taken for a new one or for a repetition.
LEMMA DataFacts ==
    ASSUME RequestInv, Kept, DataIn, UNCHANGED setting
    PROVE  /\ pc = "wait" /\ token = "IN" /\ kind \in {"poll", "get"} /\ hrsl = "BUSY"
           /\ rcvfifo = <<>> /\ Len(rcvfifo) = 0
           /\ Len(data) \in Nat /\ Count = Len(data)
           /\ UNCHANGED <<pc, kind, request, token, rcvToggle, data, rcode, unheard, announced>>
           /\ Endpoint = Report => ready
           /\ \/ /\ tog[Endpoint] = rcvtog /\ rcvtog' = 1 - rcvtog /\ hrsl' = "SUCCESS"
                 /\ rcvfifo' # <<>> /\ Received' /\ Count' = Len(data) + 1
                 /\ Head(rcvfifo') = [item |-> item[Endpoint], part |-> part[Endpoint]]
                 /\ Newest' = [item |-> item[Endpoint], part |-> part[Endpoint]]
              \/ /\ tog[Endpoint] # rcvtog /\ UNCHANGED <<rcvtog, rcvfifo>> /\ hrsl' = "TOGERR"
                 /\ Newest' = Newest /\ (Received' <=> Received) /\ Count' = Count
                 /\ \A i : InOrder(i)' <=> InOrder(i)
           /\ Advance(Endpoint) \/ UNCHANGED <<tog, item, part, ready>>
<1> USE DEF Ended, firmware, history
<1>1. sie # None
  BY DEF DataIn, None
<1>2. /\ pc = "wait" /\ hrsl = "BUSY" /\ sie = [token |-> token, ep |-> Endpoint]
      /\ rcvfifo = <<>> /\ Len(rcvfifo) = 0
  BY <1>1 DEF Kept, Steady, RequestInv, Carried, Running
<1>3. token = "IN" /\ kind \in {"poll", "get"} /\ sie.ep = Endpoint
  BY <1>2 DEF DataIn, RequestInv, Carried, Typed
<1>4. Len(data) \in Nat /\ Count = Len(data)
  BY <1>2 DEF RequestInv, Typed, Count
<1>5. CASE tog[Endpoint] = rcvtog
  <2> DEFINE p == [item |-> item[Endpoint], part |-> part[Endpoint]]
  <2>1. rcvfifo' = Append(<<>>, p) /\ rcvtog' = 1 - rcvtog /\ hrsl' = "SUCCESS"
    BY <1>2, <1>3, <1>5 DEF DataIn
  <2> HIDE DEF p
  <2>2. rcvfifo' = <<p>>
    BY <2>1
  <2>3. rcvfifo' # <<>> /\ Len(rcvfifo') = 1 /\ Head(rcvfifo') = p
    BY <2>2
  <2>4. Received' /\ Newest' = p
    BY <2>3 DEF Received, Newest
  <2>5. Count' = Len(data) + 1
    BY <2>3 DEF Count, DataIn
  <2>6. QED
    BY <1>2, <1>3, <1>4, <1>5, <2>1, <2>3, <2>4, <2>5 DEF DataIn, p
<1>6. CASE tog[Endpoint] # rcvtog
  <2>1. UNCHANGED <<rcvtog, rcvfifo, data>> /\ hrsl' = "TOGERR"
    BY <1>3, <1>6 DEF DataIn
  <2>2. /\ Newest' = Newest /\ (Received' <=> Received) /\ Count' = Count
        /\ \A i : InOrder(i)' <=> InOrder(i)
    BY <2>1, SamePackets
  <2>3. QED
    BY <1>2, <1>3, <1>4, <1>6, <2>1, <2>2 DEF DataIn
<1>7. QED
  BY <1>5, <1>6

\* The device is at the packet that has just been received or after it, whether it has
\* seen the acknowledgement or not.
LEMMA DataAligned ==
    ASSUME RequestInv, Kept, DataIn, UNCHANGED setting, NEW e \in Endpoints, e = Endpoint
    PROVE  /\ hrsl' = "SUCCESS" => Aligned(e)'
           /\ hrsl' # "SUCCESS" /\ Aligned(e) => Aligned(e)'
<1>0. /\ Parts(e)' = Parts(e) /\ Typed
      /\ tog[e] \in {0, 1} /\ rcvtog \in {0, 1} /\ ready \in BOOLEAN
  BY SettingStays DEF RequestInv, Typed, Endpoints, Control, Report
<1>1. e = Report => ready
  BY DataFacts
<1>2. ASSUME hrsl' = "SUCCESS" PROVE Aligned(e)'
  <2>1. /\ tog[e] = rcvtog /\ rcvtog' = 1 - rcvtog
        /\ Newest' = [item |-> item[e], part |-> part[e]]
    BY <1>2, DataFacts
  <2>2. Newest'.item = item[e] /\ Newest'.part = part[e]
    BY <2>1
  <2>3. CASE UNCHANGED <<tog, item, part, ready>>
    BY <1>0, <1>1, <2>1, <2>2, <2>3 DEF Aligned
  <2>4. CASE Advance(e)
    <3>1. tog'[e] = rcvtog'
      BY <1>0, <2>1, <2>4, Advanced
    <3>2. QED
      BY <1>0, <1>1, <2>2, <2>4, <3>1, Advanced DEF Aligned
  <2>5. QED
    BY <2>3, <2>4, DataFacts
<1>3. ASSUME hrsl' # "SUCCESS", Aligned(e) PROVE Aligned(e)'
  <2>1. tog[e] # rcvtog /\ rcvtog' = rcvtog /\ Newest' = Newest
    BY <1>3, DataFacts
  <2>2. CASE UNCHANGED <<tog, item, part, ready>>
    BY <1>0, <1>1, <1>3, <2>1, <2>2 DEF Aligned
  <2>3. CASE Advance(e)
    <3>1. tog'[e] = rcvtog'
      <4> DEFINE t == tog[e]
                 r == rcvtog
      <4>1. tog'[e] = 1 - t /\ t # r /\ t \in {0, 1} /\ r \in {0, 1} /\ rcvtog' = r
        BY <1>0, <2>1, <2>3, Advanced
      <4> HIDE DEF t, r
      <4>2. 1 - t = r
        BY <4>1
      <4>3. QED
        BY <4>1, <4>2
    <3>2. item[e] = Newest.item /\ part[e] = Newest.part
      BY <1>3, <2>1 DEF Aligned
    <3>3. QED
      BY <1>0, <1>1, <2>1, <2>3, <3>1, <3>2, Advanced DEF Aligned
  <2>4. QED
    BY <2>2, <2>3, DataFacts
<1>4. QED
  BY <1>2, <1>3

\* The packet of an answer that the device offers as a new one is the next.
LEMMA NextOfAnswer ==
    ASSUME RequestInv, Kept, Getting, rcvfifo = <<>>, tog[Control] = rcvtog
    PROVE  part[Control] = Len(data) + 1 /\ item[Control] = request
<1> DEFINE n == Len(data)
<1>1. item[Control] = request
  BY DEF RequestInv, Requested, Getting
<1>2. /\ n \in Nat /\ n <= Parts(Control) /\ data = First(request, n)
      /\ Parts(Control) \in Nat \ {0}
  BY EndpointFits, SettingFits DEF Kept, Known, Get, InOrder, RequestInv, Typed
<1>3. CASE data = <<>>
  <2>1. ~Received
    BY <1>3 DEF Received
  <2>2. part[Control] = 1 /\ n = 0
    BY <1>3, <2>1, EmptyFirst DEF Kept, Known, Get
  <2>3. QED
    BY <1>1, <2>2
<1>4. CASE data # <<>>
  <2>1. Aligned(Control) /\ Newest = data[n] /\ n # 0
    BY <1>4 DEF Kept, Known, Get, Received, Newest, RequestInv, Typed
  <2>2. data[n] = [item |-> request, part |-> n]
    <3>1. n \in 1..n
      BY <1>2, <2>1
    <3> HIDE DEF n
    <3>2. First(request, n)[n] = [item |-> request, part |-> n]
      BY <3>1 DEF First
    <3>3. QED
      BY <1>2, <3>2
  <2>3. Newest.part = n /\ ~(n > Parts(Control))
    BY <1>2, <2>1, <2>2
  <2>4. part[Control] = n + 1
    BY <2>1, <2>3 DEF Aligned, Control, Report
  <2>5. QED
    BY <1>1, <2>4
<1>5. QED
  BY <1>3, <1>4

\* A packet of an answer arrives.
LEMMA DataGetStep ==
    ASSUME RequestInv, Kept, DataIn, kind = "get", UNCHANGED setting
    PROVE  Known'
<1>0. /\ Parts(Control)' = Parts(Control) /\ (ShowsEnd(Control)' <=> ShowsEnd(Control)) /\ Typed
  BY SettingStays DEF RequestInv
<1>1. Endpoint = Control /\ Control # Report /\ Control \in Endpoints /\ Report \in Endpoints
  BY DEF Endpoint, Endpoints, Control, Report
<1>2. Getting /\ pc' = "wait" /\ token' = "IN"
  BY DataFacts DEF Getting
<1>3. /\ tog'[Report] = tog[Report] /\ part'[Report] = part[Report]
      /\ item'[Report] = item[Report] /\ ready' = ready
  BY <1>0, <1>1, Advanced, DataFacts
<1>4. Get'
  <2>1. CASE hrsl' = "SUCCESS"
    <3>1. Received' /\ Aligned(Control)'
      BY <1>1, <2>1, DataAligned, DataFacts
    <3>2. part[Control] = Len(data) + 1 /\ item[Control] = request
      BY <1>1, <1>2, <2>1, DataFacts, NextOfAnswer
    <3>3. InOrder(request)'
      <4>1. InOrder(request)
        BY <1>2 DEF Kept, Known, Get
      <4>2. Head(rcvfifo') = [item |-> request, part |-> Len(data) + 1]
        BY <1>1, <2>1, <3>2, DataFacts
      <4>3. QED
        BY <4>1, <4>2, DataFacts DEF InOrder
    <3>4. QED
      BY <1>0, <1>2, <3>1, <3>3, DataFacts DEF Kept, Known, Get, Successful
  <2>2. CASE hrsl' # "SUCCESS"
    <3>1. rcvtog' = rcvtog /\ rcvfifo' = rcvfifo /\ (Received' <=> Received) /\ tog[Control] # rcvtog
      BY <1>1, <2>2, DataFacts
    <3>2. Received /\ Aligned(Control)
      BY <1>2, <3>1 DEF Kept, Known, Get
    <3>3. Aligned(Control)'
      BY <1>1, <2>2, <3>2, DataAligned
    <3>4. InOrder(request)'
      BY <1>2, <3>1, DataFacts DEF Kept, Known, Get, InOrder
    <3>5. QED
      BY <1>0, <1>2, <3>1, <3>2, <3>3, <3>4, DataFacts DEF Kept, Known, Get, Successful
  <2>3. QED
    BY <2>1, <2>2
<1>5. QED
  BY <1>1, <1>2, <1>3, <1>4, ControlStep, DataFacts DEF Known

\* A poll that asks for more after the last packet of a report has not received all of it.
LEMMA NotWhole ==
    ASSUME RequestInv, Kept, Polling, Received, rcvfifo = <<>>, ~Repeated,
           ShowsEnd(Report), ~announced, Newest.part = Parts(Report)
    PROVE  Newest.item \notin unheard
<1> SUFFICES ASSUME Newest.item \in unheard PROVE FALSE
  OBVIOUS
<1> DEFINE M == MaxPktSize(Report)
           L == Length(Report)
           P == Parts(Report)
           n == Len(data)
           t == n * M
           u == P * M
           v == (P - 1) * M
<1>1. n \in Nat /\ Count = n
  BY EmptyFirst DEF Count, RequestInv, Typed
<1>2. P <= n
  BY <1>1 DEF Kept, Known, Missed
<1>3. M \in Nat \ {0} /\ L \in Nat /\ P \in Nat \ {0}
  BY EndpointFits, SettingFits DEF RequestInv, Typed
<1>4. Fills
  <2>1. ~(Newest.part < P)
    BY <1>3
  <2>2. QED
    BY <2>1 DEF Kept, Known, Polled
<1>5. L = NBytes(Report) /\ L - v = M
  BY <1>3, <1>4, EndpointFits, Sizes DEF Fills, ShowsEnd, RequestInv, Typed
<1>6. t < L
  BY <1>5 DEF Kept, Counted, Polling, Endpoint
<1>7. u <= t
  BY <1>1, <1>2, <1>3, Products
<1>8. u = v + M /\ v \in Nat /\ t \in Nat
  <2>1. M \in Nat /\ P \in Nat /\ P - 1 \in Nat /\ n \in Nat
    BY <1>1, <1>3
  <2> HIDE DEF M, P, n
  <2>2. QED
    BY <2>1
<1> HIDE DEF M, L, P, n, t, u, v
<1>9. QED
  BY <1>3, <1>5, <1>6, <1>7, <1>8

\* In a poll of reports of one packet or two that show their end, the second packet follows
\* the first one.
LEMMA PollPlace ==
    ASSUME RequestInv, Kept, Polling, ShowsEnd(Report), Parts(Report) <= 2,
           rcvfifo = <<>>, Received
    PROVE  /\ Parts(Report) = 2 /\ Len(data) = 1 /\ InOrder(Newest.item)
           /\ rcvtog = 1 /\ item[Report] = Newest.item
           /\ tog[Report] = rcvtog => part[Report] = 2
<1> DEFINE n == Len(data)
           P == Parts(Report)
<1>1. /\ InOrder(Newest.item) /\ n < P /\ (P = 2 => rcvtog = IF Count = 1 THEN 1 ELSE 0)
      /\ data # <<>> /\ n \in Nat /\ n # 0 /\ Newest = data[n] /\ Count = n
  BY EmptyFirst DEF Kept, Known, Framed, Received, Newest, Count, RequestInv, Typed
<1>2. P = 2 /\ n = 1
  <2>1. P \in Nat /\ P <= 2
    BY EndpointFits, SettingFits DEF RequestInv, Typed
  <2> HIDE DEF n, P
  <2>2. QED
    BY <1>1, <2>1
<1>3. PICK i : i = Newest.item
  OBVIOUS
<1>4. data = First(i, 1)
  BY <1>1, <1>2, <1>3 DEF InOrder
<1>5. Newest.part = 1
  <2>1. First(i, 1)[1] = [item |-> i, part |-> 1]
    BY DEF First
  <2>2. QED
    BY <1>1, <1>2, <1>4, <2>1
<1>6. item[Report] = Newest.item /\ (tog[Report] = rcvtog => part[Report] = 2)
  BY <1>2, <1>5, Places
<1>7. QED
  BY <1>1, <1>2, <1>6

\* A packet of a report arrives, which the device may then see acknowledged.
LEMMA DataMoves ==
    ASSUME RequestInv, Kept, DataIn, kind = "poll", UNCHANGED setting
    PROVE  /\ ready
           /\ \/ /\ tog'[Report] = tog[Report] /\ part'[Report] = part[Report]
                 /\ item'[Report] = item[Report] /\ ready'
              \/ /\ tog'[Report] = 1 - tog[Report] /\ part[Report] = Parts(Report)
                 /\ part'[Report] = 1 /\ item'[Report] = Following(item[Report]) /\ ~ready'
              \/ /\ tog'[Report] = 1 - tog[Report] /\ part[Report] < Parts(Report)
                 /\ part'[Report] = part[Report] + 1
                 /\ item'[Report] = item[Report] /\ ready'
           /\ part'[Report] <= Parts(Report) /\ (~ready' => part'[Report] = 1)
           /\ Parts(Report) = 2 => tog'[Report] = part'[Report] - 1
<1>0. /\ Typed /\ tog[Report] \in {0, 1} /\ part[Report] \in Nat \ {0}
      /\ Parts(Report) \in Nat \ {0} /\ part[Report] <= Parts(Report)
      /\ Parts(Report) = 2 => tog[Report] = part[Report] - 1
  <2>1. Typed /\ Parts(Report) \in Nat \ {0}
    BY EndpointFits, SettingFits DEF RequestInv, Typed
  <2>2. tog[Report] \in {0, 1} /\ part[Report] \in Nat \ {0}
    BY <2>1 DEF Typed, Report
  <2>3. part[Report] <= Parts(Report)
    BY DEF Kept, Known, Polled
  <2>4. Parts(Report) = 2 => tog[Report] = part[Report] - 1
    BY DEF Kept, Known, Framed
  <2>5. QED
    BY <2>1, <2>2, <2>3, <2>4
<1>1. Endpoint = Report /\ Report \in Endpoints /\ ready
  BY DataFacts DEF Endpoint, Endpoints
<1>2. ~(part[Report] > Parts(Report)) /\ (part[Report] # Parts(Report) => part[Report] < Parts(Report))
  BY <1>0
<1>3. CASE UNCHANGED <<tog, item, part, ready>>
  BY <1>0, <1>1, <1>3
<1>4. CASE Advance(Report)
  <2>1. /\ tog'[Report] = 1 - tog[Report]
        /\ \/ /\ part[Report] = Parts(Report)
              /\ part'[Report] = 1 /\ item'[Report] = Following(item[Report]) /\ ~ready'
           \/ /\ part[Report] < Parts(Report) /\ part'[Report] = part[Report] + 1
              /\ item'[Report] = item[Report] /\ ready'
    BY <1>0, <1>1, <1>2, <1>4, Advanced
  <2> DEFINE t == tog[Report]
             p == part[Report]
             t1 == tog'[Report]
             p1 == part'[Report]
             n == Parts(Report)
  <2>2. p1 <= n /\ (n = 2 => t1 = p1 - 1)
    <3>1. /\ t \in {0, 1} /\ p \in Nat \ {0} /\ n \in Nat \ {0} /\ p <= n
          /\ n = 2 => t = p - 1
      BY <1>0
    <3>2. t1 = 1 - t /\ ((p = n /\ p1 = 1) \/ (p < n /\ p1 = p + 1))
      BY <2>1
    <3> HIDE DEF t, p, t1, p1, n
    <3>3. QED
      BY <3>1, <3>2
  <2>3. ~ready' => p1 = 1
    BY <2>1
  <2>4. QED
    BY <1>1, <2>1, <2>2, <2>3
<1>5. QED
  BY <1>1, <1>3, <1>4, DataFacts

\* Such a packet is the next one that a poll of reports of one packet or two lacks.
LEMMA NextOfReport ==
    ASSUME RequestInv, Kept, Polling, ready, ShowsEnd(Report), Parts(Report) <= 2,
           rcvfifo = <<>>, tog[Report] = rcvtog
    PROVE  /\ part[Report] = Len(data) + 1 /\ InOrder(item[Report])
           /\ Parts(Report) = 2 => 1 - rcvtog = IF Len(data) + 1 = 1 THEN 1 ELSE 0
<1>1. CASE Received
  <2>1. /\ Parts(Report) = 2 /\ Len(data) = 1 /\ InOrder(Newest.item) /\ rcvtog = 1
        /\ item[Report] = Newest.item /\ part[Report] = 2
    BY <1>1, PollPlace
  <2>2. 1 - rcvtog = 0 /\ 2 = Len(data) + 1 /\ Len(data) + 1 # 1
    BY <2>1
  <2>3. QED
    BY <2>1, <2>2
<1>2. CASE ~Received
  <2>1. data = <<>> /\ rcvtog = rcvToggle[Report] /\ Len(data) = 0
    BY <1>2, EmptyFirst DEF Received, Kept, Known, Polled
  <2>2. /\ Parts(Report) \in Nat \ {0} /\ part[Report] \in Nat \ {0}
        /\ part[Report] <= Parts(Report)
    BY EndpointFits, SettingFits DEF RequestInv, Typed, Kept, Known, Polled, Report
  <2>3. Parts(Report) = 2 => rcvtog = 0 /\ part[Report] = 1
    <3> SUFFICES ASSUME Parts(Report) = 2 PROVE rcvtog = 0 /\ part[Report] = 1
      OBVIOUS
    <3>1. rcvtog = 0 /\ tog[Report] = part[Report] - 1
      BY <2>1 DEF Kept, Known, Framed
    <3>2. QED
      BY <2>2, <3>1
  <2>4. part[Report] = 1
    <3>1. Parts(Report) = 1 \/ Parts(Report) = 2
      BY <2>2
    <3>2. QED
      BY <2>2, <2>3, <3>1
  <2>5. InOrder(item[Report])
    BY <2>1, EmptyFirst DEF InOrder
  <2>6. (Parts(Report) = 2 => 1 - rcvtog = 1) /\ Len(data) + 1 = 1
    BY <2>1, <2>3
  <2>7. QED
    BY <2>4, <2>5, <2>6
<1>3. QED
  BY <1>1, <1>2

\* A new packet of a report is received.
LEMMA NewDataStep ==
    ASSUME RequestInv, Kept, DataIn, kind = "poll", hrsl' = "SUCCESS", UNCHANGED setting
    PROVE  Known'
<1>0. /\ Parts(Report)' = Parts(Report) /\ (ShowsEnd(Report)' <=> ShowsEnd(Report))
      /\ (Fills' <=> Fills) /\ Parts(Report) \in Nat \ {0}
      /\ \A e, i : Whole(e, i)' = Whole(e, i)
  BY SettingStays, SameSetting, EndpointFits, SettingFits DEF RequestInv, Typed
<1>1. /\ ~Getting' /\ Polling /\ Polling' /\ pc' = "wait" /\ token' = "IN"
      /\ ~Repeated /\ ~Repeated' /\ Expected = rcvtog /\ Report \in Endpoints
  BY DataFacts DEF Getting, Polling, Repeated, Expected, Endpoints
<1>2. /\ Endpoint = Report /\ tog[Report] = rcvtog /\ rcvtog' = 1 - rcvtog /\ Received'
      /\ rcvfifo = <<>> /\ rcvfifo' # <<>> /\ Head(rcvfifo') = Newest'
      /\ Newest'.item = item[Report] /\ Newest'.part = part[Report]
      /\ Newest' = [item |-> item[Report], part |-> part[Report]]
      /\ Len(data) \in Nat /\ Count = Len(data) /\ Count' = Len(data) + 1 /\ ready
      /\ UNCHANGED <<data, rcvToggle, unheard, announced>>
  BY DataFacts DEF Endpoint
<1>3. Aligned(Report)'
  BY <1>1, <1>2, DataAligned
<1>4. part[Report] \in Nat \ {0} /\ part[Report] <= Parts(Report)
  BY DEF Kept, Known, Polled, RequestInv, Typed, Report
<1>5. Received =>
        /\ Newest.part \in Nat \ {0}
        /\ \/ /\ Newest.part < Parts(Report)
              /\ item[Report] = Newest.item /\ part[Report] = Newest.part + 1
           \/ /\ Newest.part = Parts(Report)
              /\ item[Report] # Newest.item /\ part[Report] = 1
  BY <1>1, <1>2, Places
<1>6. ~Received => Len(data) = 0
  BY EmptyFirst DEF Received
<1>7. Get'
  BY <1>1, DataFacts DEF Get, Successful
<1>8. Polled'
  <2>1. ~Fills => Len(data) + 1 <= part[Report]
    <3> SUFFICES ASSUME ~Fills PROVE Len(data) + 1 <= part[Report]
      OBVIOUS
    <3>1. CASE Received
      <4>1. Count <= Newest.part /\ Newest.part < Parts(Report)
        BY <1>1, <1>2, <3>1 DEF Kept, Known, Polled
      <4>2. QED
        BY <1>0, <1>2, <1>5, <3>1, <4>1
    <3>2. CASE ~Received
      BY <1>4, <1>6, <3>2
    <3>3. QED
      BY <3>1, <3>2
  <2>2. part'[Report] <= Parts(Report) /\ (~ready' => part'[Report] = 1)
    BY DataMoves
  <2>3. QED
    BY <1>0, <1>1, <1>2, <1>3, <1>4, <2>1, <2>2 DEF Polled
<1>9. Framed'
  <2>1. ASSUME Parts(Report) <= 2, ShowsEnd(Report)
        PROVE  /\ InOrder(Newest.item)' /\ Len(data) < Parts(Report)
               /\ Parts(Report) = 2 => rcvtog' = IF Count' = 1 THEN 1 ELSE 0
    <3>1. /\ part[Report] = Len(data) + 1 /\ InOrder(item[Report])
          /\ Parts(Report) = 2 => 1 - rcvtog = IF Len(data) + 1 = 1 THEN 1 ELSE 0
      BY <1>1, <1>2, <2>1, NextOfReport
    <3>2. InOrder(Newest.item)'
      BY <1>2, <3>1 DEF InOrder
    <3>3. Len(data) < Parts(Report)
      BY <1>1, <2>1 DEF Kept, Known, Framed
    <3>4. QED
      BY <1>2, <3>1, <3>2, <3>3
  <2>2. Parts(Report) = 2 => tog'[Report] = part'[Report] - 1
    BY DataMoves
  <2>3. Parts(Report) = 2 /\ ShowsEnd(Report) => rcvToggle[Report] = 0
    BY DEF Kept, Known, Framed
  <2>4. QED
    BY <1>0, <1>1, <1>2, <2>1, <2>2, <2>3 DEF Framed, Successful
<1>10. Heard'
  <2>1. ASSUME item[Report] \notin unheard PROVE Fills /\ part[Report] > Len(data) + 1
    <3>1. CASE Received
      <4>1. item[Report] = Newest.item /\ Fills /\ Newest.part > Len(data)
        BY <1>1, <1>2, <2>1, <3>1 DEF Kept, Known, Heard
      <4>2. QED
        BY <1>2, <1>5, <3>1, <4>1
    <3>2. CASE ~Received
      <4>1. Fills /\ part[Report] > 1
        BY <1>1, <1>2, <2>1, <3>2 DEF Kept, Known, Heard
      <4>2. QED
        BY <1>6, <3>2, <4>1
    <3>3. QED
      BY <3>1, <3>2
  <2>2. ready' => item'[Report] = item[Report]
    BY DataMoves
  <2>3. QED
    BY <1>0, <1>1, <1>2, <2>1, <2>2 DEF Heard
<1>11. Missed'
  <2> SUFFICES ASSUME ShowsEnd(Report), ~announced
               PROVE  /\ unheard \subseteq {item[Report]}
                      /\ item[Report] \in unheard => Len(data) + 1 >= part[Report]
    BY <1>0, <1>1, <1>2 DEF Missed
  <2>1. CASE Received
    <3>1. unheard \subseteq {item[Report], Newest.item} /\ (Newest.item \in unheard => Len(data) >= Newest.part)
      BY <1>1, <1>2, <2>1 DEF Kept, Known, Missed
    <3>2. CASE Newest.part = Parts(Report)
      <4>1. Newest.item \notin unheard
        BY <1>1, <1>2, <2>1, <3>2, NotWhole
      <4>2. part[Report] = 1
        BY <1>0, <1>5, <2>1, <3>2
      <4>3. QED
        BY <1>2, <3>1, <4>1, <4>2
    <3>3. CASE Newest.part # Parts(Report)
      BY <1>2, <1>5, <2>1, <3>1, <3>3
    <3>4. QED
      BY <3>2, <3>3
  <2>2. CASE ~Received
    <3>1. unheard \subseteq {item[Report]} /\ (item[Report] \in unheard => part[Report] = 1)
      BY <1>1, <2>2 DEF Kept, Known, Missed
    <3>2. QED
      BY <1>6, <2>2, <3>1
  <2>3. QED
    BY <2>1, <2>2
<1>12. Refusal'
  BY DEF Refusal
<1>13. QED
  BY <1>7, <1>8, <1>9, <1>10, <1>11, <1>12 DEF Known

\* A packet of a report is repeated.
LEMMA OldDataStep ==
    ASSUME RequestInv, Kept, DataIn, kind = "poll", hrsl' # "SUCCESS", UNCHANGED setting
    PROVE  Known'
<1>0. /\ Parts(Report)' = Parts(Report) /\ (ShowsEnd(Report)' <=> ShowsEnd(Report))
      /\ (Fills' <=> Fills) /\ Parts(Report) \in Nat \ {0}
      /\ \A e, i : Whole(e, i)' = Whole(e, i)
  BY SettingStays, SameSetting, EndpointFits, SettingFits DEF RequestInv, Typed
<1>1. /\ ~Getting' /\ Polling /\ Polling' /\ pc' = "wait" /\ token' = "IN"
      /\ Report \in Endpoints
  BY DataFacts DEF Getting, Polling, Endpoints
<1>2. /\ Endpoint = Report /\ tog[Report] # rcvtog /\ hrsl' = "TOGERR" /\ ready
      /\ Newest' = Newest /\ (Received' <=> Received) /\ Count' = Count
      /\ \A i : InOrder(i)' <=> InOrder(i)
      /\ UNCHANGED <<rcvtog, rcvfifo, data, rcvToggle, unheard, announced>>
      /\ Aligned(Report) => Aligned(Report)'
  BY <1>1, DataFacts, DataAligned DEF Endpoint
<1>3. Repeated' /\ Expected = rcvtog /\ Expected' = rcvtog
  BY <1>1, <1>2 DEF Repeated, Running, Expected
<1>4. Get'
  BY <1>1, DataFacts DEF Get, Successful
<1>5. Polled'
  BY <1>0, <1>1, <1>2, DataMoves DEF Kept, Known, Polled
<1>6. Framed'
  BY <1>0, <1>1, <1>2, DataMoves DEF Kept, Known, Framed, Successful
<1>7. Heard'
  <2>1. ASSUME ready', item'[Report] \notin unheard'
        PROVE  item'[Report] = item[Report] /\ item[Report] \notin unheard
    BY <1>2, <2>1, DataMoves
  <2>2. ASSUME ready', item'[Report] \notin unheard', ~Received
        PROVE  /\ Fills \/ part'[Report] = Parts(Report)
               /\ tog'[Report] = rcvtog => Fills /\ part'[Report] > 1
    <3>1. Fills \/ part[Report] = Parts(Report)
      BY <1>2, <2>1, <2>2 DEF Kept, Known, Heard
    <3>2. part[Report] \in Nat \ {0}
      BY DEF RequestInv, Typed, Report
    <3>3. \/ tog'[Report] = tog[Report] /\ part'[Report] = part[Report]
          \/ part[Report] < Parts(Report) /\ part'[Report] = part[Report] + 1
      BY <2>2, DataMoves
    <3>4. QED
      BY <1>0, <1>2, <3>1, <3>2, <3>3
  <2>3. QED
    BY <1>0, <1>1, <1>2, <1>3, <2>1, <2>2 DEF Kept, Known, Heard
<1>8. Missed' /\ Refusal'
  BY <1>1, <1>2, <1>3 DEF Missed, Refusal
<1>9. QED
  BY <1>4, <1>5, <1>6, <1>7, <1>8 DEF Known

\* Every step keeps what is known of the transfer.
LEMMA KnownStep ==
    ASSUME RequestInv, ~MayHang, Kept, Next
    PROVE  Known'
<1> USE DEF firmware, chip, device, history
<1>0. UNCHANGED setting
  BY DEF Next
<1>1. CASE Poll \/ \E k \in {"get", "set"} : XferCtrlReq(k)
  BY <1>0, <1>1, StartStep
<1>2. CASE SetupSent
  BY <1>0, <1>2, SetupStep
<1>3. CASE Read
  BY <1>0, <1>3, ReadFacts, ReadGetStep, ReadPollStep
<1>4. CASE SetupTaken
  BY <1>0, <1>4, SetupTakenStep
<1>5. CASE DataIn
  BY <1>0, <1>5, DataFacts, DataGetStep, NewDataStep, OldDataStep
<1>6. CASE NewReport
  BY <1>0, <1>6, NewReportStep
<1>7. CASE Launch
  <2>1. pc' = "wait" /\ hrsl' = "BUSY" /\ ~Repeated
    BY <1>7 DEF Launch, Repeated, Running
  <2>2. QED
    BY <1>0, <1>7, <2>1, QuietStep DEF Launch
<1>8. CASE SeeDone \/ PacketIn
  <2>1. /\ pc # "idle" /\ pc' # "idle" /\ hrsl' = hrsl
        /\ (Running' => Running) /\ (Repeated => Repeated')
        /\ UNCHANGED <<kind, request, token, rcvToggle, data, rcvfifo, rcvtog, device, history>>
    BY <1>8 DEF SeeDone, PacketIn, Running, Repeated
  <2>2. Running' /\ token = "SETUP" /\ hrsl' = "SUCCESS" => tog[Control] = 1 /\ part[Control] = 1
    BY <2>1 DEF Kept, Known, Get
  <2>3. ShowsEnd(Report) /\ ~announced /\ Polling /\ Running' /\ hrsl' = "NAK" /\ Received =>
            part[Report] = 1 /\ Newest.item \notin unheard
    BY <2>1 DEF Kept, Known, Refusal
  <2>4. QED
    BY <1>0, <2>1, <2>2, <2>3, QuietStep
<1>9. CASE Repeat
  <2>1. CASE GivesUp
    <3>1. /\ pc = "judge" /\ pc' = "idle" /\ rcode' = hrsl /\ hrsl \in {"NAK", "TIMEOUT"}
          /\ announced' = IF kind = "poll" /\ hrsl # "NAK" THEN TRUE ELSE announced
          /\ UNCHANGED <<kind, request, rcvToggle, data, chip, device, unheard>>
      BY <1>9, <2>1 DEF Repeat, Return
    <3>2. QED
      BY <1>0, <3>1, EndStep DEF Running
  <2>2. CASE ~GivesUp
    <3>1. pc # "idle" /\ pc' = "launch" /\ ~Repeated
      BY <1>9, <2>2 DEF Repeat, Repeated
    <3>2. QED
      BY <1>0, <1>9, <2>2, <3>1, QuietStep DEF Repeat, Running
  <2>3. QED
    BY <2>1, <2>2
<1>10. CASE Fail
  <2>1. /\ pc = "judge" /\ pc' = "idle" /\ rcode' = hrsl /\ hrsl \notin {"NAK", "SUCCESS"}
        /\ announced' = IF kind = "poll" /\ hrsl # "NAK" THEN TRUE ELSE announced
        /\ UNCHANGED <<kind, request, rcvToggle, data, chip, device, unheard>>
    BY <1>10 DEF Fail, Return
  <2>2. QED
    BY <1>0, <2>1, EndStep DEF Running
<1>11. CASE StatusSent
  <2>1. /\ pc = "judge" /\ pc' = "idle" /\ token \in {"INHS", "OUTHS"} /\ kind # "poll"
        /\ kind = "get" => token = "OUTHS"
        /\ announced' = announced
        /\ UNCHANGED <<kind, request, rcvToggle, data, chip, device, unheard>>
    BY <1>11 DEF StatusSent, Return, RequestInv, Carried
  <2>2. QED
    BY <1>0, <2>1, EndStep DEF Running
<1>12. CASE NothingToRead \/ TimedOut
  BY <1>12, EmptyFirst DEF NothingToRead, TimedOut, Kept, Steady, RequestInv, Carried
<1>13. CASE Lost \/ StatusIn \/ StatusOut
  <2>1. /\ pc = "wait" /\ hrsl = "BUSY" /\ hrsl' # "NAK"
        /\ hrsl' = "SUCCESS" => token # "SETUP"
        /\ UNCHANGED <<firmware, rcvfifo, rcvtog, tog, item, part, ready, history>>
    BY <1>13 DEF Lost, StatusIn, StatusOut, Ended, None, Kept, Steady, RequestInv, Carried, Running
  <2>2. ~Repeated
    BY <2>1 DEF Repeated
  <2>3. QED
    BY <1>0, <2>1, <2>2, QuietStep DEF Running
<1>14. CASE Refused
  <2>1. /\ pc = "wait" /\ hrsl = "BUSY" /\ hrsl' # "SUCCESS" /\ rcvfifo = <<>>
        /\ kind = "poll" => ~ready
        /\ UNCHANGED <<firmware, rcvfifo, rcvtog, tog, item, part, ready, history>>
    BY <1>14 DEF Refused, Ended, None, Kept, Steady, RequestInv, Carried, Running, Endpoint
  <2>2. ~Repeated
    BY <2>1 DEF Repeated
  <2>3. ShowsEnd(Report) /\ ~announced /\ Polling /\ Received =>
            part[Report] = 1 /\ Newest.item \notin unheard
    <3> SUFFICES ASSUME ShowsEnd(Report), ~announced, Polling, Received
                 PROVE  part[Report] = 1 /\ Newest.item \notin unheard
      OBVIOUS
    <3>1. ~ready /\ part[Report] = 1 /\ Newest.part = Parts(Report)
      BY <2>1, Places DEF Polling
    <3>2. QED
      BY <2>1, <2>2, <3>1, NotWhole
  <2>4. QED
    BY <1>0, <2>1, <2>2, <2>3, QuietStep DEF Running
<1>15. QED
  BY <1>1, <1>2, <1>3, <1>4, <1>5, <1>6, <1>7, <1>8, <1>9, <1>10, <1>11, <1>12, <1>13, <1>14,
     Starting DEF Next, Transfer, Bus, RequestInv, Typed

LEMMA TransferInit == Init => TransferInv
<1> SUFFICES ASSUME Init PROVE TransferInv
  OBVIOUS
<1>1. RequestInv
  BY RequestInit
<1>2. ~Received /\ ~Running /\ ~Polling /\ ~Getting
  BY DEF Init, Received, Running, Polling, Getting
<1>3. Steady /\ Counted
  BY <1>2 DEF Init, Steady, Counted, None
<1>4. /\ Parts(Report) \in Nat \ {0} /\ part[Report] = 1 /\ tog[Report] = 0
      /\ rcvToggle[Report] = 0
  BY <1>1, EndpointFits, SettingFits DEF Init, RequestInv, Typed, Control, Report
<1>5. Get /\ Heard /\ Missed /\ Refusal
  BY <1>2 DEF Init, Get, Successful, Heard, Missed, Refusal
<1>6. Polled /\ Framed
  BY <1>2, <1>4 DEF Init, Polled, Framed, Successful
<1>7. QED
  BY <1>1, <1>3, <1>5, <1>6 DEF TransferInv, Kept, Known

LEMMA TransferStep == TransferInv /\ [Next]_vars => TransferInv'
<1> SUFFICES ASSUME TransferInv, [Next]_vars PROVE TransferInv'
  OBVIOUS
<1>1. CASE Next
  <2>1. MayHang' <=> MayHang
    BY <1>1, SettingStays DEF Next
  <2>2. QED
    BY <1>1, <2>1, RequestStep, SteadyStep, CountedStep, KnownStep DEF TransferInv, Kept
<1>2. CASE UNCHANGED vars
  <2> USE <1>2 DEF vars, firmware, chip, device, history
  <2>1. /\ Newest' = Newest /\ (Received' <=> Received) /\ Count' = Count
        /\ \A i : InOrder(i)' <=> InOrder(i)
        /\ (MayHang' <=> MayHang) /\ (Fills' <=> Fills) /\ Endpoint' = Endpoint
        /\ \A e : /\ Parts(e)' = Parts(e) /\ (ShowsEnd(e)' <=> ShowsEnd(e))
                  /\ MaxPktSize(e)' = MaxPktSize(e) /\ NBytes(e)' = NBytes(e)
        /\ \A e, i : Whole(e, i)' = Whole(e, i)
        /\ \A i : Answers(i)' = Answers(i)
    BY SamePackets, SettingStays, SameSetting DEF Endpoint
  <2>2. \A e : Aligned(e)' <=> Aligned(e)
    BY <2>1, SamePlace
  <2>3. /\ (Polling' <=> Polling) /\ (Getting' <=> Getting) /\ (Running' <=> Running)
        /\ (Repeated' <=> Repeated)
    BY DEF Polling, Getting, Running, Repeated
  <2>4. (Steady => Steady') /\ (Counted => Counted')
    BY <2>1, <2>3 DEF Steady, Counted, Endpoint
  <2>5. Get => Get'
    BY <2>1, <2>2, <2>3 DEF Get, Successful
  <2>6. (Polled => Polled') /\ (Framed => Framed')
    BY <2>1, <2>2, <2>3 DEF Polled, Framed, Successful
  <2>7. Heard => Heard'
    <3>1. Expected' = Expected
      BY <2>3 DEF Expected
    <3>2. QED
      BY <2>1, <2>3, <3>1 DEF Heard
  <2>8. (Missed => Missed') /\ (Refusal => Refusal')
    BY <2>1, <2>3 DEF Missed, Refusal
  <2>9. QED
    BY <2>1, <2>4, <2>5, <2>6, <2>7, <2>8, RequestStep DEF TransferInv, Kept, Known
<1>3. QED
  BY <1>1, <1>2

\* The two sides of both endpoints stay in step.
LEMMA TransferInvariant == Spec => []TransferInv
<1>1. QED
  BY TransferInit, TransferStep, PTL DEF Spec

\* What a successful request has read is the whole answer to it, put together from however
\* many packets, and what a successful poll has read is one whole report: for every limit
\* and every packet size, length and number of bytes asked for, if the chip keeps its
\* deadlines and, for a poll, if reports take one packet or two and show their end.
THEOREM DataIsWhole == Spec => []DataWhole
<1>1. TransferInv => DataWhole
  BY DEF TransferInv, Kept, Known, Get, Framed, DataWhole
<1>2. QED
  BY <1>1, TransferInvariant, PTL

\* No poll returns a report a second time, whichever acknowledgements are lost and however
\* many packets a report takes, if the chip keeps its deadlines.
THEOREM ReportsOnce == Spec => NoRepeat
<1>1. TransferInv /\ [Next]_vars =>
        [Read /\ pc' = "idle" /\ ~MayHang => Head(rcvfifo).item \in unheard]_vars
  <2> SUFFICES ASSUME TransferInv, Next, Read, pc' = "idle", ~MayHang
               PROVE  Head(rcvfifo).item \in unheard
    OBVIOUS
  <2>1. RequestInv /\ Kept /\ UNCHANGED setting
    BY DEF TransferInv, Next
  <2>2. kind = "poll" /\ Complete(Size(Endpoint, Newest.part)) /\ Newest = Head(rcvfifo)
    BY <2>1, ReadFacts DEF Read, Dispatch
  <2>3. QED
    BY <2>1, <2>2, ReadEnds DEF Endpoint
<1>2. QED
  BY <1>1, TransferInvariant, PTL DEF Spec, NoRepeat

\* A report is missed only if a poll has returned an error code since the last one, however
\* many packets a report takes, if reports show their end and the chip keeps its deadlines.
THEOREM LossesAnnounced == Spec => LossAnnounced
<1>1. TransferInv /\ [Next]_vars =>
        [Read /\ pc' = "idle" /\ ~announced /\ ~MayHang /\ ShowsEnd(Report) =>
            unheard \subseteq {Head(rcvfifo).item, item[Report]}]_vars
  <2> SUFFICES ASSUME TransferInv, Next, Read, pc' = "idle", ~announced, ~MayHang, ShowsEnd(Report)
               PROVE  unheard \subseteq {Head(rcvfifo).item, item[Report]}
    OBVIOUS
  <2>1. RequestInv /\ Kept /\ UNCHANGED setting
    BY DEF TransferInv, Next
  <2>2. kind = "poll" /\ Complete(Size(Endpoint, Newest.part)) /\ Newest = Head(rcvfifo)
    BY <2>1, ReadFacts DEF Read, Dispatch
  <2>3. QED
    BY <2>1, <2>2, ReadEnds DEF Endpoint
<1>2. QED
  BY <1>1, TransferInvariant, PTL DEF Spec, LossAnnounced

=============================================================================

-------------------------------- MODULE Xfer --------------------------------
(***************************************************************************)
(* The USB transfers of transfer.c: control requests and report polls,     *)
(* made of packets that the MAX3421E exchanges with one device over a bus  *)
(* that loses packets.                                                     *)
(*                                                                         *)
(* The processor writes HXFR, waits for HXFRDNIRQ, reads the result from   *)
(* HRSL and repeats a packet that was refused or not answered.  The chip   *)
(* carries a packet out between any two of these accesses.  Each side of   *)
(* an endpoint keeps a data toggle: a data packet is new only if its       *)
(* toggle is the one expected.  The device's side follows USB 2.0; a       *)
(* device that has gone is one whose packets are all lost.                 *)
(***************************************************************************)
EXTENDS Integers, Sequences

CONSTANTS
    USB_NAK_LIMIT, USB_RETRY_LIMIT,     \* 200 and 3
    Settings            \* the devices and chips tried, as records; the first three by endpoint:
                        \* packet: MaxPktSize
                        \* length: the bytes of a report, and of the answer to a request
                        \* nbytes: the bytes that a transfer asks for
                        \* kinds: the transfers made, of "poll", "get" and "set"
                        \* hangs: whether the chip may take longer than USB_XFER_TIMEOUT

Control == 0
Report == 1
Endpoints == {Control, Report}

\* A report or an answer takes any number of packets, and no more than was asked for, and
\* xfrlen does not wrap: it is a WORD, and no transfer asks for more than 256 bytes.
ASSUME XferAssumption ==
    /\ {USB_NAK_LIMIT, USB_RETRY_LIMIT} \subseteq Nat \ {0}
    /\ Settings \subseteq [packet : [Endpoints -> Nat \ {0}], length : [Endpoints -> Nat \ {0}],
                            nbytes : [Endpoints -> Nat \ {0}],
                            kinds : SUBSET {"poll", "get", "set"}, hangs : BOOLEAN]
    /\ \A s \in Settings : \A e \in Endpoints :
        s.length[e] <= s.nbytes[e] /\ s.nbytes[e] + s.packet[e] <= 65536

None == [token |-> "none", ep |-> Control]

VARIABLES
    \* the firmware
    pc,                 \* "idle", "launch", "wait", "judge" or "read"
    kind,               \* of the transfer: "poll", "get" or "set"
    request,            \* which control request: consecutive ones differ
    token,              \* of the packet
    nak_count, retry_count,
    rcvToggle,          \* epinfo[ep].rcvToggle
    xfrlen,
    data,               \* the packets copied to the caller's buffer
    rcode,              \* what the last transfer returned
    \* the chip
    sie,                \* the packet being carried out
    hxfrdnirq,          \* HXFRDNIRQ
    hrsl,               \* the result in HRSL
    rcvfifo,            \* the packets in its two receive buffers; RCVDAVIRQ says there is one
    rcvtog,             \* the toggle it expects, RCVTOGRD
    \* the device
    tog,                \* tog[ep]: the toggle of its next data packet
    item, part,         \* item[ep], part[ep]: which packet that is of which report or answer
    ready,              \* it has a report to send
    done,               \* the request it carried out last
    setting,            \* which of Settings; it never changes
    \* history
    unheard,            \* the reports offered and not yet returned by a poll
    announced           \* a poll has failed since the last that returned a report

firmware == <<pc, kind, request, token, nak_count, retry_count, rcvToggle, xfrlen, data, rcode>>
chip == <<sie, hxfrdnirq, hrsl, rcvfifo, rcvtog>>
device == <<tog, item, part, ready, done>>
history == <<unheard, announced>>
vars == <<firmware, chip, device, setting, history>>

MaxPktSize(e) == setting.packet[e]
Length(e) == setting.length[e]
NBytes(e) == setting.nbytes[e]
Kinds == setting.kinds
MayHang == setting.hangs

Endpoint == IF kind = "poll" THEN Report ELSE Control

\* The packets of a report or an answer; after the last one the control endpoint
\* sends empty ones.
Parts(e) == (Length(e) + MaxPktSize(e) - 1) \div MaxPktSize(e)
Size(e, p) ==
    CASE p > Parts(e) -> 0
      [] p < Parts(e) -> MaxPktSize(e)
      [] OTHER -> Length(e) - (Parts(e) - 1) * MaxPktSize(e)
Whole(e, i) == [p \in 1..Parts(e) |-> [item |-> i, part |-> p]]

\* Reports are numbered so that one differs from the two before it.
Following(i) == (i + 1) % 3

-----------------------------------------------------------------------------
(* The firmware *)

\* XferDispatchPkt starts: the counts are its locals.
Dispatch(t) ==
    /\ pc' = "launch"
    /\ token' = t
    /\ nak_count' = 0 /\ retry_count' = 0

\* The transfer ends, its locals with it.
Return(r) ==
    /\ pc' = "idle"
    /\ rcode' = r
    /\ nak_count' = 0 /\ retry_count' = 0
    /\ xfrlen' = 0
    /\ announced' = IF kind = "poll" /\ r # "NAK" THEN r # "SUCCESS" ELSE announced
    /\ UNCHANGED token

\* Mutation: the chip's toggle is not set.
PollUnset ==
    /\ pc = "idle"
    /\ kind' = "poll"
    /\ data' = <<>>
    /\ Dispatch("IN")
    /\ UNCHANGED <<request, rcvToggle, xfrlen, rcode, chip, device, history>>

\* kbdPoll and mousePoll: XferInTransfer sets the toggle and sends INs.
Poll ==
    /\ pc = "idle"
    /\ kind' = "poll"
    /\ rcvtog' = rcvToggle[Report]
    /\ data' = <<>>
    /\ Dispatch("IN")
    /\ UNCHANGED <<request, rcvToggle, xfrlen, rcode, sie, hxfrdnirq, hrsl, rcvfifo, device, history>>

\* XferCtrlReq fills the setup FIFO and sends it.
XferCtrlReq(k) ==
    /\ pc = "idle"
    /\ kind' = k
    /\ request' = 1 - request
    /\ data' = <<>>
    /\ Dispatch("SETUP")
    /\ UNCHANGED <<rcvToggle, xfrlen, rcode, chip, device, history>>

\* HXFR is written; a packet that has not ended is dropped.
Launch ==
    /\ pc = "launch"
    /\ pc' = "wait"
    /\ sie' = [token |-> token, ep |-> Endpoint]
    /\ hrsl' = "BUSY"
    /\ UNCHANGED <<kind, request, token, nak_count, retry_count, rcvToggle, xfrlen, data, rcode>>
    /\ UNCHANGED <<hxfrdnirq, rcvfifo, rcvtog, device, history>>

SeeDone ==
    /\ pc = "wait" /\ hxfrdnirq
    /\ hxfrdnirq' = FALSE
    /\ pc' = "judge"
    /\ UNCHANGED <<kind, request, token, nak_count, retry_count, rcvToggle, xfrlen, data, rcode>>
    /\ UNCHANGED <<sie, hrsl, rcvfifo, rcvtog, device, history>>

\* The deadline passes.  The packet is left to itself.
TimedOut ==
    /\ pc = "wait" /\ ~hxfrdnirq /\ MayHang
    /\ Return("XFER_TIMEOUT")
    /\ UNCHANGED <<kind, request, rcvToggle, data, chip, device, unheard>>

Naks == nak_count + (IF hrsl = "NAK" THEN 1 ELSE 0)

\* Mutation: repetitions are not counted.
RetriesUncounted == retry_count

Retries == retry_count + (IF hrsl = "TIMEOUT" THEN 1 ELSE 0)

GivesUp == Naks = USB_NAK_LIMIT \/ Retries = USB_RETRY_LIMIT

\* A packet that was refused or not answered is sent again, each so many times.
Repeat ==
    /\ pc = "judge" /\ hrsl \in {"NAK", "TIMEOUT"}
    /\ IF GivesUp
       THEN Return(hrsl)
       ELSE /\ pc' = "launch"
            /\ nak_count' = Naks /\ retry_count' = Retries
            /\ UNCHANGED <<token, xfrlen, rcode, announced>>
    /\ UNCHANGED <<kind, request, rcvToggle, data, chip, device, unheard>>

\* Mutation: the chip's error code is not returned.
FailUnset ==
    /\ pc = "judge" /\ hrsl \notin {"NAK", "TIMEOUT", "SUCCESS"}
    /\ Return(rcode)
    /\ UNCHANGED <<kind, request, rcvToggle, data, chip, device, unheard>>

\* Mutation: an error is returned as a NAK.
FailAsNak ==
    /\ pc = "judge" /\ hrsl \notin {"NAK", "TIMEOUT", "SUCCESS"}
    /\ Return("NAK")
    /\ UNCHANGED <<kind, request, rcvToggle, data, chip, device, unheard>>

Fail ==
    /\ pc = "judge" /\ hrsl \notin {"NAK", "TIMEOUT", "SUCCESS"}
    /\ Return(hrsl)
    /\ UNCHANGED <<kind, request, rcvToggle, data, chip, device, unheard>>

\* After the setup packet: XferCtrlND sends the status packet, XferCtrlData
\* sets the toggle to DATA1 and starts the data stage.
SetupSent ==
    /\ pc = "judge" /\ hrsl = "SUCCESS" /\ token = "SETUP"
    /\ \/ /\ kind = "set"
          /\ Dispatch("INHS")
          /\ UNCHANGED <<rcvToggle, rcvtog>>
       \/ /\ kind = "get"
          /\ rcvToggle' = [rcvToggle EXCEPT ![Control] = 1]
          /\ rcvtog' = 1
          /\ Dispatch("IN")
    /\ UNCHANGED <<kind, request, xfrlen, data, rcode, sie, hxfrdnirq, hrsl, rcvfifo, device, history>>

StatusSent ==
    /\ pc = "judge" /\ hrsl = "SUCCESS" /\ token \in {"INHS", "OUTHS"}
    /\ Return("SUCCESS")
    /\ UNCHANGED <<kind, request, rcvToggle, data, chip, device, unheard>>

PacketIn ==
    /\ pc = "judge" /\ hrsl = "SUCCESS" /\ token = "IN"
    /\ pc' = "read"
    /\ UNCHANGED <<kind, request, token, nak_count, retry_count, rcvToggle, xfrlen, data, rcode>>
    /\ UNCHANGED <<chip, device, history>>

NothingToRead ==
    /\ pc = "read" /\ rcvfifo = <<>>
    /\ Return("RCVDAV_ERROR")
    /\ UNCHANGED <<kind, request, rcvToggle, data, chip, device, unheard>>

\* Mutation: every packet ends it.
AnyPacket(pktsize) == pktsize <= MaxPktSize(Endpoint) \/ xfrlen + pktsize >= NBytes(Endpoint)

\* A short packet, or one that completes nbytes, is the last.
Complete(pktsize) == pktsize < MaxPktSize(Endpoint) \/ xfrlen + pktsize >= NBytes(Endpoint)

\* A packet is copied.  The last one ends the stage and saves the toggle;
\* otherwise another IN is sent.
Read ==
    /\ pc = "read" /\ rcvfifo # <<>>
    /\ LET packet == Head(rcvfifo)
           pktsize == Size(Endpoint, packet.part)
           complete == Complete(pktsize)
       IN /\ data' = Append(data, packet)
          /\ rcvToggle' = IF complete THEN [rcvToggle EXCEPT ![Endpoint] = rcvtog] ELSE rcvToggle
          /\ \/ /\ complete /\ kind = "poll"
                /\ Return("SUCCESS")
                /\ unheard' = unheard \cap ({item[Report]} \ {packet.item})
             \/ /\ complete /\ kind = "get"
                /\ Dispatch("OUTHS")
                /\ xfrlen' = 0
                /\ UNCHANGED <<rcode, history>>
             \/ /\ ~complete
                /\ Dispatch("IN")
                /\ xfrlen' = xfrlen + pktsize
                /\ UNCHANGED <<rcode, history>>
    /\ rcvfifo' = Tail(rcvfifo)
    /\ UNCHANGED <<kind, request, sie, hxfrdnirq, hrsl, rcvtog, device>>

-----------------------------------------------------------------------------
(* The chip, the bus and the device *)

Ended(result) ==
    /\ sie' = None
    /\ hxfrdnirq' = TRUE
    /\ hrsl' = result
    /\ UNCHANGED <<firmware, history>>

\* The packet or its answer is lost, or damaged.
Lost ==
    /\ sie # None
    /\ \E result \in {"TIMEOUT", "CRCERR"} : Ended(result)
    /\ UNCHANGED <<rcvfifo, rcvtog, device>>

\* The device has no report, is busy with the request, or does not know it.
Refused ==
    /\ sie.token \in {"IN", "INHS", "OUTHS"}
    /\ \E result \in (IF sie.ep = Report THEN {"NAK"} ELSE {"NAK", "STALL"}) : Ended(result)
    /\ sie.ep = Report => ~ready
    /\ UNCHANGED <<rcvfifo, rcvtog, device>>

\* The device takes a request; its acknowledgement may be lost.
SetupTaken ==
    /\ sie.token = "SETUP"
    /\ \E result \in {"SUCCESS", "TIMEOUT"} : Ended(result)
    /\ tog' = [tog EXCEPT ![Control] = 1]
    /\ item' = [item EXCEPT ![Control] = request]
    /\ part' = [part EXCEPT ![Control] = 1]
    /\ UNCHANGED <<rcvfifo, rcvtog, ready, done>>

\* The next data packet of endpoint e, once the device sees the last one acknowledged.
Advance(e) ==
    LET last == e = Report /\ part[e] = Parts(e)
    IN /\ tog' = [tog EXCEPT ![e] = 1 - @]
       /\ part' = [part EXCEPT ![e] = IF last THEN 1 ELSE IF @ > Parts(e) THEN @ ELSE @ + 1]
       /\ item' = [item EXCEPT ![e] = IF last THEN Following(@) ELSE @]
       /\ ready' = (ready /\ ~last)

\* A data packet arrives.  One with the other toggle is a repetition: it is
\* acknowledged and dropped.  The acknowledgement may be lost.
DataIn ==
    /\ sie.token = "IN" /\ Len(rcvfifo) < 2
    /\ sie.ep = Report => ready
    /\ IF tog[sie.ep] = rcvtog
       THEN /\ rcvfifo' = Append(rcvfifo, [item |-> item[sie.ep], part |-> part[sie.ep]])
            /\ rcvtog' = 1 - rcvtog
            /\ Ended("SUCCESS")
       ELSE Ended("TOGERR") /\ UNCHANGED <<rcvfifo, rcvtog>>
    /\ Advance(sie.ep) \/ UNCHANGED <<tog, item, part, ready>>
    /\ UNCHANGED done

\* The status stage: the request is carried out.
StatusIn ==
    /\ sie.token = "INHS"
    /\ Ended("SUCCESS")
    /\ done' = item[Control]
    /\ UNCHANGED <<rcvfifo, rcvtog, tog, item, part, ready>>

StatusOut ==
    /\ sie.token = "OUTHS"
    /\ \E result \in {"SUCCESS", "TIMEOUT"} : Ended(result)
    /\ done' = item[Control]
    /\ UNCHANGED <<rcvfifo, rcvtog, tog, item, part, ready>>

NewReport ==
    /\ ~ready
    /\ ready' = TRUE
    /\ unheard' = unheard \cup {item[Report]}
    /\ UNCHANGED <<firmware, chip, tog, item, part, done, announced>>

-----------------------------------------------------------------------------
\* Configured: HID_init and SET_CONFIGURATION have cleared the toggles.
Init ==
    /\ setting \in Settings
    /\ pc = "idle" /\ kind = "set" /\ request = 0 /\ token = "INHS"
    /\ nak_count = 0 /\ retry_count = 0
    /\ rcvToggle = [e \in {Control, Report} |-> 0]
    /\ xfrlen = 0 /\ data = <<>> /\ rcode = "SUCCESS"
    /\ sie = None /\ hxfrdnirq = FALSE /\ hrsl = "SUCCESS" /\ rcvfifo = <<>> /\ rcvtog = 0
    /\ tog = [e \in {Control, Report} |-> 0]
    /\ item = [e \in {Control, Report} |-> 0]
    /\ part = [e \in {Control, Report} |-> 1]
    /\ ready = FALSE /\ done = 0
    /\ unheard = {} /\ announced = FALSE

Start == ("poll" \in Kinds /\ Poll) \/ \E k \in Kinds \ {"poll"} : XferCtrlReq(k)
Transfer ==
    \/ Launch \/ SeeDone \/ TimedOut \/ Repeat \/ Fail
    \/ SetupSent \/ StatusSent \/ PacketIn \/ NothingToRead \/ Read
Bus == Lost \/ Refused \/ SetupTaken \/ DataIn \/ StatusIn \/ StatusOut

Next == (Start \/ Transfer \/ Bus \/ NewReport) /\ UNCHANGED setting

\* The processor runs on and its deadlines pass; a chip that cannot hang ends
\* every packet.
Fairness ==
    /\ WF_vars(Transfer /\ UNCHANGED setting)
    /\ WF_vars(~MayHang /\ Bus /\ UNCHANGED setting)

Spec == Init /\ [][Next]_vars /\ Fairness

-----------------------------------------------------------------------------
Successful(k) == pc = "idle" /\ kind \in k /\ rcode = "SUCCESS"

\* A request that returns success was carried out by the device, this request
\* and not the one before it, also with a chip that ends packets too late.
RequestDone == Successful({"get", "set"}) => done = request

\* Data show their end by a short packet or by being all that was asked for.  A report
\* that does neither leaves the poll asking for more: it gets a NAK and drops what it
\* has read, or it gets the next report.
ShowsEnd(e) == Size(e, Parts(e)) < MaxPktSize(e) \/ Length(e) = NBytes(e)

\* The answer to a request may take an empty packet to show its end.
Answers(i) ==
    {Whole(Control, i), Append(Whole(Control, i), [item |-> i, part |-> Parts(Control) + 1])}

\* What a successful request has read is the whole answer to it, in however many packets,
\* and what a successful poll has read is one whole report, never the tail of one whose
\* head was lost with an earlier poll.  There are three exceptions.  A chip that ends a
\* packet after its deadline: the late completion is taken for that of the next transfer's
\* packet, and its data are read before they are there.  A report that does not show its
\* end.  A report of more than two packets: a poll that fails leaves the device in the
\* middle, and the third packet has the toggle of the first.
DataWhole ==
    /\ Successful({"get"}) /\ ~MayHang => data \in Answers(request)
    /\ Successful({"poll"}) /\ ~MayHang /\ ShowsEnd(Report) /\ Parts(Report) <= 2 =>
            \E i \in 0..2 : data = Whole(Report, i)

\* A report that the device repeats because the acknowledgement was lost is not
\* returned a second time, if the chip keeps its deadlines.
NoRepeat == [][Read /\ pc' = "idle" /\ ~MayHang => Head(rcvfifo).item \in unheard]_vars

\* A report is missed only if a poll has returned an error code since the last one:
\* a poll that returns NAK, "no new data", has taken nothing from the device, if
\* reports show their end and the chip keeps its deadlines.
LossAnnounced ==
    [][Read /\ pc' = "idle" /\ ~announced /\ ~MayHang /\ ShowsEnd(Report) =>
            unheard \subseteq {Head(rcvfifo).item, item[Report]}]_vars

\* Every transfer returns.
TransferEnds == (pc # "idle") ~> (pc = "idle")

=============================================================================

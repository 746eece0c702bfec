------------------------------- MODULE MCXfer -------------------------------
(* Reports of one packet, of two and of three, one that fills its packet and *)
(* is shorter than what is asked for; answers of one packet, of three and of *)
(* five, with and without an empty one; and a chip that misses deadlines.   *)
EXTENDS Xfer

\* Both endpoints with packets of the same size and data of the same length.
Setting(bytes, asked, packetSize, transfers, late) ==
    [length |-> [e \in Endpoints |-> bytes], nbytes |-> [e \in Endpoints |-> asked],
     packet |-> [e \in Endpoints |-> packetSize], kinds |-> transfers, hangs |-> late]

MCSettings ==
    {Setting(8, 8, 8, {"poll", "get", "set"}, FALSE),
     Setting(6, 8, 4, {"poll", "get"}, FALSE),
     Setting(4, 8, 4, {"poll", "get"}, FALSE),
     Setting(5, 8, 2, {"poll"}, FALSE),
     Setting(34, 34, 8, {"get"}, FALSE),
     Setting(24, 32, 8, {"get"}, FALSE),
     Setting(8, 8, 8, {"get", "set"}, TRUE)}
=============================================================================

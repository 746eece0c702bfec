----------------------------- MODULE MCJtagUart -----------------------------
(* Writes only, reads only, and both, on rings and FIFOs of a few places. *)
EXTENDS JtagUart

CONSTANTS a, b

Setting(ringSize, fifoSize, limit, longest, letters, ways) ==
    [ring |-> ringSize, fifo |-> fifoSize, threshold |-> limit,
     request |-> longest, chars |-> letters, directions |-> ways]

MCSettings ==
    {Setting(3, 1, 0, 2, {a, b}, {"down"}),
     Setting(3, 2, 1, 2, {a}, {"down"}),
     Setting(2, 2, 1, 2, {a, b}, {"up"}),
     Setting(2, 1, 0, 1, {a}, {"down", "up"})}
=============================================================================

------------------------------- MODULE Panel -------------------------------
(***************************************************************************)
(* What a report of the keyboard or the mouse does to the board: the two   *)
(* two-digit displays, which share one register, and the lights, which     *)
(* share another.  Translated from src/software/usb_kb/main.c.  A register *)
(* is the set of its bits that are on.                                     *)
(***************************************************************************)
EXTENDS Integers

\* The values of the bytes tried, as numbers from 0 to 255.
CONSTANT Bytes

VARIABLES
    leds,       \* the LEDS register
    hex,        \* the HEX_DIGITS register, four digits of four bits
    shown       \* the two values the last report had for the displays

vars == <<leds, hex, shown>>

\* (signed char) of a byte, and what a result becomes when it is stored in one.
Signed(b) == IF b % 256 > 127 THEN (b % 256) - 256 ELSE b % 256

Abs(n) == IF n < 0 THEN -n ELSE n

\* The quotient and the remainder of C, for a positive divisor.
Quotient(n, d) == IF n < 0 THEN -((-n) \div d) ELSE n \div d
Remainder(n, d) == n - d * Quotient(n, d)

\* setLED or clearLED.
Light(lit, n, on) == IF on THEN lit \cup {n} ELSE lit \ {n}

\* The sign and the hundreds of a value on the lights.
SignAndHundreds(lit, value, sign, hundred) ==
    Light(Light(lit, sign, value < 0), hundred, Quotient(Signed(Abs(value)), 100) # 0)

Tens(value) == Quotient(Remainder(Signed(Abs(value)), 100), 10) % 256
Ones(value) == Remainder(Remainder(Signed(Abs(value)), 100), 10) % 256

\* The bits of a byte, and bits shifted to the left.
Bits(byte) ==
    {k \in 0..7 : (byte \div <<1, 2, 4, 8, 16, 32, 64, 128>>[k + 1]) % 2 = 1}
Shifted(bits, n) == {k + n : k \in bits}

\* printSignedHex0 and printSignedHex1: a display is a half of the register; what
\* does not fit into the half falls out of the register or into the other half.
UpperDigits(pio_val, value) ==
    0..15 \cap ((pio_val \cap 0..7) \cup Shifted(Bits(Tens(value)), 12)
                                   \cup Shifted(Bits(Ones(value)), 8))

\* Mutation: the other display is not kept.
LowerAlone(pio_val, value) ==
    0..15 \cap (Shifted(Bits(Tens(value)), 4) \cup Bits(Ones(value)))

LowerDigits(pio_val, value) ==
    0..15 \cap ((pio_val \cap 8..15) \cup Shifted(Bits(Tens(value)), 4) \cup Bits(Ones(value)))

\* Both calls, in the order of main.
Digits(first, second) == LowerDigits(UpperDigits(hex, first), second)
Signs(first, second) == SignAndHundreds(SignAndHundreds(leds, first, 11, 13), second, 10, 12)

-----------------------------------------------------------------------------
\* kbdPoll brought a report: its first two keys are shown.
KeyboardReport(first, second) ==
    /\ hex' = Digits(Signed(first), Signed(second))
    /\ leds' = Signs(Signed(first), Signed(second))
    /\ shown' = <<Signed(first), Signed(second)>>

\* mousePoll brought a report: its displacement, and its buttons on lights 0 to 2.
MouseReport(x, y, buttons) ==
    /\ hex' = Digits(Signed(x), Signed(y))
    /\ leds' = (Signs(Signed(x), Signed(y)) \ {0, 1, 2}) \cup buttons
    /\ shown' = <<Signed(x), Signed(y)>>

Init ==
    /\ leds = {} /\ hex = {}
    /\ shown = <<0, 0>>

Next ==
    \/ \E first, second \in Bytes : KeyboardReport(first, second)
    \/ \E x, y \in Bytes, buttons \in {{}, {0}, {1, 2}} : MouseReport(x, y, buttons)

Spec == Init /\ [][Next]_vars

-----------------------------------------------------------------------------
\* The digit that starts at bit n, and the value of two digits, with the lights for
\* its sign and its hundreds.
Digit(n) ==
    LET weight(k, w) == IF n + k \in hex THEN w ELSE 0
    IN weight(0, 1) + weight(1, 2) + weight(2, 4) + weight(3, 8)

Value(tens, ones, negative, hundred) ==
    LET size == 10 * tens + ones + (IF hundred THEN 100 ELSE 0)
    IN IF negative THEN -size ELSE size

\* The registers tell both values of the last report, whatever was there before
\* and whatever the calls that share the registers wrote in between.  -128, which
\* has no opposite in a signed char, spoils both displays until the next report.
ReadsBack ==
    -128 \notin {shown[1], shown[2]} =>
        /\ Value(Digit(12), Digit(8), 11 \in leds, 13 \in leds) = shown[1]
        /\ Value(Digit(4), Digit(0), 10 \in leds, 12 \in leds) = shown[2]
=============================================================================

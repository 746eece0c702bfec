-------------------------------- MODULE Vga ---------------------------------
(***************************************************************************)
(* vga_controller: the beam's column and line counters and the two sync    *)
(* signals, all clocked by the 25 MHz pixel clock and cleared together by  *)
(* the asynchronous reset.  The rising edge of vs is the game's frame_clk. *)
(* (Clk halved by clkdiv is the pixel clock: one action per rising edge.)  *)
(***************************************************************************)
EXTENDS Integers

CONSTANTS
    hpixels, vlines,            \* last column and last line: 799 and 524
    HSyncFirst, HSyncEnd,       \* hs is low from one to just before the other: 656, 752
    VSyncFirst, VSyncLast,      \* the lines compared with vc + 1: 490 and 491
    ShipTop, ShipBottom         \* the lines the ship is drawn on: 233 and 247

ASSUME VgaAssumption ==
    /\ hpixels \in Nat /\ vlines \in Nat
    /\ HSyncEnd \in 2..hpixels /\ HSyncFirst \in 1..(HSyncEnd - 1)
    /\ VSyncLast \in 2..vlines /\ VSyncFirst \in 2..VSyncLast
    /\ ShipBottom \in 2..(VSyncFirst - 3) /\ ShipTop \in 2..ShipBottom

VARIABLES
    hc, vc,     \* DrawX and DrawY
    hs, vs      \* registered, active low

vars == <<hc, vc, hs, vs>>

Cleared == hc = 0 /\ vc = 0 /\ hs = FALSE /\ vs = FALSE

\* The registers power up as the reset leaves them.
Init == Cleared

\* counter_proc
Advance ==
    IF hc = hpixels THEN hc' = 0 /\ vc' = IF vc = vlines THEN 0 ELSE vc + 1
    ELSE hc' = hc + 1 /\ vc' = vc

\* Mutation: the pulse is one pixel short.
HSyncShort == hs' = ~(HSyncFirst <= hc + 1 /\ hc + 1 < HSyncEnd - 1)

\* hsync_proc: the comparison is with the column the beam is about to enter.
HSync == hs' = ~(HSyncFirst <= hc + 1 /\ hc + 1 < HSyncEnd)

\* Mutation: the pulse never ends.
VSyncStuck == vs' = (vs /\ vc + 1 \notin VSyncFirst..VSyncLast)

\* vsync_proc: the comparison adds one to the line, at every column of it.
VSync == vs' = ~(vc + 1 \in VSyncFirst..VSyncLast)

PixelClk == Advance /\ HSync /\ VSync

Reset == hc' = 0 /\ vc' = 0 /\ hs' = FALSE /\ vs' = FALSE

Next == PixelClk \/ Reset

Spec == Init /\ [][Next]_vars

-----------------------------------------------------------------------------
\* The beam stays on the raster.
TypeOK ==
    /\ hc \in 0..hpixels /\ vc \in 0..vlines
    /\ hs \in BOOLEAN /\ vs \in BOOLEAN

\* VGA_controller.sv:63: the horizontal pulse is low at the pixels from HSyncFirst
\* up to HSyncEnd, on every line and after a reset at any point of one.
HSyncAligned == hc # 0 => (~hs <=> hc \in HSyncFirst..(HSyncEnd - 1))

\* The frame clock never rises while the beam is on the lines of the ship or one
\* pixel clock after them, not even when the reset cuts a frame short.  So the
\* collision flags, set pixel by pixel, are clear when the frame registers read them.
FrameEdgeOffShip == [][~vs /\ vs' => vc' \notin ShipTop..(ShipBottom + 1)]_vars
=============================================================================

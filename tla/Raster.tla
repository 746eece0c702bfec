------------------------------- MODULE Raster -------------------------------
(***************************************************************************)
(* The VGA controller with what the game makes of its outputs: the frame   *)
(* clock that the rising edge of vs gives, and the register ship_on of     *)
(* display_game, which looks at DrawX and DrawY.  It implements Beam: the  *)
(* order of clocks that the game is modelled with is the raster's.         *)
(*                                                                         *)
(* The ship's picture is abstracted: on each of its lines any pixel may be *)
(* opaque.                                                                 *)
(***************************************************************************)
EXTENDS Vga

VARIABLES
    ship_on,    \* the pixel read at the last pixel clock is one of the ship's
    frame       \* "due": vs rose at the last pixel clock; "taken": and clocked the game

view == <<vars, ship_on, frame>>

RasterInit == Init /\ ship_on = FALSE /\ frame = "none"

\* Mutation: one line more than the ship's picture.
ShipOnTall == ship_on' \in IF vc \in ShipTop..(ShipBottom + 1) THEN BOOLEAN ELSE {FALSE}

\* Ship_on
ShipOn == ship_on' \in IF vc \in ShipTop..ShipBottom THEN BOOLEAN ELSE {FALSE}

\* The edge of vs comes with the pixel clock: nothing else happens before the
\* frame registers have taken it.
Pixel ==
    /\ frame # "due"
    /\ PixelClk
    /\ ShipOn
    /\ frame' = IF ~vs /\ vs' THEN "due" ELSE "none"

FrameClk ==
    /\ frame = "due"
    /\ frame' = "taken"
    /\ UNCHANGED <<vars, ship_on>>

\* ship_on has no reset.
Press ==
    /\ frame # "due"
    /\ Reset
    /\ frame' = "none"
    /\ UNCHANGED ship_on

RasterNext == Pixel \/ FrameClk \/ Press

\* The oscillator never stops and the button is not held for ever.
RasterSpec ==
    /\ RasterInit /\ [][RasterNext]_view
    /\ WF_view(Pixel) /\ WF_view(FrameClk)

-----------------------------------------------------------------------------
\* The beam has reached column c of line l in this scan of the raster.
Past(l, c) == vc > l \/ (vc = l /\ hc >= c)

\* What a scan that is under way shows the game.  A pixel is drawn one clock, and
\* its collision set two clocks, after the beam was there.
Scan ==
    IF Past(VSyncLast, 1) \/ ~Past(ShipTop, 2) THEN "above"
    ELSE IF ~Past(ShipBottom + 1, 2) THEN "ship"
    ELSE IF ~Past(ShipBottom + 1, 3) THEN "under"
    ELSE "below"

\* Where the game's beam is.
BeamOf ==
    CASE frame = "due"              -> IF vc = 0 THEN "edge" ELSE "below"
      [] frame = "taken"            -> "top"
      [] frame = "none" /\ Cleared  -> IF ship_on THEN "resetOnShip" ELSE "reset"
      [] frame = "none" /\ ~Cleared -> Scan

Video == INSTANCE Beam WITH beam <- BeamOf

\* The picture keeps the order of clocks that the game relies on, with resets at any
\* pixel: the frame clock rises below the ship or at once after a reset, nothing
\* comes between the edge and the frame registers, and a collision is detected
\* (ship_on) only where Beam says it can be.
RasterIsBeam ==
    /\ Video!Spec
    /\ [][Pixel /\ ship_on => Video!OnShip]_view

\* The game's frames never end, however often the button is pressed.
FramesForever == Video!FramesForever
=============================================================================

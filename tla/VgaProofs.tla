----------------------------- MODULE VgaProofs ------------------------------
(***************************************************************************)
(* The raster for every size of screen and every place of the pulses and   *)
(* the ship that VgaAssumption allows: the controller by itself, then with *)
(* the frame clock and ship_on, where it implements the beam that Game.tla *)
(* takes its order of clocks from.                                         *)
(***************************************************************************)
EXTENDS Raster, TLAPS

\* The vertical pulse is low only after a reset, or from the line before the first
\* it is compared with to the first column of the last.
VSyncPlace == ~vs => (hc = 0 /\ vc = 0) \/ vc \in (VSyncFirst - 1)..VSyncLast

IInv == TypeOK /\ HSyncAligned /\ VSyncPlace

LEMMA Sizes ==
    /\ hpixels \in Nat /\ vlines \in Nat
    /\ HSyncFirst \in Int /\ HSyncEnd \in Int /\ 0 < HSyncFirst /\ HSyncEnd <= hpixels
    /\ VSyncFirst \in Int /\ VSyncLast \in Int /\ VSyncLast <= vlines
    /\ ShipTop \in Int /\ ShipBottom \in Int
    /\ 1 < ShipTop /\ ShipBottom + 1 < VSyncFirst - 1
  BY VgaAssumption DEF VgaAssumption

\* Both the initial state and the reset leave the registers like this.
LEMMA ClearedIInv == Cleared => IInv
<1> SUFFICES ASSUME Cleared PROVE IInv
  OBVIOUS
<1>1. 0 \in 0..hpixels /\ 0 \in 0..vlines
  BY Sizes
<1>2. TypeOK
  BY <1>1 DEF Cleared, TypeOK
<1>3. HSyncAligned /\ VSyncPlace
  BY DEF Cleared, HSyncAligned, VSyncPlace
<1>4. QED
  BY <1>2, <1>3 DEF IInv

LEMMA PixelClkIInv ==
    ASSUME IInv, PixelClk
    PROVE  IInv'
<1>1. hc \in 0..hpixels /\ vc \in 0..vlines
  BY DEF IInv, TypeOK
<1>2. TypeOK'
  <2>1. hc' \in 0..hpixels /\ vc' \in 0..vlines
    BY <1>1, Sizes DEF PixelClk, Advance
  <2>2. hs' \in BOOLEAN /\ vs' \in BOOLEAN
    BY DEF PixelClk, HSync, VSync
  <2>3. QED
    BY <2>1, <2>2 DEF TypeOK
<1>3. HSyncAligned'
  <2>1. hc' # 0 => hc' = hc + 1
    BY DEF PixelClk, Advance
  <2>2. ~hs' <=> HSyncFirst <= hc + 1 /\ hc + 1 < HSyncEnd
    BY DEF PixelClk, HSync
  <2>3. HSyncFirst <= hc + 1 /\ hc + 1 < HSyncEnd <=> hc + 1 \in HSyncFirst..(HSyncEnd - 1)
    BY <1>1, Sizes
  <2>4. QED
    BY <2>1, <2>2, <2>3 DEF HSyncAligned
<1>4. VSyncPlace'
  <2>1. ~vs' => vc + 1 \in VSyncFirst..VSyncLast
    BY DEF PixelClk, VSync
  <2>2. vc + 1 \in VSyncFirst..VSyncLast => vc' \in (VSyncFirst - 1)..VSyncLast
    BY <1>1, Sizes DEF PixelClk, Advance
  <2>3. QED
    BY <2>1, <2>2 DEF VSyncPlace
<1>5. QED
  BY <1>2, <1>3, <1>4 DEF IInv

LEMMA InitIInv == Init => IInv
  BY ClearedIInv DEF Init

LEMMA NextIInv == IInv /\ [Next]_vars => IInv'
<1> SUFFICES ASSUME IInv, [Next]_vars PROVE IInv'
  OBVIOUS
<1>1. CASE PixelClk
  BY <1>1, PixelClkIInv
<1>2. CASE Reset
  <2>1. Cleared'
    BY <1>2 DEF Reset, Cleared
  <2>2. (Cleared => IInv)'
    <3>1. 0 \in 0..hpixels /\ 0 \in 0..vlines
      BY Sizes
    <3>2. QED
      BY <3>1 DEF Cleared, IInv, TypeOK, HSyncAligned, VSyncPlace
  <2>3. QED
    BY <2>1, <2>2
<1>3. CASE UNCHANGED vars
  BY <1>3 DEF vars, IInv, TypeOK, HSyncAligned, VSyncPlace
<1>4. QED
  BY <1>1, <1>2, <1>3 DEF Next

\* The beam never leaves the raster.
THEOREM TypeCorrect == Spec => []TypeOK
<1>1. IInv => TypeOK
  BY DEF IInv
<1>2. QED
  BY InitIInv, NextIInv, <1>1, PTL DEF Spec

\* The horizontal pulse is on its columns, after a reset at any of them too.
THEOREM HSyncCorrect == Spec => []HSyncAligned
<1>1. IInv => HSyncAligned
  BY DEF IInv
<1>2. QED
  BY InitIInv, NextIInv, <1>1, PTL DEF Spec

\* The frame clock never rises while the beam is on the ship or just past it.
THEOREM FrameEdgeSafe == Spec => FrameEdgeOffShip
<1>1. IInv /\ [Next]_vars => [~vs /\ vs' => vc' \notin ShipTop..(ShipBottom + 1)]_vars
  <2> SUFFICES ASSUME IInv, Next, ~vs, vs'
               PROVE  vc' \notin ShipTop..(ShipBottom + 1)
    OBVIOUS
  <2>1. PixelClk
    BY DEF Next, Reset
  <2>2. vc' \in {0, vc, vc + 1} /\ ((hc = 0 /\ vc = 0) \/ vc \in (VSyncFirst - 1)..VSyncLast)
    BY <2>1 DEF IInv, VSyncPlace, PixelClk, Advance
  <2>3. QED
    BY <2>2, VgaAssumption DEF VgaAssumption, IInv, TypeOK
<1>2. QED
  BY InitIInv, NextIInv, <1>1, PTL DEF Spec, FrameEdgeOffShip
-----------------------------------------------------------------------------
\* The raster with the registers it clocks.

\* The vertical pulse is low exactly where it has been seen to be: after a reset, and
\* on its lines.  The scan must not pass the end of them without an edge.
VSyncExact == ~vs <=> Cleared \/ (Past(VSyncFirst - 1, 1) /\ ~Past(VSyncLast, 1))

\* The frame registers are clocked one pixel into a frame, which starts after the
\* pulse or after a reset.
FramePlace ==
    /\ frame \in {"none", "due", "taken"}
    /\ frame # "none" => vs /\ hc = 1 /\ vc \in {0, VSyncLast}

\* ship_on is set from one clock after the first pixel of the ship to one after the
\* last, or was when the button was pressed.
ShipOnPlace ==
    /\ ship_on \in BOOLEAN
    /\ ship_on => frame = "none" /\ (Cleared \/ (Past(ShipTop, 1) /\ ~Past(ShipBottom + 1, 1)))

RasterInv == TypeOK /\ VSyncExact /\ FramePlace /\ ShipOnPlace

\* The sizes in the form the steps below need them.
LEMMA Lines ==
    /\ hpixels \in Nat /\ vlines \in Nat /\ 2 <= hpixels
    /\ ShipTop \in Int /\ ShipBottom \in Int /\ VSyncFirst \in Int /\ VSyncLast \in Int
    /\ 2 <= ShipTop /\ ShipTop <= ShipBottom /\ ShipBottom + 3 <= VSyncFirst
    /\ VSyncFirst <= VSyncLast /\ VSyncLast <= vlines
  BY VgaAssumption DEF VgaAssumption

\* Where the beam goes: along its line, to the next, or back to the top.
LEMMA NextPixel ==
    ASSUME TypeOK, PixelClk
    PROVE  /\ hc \in Nat /\ vc \in Nat /\ hc <= hpixels /\ vc <= vlines
           /\ \/ hc < hpixels /\ hc' = hc + 1 /\ vc' = vc
              \/ hc = hpixels /\ vc < vlines /\ hc' = 0 /\ vc' = vc + 1
              \/ hc = hpixels /\ vc = vlines /\ hc' = 0 /\ vc' = 0
           /\ ~vs' <=> VSyncFirst <= vc + 1 /\ vc + 1 <= VSyncLast
<1>1. hc \in 0..hpixels /\ vc \in 0..vlines
  BY DEF TypeOK
<1>2. hc \in Nat /\ vc \in Nat /\ hc <= hpixels /\ vc <= vlines
  BY <1>1, Lines
<1>3. \/ hc < hpixels /\ hc' = hc + 1 /\ vc' = vc
      \/ hc = hpixels /\ vc < vlines /\ hc' = 0 /\ vc' = vc + 1
      \/ hc = hpixels /\ vc = vlines /\ hc' = 0 /\ vc' = 0
  BY <1>2, Lines DEF PixelClk, Advance
<1>4. ~vs' <=> VSyncFirst <= vc + 1 /\ vc + 1 <= VSyncLast
  <2>1. ~vs' <=> vc + 1 \in VSyncFirst..VSyncLast
    BY DEF PixelClk, VSync
  <2>2. vc + 1 \in VSyncFirst..VSyncLast <=> VSyncFirst <= vc + 1 /\ vc + 1 <= VSyncLast
    BY <1>2, Lines
  <2>3. QED
    BY <2>1, <2>2
<1>5. QED
  BY <1>2, <1>3, <1>4

LEMMA InitRasterInv == RasterInit => RasterInv
<1> SUFFICES ASSUME RasterInit PROVE RasterInv
  OBVIOUS
<1>1. TypeOK
  BY InitIInv DEF RasterInit, IInv
<1>2. VSyncExact /\ FramePlace /\ ShipOnPlace
  BY DEF RasterInit, Init, Cleared, VSyncExact, FramePlace, ShipOnPlace
<1>3. QED
  BY <1>1, <1>2 DEF RasterInv

\* After a pixel clock the pulse is low on its lines and nowhere else.
LEMMA PixelVSync ==
    ASSUME RasterInv, Pixel
    PROVE  /\ ~Cleared'
           /\ ~vs' <=> (Past(VSyncFirst - 1, 1) /\ ~Past(VSyncLast, 1))'
<1>1. TypeOK /\ PixelClk
  BY DEF RasterInv, Pixel
<1>2. /\ hc \in Nat /\ vc \in Nat /\ hc <= hpixels /\ vc <= vlines
      /\ \/ hc < hpixels /\ hc' = hc + 1 /\ vc' = vc
         \/ hc = hpixels /\ vc < vlines /\ hc' = 0 /\ vc' = vc + 1
         \/ hc = hpixels /\ vc = vlines /\ hc' = 0 /\ vc' = 0
      /\ ~vs' <=> VSyncFirst <= vc + 1 /\ vc + 1 <= VSyncLast
  BY <1>1, NextPixel
<1>3. ~vs' <=> (Past(VSyncFirst - 1, 1) /\ ~Past(VSyncLast, 1))'
  BY <1>2, Lines DEF Past
<1>4. ~Cleared'
  BY <1>2, Lines DEF Cleared
<1>5. QED
  BY <1>3, <1>4

LEMMA PixelRasterInv ==
    ASSUME RasterInv, Pixel
    PROVE  RasterInv'
<1>1. /\ TypeOK /\ VSyncExact /\ FramePlace /\ ShipOnPlace
      /\ PixelClk /\ ShipOn /\ frame' = IF ~vs /\ vs' THEN "due" ELSE "none"
  BY DEF RasterInv, Pixel
<1>2. /\ hc \in Nat /\ vc \in Nat /\ hc <= hpixels /\ vc <= vlines
      /\ \/ hc < hpixels /\ hc' = hc + 1 /\ vc' = vc
         \/ hc = hpixels /\ vc < vlines /\ hc' = 0 /\ vc' = vc + 1
         \/ hc = hpixels /\ vc = vlines /\ hc' = 0 /\ vc' = 0
      /\ ~vs' <=> VSyncFirst <= vc + 1 /\ vc + 1 <= VSyncLast
  BY <1>1, NextPixel
<1>3. TypeOK'
  <2>1. hc' \in 0..hpixels /\ vc' \in 0..vlines
    BY <1>2, Lines
  <2>2. hs' \in BOOLEAN /\ vs' \in BOOLEAN
    BY <1>1 DEF PixelClk, HSync, VSync
  <2>3. QED
    BY <2>1, <2>2 DEF TypeOK
<1>4. VSyncExact'
  <2>1. /\ ~Cleared'
        /\ ~vs' <=> (Past(VSyncFirst - 1, 1) /\ ~Past(VSyncLast, 1))'
    BY PixelVSync
  <2>2. QED
    BY <2>1 DEF VSyncExact
<1>5. ~vs /\ vs' => hc = 0 /\ vc \in {0, VSyncLast}
  BY <1>1, <1>2, Lines DEF VSyncExact, Cleared, Past
<1>6. FramePlace'
  <2>1. CASE ~vs /\ vs'
    <3>1. hc = 0 /\ vc \in {0, VSyncLast}
      BY <1>5, <2>1
    <3>2. hc' = 1 /\ vc' = vc
      BY <1>2, <3>1, Lines
    <3>3. frame' = "due"
      BY <1>1, <2>1
    <3>4. QED
      BY <2>1, <3>1, <3>2, <3>3 DEF FramePlace
  <2>2. CASE ~(~vs /\ vs')
    BY <1>1, <2>2 DEF FramePlace
  <2>3. QED
    BY <2>1, <2>2
<1>7. ShipOnPlace'
  <2>1. ship_on' \in BOOLEAN /\ (ship_on' => ShipTop <= vc /\ vc <= ShipBottom)
    <3>1. ship_on' \in BOOLEAN /\ (ship_on' => vc \in ShipTop..ShipBottom)
      BY <1>1 DEF ShipOn
    <3>2. vc \in ShipTop..ShipBottom => ShipTop <= vc /\ vc <= ShipBottom
      BY <1>2, Lines
    <3>3. QED
      BY <3>1, <3>2
  <2>2. ship_on' => frame' = "none"
    BY <1>1, <1>2, <1>5, <2>1, Lines
  <2>3. ship_on' => (Past(ShipTop, 1) /\ ~Past(ShipBottom + 1, 1))'
    BY <1>2, <2>1, Lines DEF Past
  <2>4. QED
    BY <2>1, <2>2, <2>3 DEF ShipOnPlace
<1>8. QED
  BY <1>3, <1>4, <1>6, <1>7 DEF RasterInv

LEMMA PressRasterInv ==
    ASSUME RasterInv, Press
    PROVE  RasterInv'
<1>1. /\ hc' = 0 /\ vc' = 0 /\ hs' = FALSE /\ vs' = FALSE
      /\ frame' = "none" /\ ship_on' = ship_on /\ ship_on \in BOOLEAN
  BY DEF RasterInv, ShipOnPlace, Press, Reset
<1>2. Cleared'
  BY <1>1 DEF Cleared
<1>3. TypeOK'
  <2>1. 0 \in 0..hpixels /\ 0 \in 0..vlines
    BY Lines
  <2>2. QED
    BY <1>1, <2>1 DEF TypeOK
<1>4. QED
  BY <1>1, <1>2, <1>3 DEF RasterInv, VSyncExact, FramePlace, ShipOnPlace

LEMMA FrameClkRasterInv ==
    ASSUME RasterInv, FrameClk
    PROVE  RasterInv'
<1>1. /\ UNCHANGED <<hc, vc, hs, vs, ship_on>> /\ frame = "due" /\ frame' = "taken"
  BY DEF FrameClk, vars
<1>2. ~ship_on
  BY <1>1 DEF RasterInv, ShipOnPlace
<1>3. QED
  BY <1>1, <1>2 DEF RasterInv, TypeOK, VSyncExact, FramePlace, ShipOnPlace, Cleared, Past

LEMMA NextRasterInv == RasterInv /\ [RasterNext]_view => RasterInv'
<1> SUFFICES ASSUME RasterInv, [RasterNext]_view PROVE RasterInv'
  OBVIOUS
<1>1. CASE UNCHANGED view
  BY <1>1 DEF view, vars, RasterInv, TypeOK, VSyncExact, FramePlace, ShipOnPlace, Cleared, Past
<1>2. QED
  BY <1>1, PixelRasterInv, PressRasterInv, FrameClkRasterInv DEF RasterNext
\* A pixel clock takes the game's beam one place on, and is on the ship if ship_on is.
LEMMA PixelIsBeam ==
    ASSUME RasterInv, Pixel
    PROVE  Video!PixelClk /\ (ship_on => Video!OnShip)
<1>1. /\ VSyncExact /\ FramePlace /\ ShipOnPlace
      /\ frame # "due" /\ frame' = IF ~vs /\ vs' THEN "due" ELSE "none"
  BY DEF RasterInv, Pixel
<1>2. /\ hc \in Nat /\ vc \in Nat /\ hc <= hpixels /\ vc <= vlines
      /\ \/ hc < hpixels /\ hc' = hc + 1 /\ vc' = vc
         \/ hc = hpixels /\ vc < vlines /\ hc' = 0 /\ vc' = vc + 1
         \/ hc = hpixels /\ vc = vlines /\ hc' = 0 /\ vc' = 0
      /\ ~vs' <=> VSyncFirst <= vc + 1 /\ vc + 1 <= VSyncLast
  BY NextPixel DEF RasterInv, Pixel
<1>3. ~Cleared'
  BY PixelVSync
<1>4. CASE frame = "taken"
  <2>1. vs /\ hc = 1 /\ vc \in {0, VSyncLast}
    BY <1>1, <1>4 DEF FramePlace
  <2>2. BeamOf = "top" /\ ~ship_on
    BY <1>1, <1>4 DEF BeamOf, ShipOnPlace
  <2>3. frame' = "none"
    BY <1>1, <2>1
  <2>4. hc' = 2 /\ vc' \in {0, VSyncLast}
    BY <1>2, <2>1, Lines
  <2>5. Scan' = "above"
    BY <2>4, Lines DEF Scan, Past
  <2>6. BeamOf' = "above"
    BY <1>3, <2>3, <2>5 DEF BeamOf
  <2>7. QED
    BY <2>2, <2>6 DEF Video!PixelClk, Video!NextPlace
<1>5. CASE frame = "none" /\ Cleared
  <2>1. BeamOf = IF ship_on THEN "resetOnShip" ELSE "reset"
    BY <1>5 DEF BeamOf
  <2>2. vc' = 0 /\ ~vs /\ vs'
    BY <1>2, <1>5, Lines DEF Cleared
  <2>3. BeamOf' = "edge"
    BY <1>1, <2>2 DEF BeamOf
  <2>4. QED
    BY <2>1, <2>3 DEF Video!PixelClk, Video!NextPlace, Video!OnShip
<1>6. CASE frame = "none" /\ ~Cleared /\ vs
  <2>1. BeamOf = Scan /\ BeamOf' = Scan'
    BY <1>1, <1>3, <1>6 DEF BeamOf
  <2>2. ~(Past(VSyncFirst - 1, 1) /\ ~Past(VSyncLast, 1))
    BY <1>1, <1>6 DEF VSyncExact
  <2>3. ASSUME Scan = "above" PROVE Video!PixelClk
    <3>1. Past(VSyncLast, 1) \/ ~Past(ShipTop, 2)
      BY <2>3 DEF Scan
    <3>2. Scan' \in {"above", "ship"}
      BY <1>2, <3>1, Lines DEF Scan, Past
    <3>3. QED
      BY <2>1, <2>3, <3>2 DEF Video!PixelClk, Video!NextPlace
  <2>4. ASSUME Scan = "ship" PROVE Video!PixelClk
    <3>1. ~Past(VSyncLast, 1) /\ Past(ShipTop, 2) /\ ~Past(ShipBottom + 1, 2)
      BY <2>4 DEF Scan
    <3>2. Scan' \in {"ship", "under"}
      BY <1>2, <3>1, Lines DEF Scan, Past
    <3>3. QED
      BY <2>1, <2>4, <3>2 DEF Video!PixelClk, Video!NextPlace
  <2>5. ASSUME Scan = "under" PROVE Video!PixelClk
    <3>1. ~Past(VSyncLast, 1) /\ Past(ShipBottom + 1, 2) /\ ~Past(ShipBottom + 1, 3)
      BY <2>5 DEF Scan
    <3>2. Scan' = "below"
      BY <1>2, <3>1, Lines DEF Scan, Past
    <3>3. QED
      BY <2>1, <2>5, <3>2 DEF Video!PixelClk, Video!NextPlace
  <2>6. ASSUME Scan = "below" PROVE Video!PixelClk
    <3>1. ~Past(VSyncLast, 1) /\ Past(ShipBottom + 1, 3)
      BY <2>6 DEF Scan
    <3>2. Scan' = "below"
      BY <1>2, <2>2, <3>1, Lines DEF Scan, Past
    <3>3. QED
      BY <2>1, <2>6, <3>2 DEF Video!PixelClk, Video!NextPlace
  <2>7. Video!PixelClk
    <3>1. Scan \in {"above", "ship", "under", "below"}
      BY DEF Scan
    <3>2. QED
      BY <2>3, <2>4, <2>5, <2>6, <3>1
  <2>8. ASSUME ship_on PROVE Video!OnShip
    <3>1. Past(ShipTop, 1) /\ ~Past(ShipBottom + 1, 1)
      BY <1>1, <1>6, <2>8 DEF ShipOnPlace
    <3>2. Scan' = "ship"
      BY <1>2, <3>1, Lines DEF Scan, Past
    <3>3. QED
      BY <2>1, <3>2 DEF Video!OnShip
  <2>9. QED
    BY <2>7, <2>8
<1>7. CASE frame = "none" /\ ~Cleared /\ ~vs
  <2>1. Past(VSyncFirst - 1, 1) /\ ~Past(VSyncLast, 1)
    BY <1>1, <1>7 DEF VSyncExact
  <2>2. BeamOf = "below"
    <3>1. Scan = "below"
      BY <1>2, <2>1, Lines DEF Scan, Past
    <3>2. QED
      BY <1>7, <3>1 DEF BeamOf
  <2>3. ~ship_on
    <3>1. Past(ShipBottom + 1, 1)
      BY <1>2, <2>1, Lines DEF Past
    <3>2. QED
      BY <1>1, <1>7, <3>1 DEF ShipOnPlace
  <2>4. CASE vs'
    <3>1. vc' # 0
      BY <1>2, <2>1, <2>4, Lines DEF Past
    <3>2. BeamOf' = "below"
      BY <1>1, <1>7, <2>4, <3>1 DEF BeamOf
    <3>3. QED
      BY <2>2, <2>3, <3>2 DEF Video!PixelClk, Video!NextPlace
  <2>5. CASE ~vs'
    <3>1. (Past(VSyncFirst - 1, 1) /\ ~Past(VSyncLast, 1))'
      BY <2>5, PixelVSync
    <3>2. Scan' = "below"
      BY <1>2, <3>1, Lines DEF Scan, Past
    <3>3. BeamOf' = "below"
      BY <1>1, <1>3, <2>5, <3>2 DEF BeamOf
    <3>4. QED
      BY <2>2, <2>3, <3>3 DEF Video!PixelClk, Video!NextPlace
  <2>6. QED
    BY <2>4, <2>5
<1>8. QED
  BY <1>1, <1>4, <1>5, <1>6, <1>7 DEF FramePlace

LEMMA FrameClkIsBeam ==
    ASSUME RasterInv, FrameClk
    PROVE  Video!FrameClk
<1>1. BeamOf \in {"below", "edge"}
  BY DEF FrameClk, BeamOf
<1>2. BeamOf' = "top"
  BY DEF FrameClk, BeamOf
<1>3. QED
  BY <1>1, <1>2 DEF Video!FrameClk

\* The button leaves ship_on as it was: only the lines of the ship can have set it.
LEMMA PressIsBeam ==
    ASSUME RasterInv, Press
    PROVE  Video!Reset
<1>1. Cleared' /\ frame' = "none" /\ ship_on' = ship_on /\ frame # "due"
  BY DEF Press, Reset, Cleared
<1>2. /\ FramePlace /\ ShipOnPlace /\ hc \in Nat /\ vc \in Nat
  <2>1. hc \in 0..hpixels /\ vc \in 0..vlines
    BY DEF RasterInv, TypeOK
  <2>2. QED
    BY <2>1, Lines DEF RasterInv
<1>3. BeamOf' = IF ship_on THEN "resetOnShip" ELSE "reset"
  BY <1>1 DEF BeamOf
<1>4. BeamOf # "edge"
  <2>1. Scan \in {"above", "ship", "under", "below"}
    BY DEF Scan
  <2>2. QED
    BY <1>1, <1>2, <2>1 DEF BeamOf, FramePlace
<1>5. ASSUME ship_on PROVE BeamOf \in {"above", "ship", "resetOnShip"}
  <2>1. CASE Cleared
    BY <1>2, <1>5, <2>1 DEF BeamOf, ShipOnPlace
  <2>2. CASE ~Cleared
    <3>1. frame = "none" /\ ~Past(ShipBottom + 1, 1)
      BY <1>2, <1>5, <2>2 DEF ShipOnPlace
    <3>2. Scan \in {"above", "ship"}
      BY <1>2, <3>1, Lines DEF Scan, Past
    <3>3. QED
      BY <2>2, <3>1, <3>2 DEF BeamOf
  <2>3. QED
    BY <2>1, <2>2
<1>6. QED
  BY <1>3, <1>4, <1>5 DEF Video!Reset

\* The picture keeps the order of clocks that the game relies on: every step of the
\* raster is a step of the beam or none, and collisions are detected on the ship.
THEOREM RasterImplementsBeam == RasterSpec => RasterIsBeam
<1>1. RasterInit => Video!Init
  BY DEF RasterInit, Init, Cleared, BeamOf, Video!Init
<1>2. RasterInv /\ [RasterNext]_view =>
        [Video!Next]_BeamOf /\ [Pixel /\ ship_on => Video!OnShip]_view
  <2> SUFFICES ASSUME RasterInv, [RasterNext]_view
               PROVE  [Video!Next]_BeamOf /\ [Pixel /\ ship_on => Video!OnShip]_view
    OBVIOUS
  <2>1. CASE UNCHANGED view
    BY <2>1 DEF view, vars, BeamOf, Scan, Past, Cleared
  <2>2. CASE Pixel
    BY <2>2, PixelIsBeam DEF Video!Next
  <2>3. CASE FrameClk
    <3>1. ~Pixel
      BY <2>3 DEF FrameClk, Pixel
    <3>2. QED
      BY <2>3, <3>1, FrameClkIsBeam DEF Video!Next
  <2>4. CASE Press
    <3>1. Video!Reset
      BY <2>4, PressIsBeam
    <3>2. ~Pixel
      <4>1. ASSUME Pixel PROVE FALSE
        BY <2>4, <4>1, PixelVSync DEF Press, Reset, Cleared
      <4>2. QED
        BY <4>1
    <3>3. QED
      BY <3>1, <3>2 DEF Video!Next
  <2>5. QED
    BY <2>1, <2>2, <2>3, <2>4 DEF RasterNext
<1>3. QED
  BY InitRasterInv, NextRasterInv, <1>1, <1>2, PTL DEF RasterSpec, RasterIsBeam, Video!Spec

\* The controller in the picture is the controller by itself.
THEOREM RasterImplementsVga == RasterSpec => Spec
<1>1. RasterInit => Init
  BY DEF RasterInit
<1>2. [RasterNext]_view => [Next]_vars
  BY DEF RasterNext, Pixel, FrameClk, Press, Next, view
<1>3. QED
  BY <1>1, <1>2, PTL DEF RasterSpec, Spec
=============================================================================

-------------------------------- MODULE Beam --------------------------------
(***************************************************************************)
(* What the game needs to know of the picture: where in the frame the beam *)
(* is.  The frame clock rises with the beam far below the ship; collisions *)
(* are detected with it on the ship; the reset button starts a new frame.  *)
(* The game's two clocks take their order from it; the raster implements   *)
(* it (Raster).                                                            *)
(***************************************************************************)

VARIABLE beam

\* The parts of a frame, from one rising edge of VGA_VS to the next.  "ship" is
\* every pixel clock at which the collision flags may be set; "under" is the
\* first after it; "reset" lasts from power up or the press of the button to the
\* first pixel clock after its release, which raises VGA_VS: "edge".  A press with
\* the beam on the ship can leave ship_on set for that clock: "resetOnShip".
Place == {"top", "above", "ship", "under", "below", "reset", "resetOnShip", "edge"}

Init == beam = "reset"

\* The beam at the next pixel clock.
NextPlace ==
    [top |-> {"above"}, above |-> {"above", "ship"}, ship |-> {"ship", "under"},
     under |-> {"below"}, below |-> {"below"},
     reset |-> {"edge"}, resetOnShip |-> {"edge"}, edge |-> {}]

PixelClk == beam' \in NextPlace[beam]

\* The collision flags can be set at this pixel clock.
OnShip == beam' = "ship" \/ beam = "resetOnShip"

FrameClk == beam \in {"below", "edge"} /\ beam' = "top"

\* VGA_VS rises with the pixel clock before "edge": the button does not come between.
Reset ==
    /\ beam # "edge"
    /\ beam' \in {"reset"} \cup
                 IF beam \in {"above", "ship", "resetOnShip"} THEN {"resetOnShip"} ELSE {}

Next == PixelClk \/ FrameClk \/ Reset

Spec == Init /\ [][Next]_beam

\* Frame after frame begins and ends, whatever the button cuts short.
FramesForever == []<>(beam = "top") /\ []<>(beam # "top")
=============================================================================

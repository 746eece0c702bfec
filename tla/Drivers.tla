------------------------------ MODULE Drivers ------------------------------
(***************************************************************************)
(* Three parts of the firmware that share no variable, side by side: the   *)
(* SPI driver, the search for a class driver and the panel.  A behaviour   *)
(* of all three is one of each, so that only one of them moves.            *)
(***************************************************************************)
EXTENDS Spi

CONSTANTS MaxDescr, Capacity, Bytes

ASSUME DriversAssumption == {MaxDescr, Capacity} \subseteq Nat /\ Bytes \subseteq 0..255

VARIABLES
    part,                                                       \* the one that moves
    probe, turn, bigbuf, total_length, ptr, devclass, interface, ep1,
    plugged, configured, boot, failed,                          \* of Probe
    leds, hex, shown                                            \* of Panel

search == <<probe, turn, bigbuf, total_length, ptr, devclass, interface, ep1,
            plugged, configured, boot, failed>>
panel == <<leds, hex, shown>>
all == <<part, vars, search, panel>>

S == INSTANCE Probe WITH pc <- probe, driver <- turn
P == INSTANCE Panel

AllInit ==
    /\ part \in {"spi", "probe", "panel"}
    /\ Init /\ S!Init /\ P!Init
    /\ part = "spi" \/ ~RRDY
    /\ part = "probe" \/ Len(plugged) = 1

SpiMoves(A) == part = "spi" /\ A /\ UNCHANGED <<part, search, panel>>
SearchMoves(A) == part = "probe" /\ A /\ UNCHANGED <<part, vars, panel>>
PanelMoves(A) == part = "panel" /\ A /\ UNCHANGED <<part, vars, search>>

AllNext == SpiMoves(Next) \/ SearchMoves(S!Next) \/ PanelMoves(P!Next)

AllSpec ==
    /\ AllInit /\ [][AllNext]_all
    /\ WF_all(SpiMoves(Command)) /\ WF_all(SpiMoves(Load)) /\ WF_all(SpiMoves(Shifted))

-----------------------------------------------------------------------------
\* What is polled has been set up, whatever an earlier device or an earlier
\* attempt left (Probe).
SetUpAsPolled == S!SetUpAsPolled

\* A device that suits a driver is refused only because a transfer failed (Probe).
RefusedForCause == S!RefusedForCause

\* The registers tell both values of the last report (Panel).
ReadsBack == P!ReadsBack
=============================================================================

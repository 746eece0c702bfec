------------------------------- MODULE MCGame -------------------------------
(***************************************************************************)
(* Small instances of the game.  The plane is a ring in each direction, so *)
(* holding one key brings every base past the ship again and again.        *)
(***************************************************************************)
EXTENDS Game, TLC

CONSTANTS one, two

MCBase == {one, two}

\* A battle along the ship's row: both bases reach the ship's row, and they are
\* too far apart for one pair of bullets to hit both at once, as in the code.
BattleKey == {"a", "fire"}
BattleStart == (one :> [x |-> 2, y |-> 4]) @@ (two :> [x |-> 10, y |-> 6])

\* A flight over the map in two dimensions.
FlightKey == {"w", "d"}
FlightStart == (one :> [x |-> 0, y |-> 1]) @@ (two :> [x |-> 4, y |-> 5])
=============================================================================

------------------------------- MODULE Bases --------------------------------
(***************************************************************************)
(* The enemy bases on the scrolling map: the corner registers of           *)
(* green_enemy_base_example and green_enemy_base_example_two.  The ship    *)
(* stays in the middle of the screen, so the bases move against it, one    *)
(* pixel per frame; a ship with no orientation puts them back at the start.*)
(***************************************************************************)
EXTENDS Integers

CONSTANTS
    Base,           \* the bases: one and two
    BaseStart,      \* their corners at the start: (200, 100) and (400, 300)
    HalfX, HalfY,   \* half a base's size: 32 and 36
    Plane           \* 10-bit coordinates: 1024

ASSUME BasesAssumption ==
    /\ Plane \in Nat \ {0}
    /\ HalfX \in 0..(Plane - 1) /\ HalfY \in 0..(Plane - 1)
    /\ BaseStart \in [Base -> [x : 0..(Plane - 1), y : 0..(Plane - 1)]]

VARIABLE base       \* base[b]: the top left corner TL_Corner_X, TL_Corner_Y

Direction == {"none", "up", "down", "right", "left"}
Coordinate == 0..(Plane - 1)
Point == [x : Coordinate, y : Coordinate]

Moved(p, dx, dy) == [x |-> (p.x + dx) % Plane, y |-> (p.y + dy) % Plane]

\* Where the corner that starts at start goes from p in one frame.
Corner(p, start, direction) ==
    CASE direction = "up"    -> Moved(p, 0, 1)
      [] direction = "down"  -> Moved(p, 0, -1)
      [] direction = "right" -> Moved(p, -1, 0)
      [] direction = "left"  -> Moved(p, 1, 0)
      [] OTHER               -> start

BasesInit == base = BaseStart

\* Mutation: the copied module goes back to the other base's start.
ScrollCopied(direction) ==
    base' = [b \in Base |-> Corner(base[b], BaseStart[CHOOSE c \in Base : TRUE], direction)]

\* The `collided' branch assigns the registers to themselves and the case below
\* it assigns them again: the case always wins.
Scroll(direction) ==
    base' = [b \in Base |-> Corner(base[b], BaseStart[b], direction)]

\* The centre that enemy_bullet and user_bullet_collision compute from the corner.
Center(b) == Moved(base[b], HalfX, HalfY)
=============================================================================

---------------------------- MODULE EnemyBullets ----------------------------
(***************************************************************************)
(* The bullets of the enemy bases: one instance of enemy_bullet.sv per     *)
(* base, all clocked by frame_clk.  show_bullet is assigned the value of   *)
(* shoot_bullet in every branch, so one register stands for both.          *)
(*                                                                         *)
(* Taken alone, the module drives the bases with any sequence of ship      *)
(* orientations; the composition supplies the real one.                    *)
(***************************************************************************)
EXTENDS Bases

CONSTANTS
    enemy_range,                    \* bullet_range of enemy_bullet.sv: 100
    ReachX, ReachY,                 \* a base fires at a ship this close: 100 and 75
    Ship_Center_X, Ship_Center_Y    \* the ship, fixed on the screen: (320, 240)

\* An 8-bit distance passes the range only if it is at most 254, and a bullet
\* fired from the edge of the reach stays on the plane.
ASSUME EnemyAssumption ==
    /\ enemy_range \in 1..254
    /\ ReachX \in Nat /\ ReachY \in Nat
    /\ Ship_Center_X \in (ReachX + enemy_range + 1)..(Plane - ReachX - enemy_range - 2)
    /\ Ship_Center_Y \in Coordinate

VARIABLES
    shoot_bullet,           \* shoot_bullet[b]: base b's bullet is flying and shown
    enemy_distance,         \* bullet_distance_traveled
    shoot_l_or_r,           \* the direction register, "none" until the first shot
    enemy_bullet_x,
    enemy_bullet_y

bulletVars == <<shoot_bullet, enemy_distance, shoot_l_or_r, enemy_bullet_x, enemy_bullet_y>>
vars == <<base, bulletVars>>

BulletsInit ==
    /\ shoot_bullet = [b \in Base |-> FALSE]
    /\ enemy_distance = [b \in Base |-> 0]
    /\ shoot_l_or_r = [b \in Base |-> "none"]
    /\ enemy_bullet_x = [b \in Base |-> 0]
    /\ enemy_bullet_y = [b \in Base |-> 0]

-----------------------------------------------------------------------------
\* The centre is within the reach of the ship on both axes.
ShipIsClose(b) ==
    /\ Ship_Center_X <= Center(b).x + ReachX /\ Center(b).x <= Ship_Center_X + ReachX
    /\ Ship_Center_Y <= Center(b).y + ReachY /\ Center(b).y <= Ship_Center_Y + ReachY

RangeReached(b) == enemy_distance[b] >= enemy_range

\* The side of the base the ship is on.
ShipSide(b) == IF Center(b).x >= Ship_Center_X THEN "left" ELSE "right"

\* Mutation: the distance is counted on the way to the left only.
DistanceLeft(b) ==
    IF shoot_bullet[b] /\ RangeReached(b) THEN 0
    ELSE IF shoot_bullet[b] /\ shoot_l_or_r[b] = "left" THEN (enemy_distance[b] + 2) % 256
    ELSE enemy_distance[b]

\* Mutation: the distance is reset by every step, not only by the last.
DistanceReset(b) ==
    IF shoot_bullet[b] /\ shoot_l_or_r[b] # "none" THEN 0 ELSE enemy_distance[b]

\* The distance counts the steps taken: none while the direction is not known.
NextDistance(b) ==
    IF shoot_bullet[b] /\ RangeReached(b) THEN 0
    ELSE IF shoot_bullet[b] /\ shoot_l_or_r[b] # "none" THEN (enemy_distance[b] + 2) % 256
    ELSE enemy_distance[b]

\* A bullet appears at the centre of its base, returns there when it expires, and
\* steps in the direction the register held BEFORE this frame's update.
NextX(b) ==
    LET x == enemy_bullet_x[b] IN
    IF shoot_bullet[b]
      THEN CASE RangeReached(b)           -> Center(b).x
             [] ~RangeReached(b) /\ shoot_l_or_r[b] = "left"  -> (x - 2) % Plane
             [] ~RangeReached(b) /\ shoot_l_or_r[b] = "right" -> (x + 2) % Plane
             [] OTHER                     -> x
      ELSE IF ShipIsClose(b) THEN Center(b).x ELSE x

\* Mutation: the row is taken at the launch only.
RowAtLaunch(b) ==
    IF ~shoot_bullet[b] /\ ShipIsClose(b) THEN Center(b).y ELSE enemy_bullet_y[b]

\* The bullet keeps to the row of its base, which scrolls.
NextY(b) ==
    IF shoot_bullet[b] \/ ShipIsClose(b) THEN Center(b).y ELSE enemy_bullet_y[b]

\* One frame of every base's bullet: launch, expire, step or stay idle.
BulletsFrame ==
    /\ shoot_bullet' = [b \in Base |-> IF shoot_bullet[b] THEN ~RangeReached(b) ELSE ShipIsClose(b)]
    /\ shoot_l_or_r' = [b \in Base |-> IF shoot_bullet[b] THEN ShipSide(b) ELSE shoot_l_or_r[b]]
    /\ enemy_distance' = [b \in Base |-> NextDistance(b)]
    /\ enemy_bullet_x' = [b \in Base |-> NextX(b)]
    /\ enemy_bullet_y' = [b \in Base |-> NextY(b)]

-----------------------------------------------------------------------------
Init == BasesInit /\ BulletsInit

FrameEdge(direction) == BulletsFrame /\ Scroll(direction)

Next == \E direction \in Direction : FrameEdge(direction)

\* The frame clock never stops.
Spec == Init /\ [][Next]_vars /\ WF_vars(Next)

-----------------------------------------------------------------------------
\* Registers hold values of their widths, and no distance past the last step.
TypeOK ==
    /\ base \in [Base -> Point]
    /\ shoot_bullet \in [Base -> BOOLEAN]
    /\ enemy_distance \in [Base -> 0..(enemy_range + 1)]
    /\ shoot_l_or_r \in [Base -> {"none", "left", "right"}]
    /\ enemy_bullet_x \in [Base -> Coordinate]
    /\ enemy_bullet_y \in [Base -> Coordinate]

\* A bullet in flight is never further from the ship than the reach it was fired
\* from plus the distance it flew: however the base swings from side to side in
\* mid-flight, the 10-bit position does not wrap to the other edge of the screen.
StaysOnPlane ==
    \A b \in Base : shoot_bullet[b] =>
        /\ enemy_bullet_x[b] - Ship_Center_X <= ReachX + enemy_distance[b]
        /\ Ship_Center_X - enemy_bullet_x[b] <= ReachX + enemy_distance[b]

\* A base that is not shooting has its whole range for the next bullet.
FullRangeWhenIdle ==
    \A b \in Base : ~shoot_bullet[b] => enemy_distance[b] = 0

\* A bullet stays on the row of its base as the map scrolls, one frame late at
\* most, unless the base was just put back at its start.
RowFollowsBase ==
    \A b \in Base : shoot_bullet[b] =>
        \/ base[b] = BaseStart[b]
        \/ \E d \in {-1, 0, 1} : (enemy_bullet_y[b] + d) % Plane = Center(b).y

\* Every bullet a base fires expires, so that the base can fire again.
ShotsEnd == \A b \in Base : shoot_bullet[b] ~> ~shoot_bullet[b]
=============================================================================

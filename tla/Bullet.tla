------------------------------- MODULE Bullet -------------------------------
(***************************************************************************)
(* The ship's gun: the trigger register of display_game.sv, the pair of    *)
(* bullets of bullet.sv, and the hit test of user_bullet_collision.sv.     *)
(* One shot is a pair of bullets leaving the ship in opposite directions.  *)
(*                                                                         *)
(* Every register below is clocked by frame_clk, the rising edge of VGA_VS,*)
(* so one action, FrameEdge, updates them all from their old values.       *)
(* Registers keep their width: 7 bits for distances, 10 for coordinates    *)
(* (Plane = 2^10; smaller planes are for compositions).                    *)
(***************************************************************************)
EXTENDS Integers

CONSTANTS
    bullet_range,       \* distance after which a shot expires (120 in the code)
    Ship_Center_X,      \* the ship never moves on the screen: (320, 240)
    Ship_Center_Y,
    Plane,              \* coordinates are computed modulo Plane: 1024
    HitMargin           \* half the side of the box a bullet must reach: 5

\* A 7-bit distance passes the range only if the range is at most 126, and a
\* bullet stays on the plane only if the ship is that far from its edges.
ASSUME BulletAssumption ==
    /\ bullet_range \in 1..126
    /\ Plane \in Nat
    /\ Ship_Center_X \in (bullet_range + 2)..(Plane - bullet_range - 2)
    /\ Ship_Center_Y \in (bullet_range + 2)..(Plane - bullet_range - 2)
    /\ HitMargin \in Nat

VARIABLES
    shoot,                      \* display_game.sv: the trigger, wired to shoot_bullet
    exists,                     \* a shot is in flight
    bullet_distance_traveled,
    shoot_left_right,           \* TRUE: the pair flies along x, FALSE: along y
    x_offset, y_offset,         \* distance of the pair along its axis
    change_x, change_y,         \* drift across the axis while the ship turns away
    x_pos_bullet_1, y_pos_bullet_1,
    x_pos_bullet_2, y_pos_bullet_2

offsets == <<x_offset, y_offset, change_x, change_y>>
positions == <<x_pos_bullet_1, y_pos_bullet_1, x_pos_bullet_2, y_pos_bullet_2>>
flight == <<exists, bullet_distance_traveled, shoot_left_right, offsets, positions>>
vars == <<shoot, flight>>

Direction == {"none", "up", "down", "right", "left"}
Distance == 0..(bullet_range + 1)
Coordinate == 0..(Plane - 1)

Init ==
    /\ shoot = FALSE
    /\ exists = FALSE
    /\ shoot_left_right = FALSE
    /\ bullet_distance_traveled = 0
    /\ x_offset = 0 /\ y_offset = 0
    /\ change_x = 0 /\ change_y = 0
    /\ x_pos_bullet_1 = 0 /\ y_pos_bullet_1 = 0
    /\ x_pos_bullet_2 = 0 /\ y_pos_bullet_2 = 0

-----------------------------------------------------------------------------
\* Mutation: the trigger follows the key and forgets that a shot exists.
TriggerIgnoresShot(fire) ==
    shoot' = fire

\* The trigger is set by the fire key while no shot exists and cleared once one does.
Trigger(fire) ==
    shoot' = IF exists THEN FALSE ELSE shoot \/ fire

\* Both bullets start at the ship's centre.
Launch(direction) ==
    /\ shoot
    /\ exists' = TRUE
    /\ bullet_distance_traveled' = 0
    /\ shoot_left_right' = (direction \notin {"up", "down"})
    /\ x_offset' = 0 /\ y_offset' = 0
    /\ change_x' = 0 /\ change_y' = 0
    /\ x_pos_bullet_1' = Ship_Center_X /\ y_pos_bullet_1' = Ship_Center_Y
    /\ x_pos_bullet_2' = Ship_Center_X /\ y_pos_bullet_2' = Ship_Center_Y

\* Mutations: one frame too late; an equality that an even distance steps over.
RangePassed == bullet_distance_traveled > bullet_range
RangeMet == bullet_distance_traveled = bullet_range - 1

RangeReached == bullet_distance_traveled >= bullet_range

\* The registers holding the positions are not cleared: they keep the last ones.
Expire ==
    /\ ~shoot /\ exists
    /\ RangeReached
    /\ exists' = FALSE
    /\ bullet_distance_traveled' = 0
    /\ UNCHANGED <<shoot_left_right, offsets, positions>>

\* Mutation: the second bullet drifts against the first.
FlyLeftRightSplit(direction) ==
    /\ shoot_left_right
    /\ x_offset' = (x_offset + 2) % 128
    /\ x_pos_bullet_1' = (Ship_Center_X + x_offset) % Plane
    /\ x_pos_bullet_2' = (Ship_Center_X - x_offset) % Plane
    /\ change_y' = (change_y + 1) % 128
    /\ y_pos_bullet_1' = (Ship_Center_Y + change_y) % Plane
    /\ y_pos_bullet_2' = (Ship_Center_Y - change_y) % Plane
    /\ UNCHANGED <<y_offset, change_x>>

\* A pair flying along x; when the ship turns up or down the pair scrolls with
\* the scene, by change_y.
FlyLeftRight(direction) ==
    /\ shoot_left_right
    /\ x_offset' = (x_offset + 2) % 128
    /\ x_pos_bullet_1' = (Ship_Center_X + x_offset) % Plane
    /\ x_pos_bullet_2' = (Ship_Center_X - x_offset) % Plane
    /\ IF direction \in {"up", "down"}
         THEN /\ change_y' = (change_y + 1) % 128
              /\ change_x' = 0
              /\ y_pos_bullet_1' = (IF direction = "up" THEN Ship_Center_Y + change_y
                                                        ELSE Ship_Center_Y - change_y) % Plane
              /\ y_pos_bullet_2' = y_pos_bullet_1'
              /\ UNCHANGED y_offset
         ELSE /\ y_offset' = 0
              /\ y_pos_bullet_1' = Ship_Center_Y
              /\ y_pos_bullet_2' = Ship_Center_Y
              /\ UNCHANGED <<change_x, change_y>>

FlyUpDown(direction) ==
    /\ ~shoot_left_right
    /\ y_offset' = (y_offset + 2) % 128
    /\ y_pos_bullet_1' = (Ship_Center_Y + y_offset) % Plane
    /\ y_pos_bullet_2' = (Ship_Center_Y - y_offset) % Plane
    /\ IF direction \in {"right", "left"}
         THEN /\ change_x' = (change_x + 1) % 128
              /\ change_y' = 0
              /\ x_pos_bullet_1' = (IF direction = "left" THEN Ship_Center_X + change_x
                                                          ELSE Ship_Center_X - change_x) % Plane
              /\ x_pos_bullet_2' = x_pos_bullet_1'
              /\ UNCHANGED x_offset
         ELSE /\ x_offset' = 0
              /\ x_pos_bullet_1' = Ship_Center_X
              /\ x_pos_bullet_2' = Ship_Center_X
              /\ UNCHANGED <<change_x, change_y>>

Fly(direction) ==
    /\ ~shoot /\ exists
    /\ ~RangeReached
    /\ bullet_distance_traveled' = (bullet_distance_traveled + 2) % 128
    /\ FlyLeftRight(direction) \/ FlyUpDown(direction)
    /\ UNCHANGED <<exists, shoot_left_right>>

Idle ==
    /\ ~shoot /\ ~exists
    /\ UNCHANGED flight

\* One frame: fire is "the fire key is down", direction the ship's orientation.
FrameEdge(fire, direction) ==
    /\ Trigger(fire)
    /\ Launch(direction) \/ Expire \/ Fly(direction) \/ Idle

Next == \E fire \in BOOLEAN, direction \in Direction : FrameEdge(fire, direction)

\* The frame clock never stops.
Spec == Init /\ [][Next]_vars /\ WF_vars(Next)

-----------------------------------------------------------------------------
\* user_bullet_collision: the two coordinates of a base's centre are compared
\* with the pair separately, each within HitMargin of either bullet.  The
\* comparison is unsigned and 32 bits wide: a centre below HitMargin never matches.
Within(c, p) == c >= HitMargin /\ c - HitMargin <= p /\ p <= c + HitMargin

enemy_hit(cx, cy) ==
    /\ Within(cy, y_pos_bullet_1) \/ Within(cy, y_pos_bullet_2)
    /\ Within(cx, x_pos_bullet_1) \/ Within(cx, x_pos_bullet_2)

-----------------------------------------------------------------------------
\* Every register holds a value of its width, and the 7-bit distances none past
\* the last step of a flight: a shot never carries its distances into the next.
TypeOK ==
    /\ shoot \in BOOLEAN /\ exists \in BOOLEAN /\ shoot_left_right \in BOOLEAN
    /\ bullet_distance_traveled \in Distance
    /\ x_offset \in Distance /\ y_offset \in Distance
    /\ change_x \in Distance /\ change_y \in Distance
    /\ x_pos_bullet_1 \in Coordinate /\ y_pos_bullet_1 \in Coordinate
    /\ x_pos_bullet_2 \in Coordinate /\ y_pos_bullet_2 \in Coordinate

\* The trigger is a register of another block and is cleared one frame late, so
\* bullet.sv launches twice: the second launch must find the pair still at the
\* ship, and never restart a shot that is on its way.
NoRelaunchInFlight ==
    shoot /\ exists =>
        /\ bullet_distance_traveled = 0
        /\ positions = <<Ship_Center_X, Ship_Center_Y, Ship_Center_X, Ship_Center_Y>>

\* While a shot exists neither bullet is bullet_range pixels or more from the
\* ship on either axis, whatever turns the ship makes: no offset and no
\* position has wrapped round.
WithinRange ==
    exists =>
        /\ x_pos_bullet_1 - Ship_Center_X \in (1 - bullet_range)..(bullet_range - 1)
        /\ x_pos_bullet_2 - Ship_Center_X \in (1 - bullet_range)..(bullet_range - 1)
        /\ y_pos_bullet_1 - Ship_Center_Y \in (1 - bullet_range)..(bullet_range - 1)
        /\ y_pos_bullet_2 - Ship_Center_Y \in (1 - bullet_range)..(bullet_range - 1)

\* The pair is symmetric about the ship on the axis it flies along and on one
\* line across it, in the air and after it has expired.
Paired ==
    \/ /\ x_pos_bullet_1 + x_pos_bullet_2 = 2 * Ship_Center_X
       /\ y_pos_bullet_1 = y_pos_bullet_2
    \/ /\ y_pos_bullet_1 + y_pos_bullet_2 = 2 * Ship_Center_Y
       /\ x_pos_bullet_1 = x_pos_bullet_2
    \/ positions = <<0, 0, 0, 0>>

\* The hit test may match x with one bullet and y with the other, yet it never
\* reports a centre that is not in the box of a single bullet.
NoPhantomHitAt(cx, cy) ==
    enemy_hit(cx, cy) =>
        \/ Within(cx, x_pos_bullet_1) /\ Within(cy, y_pos_bullet_1)
        \/ Within(cx, x_pos_bullet_2) /\ Within(cy, y_pos_bullet_2)

\* The same, at the corners and centres of the boxes a mismatch could occur in.
NoPhantomHit ==
    \A cx \in {x_pos_bullet_1, x_pos_bullet_2}, cy \in {y_pos_bullet_1, y_pos_bullet_2} :
        \A dx, dy \in {-HitMargin, 0, HitMargin} : NoPhantomHitAt(cx + dx, cy + dy)

\* Every shot ends, so the gun is always ready again, even with the key held.
ShotEnds == exists ~> ~exists
=============================================================================

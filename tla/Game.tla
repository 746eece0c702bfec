-------------------------------- MODULE Game --------------------------------
(***************************************************************************)
(* The whole game: State_Controller.sv and display_game.sv composed with   *)
(* the gun (Bullet), the bases (Bases) and their bullets (EnemyBullets).   *)
(*                                                                         *)
(* There are two clocks.  State and moving, and the two collision flags,   *)
(* are updated by the 25 MHz pixel clock VGA_Clk; the map, the bullets and *)
(* the hits by frame_clk, once per frame.  The beam says which of them can *)
(* come next: it meets the ship in the middle of a frame and is far below  *)
(* it when the frame clock rises.  The keycode is written by the processor *)
(* at any time, and the reset button is asynchronous to both clocks.       *)
(*                                                                         *)
(* The pictures are abstracted: where the ship's box meets a base's box    *)
(* the two sprites may or may not have opaque pixels in common.            *)
(***************************************************************************)
EXTENDS Bases

CONSTANTS
    Key,                            \* the keycodes in use, a subset of AnyKey
    ShipHalf,                       \* half the side of the ship's box: 7
    bullet_range, HitMargin,        \* the gun: see Bullet
    enemy_range, ReachX, ReachY,    \* the bases' bullets: see EnemyBullets
    Ship_Center_X, Ship_Center_Y

\* W, S, D and A are 8'h1a, 16, 07 and 04; fire is 8'h2c; other is any other code.
Steering == [w |-> "up", s |-> "down", d |-> "right", a |-> "left"]
AnyKey == DOMAIN Steering \cup {"fire", "other"}

ASSUME GameAssumption ==
    /\ Key \subseteq AnyKey
    /\ ShipHalf \in Nat /\ HitMargin \in Nat
    /\ Ship_Center_X \in Coordinate /\ Ship_Center_Y \in Coordinate

VARIABLES
    State, moving,                  \* State_Controller
    enemy_base_hit,                 \* enemy_base_hit[b]: enemy_one_base_hit, ...
    enemy_hit,                      \* enemy_hit[b]: enemy_hit_one, enemy_hit_two
    collision, bullet_collision,    \* the ship met a base, or a base's bullet
    steer,                          \* the registers up, down, right, left
    ship_orientation,               \* steer, one frame later
    background,                     \* x_offset, y_offset of the star field
    keycode,                        \* written by the processor
    beam,                           \* where in the frame the beam is: see Beam
    \* the gun
    shoot, exists, bullet_distance_traveled, shoot_left_right,
    x_offset, y_offset, change_x, change_y,
    x_pos_bullet_1, y_pos_bullet_1, x_pos_bullet_2, y_pos_bullet_2,
    \* the bases' bullets
    shoot_bullet, enemy_distance, shoot_l_or_r, enemy_bullet_x, enemy_bullet_y

Gun == INSTANCE Bullet
Foe == INSTANCE EnemyBullets
Video == INSTANCE Beam

\* What the gun and the bases' bullets ask of the sizes they share with the game.
ASSUME ArmsAssumption == Gun!BulletAssumption /\ Foe!EnemyAssumption

control == <<State, moving>>
scene == <<base, background, steer, ship_orientation>>
gun == <<shoot, exists, bullet_distance_traveled, shoot_left_right,
         x_offset, y_offset, change_x, change_y,
         x_pos_bullet_1, y_pos_bullet_1, x_pos_bullet_2, y_pos_bullet_2>>
foe == <<shoot_bullet, enemy_distance, shoot_l_or_r, enemy_bullet_x, enemy_bullet_y>>
shots == <<enemy_hit, gun, foe>>
vars == <<control, enemy_base_hit, collision, bullet_collision, keycode, beam, scene, shots>>

Screen == {"START_SCREEN", "PLAY", "WIN", "LOSE"}

Init ==
    /\ State = "START_SCREEN" /\ moving = FALSE
    /\ enemy_base_hit = [b \in Base |-> FALSE]
    /\ enemy_hit = [b \in Base |-> FALSE]
    /\ collision = FALSE /\ bullet_collision = FALSE
    /\ steer = "none" /\ ship_orientation = "none"
    /\ background = [x |-> 0, y |-> 0]
    /\ keycode \in Key
    /\ Video!Init
    /\ BasesInit
    /\ Gun!Init
    /\ Foe!BulletsInit

-----------------------------------------------------------------------------
\* Pixel clock.

lost == collision \/ bullet_collision
win == \A b \in Base : enemy_base_hit[b]

\* What the state register does at a clock that finds neither a loss nor a win.
KeepPlaying ==
    /\ State' = IF State = "START_SCREEN" /\ moving THEN "PLAY" ELSE State
    /\ moving' = (moving \/ keycode \in DOMAIN Steering)

Over(screen) == State' = screen /\ moving' = FALSE

\* Mutation: the screens are decided by Next_state, which knows only PLAY.
ControlInPlay ==
    CASE State = "PLAY" /\ lost -> Over("LOSE")
      [] State = "PLAY" /\ ~lost /\ win -> Over("WIN")
      [] OTHER -> KeepPlaying

\* Losing beats winning, and both beat Next_state, on every screen.
Control ==
    IF lost THEN Over("LOSE") ELSE IF win THEN Over("WIN") ELSE KeepPlaying

\* The pixels of a base's sprite, its last column and row 10 bits wide.
ShipMeetsBase(b) ==
    \E px \in (Ship_Center_X - ShipHalf)..(Ship_Center_X + ShipHalf),
       py \in (Ship_Center_Y - ShipHalf)..(Ship_Center_Y + ShipHalf) :
        /\ base[b].x <= px /\ px <= (base[b].x + 2 * HalfX) % Plane
        /\ base[b].y <= py /\ py <= (base[b].y + 2 * HalfY) % Plane

\* A base's bullet is a box of 3 by 3 pixels.
ShipMeetsBullet(b) ==
    /\ shoot_bullet[b]
    /\ enemy_bullet_x[b] \in (Ship_Center_X - ShipHalf - 1)..(Ship_Center_X + ShipHalf + 1)
    /\ enemy_bullet_y[b] \in (Ship_Center_Y - ShipHalf - 1)..(Ship_Center_Y + ShipHalf + 1)

\* A destroyed base is harmless, and so is its bullet.
Standing == {b \in Base : ~enemy_base_hit[b]}

\* The collision registers: clear unless the beam is on the ship.
Detect(onShip) ==
    /\ collision' \in IF onShip /\ \E b \in Standing : ShipMeetsBase(b)
                        THEN BOOLEAN ELSE {FALSE}
    /\ bullet_collision' \in IF onShip /\ \E b \in Standing : ShipMeetsBullet(b)
                               THEN BOOLEAN ELSE {FALSE}

\* The ship's pixels are decided one clock before the collision they cause.
VgaClk ==
    /\ Video!PixelClk
    /\ Control
    /\ Detect(Video!OnShip)
    /\ UNCHANGED <<enemy_base_hit, keycode, scene, shots>>

-----------------------------------------------------------------------------
\* Frame clock.

\* The direction registers follow the key while the ship moves; a key that does
\* not steer leaves them, and a collision or the end of the movement clears them.
Steer ==
    steer' = IF collision \/ ~moving THEN "none"
             ELSE IF keycode \in DOMAIN Steering THEN Steering[keycode]
             ELSE steer

\* Mutation: a turn to the right scrolls the stars with the bases.
ScrollBackgroundAlong ==
    background' = IF collision THEN background
                  ELSE CASE ship_orientation = "up"    -> Moved(background, 0, -1)
                         [] ship_orientation = "down"  -> Moved(background, 0, 1)
                         [] ship_orientation \in {"right", "left"} -> Moved(background, -1, 0)
                         [] OTHER                      -> [x |-> 0, y |-> 0]

\* The star field moves with the bases: its offset is what they have moved, negated.
ScrollBackground ==
    background' = IF collision THEN background
                  ELSE CASE ship_orientation = "up"    -> Moved(background, 0, -1)
                         [] ship_orientation = "down"  -> Moved(background, 0, 1)
                         [] ship_orientation = "right" -> Moved(background, 1, 0)
                         [] ship_orientation = "left"  -> Moved(background, -1, 0)
                         [] OTHER                      -> [x |-> 0, y |-> 0]

\* A hit is registered one frame after the bullet was near, and kept.
Hits ==
    /\ enemy_hit' = [b \in Base |-> Gun!enemy_hit(Center(b).x, Center(b).y)]
    /\ enemy_base_hit' = [b \in Base |-> enemy_base_hit[b] \/ enemy_hit[b]]

FrameEdge ==
    /\ Video!FrameClk
    /\ Steer
    /\ ship_orientation' = steer
    /\ Scroll(ship_orientation)
    /\ ScrollBackground
    /\ Hits
    /\ Gun!FrameEdge(keycode = "fire", ship_orientation)
    /\ Foe!BulletsFrame
    /\ UNCHANGED <<control, collision, bullet_collision, keycode>>

-----------------------------------------------------------------------------
\* The processor writes the keycode it last received.
KeyChange ==
    /\ keycode' \in Key \ {keycode}
    /\ UNCHANGED <<control, enemy_base_hit, collision, bullet_collision, beam, scene, shots>>

\* The button restarts the screen, the hits and the beam, and nothing else.
Reset ==
    /\ Video!Reset
    /\ State' = "START_SCREEN" /\ moving' = FALSE
    /\ enemy_base_hit' = [b \in Base |-> FALSE]
    /\ UNCHANGED <<collision, bullet_collision, keycode, scene, shots>>

Next == VgaClk \/ FrameEdge \/ KeyChange \/ Reset

\* Both clocks run for ever, and the beam crosses the whole screen.
Spec ==
    /\ Init /\ [][Next]_vars
    /\ WF_vars(VgaClk /\ beam' # beam)
    /\ WF_vars(FrameEdge)

-----------------------------------------------------------------------------
\* The game's own registers hold values of their widths, and both collision flags
\* are known at every clock; the gun and the bullets have invariants of their own.
TypeOK ==
    /\ State \in Screen /\ moving \in BOOLEAN
    /\ enemy_base_hit \in [Base -> BOOLEAN] /\ enemy_hit \in [Base -> BOOLEAN]
    /\ collision \in BOOLEAN /\ bullet_collision \in BOOLEAN
    /\ steer \in Direction /\ ship_orientation \in Direction
    /\ base \in [Base -> Point] /\ background \in Point
    /\ keycode \in Key /\ beam \in Video!Place

\* The winning screen is shown only when every base is destroyed, and the ship
\* stands still on it: State, the hits and moving are set by three blocks on two clocks.
WinSound == State = "WIN" => win /\ ~moving

\* How far base b is from its start.
Travel(b) == Moved(base[b], -BaseStart[b].x, -BaseStart[b].y)

\* The bases are drawn by two modules with registers of their own; they move as one map.
BasesRigid == \A b, c \in Base : Travel(b) = Travel(c)

\* The star field moves with the bases, except after a reset in the middle of a
\* collision, which holds the stars but not the bases for one frame: then the ship
\* is already losing its orientation, which puts both back at the start.
SceneInStep ==
    \A b \in Base :
        \/ Moved(background, Travel(b).x, Travel(b).y) = [x |-> 0, y |-> 0]
        \/ steer = "none" \/ ship_orientation = "none"

\* The game keeps its rules: no loss once the bases are destroyed, a won game ends
\* only by the reset button, and destroying every base is always rewarded.
R == INSTANCE GameRules WITH hit <- enemy_base_hit
KeepsTheRules == R!Rules

\* display_game.sv:229 says the hit registers keep track of the bases that have been
\* hit: a hit is detected only while a bullet exists.
HitNeedsBullet == [][\A b \in Base : ~enemy_hit[b] /\ enemy_hit'[b] => exists]_vars
=============================================================================

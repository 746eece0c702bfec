----------------------------- MODULE GameProofs -----------------------------
(***************************************************************************)
(* The game as a whole, for every number of bases, every plane and every   *)
(* set of keys: the map stays in one piece, the winning screen is earned,  *)
(* where the bases are far enough apart every step is one that GameRules   *)
(* allows, and the gun and the bases' bullets are the ones that            *)
(* BulletProofs and EnemyBulletsProofs are about.                          *)
(***************************************************************************)
EXTENDS Game, TLAPS

-----------------------------------------------------------------------------
\* A number less than one turn off the ring is at most one turn from its place.
LEMMA Turn ==
    ASSUME NEW n \in Nat \ {0}, NEW a \in Int, -n <= a, a < 2 * n
    PROVE  a % n = IF a < 0 THEN a + n ELSE IF a < n THEN a ELSE a - n
<1>1. CASE a < 0
  <2>1. (a + n) % n = a + n
    BY <1>1
  <2>2. QED
    BY <1>1
<1>2. CASE a >= 0 /\ a < n
  BY <1>2
<1>3. CASE a >= n
  BY <1>3
<1>4. QED
  BY <1>1, <1>2, <1>3

\* One step along the ring, either way.
LEMMA OneStep ==
    ASSUME NEW n \in Nat \ {0}, NEW p \in 0..(n - 1), NEW d \in -1..1
    PROVE  /\ (p + d) % n = IF p + d < 0 THEN p + d + n ELSE IF p + d < n THEN p + d ELSE p + d - n
           /\ (p - d) % n = IF p - d < 0 THEN p - d + n ELSE IF p - d < n THEN p - d ELSE p - d - n
<1> DEFINE s == p + d
           r == p - d
<1>1. /\ s \in Int /\ -n <= s /\ s < 2 * n
      /\ r \in Int /\ -n <= r /\ r < 2 * n
  OBVIOUS
<1> HIDE DEF s, r
<1>2. s % n = IF s < 0 THEN s + n ELSE IF s < n THEN s ELSE s - n
  BY <1>1, Turn
<1>3. r % n = IF r < 0 THEN r + n ELSE IF r < n THEN r ELSE r - n
  BY <1>1, Turn
<1>4. QED
  BY <1>2, <1>3 DEF s, r

\* The arc from one point of a ring to another.
LEMMA Arc ==
    ASSUME NEW n \in Nat \ {0}, NEW p \in 0..(n - 1), NEW q \in 0..(n - 1)
    PROVE  (p - q) % n = IF p - q < 0 THEN p - q + n ELSE p - q
<1>1. p - q \in Int /\ -n <= p - q /\ p - q < 2 * n /\ p - q < n
  OBVIOUS
<1>2. QED
  BY <1>1, Turn

\* Turning a point of a ring turns the arc that leads to it.
LEMMA Together ==
    ASSUME NEW n \in Nat \ {0}, NEW p \in 0..(n - 1), NEW q \in 0..(n - 1), NEW d \in -1..1
    PROVE  (((p + d) % n) - q) % n = (((p - q) % n) + d) % n
<1> DEFINE a == (p + d) % n
           t == (p - q) % n
<1>1. a = IF p + d < 0 THEN p + d + n ELSE IF p + d < n THEN p + d ELSE p + d - n
  BY OneStep
<1>2. t = IF p - q < 0 THEN p - q + n ELSE p - q
  BY Arc
<1>3. a \in 0..(n - 1) /\ t \in 0..(n - 1)
  BY <1>1, <1>2
<1> HIDE DEF a, t
<1>4. (a - q) % n = IF a - q < 0 THEN a - q + n ELSE a - q
  BY <1>3, Arc
<1>5. (t + d) % n = IF t + d < 0 THEN t + d + n ELSE IF t + d < n THEN t + d ELSE t + d - n
  BY <1>3, OneStep
<1>6. (a - q) % n = (t + d) % n
  BY <1>1, <1>2, <1>3, <1>4, <1>5
<1>7. QED
  BY <1>6 DEF a, t

\* Turning one point back and another on by as much leaves their sum.
LEMMA Against ==
    ASSUME NEW n \in Nat \ {0}, NEW g \in 0..(n - 1), NEW t \in 0..(n - 1), NEW d \in -1..1
    PROVE  (g + t) % n = 0 => (((g - d) % n) + ((t + d) % n)) % n = 0
<1> DEFINE a == (g - d) % n
           u == (t + d) % n
<1>1. (g + t) % n = 0 => g + t = 0 \/ g + t = n
  <2> DEFINE s == g + t
  <2>1. s \in Int /\ 0 <= s /\ -n <= s /\ s < 2 * n
    OBVIOUS
  <2> HIDE DEF s
  <2>2. s % n = IF s < 0 THEN s + n ELSE IF s < n THEN s ELSE s - n
    BY <2>1, Turn
  <2>3. QED
    BY <2>1, <2>2 DEF s
<1>2. a = IF g - d < 0 THEN g - d + n ELSE IF g - d < n THEN g - d ELSE g - d - n
  BY OneStep
<1>3. u = IF t + d < 0 THEN t + d + n ELSE IF t + d < n THEN t + d ELSE t + d - n
  BY OneStep
<1>4. a \in 0..(n - 1) /\ u \in 0..(n - 1)
  BY <1>2, <1>3
<1> HIDE DEF a, u
<1>5. g + t = 0 \/ g + t = n => a + u = 0 \/ a + u = n
  BY <1>2, <1>3, <1>4
<1>6. a + u = 0 \/ a + u = n => (a + u) % n = 0
  BY <1>4, Turn
<1>7. QED
  BY <1>1, <1>5, <1>6 DEF a, u

-----------------------------------------------------------------------------
\* The map: the bases' corners and the star field.

MapOK == base \in [Base -> Point] /\ background \in Point

Steered == {"up", "down", "right", "left"}
DX(direction) == CASE direction = "left" -> 1 [] direction = "right" -> -1 [] OTHER -> 0
DY(direction) == CASE direction = "up" -> 1 [] direction = "down" -> -1 [] OTHER -> 0
Origin == [x |-> 0, y |-> 0]

LEMMA ShiftRange == \A direction : DX(direction) \in -1..1 /\ DY(direction) \in -1..1
  BY DEF DX, DY

LEMMA MovedOnPlane ==
    ASSUME NEW p \in Point, NEW dx \in Int, NEW dy \in Int
    PROVE  Moved(p, dx, dy) \in Point
<1>1. p.x + dx \in Int /\ p.y + dy \in Int /\ Plane \in Nat \ {0}
  BY BasesAssumption DEF BasesAssumption, Point, Coordinate
<1>2. (p.x + dx) % Plane \in Coordinate /\ (p.y + dy) % Plane \in Coordinate
  BY <1>1 DEF Coordinate
<1>3. QED
  BY <1>2 DEF Moved, Point

\* What a frame does to one base.
LEMMA ScrollBase ==
    ASSUME MapOK, NEW direction, Scroll(direction), NEW b \in Base
    PROVE  /\ base'[b] \in Point
           /\ base'[b] = IF direction \in Steered
                           THEN Moved(base[b], DX(direction), DY(direction))
                           ELSE BaseStart[b]
<1>1. base'[b] = Corner(base[b], BaseStart[b], direction)
  BY DEF Scroll
<1>2. base[b] \in Point /\ BaseStart[b] \in Point
  BY BasesAssumption DEF MapOK, BasesAssumption, Point, Coordinate
<1>3. base'[b] = IF direction \in Steered
                   THEN Moved(base[b], DX(direction), DY(direction)) ELSE BaseStart[b]
  BY <1>1 DEF Corner, Steered, DX, DY
<1>4. Moved(base[b], DX(direction), DY(direction)) \in Point
  BY <1>2, ShiftRange, MovedOnPlane
<1>5. QED
  BY <1>2, <1>3, <1>4

\* What a frame without a collision does to the stars.
LEMMA ScrollStars ==
    ASSUME MapOK, ScrollBackground
    PROVE  /\ background' \in Point
           /\ ~collision => background' = IF ship_orientation \in Steered
                THEN Moved(background, -DX(ship_orientation), -DY(ship_orientation))
                ELSE Origin
<1>1. ~collision => background' = IF ship_orientation \in Steered
                THEN Moved(background, -DX(ship_orientation), -DY(ship_orientation))
                ELSE Origin
  BY DEF ScrollBackground, Steered, DX, DY, Origin
<1>2. Moved(background, -DX(ship_orientation), -DY(ship_orientation)) \in Point
  BY ShiftRange, MovedOnPlane DEF MapOK
<1>3. Origin \in Point
  BY BasesAssumption DEF BasesAssumption, Origin, Point, Coordinate
<1>4. QED
  BY <1>1, <1>2, <1>3 DEF MapOK, ScrollBackground

\* What a frame does to the way a base has come from its start.
LEMMA TravelStep ==
    ASSUME MapOK, NEW direction, Scroll(direction), NEW b \in Base
    PROVE  /\ Travel(b) \in Point
           /\ Travel(b)' = IF direction \in Steered
                             THEN Moved(Travel(b), DX(direction), DY(direction))
                             ELSE Origin
<1> DEFINE dx == DX(direction)
           dy == DY(direction)
           p == base[b]
           q == BaseStart[b]
<1>1. /\ Plane \in Nat \ {0}
      /\ p.x \in 0..(Plane - 1) /\ p.y \in 0..(Plane - 1)
      /\ q.x \in 0..(Plane - 1) /\ q.y \in 0..(Plane - 1)
      /\ p \in Point /\ q \in Point
      /\ dx \in -1..1 /\ dy \in -1..1
  BY ShiftRange, BasesAssumption DEF MapOK, BasesAssumption, Point, Coordinate
<1>2. Travel(b) = [x |-> (p.x - q.x) % Plane, y |-> (p.y - q.y) % Plane]
  BY <1>1 DEF Travel, Moved
<1>3. Travel(b) \in Point
  BY <1>1, MovedOnPlane DEF Travel
<1>4. Travel(b)' = [x |-> (base'[b].x - q.x) % Plane, y |-> (base'[b].y - q.y) % Plane]
  <2>1. base'[b].x \in Int /\ base'[b].y \in Int
    BY ScrollBase DEF Point, Coordinate
  <2>2. QED
    BY <1>1, <2>1 DEF Travel, Moved
<1>5. CASE direction \in Steered
  <2>1. base'[b] = [x |-> (p.x + dx) % Plane, y |-> (p.y + dy) % Plane]
    BY <1>5, ScrollBase DEF Moved
  <2>2. (((p.x + dx) % Plane) - q.x) % Plane = (((p.x - q.x) % Plane) + dx) % Plane
    BY <1>1, Together
  <2>3. (((p.y + dy) % Plane) - q.y) % Plane = (((p.y - q.y) % Plane) + dy) % Plane
    BY <1>1, Together
  <2>4. QED
    BY <1>2, <1>3, <1>4, <1>5, <2>1, <2>2, <2>3 DEF Moved
<1>6. CASE direction \notin Steered
  <2>1. base'[b] = q
    BY <1>6, ScrollBase
  <2>2. (q.x - q.x) % Plane = 0 /\ (q.y - q.y) % Plane = 0
    BY <1>1, Arc
  <2>3. QED
    BY <1>3, <1>4, <1>6, <2>1, <2>2 DEF Origin
<1>7. QED
  BY <1>5, <1>6

\* Stars and bases that cancel out still do after a step of both.
LEMMA Opposite ==
    ASSUME NEW g \in Point, NEW t \in Point, NEW dx \in -1..1, NEW dy \in -1..1,
           Moved(g, t.x, t.y) = Origin
    PROVE  LET u == Moved(t, dx, dy) IN Moved(Moved(g, -dx, -dy), u.x, u.y) = Origin
<1>1. /\ Plane \in Nat \ {0}
      /\ g.x \in 0..(Plane - 1) /\ g.y \in 0..(Plane - 1)
      /\ t.x \in 0..(Plane - 1) /\ t.y \in 0..(Plane - 1)
  BY BasesAssumption DEF BasesAssumption, Point, Coordinate
<1>2. (g.x + t.x) % Plane = 0 /\ (g.y + t.y) % Plane = 0
  BY DEF Moved, Origin
<1>3. (((g.x - dx) % Plane) + ((t.x + dx) % Plane)) % Plane = 0
  BY <1>1, <1>2, Against
<1>4. (((g.y - dy) % Plane) + ((t.y + dy) % Plane)) % Plane = 0
  BY <1>1, <1>2, Against
<1> DEFINE gx == (g.x - dx) % Plane
           gy == (g.y - dy) % Plane
           tx == (t.x + dx) % Plane
           ty == (t.y + dy) % Plane
<1>5. Moved(g, -dx, -dy) = [x |-> gx, y |-> gy] /\ Moved(t, dx, dy) = [x |-> tx, y |-> ty]
  BY <1>1 DEF Moved
<1>6. (gx + tx) % Plane = 0 /\ (gy + ty) % Plane = 0
  BY <1>3, <1>4
<1> HIDE DEF gx, gy, tx, ty
<1>7. Moved([x |-> gx, y |-> gy], tx, ty) = Origin
  BY <1>6 DEF Moved, Origin
<1>8. QED
  BY <1>5, <1>7

MapInv == MapOK /\ BasesRigid /\ SceneInStep

LEMMA InitMapInv == Init => MapInv
<1> SUFFICES ASSUME Init PROVE MapInv
  OBVIOUS
<1>1. MapOK
  BY BasesAssumption DEF Init, BasesInit, BasesAssumption, MapOK, Point, Coordinate
<1>2. \A b \in Base : Travel(b) = Origin
  <2> SUFFICES ASSUME NEW b \in Base PROVE Travel(b) = Origin
    OBVIOUS
  <2>1. BaseStart[b].x \in 0..(Plane - 1) /\ BaseStart[b].y \in 0..(Plane - 1)
    BY BasesAssumption DEF BasesAssumption
  <2>2. /\ (BaseStart[b].x - BaseStart[b].x) % Plane = 0
        /\ (BaseStart[b].y - BaseStart[b].y) % Plane = 0
    BY <2>1, Arc, BasesAssumption DEF BasesAssumption
  <2>3. QED
    BY <2>1, <2>2 DEF Init, BasesInit, Travel, Moved, Origin
<1>3. BasesRigid
  BY <1>2 DEF BasesRigid
<1>4. SceneInStep
  BY DEF Init, SceneInStep
<1>5. QED
  BY <1>1, <1>3, <1>4 DEF MapInv

\* All bases turn by the same step, and the stars by its opposite.  Where the
\* stars are held by a collision, the ship loses its orientation with them.
LEMMA FrameMapInv ==
    ASSUME MapInv, FrameEdge
    PROVE  MapInv'
<1> DEFINE d == ship_orientation
<1>1. /\ MapOK /\ BasesRigid /\ SceneInStep
      /\ Scroll(d) /\ ScrollBackground /\ Steer /\ ship_orientation' = steer
  BY DEF MapInv, FrameEdge
<1>2. MapOK'
  <2>1. background' \in Point
    BY <1>1, ScrollStars
  <2>2. \A b \in Base : base'[b] \in Point
    BY <1>1, ScrollBase
  <2>3. base' = [b \in Base |-> base'[b]]
    BY <1>1 DEF Scroll
  <2>4. QED
    BY <2>1, <2>2, <2>3 DEF MapOK
<1>3. BasesRigid'
  <2>1. \A b \in Base : Travel(b)' = IF d \in Steered
            THEN Moved(Travel(b), DX(d), DY(d)) ELSE Origin
    BY <1>1, TravelStep
  <2>2. QED
    BY <1>1, <2>1 DEF BasesRigid
<1>4. SceneInStep'
  <2> SUFFICES ASSUME NEW b \in Base, ~collision, steer # "none"
               PROVE  Moved(background', Travel(b)'.x, Travel(b)'.y) = Origin
    <3>1. collision \/ steer = "none" => steer' = "none" \/ ship_orientation' = "none"
      BY <1>1 DEF Steer
    <3>2. QED
      BY <3>1 DEF SceneInStep, Moved, Origin
  <2> DEFINE t == Travel(b)
             dx == DX(d)
             dy == DY(d)
  <2>1. /\ Plane \in Nat \ {0}
        /\ t \in Point /\ background \in Point
        /\ t.x \in 0..(Plane - 1) /\ t.y \in 0..(Plane - 1)
        /\ background.x \in 0..(Plane - 1) /\ background.y \in 0..(Plane - 1)
        /\ dx \in -1..1 /\ dy \in -1..1
    BY <1>1, TravelStep, ShiftRange, BasesAssumption
       DEF MapOK, BasesAssumption, Point, Coordinate
  <2>2. CASE d \in Steered
    <3>1. Moved(background, t.x, t.y) = Origin
      BY <1>1, <2>2 DEF SceneInStep, Steered, Origin
    <3>2. Travel(b)' = Moved(t, dx, dy) /\ background' = Moved(background, -dx, -dy)
      BY <1>1, <2>2, TravelStep, ScrollStars
    <3>3. QED
      BY <2>1, <3>1, <3>2, Opposite
  <2>3. CASE d \notin Steered
    <3>1. Travel(b)' = Origin /\ background' = Origin
      BY <1>1, <2>3, TravelStep, ScrollStars
    <3>2. 0 % Plane = 0
      BY <2>1
    <3>3. QED
      BY <3>1, <3>2 DEF Moved, Origin
  <2>4. QED
    BY <2>2, <2>3
<1>5. QED
  BY <1>2, <1>3, <1>4 DEF MapInv

LEMMA NextMapInv == MapInv /\ [Next]_vars => MapInv'
<1> SUFFICES ASSUME MapInv, [Next]_vars PROVE MapInv'
  OBVIOUS
<1>1. CASE UNCHANGED scene
  <2>1. base' = base /\ background' = background /\ steer' = steer
        /\ ship_orientation' = ship_orientation
    BY <1>1 DEF scene
  <2>2. \A b \in Base : Travel(b)' = Travel(b)
    BY <2>1 DEF Travel
  <2>3. QED
    BY <2>1, <2>2 DEF MapInv, MapOK, BasesRigid, SceneInStep, Travel
<1>2. CASE FrameEdge
  BY <1>2, FrameMapInv
<1>3. QED
  BY <1>1, <1>2 DEF Next, VgaClk, KeyChange, Reset, vars

\* The bases are drawn by two modules with registers of their own, yet they move
\* as one map, through every turn, stop and reset.
THEOREM MapRigid == Spec => []BasesRigid
<1>1. MapInv => BasesRigid
  BY DEF MapInv
<1>2. QED
  BY InitMapInv, NextMapInv, <1>1, PTL DEF Spec

\* The star field never slips against the bases while the ship is flying.
THEOREM StarsInStep == Spec => []SceneInStep
<1>1. MapInv => SceneInStep
  BY DEF MapInv
<1>2. QED
  BY InitMapInv, NextMapInv, <1>1, PTL DEF Spec

-----------------------------------------------------------------------------
\* Every register of the game keeps to its width at every step of either clock.
LEMMA NextTypeOK == TypeOK /\ [Next]_vars => TypeOK'
<1> SUFFICES ASSUME TypeOK, [Next]_vars PROVE TypeOK'
  OBVIOUS
<1>1. CASE VgaClk
  <2>1. State' \in Screen /\ moving' \in BOOLEAN
    BY <1>1 DEF VgaClk, Control, Over, KeepPlaying, TypeOK, Screen
  <2>2. collision' \in BOOLEAN /\ bullet_collision' \in BOOLEAN
    BY <1>1 DEF VgaClk, Detect
  <2>3. beam' \in Video!Place
    BY <1>1 DEF VgaClk, TypeOK, Video!PixelClk, Video!Place, Video!NextPlace
  <2>4. UNCHANGED <<enemy_base_hit, enemy_hit, keycode, base, background, steer, ship_orientation>>
    BY <1>1 DEF VgaClk, scene, shots
  <2>5. QED
    BY <2>1, <2>2, <2>3, <2>4 DEF TypeOK, Point, Coordinate
<1>2. CASE FrameEdge
  <2>1. /\ UNCHANGED <<State, moving, collision, bullet_collision, keycode>>
        /\ beam' = "top" /\ Steer /\ ship_orientation' = steer
        /\ Scroll(ship_orientation) /\ ScrollBackground /\ Hits
    BY <1>2 DEF FrameEdge, control, Video!FrameClk
  <2>2. MapOK'
    <3>1. MapOK
      BY DEF TypeOK, MapOK
    <3>2. background' \in Point
      BY <2>1, <3>1, ScrollStars
    <3>3. \A b \in Base : base'[b] \in Point
      BY <2>1, <3>1, ScrollBase
    <3>4. base' = [b \in Base |-> base'[b]]
      BY <2>1 DEF Scroll
    <3>5. QED
      BY <3>2, <3>3, <3>4 DEF MapOK
  <2>3. steer' \in Direction /\ ship_orientation' \in Direction
    BY <2>1 DEF Steer, Steering, Direction, TypeOK
  <2>4. enemy_hit' \in [Base -> BOOLEAN]
    <3>1. \A b \in Base : Gun!enemy_hit(Center(b).x, Center(b).y) \in BOOLEAN
      BY DEF Gun!enemy_hit
    <3>2. QED
      BY <2>1, <3>1 DEF Hits
  <2>5. enemy_base_hit' \in [Base -> BOOLEAN]
    BY <2>1 DEF Hits, TypeOK
  <2>6. QED
    BY <2>1, <2>2, <2>3, <2>4, <2>5 DEF TypeOK, MapOK, Video!Place
<1>3. CASE Reset
  <2>1. /\ State' \in Screen /\ moving' \in BOOLEAN
        /\ enemy_base_hit' \in [Base -> BOOLEAN] /\ beam' \in Video!Place
    BY <1>3 DEF Reset, Screen, Video!Reset, Video!Place
  <2>2. UNCHANGED <<enemy_hit, collision, bullet_collision, keycode,
                    base, background, steer, ship_orientation>>
    BY <1>3 DEF Reset, scene, shots
  <2>3. QED
    BY <2>1, <2>2 DEF TypeOK, Point, Coordinate
<1>4. CASE KeyChange \/ UNCHANGED vars
  <2>1. keycode' \in Key
    BY <1>4 DEF KeyChange, vars, TypeOK
  <2>2. UNCHANGED <<State, moving, enemy_base_hit, enemy_hit, collision, bullet_collision,
                    beam, base, background, steer, ship_orientation>>
    BY <1>4 DEF KeyChange, vars, control, scene, shots
  <2>3. QED
    BY <2>1, <2>2 DEF TypeOK, Point, Coordinate
<1>5. QED
  BY <1>1, <1>2, <1>3, <1>4 DEF Next

\* No register of the game leaves its width: the map, the screens, the hits and the
\* flags, whatever keys are pressed and whenever the button is.
THEOREM TypeCorrect == Spec => []TypeOK
<1>1. Init => TypeOK
  <2>1. Init => MapOK
    BY InitMapInv DEF MapInv
  <2>2. QED
    BY <2>1 DEF Init, TypeOK, MapOK, Screen, Video!Init, Video!Place, Direction
<1>2. QED
  BY <1>1, NextTypeOK, PTL DEF Spec

-----------------------------------------------------------------------------
\* The screens and the hits, whatever the two clocks and the button do in between.
LEMMA NextWinSound == WinSound /\ [Next]_vars => WinSound'
<1> SUFFICES ASSUME WinSound, [Next]_vars PROVE WinSound'
  OBVIOUS
<1>1. CASE VgaClk
  <2>1. win' = win
    BY <1>1 DEF VgaClk, win
  <2>2. CASE lost
    BY <1>1, <2>2 DEF VgaClk, Control, Over, WinSound
  <2>3. CASE ~lost /\ win
    BY <1>1, <2>1, <2>3 DEF VgaClk, Control, Over, WinSound
  <2>4. CASE ~lost /\ ~win
    BY <1>1, <2>1, <2>4 DEF VgaClk, Control, KeepPlaying, WinSound
  <2>5. QED
    BY <2>2, <2>3, <2>4
<1>2. CASE FrameEdge
  <2>1. State' = State /\ moving' = moving
    BY <1>2 DEF FrameEdge, control
  <2>2. win => win'
    BY <1>2 DEF FrameEdge, Hits, win
  <2>3. QED
    BY <2>1, <2>2 DEF WinSound
<1>3. CASE Reset
  BY <1>3 DEF Reset, WinSound
<1>4. CASE UNCHANGED <<control, enemy_base_hit>>
  BY <1>4 DEF control, WinSound, win
<1>5. QED
  BY <1>1, <1>2, <1>3, <1>4 DEF Next, KeyChange, vars

\* The winning screen is shown only to a player who has destroyed every base, and
\* the ship stands still on it: the state register, the hits and moving agree.
THEOREM WinIsSound == Spec => []WinSound
<1>1. Init => WinSound
  BY DEF Init, WinSound
<1>2. QED
  BY <1>1, NextWinSound, PTL DEF Spec

-----------------------------------------------------------------------------
\* Bases further apart, on both axes, than one bullet's box is wide: (200, 100)
\* and (400, 300) in the code, against a box of 10.  And more than one of them.
Apart ==
    /\ \E b, c \in Base : b # c
    /\ \A b, c \in Base : b # c =>
         /\ (BaseStart[b].x - BaseStart[c].x) % Plane
              \in (2 * HitMargin + 1)..(Plane - 2 * HitMargin - 1)
         /\ (BaseStart[b].y - BaseStart[c].y) % Plane
              \in (2 * HitMargin + 1)..(Plane - 2 * HitMargin - 1)

\* Points that have come as far from their starts are as far apart as the starts.
LEMMA ArcKept ==
    \A p, q, s, t \in Coordinate :
        (p - s) % Plane = (q - t) % Plane => (p - q) % Plane = (s - t) % Plane
<1> SUFFICES ASSUME NEW p \in Coordinate, NEW q \in Coordinate,
                    NEW s \in Coordinate, NEW t \in Coordinate,
                    (p - s) % Plane = (q - t) % Plane
             PROVE  (p - q) % Plane = (s - t) % Plane
  OBVIOUS
<1>1. /\ Plane \in Nat \ {0}
      /\ p \in 0..(Plane - 1) /\ q \in 0..(Plane - 1)
      /\ s \in 0..(Plane - 1) /\ t \in 0..(Plane - 1)
  BY BasesAssumption DEF BasesAssumption, Coordinate
<1>2. /\ (p - s) % Plane = IF p - s < 0 THEN p - s + Plane ELSE p - s
      /\ (q - t) % Plane = IF q - t < 0 THEN q - t + Plane ELSE q - t
      /\ (p - q) % Plane = IF p - q < 0 THEN p - q + Plane ELSE p - q
      /\ (s - t) % Plane = IF s - t < 0 THEN s - t + Plane ELSE s - t
  BY <1>1, Arc
<1>3. QED
  BY <1>1, <1>2

\* And so are points that are moved together.
LEMMA ArcMoved ==
    ASSUME NEW n \in Nat \ {0},
           NEW p \in 0..(n - 1), NEW q \in 0..(n - 1), NEW h \in 0..(n - 1)
    PROVE  /\ (p + h) % n \in 0..(n - 1) /\ (q + h) % n \in 0..(n - 1)
           /\ (((p + h) % n) - ((q + h) % n)) % n = (p - q) % n
<1> DEFINE ph == p + h
           qh == q + h
           u == ph % n
           v == qh % n
<1>0. /\ ph \in Int /\ 0 <= ph /\ -n <= ph /\ ph < 2 * n
      /\ qh \in Int /\ 0 <= qh /\ -n <= qh /\ qh < 2 * n
  OBVIOUS
<1> HIDE DEF ph, qh
<1>1. u = IF ph < 0 THEN ph + n ELSE IF ph < n THEN ph ELSE ph - n
  BY <1>0, Turn
<1>2. v = IF qh < 0 THEN qh + n ELSE IF qh < n THEN qh ELSE qh - n
  BY <1>0, Turn
<1>3. u \in 0..(n - 1) /\ v \in 0..(n - 1)
  BY <1>0, <1>1, <1>2
<1> HIDE DEF u, v
<1>4. /\ (u - v) % n = IF u - v < 0 THEN u - v + n ELSE u - v
      /\ (p - q) % n = IF p - q < 0 THEN p - q + n ELSE p - q
  BY <1>3, Arc
<1>5. (u - v) % n = (p - q) % n
  BY <1>1, <1>2, <1>3, <1>4 DEF ph, qh
<1>6. QED
  BY <1>3, <1>5 DEF u, v, ph, qh

\* One bullet is not near two points that far apart.
LEMMA NotBoth ==
    ASSUME NEW n \in Nat \ {0}, NEW m \in Nat, NEW z \in Int,
           NEW u \in 0..(n - 1), NEW v \in 0..(n - 1),
           (u - v) % n \in (2 * m + 1)..(n - 2 * m - 1)
    PROVE  ~(/\ u - m <= z /\ z <= u + m /\ v - m <= z /\ z <= v + m)
<1>1. (u - v) % n = IF u - v < 0 THEN u - v + n ELSE u - v
  BY Arc
<1>2. QED
  BY <1>1

-----------------------------------------------------------------------------
\* Both bullets of the pair are on one line with each other, whichever way they fly.
GunLine ==
    /\ x_offset \in Int /\ y_offset \in Int /\ change_x \in Int /\ change_y \in Int
    /\ x_pos_bullet_1 \in Int /\ y_pos_bullet_1 \in Int
    /\ x_pos_bullet_2 \in Int /\ y_pos_bullet_2 \in Int
    /\ x_pos_bullet_1 = x_pos_bullet_2 \/ y_pos_bullet_1 = y_pos_bullet_2

LEMMA GunLineStep ==
    ASSUME GunLine, NEW fire, NEW direction, Gun!FrameEdge(fire, direction)
    PROVE  GunLine'
<1>1. /\ Plane \in Nat \ {0}
      /\ Ship_Center_X \in Int /\ Ship_Center_Y \in Int
  BY BasesAssumption, GameAssumption DEF BasesAssumption, GameAssumption, Coordinate
<1>2. \A n \in Int : n % Plane \in Int /\ n % 128 \in Int
  BY <1>1
<1>3. CASE Gun!Launch(direction)
  BY <1>1, <1>3 DEF GunLine, Gun!Launch
<1>4. CASE Gun!Expire \/ Gun!Idle
  BY <1>4 DEF GunLine, Gun!Expire, Gun!Idle, Gun!offsets, Gun!positions, Gun!flight
<1>5. CASE Gun!Fly(direction) /\ Gun!FlyLeftRight(direction)
  BY <1>1, <1>2, <1>5 DEF GunLine, Gun!FlyLeftRight
<1>6. CASE Gun!Fly(direction) /\ Gun!FlyUpDown(direction)
  BY <1>1, <1>2, <1>6 DEF GunLine, Gun!FlyUpDown
<1>7. QED
  BY <1>3, <1>4, <1>5, <1>6 DEF Gun!FrameEdge, Gun!Fly

\* One pair of bullets is never near two bases at once.
LEMMA SingleHit ==
    ASSUME Apart, MapOK, BasesRigid, GunLine, NEW b \in Base, NEW c \in Base, b # c
    PROVE  ~(/\ Gun!enemy_hit(Center(b).x, Center(b).y)
             /\ Gun!enemy_hit(Center(c).x, Center(c).y))
<1>1. /\ Plane \in Nat \ {0} /\ HitMargin \in Nat
      /\ HalfX \in 0..(Plane - 1) /\ HalfY \in 0..(Plane - 1)
      /\ \A d \in Base : /\ base[d].x \in 0..(Plane - 1) /\ base[d].y \in 0..(Plane - 1)
                         /\ BaseStart[d].x \in 0..(Plane - 1)
                         /\ BaseStart[d].y \in 0..(Plane - 1)
  BY BasesAssumption, GameAssumption
     DEF BasesAssumption, GameAssumption, MapOK, Point, Coordinate
<1>2. /\ (base[b].x - BaseStart[b].x) % Plane = (base[c].x - BaseStart[c].x) % Plane
      /\ (base[b].y - BaseStart[b].y) % Plane = (base[c].y - BaseStart[c].y) % Plane
  <2>1. \A d \in Base :
          Travel(d) = [x |-> (base[d].x - BaseStart[d].x) % Plane,
                       y |-> (base[d].y - BaseStart[d].y) % Plane]
    BY <1>1 DEF Travel, Moved
  <2>2. Travel(b) = Travel(c)
    BY DEF BasesRigid
  <2>3. QED
    BY <2>1, <2>2
<1>3. /\ (base[b].x - base[c].x) % Plane = (BaseStart[b].x - BaseStart[c].x) % Plane
      /\ (base[b].y - base[c].y) % Plane = (BaseStart[b].y - BaseStart[c].y) % Plane
  <2>1. \A d \in Base : /\ base[d].x \in Coordinate /\ base[d].y \in Coordinate
                        /\ BaseStart[d].x \in Coordinate /\ BaseStart[d].y \in Coordinate
    BY <1>1 DEF Coordinate
  <2>2. (base[b].x - base[c].x) % Plane = (BaseStart[b].x - BaseStart[c].x) % Plane
    BY <1>2, <2>1, ArcKept
  <2>3. (base[b].y - base[c].y) % Plane = (BaseStart[b].y - BaseStart[c].y) % Plane
    BY <1>2, <2>1, ArcKept
  <2>4. QED
    BY <2>2, <2>3
<1> DEFINE ux == (base[b].x + HalfX) % Plane
           uy == (base[b].y + HalfY) % Plane
           vx == (base[c].x + HalfX) % Plane
           vy == (base[c].y + HalfY) % Plane
<1>4. /\ Center(b).x = ux /\ Center(b).y = uy
      /\ Center(c).x = vx /\ Center(c).y = vy
  BY DEF Center, Moved
<1>5. /\ ux \in 0..(Plane - 1) /\ vx \in 0..(Plane - 1)
      /\ (ux - vx) % Plane = (base[b].x - base[c].x) % Plane
  <2> DEFINE p == base[b].x
             q == base[c].x
  <2>1. /\ p \in 0..(Plane - 1) /\ q \in 0..(Plane - 1)
        /\ HalfX \in 0..(Plane - 1) /\ Plane \in Nat \ {0}
    BY <1>1
  <2> HIDE DEF p, q
  <2>2. /\ (p + HalfX) % Plane \in 0..(Plane - 1) /\ (q + HalfX) % Plane \in 0..(Plane - 1)
        /\ (((p + HalfX) % Plane) - ((q + HalfX) % Plane)) % Plane = (p - q) % Plane
    BY <2>1, ArcMoved
  <2>3. QED
    BY <2>2 DEF p, q
<1>6. /\ uy \in 0..(Plane - 1) /\ vy \in 0..(Plane - 1)
      /\ (uy - vy) % Plane = (base[b].y - base[c].y) % Plane
  <2> DEFINE p == base[b].y
             q == base[c].y
  <2>1. /\ p \in 0..(Plane - 1) /\ q \in 0..(Plane - 1)
        /\ HalfY \in 0..(Plane - 1) /\ Plane \in Nat \ {0}
    BY <1>1
  <2> HIDE DEF p, q
  <2>2. /\ (p + HalfY) % Plane \in 0..(Plane - 1) /\ (q + HalfY) % Plane \in 0..(Plane - 1)
        /\ (((p + HalfY) % Plane) - ((q + HalfY) % Plane)) % Plane = (p - q) % Plane
    BY <2>1, ArcMoved
  <2>3. QED
    BY <2>2 DEF p, q
<1>7. /\ (ux - vx) % Plane \in (2 * HitMargin + 1)..(Plane - 2 * HitMargin - 1)
      /\ (uy - vy) % Plane \in (2 * HitMargin + 1)..(Plane - 2 * HitMargin - 1)
  BY <1>3, <1>5, <1>6 DEF Apart
<1> HIDE DEF ux, uy, vx, vy
<1>8. CASE x_pos_bullet_1 = x_pos_bullet_2
  <2> DEFINE z == x_pos_bullet_1
  <2>1. z \in Int
    BY DEF GunLine
  <2>2. ~(ux - HitMargin <= z /\ z <= ux + HitMargin /\ vx - HitMargin <= z /\ z <= vx + HitMargin)
    BY <1>1, <1>5, <1>7, <2>1, NotBoth
  <2>3. ~(Gun!Within(ux, z) /\ Gun!Within(vx, z))
    BY <2>2 DEF Gun!Within
  <2>4. QED
    BY <1>4, <1>8, <2>3 DEF Gun!enemy_hit
<1>9. CASE y_pos_bullet_1 = y_pos_bullet_2
  <2> DEFINE z == y_pos_bullet_1
  <2>1. z \in Int
    BY DEF GunLine
  <2>2. ~(uy - HitMargin <= z /\ z <= uy + HitMargin /\ vy - HitMargin <= z /\ z <= vy + HitMargin)
    BY <1>1, <1>6, <1>7, <2>1, NotBoth
  <2>3. ~(Gun!Within(uy, z) /\ Gun!Within(vy, z))
    BY <2>2 DEF Gun!Within
  <2>4. QED
    BY <1>4, <1>9, <2>3 DEF Gun!enemy_hit
<1>10. QED
  BY <1>8, <1>9 DEF GunLine

-----------------------------------------------------------------------------
\* The rules need the hits and the collision flags to agree at every clock: a
\* collision latched before the last base falls must not be read after it.

Flags ==
    /\ enemy_hit \in [Base -> BOOLEAN] /\ enemy_base_hit \in [Base -> BOOLEAN]
    /\ collision \in BOOLEAN /\ bullet_collision \in BOOLEAN
    /\ beam \in Video!Place

NoDoubleHit == \A b, c \in Base : b # c => ~(enemy_hit[b] /\ enemy_hit[c])

\* A frame starts with a loss pending only after a reset, when no base is hit yet.
LossTimed ==
    /\ beam \in {"above", "under", "below"} => ~lost
    /\ beam \in {"reset", "resetOnShip", "edge"} => \A b \in Base : ~enemy_base_hit[b]

LossFair == lost => ~win

RulesInv ==
    /\ MapInv /\ GunLine /\ WinSound
    /\ Flags /\ NoDoubleHit /\ LossTimed /\ LossFair

LEMMA InitRulesInv == Init => RulesInv
<1> SUFFICES ASSUME Init PROVE RulesInv
  OBVIOUS
<1>1. MapInv
  BY InitMapInv
<1>2. GunLine
  BY DEF Init, Gun!Init, GunLine
<1>3. WinSound /\ LossTimed /\ LossFair
  BY DEF Init, Video!Init, WinSound, LossTimed, LossFair, lost
<1>4. Flags /\ NoDoubleHit
  BY DEF Init, Video!Init, Flags, NoDoubleHit, Video!Place
<1>5. QED
  BY <1>1, <1>2, <1>3, <1>4 DEF RulesInv

LEMMA VgaClkFlags ==
    ASSUME RulesInv, VgaClk
    PROVE  (Flags /\ NoDoubleHit /\ LossTimed /\ LossFair)'
<1>1. /\ Flags /\ NoDoubleHit /\ LossTimed /\ LossFair
      /\ enemy_base_hit' = enemy_base_hit /\ enemy_hit' = enemy_hit
      /\ beam' \in Video!NextPlace[beam]
      /\ Detect(beam' = "ship" \/ beam = "resetOnShip")
  BY DEF RulesInv, VgaClk, shots, Video!PixelClk, Video!OnShip
<1>2. beam' \in Video!Place
  BY <1>1 DEF Flags, Video!Place, Video!NextPlace
<1>3. collision' \in BOOLEAN /\ bullet_collision' \in BOOLEAN
  BY <1>1 DEF Detect
<1>4. beam' \in {"above", "under", "below"} => beam # "resetOnShip"
  BY <1>1 DEF Flags, Video!Place, Video!NextPlace
<1>5. beam' \in {"reset", "resetOnShip", "edge"} => beam \in {"reset", "resetOnShip"}
  BY <1>1 DEF Flags, Video!Place, Video!NextPlace
<1>6. lost' => beam' = "ship" \/ beam = "resetOnShip"
  BY <1>1 DEF Detect, lost
<1>7. lost' => \E b \in Base : ~enemy_base_hit[b]
  BY <1>1 DEF Detect, lost, Standing
<1>8. LossTimed'
  BY <1>1, <1>4, <1>5, <1>6 DEF LossTimed
<1>9. LossFair'
  BY <1>1, <1>7 DEF LossFair, win
<1>10. QED
  BY <1>1, <1>2, <1>3, <1>8, <1>9 DEF Flags, NoDoubleHit

\* The only frame that starts with a loss pending hits one base at most.
LEMMA FrameEdgeFlags ==
    ASSUME Apart, RulesInv, FrameEdge
    PROVE  (Flags /\ NoDoubleHit /\ LossTimed /\ LossFair)'
<1>1. /\ Flags /\ NoDoubleHit /\ LossTimed /\ LossFair
      /\ MapOK /\ BasesRigid /\ GunLine
      /\ beam \in {"below", "edge"} /\ beam' = "top"
      /\ collision' = collision /\ bullet_collision' = bullet_collision
      /\ Hits
  BY DEF RulesInv, MapInv, FrameEdge, Video!FrameClk
<1>2. Flags'
  <2>1. \A b \in Base : Gun!enemy_hit(Center(b).x, Center(b).y) \in BOOLEAN
    BY DEF Gun!enemy_hit
  <2>2. enemy_hit' \in [Base -> BOOLEAN]
    BY <1>1, <2>1 DEF Hits
  <2>3. enemy_base_hit' \in [Base -> BOOLEAN]
    BY <1>1 DEF Hits, Flags
  <2>4. QED
    BY <1>1, <2>2, <2>3 DEF Flags, Video!Place
<1>3. NoDoubleHit'
  <2>1. \A b, c \in Base : b # c =>
          ~(/\ Gun!enemy_hit(Center(b).x, Center(b).y)
            /\ Gun!enemy_hit(Center(c).x, Center(c).y))
    BY <1>1, SingleHit
  <2>2. QED
    BY <1>1, <2>1 DEF Hits, NoDoubleHit
<1>4. LossTimed'
  BY <1>1 DEF LossTimed
<1>5. LossFair'
  <2>1. lost' = lost
    BY <1>1 DEF lost
  <2>2. CASE lost
    <3>1. \A b \in Base : ~enemy_base_hit[b]
      BY <1>1, <2>2 DEF LossTimed
    <3>2. \A b \in Base : enemy_base_hit'[b] = enemy_hit[b]
      BY <1>1, <3>1 DEF Hits, Flags
    <3>3. PICK b \in Base : \E c \in Base : b # c
      BY DEF Apart
    <3>4. PICK c \in Base : b # c
      BY <3>3
    <3>5. ~(enemy_base_hit'[b] /\ enemy_base_hit'[c])
      BY <1>1, <3>2, <3>4 DEF NoDoubleHit
    <3>6. QED
      BY <3>5 DEF LossFair, win
  <2>3. QED
    BY <2>1, <2>2 DEF LossFair
<1>6. QED
  BY <1>2, <1>3, <1>4, <1>5

LEMMA ResetFlags ==
    ASSUME Apart, RulesInv, Reset
    PROVE  (Flags /\ NoDoubleHit /\ LossTimed /\ LossFair)'
<1>1. /\ Flags /\ NoDoubleHit
      /\ enemy_hit' = enemy_hit /\ enemy_base_hit' = [b \in Base |-> FALSE]
      /\ beam' \in {"reset", "resetOnShip"}
      /\ collision' = collision /\ bullet_collision' = bullet_collision
  BY DEF RulesInv, Reset, shots, Video!Reset
<1>2. \E b \in Base : ~enemy_base_hit'[b]
  BY <1>1 DEF Apart
<1>3. QED
  BY <1>1, <1>2 DEF Flags, Video!Place, NoDoubleHit, LossTimed, LossFair, win

LEMMA NextRulesInv == Apart /\ RulesInv /\ [Next]_vars => RulesInv'
<1> SUFFICES ASSUME Apart, RulesInv, [Next]_vars PROVE RulesInv'
  OBVIOUS
<1>1. MapInv' /\ WinSound'
  BY NextMapInv, NextWinSound DEF RulesInv
<1>2. GunLine'
  <2>1. CASE FrameEdge
    BY <2>1, GunLineStep DEF RulesInv, FrameEdge
  <2>2. CASE UNCHANGED gun
    BY <2>2 DEF RulesInv, GunLine, gun
  <2>3. QED
    BY <2>1, <2>2 DEF Next, VgaClk, KeyChange, Reset, vars, shots
<1>3. (Flags /\ NoDoubleHit /\ LossTimed /\ LossFair)'
  <2>1. CASE VgaClk
    BY <2>1, VgaClkFlags
  <2>2. CASE FrameEdge
    BY <2>2, FrameEdgeFlags
  <2>3. CASE Reset
    BY <2>3, ResetFlags
  <2>4. CASE UNCHANGED <<enemy_base_hit, enemy_hit, collision, bullet_collision, beam>>
    BY <2>4 DEF RulesInv, Flags, NoDoubleHit, LossTimed, LossFair, lost, win
  <2>5. QED
    BY <2>1, <2>2, <2>3, <2>4 DEF Next, KeyChange, vars, shots
<1>4. QED
  BY <1>1, <1>2, <1>3 DEF RulesInv

\* Every step of the game is a step of the rules, or shows the player nothing new.
LEMMA RulesStep ==
    RulesInv /\ [Next]_vars => [R!Next]_<<State, enemy_base_hit>>
<1> SUFFICES ASSUME RulesInv, [Next]_vars
             PROVE  R!Next \/ UNCHANGED <<State, enemy_base_hit>>
  OBVIOUS
<1>1. CASE VgaClk
  <2>1. enemy_base_hit' = enemy_base_hit
    BY <1>1 DEF VgaClk
  <2>2. CASE lost
    <3>1. ~win /\ State # "WIN"
      BY <2>2 DEF RulesInv, LossFair, WinSound
    <3>2. State' = "LOSE"
      BY <1>1, <2>2 DEF VgaClk, Control, Over
    <3>3. QED
      BY <2>1, <3>1, <3>2 DEF R!Next, R!Lose, R!AllHit, win
  <2>3. CASE ~lost /\ win
    <3>1. State' = "WIN"
      BY <1>1, <2>3 DEF VgaClk, Control, Over
    <3>2. QED
      BY <2>1, <2>3, <3>1 DEF R!Next, R!Win, R!AllHit, win
  <2>4. CASE ~lost /\ ~win
    <3>1. State' = State \/ (State = "START_SCREEN" /\ State' = "PLAY")
      BY <1>1, <2>4 DEF VgaClk, Control, KeepPlaying
    <3>2. QED
      BY <2>1, <3>1 DEF R!Next, R!Start
  <2>5. QED
    BY <2>2, <2>3, <2>4
<1>2. CASE FrameEdge
  <2>1. State' = State
    BY <1>2 DEF FrameEdge, control
  <2>2. /\ enemy_base_hit' \in [Base -> BOOLEAN]
        /\ \A b \in Base : enemy_base_hit[b] => enemy_base_hit'[b]
    BY <1>2 DEF FrameEdge, Hits, RulesInv, Flags
  <2>3. QED
    BY <2>1, <2>2 DEF R!Next, R!Destroy
<1>3. CASE Reset
  BY <1>3 DEF Reset, R!Next, R!Reset
<1>4. CASE UNCHANGED <<control, enemy_base_hit>>
  BY <1>4 DEF control
<1>5. QED
  BY <1>1, <1>2, <1>3, <1>4 DEF Next, KeyChange, vars

\* Where the bases are as far apart as in the code, the game keeps its rules: a
\* loss is never shown once every base is destroyed, a won game ends only by the
\* reset button, and destroyed bases stay destroyed.
THEOREM RulesAreSafe ==
    ASSUME Apart
    PROVE  Spec => R!Init /\ [][R!Next]_<<State, enemy_base_hit>>
<1>1. Init => R!Init
  BY DEF Init, R!Init
<1>2. RulesInv /\ [Next]_vars => RulesInv'
  BY NextRulesInv
<1>3. QED
  BY <1>1, <1>2, InitRulesInv, RulesStep, PTL DEF Spec

\* No pair of bullets destroys two bases with one shot at the same frame.
THEOREM OneHitAtATime ==
    ASSUME Apart
    PROVE  Spec => []NoDoubleHit
<1>1. RulesInv /\ [Next]_vars => RulesInv'
  BY NextRulesInv
<1>2. RulesInv => NoDoubleHit
  BY DEF RulesInv
<1>3. QED
  BY <1>1, <1>2, InitRulesInv, PTL DEF Spec

-----------------------------------------------------------------------------
\* The gun and the bases' bullets inside the game.  The game takes their steps and
\* no others, so what is proved of each of them alone holds of it here: GunAlone and
\* FoeAlone are the modules of those proofs over the same variables, and each of
\* their definitions that is cited below with Gun's or Foe's is the same formula.
GunAlone == INSTANCE BulletProofs
FoeAlone == INSTANCE EnemyBulletsProofs

LEMMA GunInit == Init => Gun!Init
  BY DEF Init

LEMMA GunStep == TypeOK /\ [Next]_vars => [Gun!Next]_(Gun!vars)
<1> SUFFICES ASSUME TypeOK, [Next]_vars PROVE [Gun!Next]_(Gun!vars)
  OBVIOUS
<1>1. CASE FrameEdge
  <2>1. Gun!FrameEdge(keycode = "fire", ship_orientation)
    BY <1>1 DEF FrameEdge
  <2>2. (keycode = "fire") \in BOOLEAN /\ ship_orientation \in Gun!Direction
    BY DEF TypeOK, Direction, Gun!Direction
  <2>3. QED
    BY <2>1, <2>2 DEF Gun!Next
<1>2. CASE VgaClk \/ KeyChange \/ Reset \/ UNCHANGED vars
  <2>1. UNCHANGED gun
    BY <1>2 DEF VgaClk, KeyChange, Reset, vars, shots
  <2>2. QED
    BY <2>1 DEF gun, Gun!vars, Gun!flight, Gun!offsets, Gun!positions
<1>3. QED
  BY <1>1, <1>2 DEF Next

LEMMA FoeInit == Init => Foe!Init
  BY DEF Init, BasesInit, Foe!Init, Foe!BasesInit

LEMMA FoeStep == TypeOK /\ [Next]_vars => [Foe!Next]_(Foe!vars)
<1> SUFFICES ASSUME TypeOK, [Next]_vars PROVE [Foe!Next]_(Foe!vars)
  OBVIOUS
<1>1. CASE FrameEdge
  <2>1. Foe!BulletsFrame /\ Foe!Scroll(ship_orientation)
    BY <1>1 DEF FrameEdge, Scroll, Foe!Scroll, Corner, Foe!Corner, Moved, Foe!Moved
  <2>2. ship_orientation \in Foe!Direction
    BY DEF TypeOK, Direction, Foe!Direction
  <2>3. QED
    BY <2>1, <2>2 DEF Foe!Next, Foe!FrameEdge
<1>2. CASE VgaClk \/ KeyChange \/ Reset \/ UNCHANGED vars
  <2>1. UNCHANGED base /\ UNCHANGED foe
    BY <1>2 DEF VgaClk, KeyChange, Reset, vars, scene, shots
  <2>2. QED
    BY <2>1 DEF foe, Foe!vars, Foe!bulletVars
<1>3. QED
  BY <1>1, <1>2 DEF Next

\* The gun in the game is the gun of Bullet: the button, the pixel clock and the
\* processor leave it alone, and a frame gives it a key and a direction.
THEOREM GunIsBullet == Spec => Gun!Init /\ [][Gun!Next]_(Gun!vars)
  BY GunInit, GunStep, TypeCorrect, PTL DEF Spec

\* The bases and their bullets in the game are those of EnemyBullets.
THEOREM FoeIsEnemyBullets == Spec => Foe!Init /\ [][Foe!Next]_(Foe!vars)
  BY FoeInit, FoeStep, TypeCorrect, PTL DEF Spec

\* In the game, whatever keys are pressed and whenever the button is: no shot is
\* restarted in flight, no bullet of the gun leaves its range or wraps, and the hit
\* test agrees with a single bullet at every centre a base can have.
THEOREM GunSafe ==
    Spec => [](/\ Gun!TypeOK /\ Gun!NoRelaunchInFlight /\ Gun!WithinRange /\ Gun!Paired
               /\ \A cx, cy \in Coordinate : Gun!NoPhantomHitAt(cx, cy))
<1> DEFINE Safe == /\ Gun!TypeOK /\ Gun!NoRelaunchInFlight /\ Gun!WithinRange /\ Gun!Paired
                   /\ \A cx, cy \in Coordinate : Gun!NoPhantomHitAt(cx, cy)
<1>1. GunAlone!BulletAssumption
  BY ArmsAssumption DEF Gun!BulletAssumption, GunAlone!BulletAssumption
<1>2. Gun!Init => GunAlone!IInv
  <2>1. Gun!Init => GunAlone!Init
    BY DEF Gun!Init, GunAlone!Init
  <2>2. QED
    BY <1>1, <2>1, GunAlone!InitIInv
<1>3. GunAlone!IInv /\ [Gun!Next]_(Gun!vars) => GunAlone!IInv'
  <2>1. [Gun!Next]_(Gun!vars) => [GunAlone!Next]_(GunAlone!vars)
    BY DEF
       Gun!Next, GunAlone!Next, Gun!Direction, GunAlone!Direction, Gun!FrameEdge,
       GunAlone!FrameEdge, Gun!Trigger, GunAlone!Trigger, Gun!Launch, GunAlone!Launch,
       Gun!RangeReached, GunAlone!RangeReached, Gun!Expire, GunAlone!Expire, Gun!Fly,
       GunAlone!Fly, Gun!FlyLeftRight, GunAlone!FlyLeftRight, Gun!FlyUpDown,
       GunAlone!FlyUpDown, Gun!Idle, GunAlone!Idle, Gun!vars, GunAlone!vars, Gun!flight,
       GunAlone!flight, Gun!offsets, GunAlone!offsets, Gun!positions, GunAlone!positions
  <2>2. QED
    BY <1>1, <2>1, GunAlone!NextIInv
<1>4. GunAlone!IInv => Safe
  <2>1. GunAlone!IInv =>
            /\ GunAlone!TypeOK /\ GunAlone!NoRelaunchInFlight
            /\ GunAlone!WithinRange /\ GunAlone!Paired
            /\ \A cx, cy \in GunAlone!Coordinate : GunAlone!NoPhantomHitAt(cx, cy)
    BY <1>1, GunAlone!IInvIsSafe
  <2>2. QED
    BY <2>1 DEF
       Gun!TypeOK, GunAlone!TypeOK, Gun!Distance, GunAlone!Distance, Gun!NoRelaunchInFlight,
       GunAlone!NoRelaunchInFlight, Gun!positions, GunAlone!positions, Gun!WithinRange,
       GunAlone!WithinRange, Gun!Paired, GunAlone!Paired, Gun!NoPhantomHitAt,
       GunAlone!NoPhantomHitAt, Gun!enemy_hit, GunAlone!enemy_hit, Gun!Within,
       GunAlone!Within, Gun!Coordinate, GunAlone!Coordinate, Coordinate
<1>5. QED
  BY <1>2, <1>3, <1>4, GunIsBullet, PTL

\* In the game, whatever the ship does on the way: no bullet of a base wraps round
\* the plane, each keeps to the row of its base, and a base that is not shooting
\* has its whole range.
THEOREM FoeSafe ==
    Spec => [](/\ Foe!TypeOK /\ Foe!StaysOnPlane /\ Foe!FullRangeWhenIdle
               /\ Foe!RowFollowsBase)
<1> DEFINE Safe == /\ Foe!TypeOK /\ Foe!StaysOnPlane /\ Foe!FullRangeWhenIdle
                   /\ Foe!RowFollowsBase
           FoeInv == FoeAlone!IInv /\ FoeAlone!RowFollowsBase
<1>1. FoeAlone!EnemyAssumption /\ FoeAlone!BasesAssumption
  <2>1. FoeAlone!EnemyAssumption
    BY ArmsAssumption DEF
       Foe!EnemyAssumption, FoeAlone!EnemyAssumption, Foe!Coordinate, FoeAlone!Coordinate
  <2>2. FoeAlone!BasesAssumption
    BY BasesAssumption DEF BasesAssumption, FoeAlone!BasesAssumption
  <2>3. QED
    BY <2>1, <2>2
<1>2. Foe!Init => FoeInv
  <2>1. Foe!Init => FoeAlone!Init
    BY DEF
       Foe!Init, FoeAlone!Init, Foe!BasesInit, FoeAlone!BasesInit, Foe!BulletsInit,
       FoeAlone!BulletsInit
  <2>2. QED
    BY <1>1, <2>1, FoeAlone!InitIInv, FoeAlone!InitRow
<1>3. FoeInv /\ [Foe!Next]_(Foe!vars) => FoeInv'
  <2>1. \A b : /\ Foe!Center(b) = FoeAlone!Center(b)
               /\ Foe!RangeReached(b) <=> FoeAlone!RangeReached(b)
    BY DEF
       Foe!Center, FoeAlone!Center, Foe!Moved, FoeAlone!Moved, Foe!RangeReached,
       FoeAlone!RangeReached
  <2>2. \A b : /\ Foe!NextX(b) = FoeAlone!NextX(b)
               /\ Foe!NextY(b) = FoeAlone!NextY(b)
               /\ Foe!NextDistance(b) = FoeAlone!NextDistance(b)
               /\ Foe!ShipSide(b) = FoeAlone!ShipSide(b)
               /\ Foe!ShipIsClose(b) <=> FoeAlone!ShipIsClose(b)
    BY <2>1 DEF
       Foe!NextX, FoeAlone!NextX, Foe!NextY, FoeAlone!NextY, Foe!NextDistance,
       FoeAlone!NextDistance, Foe!ShipSide, FoeAlone!ShipSide, Foe!ShipIsClose,
       FoeAlone!ShipIsClose
  <2>3. Foe!BulletsFrame <=> FoeAlone!BulletsFrame
    BY <2>1, <2>2 DEF Foe!BulletsFrame, FoeAlone!BulletsFrame
  <2>4. [Foe!Next]_(Foe!vars) => [FoeAlone!Next]_(FoeAlone!vars)
    BY <2>3 DEF
       Foe!Next, FoeAlone!Next, Foe!Direction, FoeAlone!Direction, Foe!FrameEdge,
       FoeAlone!FrameEdge, Foe!Scroll, FoeAlone!Scroll, Foe!Corner, FoeAlone!Corner,
       Foe!Moved, FoeAlone!Moved, Foe!vars, FoeAlone!vars, Foe!bulletVars,
       FoeAlone!bulletVars
  <2>5. QED
    BY <1>1, <2>4, FoeAlone!NextIInv, FoeAlone!StepRow
<1>4. FoeInv => Safe
  BY DEF
     FoeAlone!IInv, Foe!TypeOK, FoeAlone!TypeOK, Foe!Point, FoeAlone!Point, Foe!Coordinate,
     FoeAlone!Coordinate, Foe!StaysOnPlane, FoeAlone!StaysOnPlane, Foe!FullRangeWhenIdle,
     FoeAlone!FullRangeWhenIdle, Foe!RowFollowsBase, FoeAlone!RowFollowsBase, Foe!Center,
     FoeAlone!Center, Foe!Moved, FoeAlone!Moved
<1>5. QED
  BY <1>2, <1>3, <1>4, FoeIsEnemyBullets, PTL
=============================================================================

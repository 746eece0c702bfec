------------------------- MODULE EnemyBulletsProofs -------------------------
(***************************************************************************)
(* For any number of bases, any starting corners and any sequence of ship  *)
(* orientations: a base's bullet never wraps round the plane, and a base   *)
(* that is not shooting always has its whole range.                        *)
(***************************************************************************)
EXTENDS EnemyBullets, TLAPS

\* The three invariants together are inductive.
IInv == TypeOK /\ StaysOnPlane /\ FullRangeWhenIdle

LEMMA NoWrap ==
    ASSUME NEW n \in Int, NEW m \in Nat, 0 <= n, n < m
    PROVE  n % m = n
  OBVIOUS

\* Coordinates computed modulo the plane are on the plane.
LEMMA MovedOnPlane ==
    ASSUME NEW p \in Point, NEW dx \in Int, NEW dy \in Int
    PROVE  Moved(p, dx, dy) \in Point
<1>1. Plane \in Nat /\ Plane > 0
  BY BasesAssumption DEF BasesAssumption
<1>2. p.x \in Int /\ p.y \in Int
  BY <1>1 DEF Point, Coordinate
<1>3. \A n \in Int : n % Plane \in Coordinate
  BY <1>1 DEF Coordinate
<1>4. QED
  BY <1>2, <1>3 DEF Moved, Point

LEMMA CornerOnPlane ==
    ASSUME NEW p \in Point, NEW start \in Point, NEW direction
    PROVE  Corner(p, start, direction) \in Point
  BY MovedOnPlane DEF Corner

LEMMA CenterOnPlane ==
    ASSUME TypeOK, NEW b \in Base
    PROVE  Center(b).x \in Coordinate /\ Center(b).y \in Coordinate
<1>1. base[b] \in Point /\ HalfX \in Int /\ HalfY \in Int
  BY BasesAssumption DEF BasesAssumption, TypeOK
<1>2. Center(b) \in Point
  BY <1>1, MovedOnPlane DEF Center
<1>3. QED
  BY <1>2 DEF Point

LEMMA InitIInv == Init => IInv
<1> SUFFICES ASSUME Init PROVE IInv
  OBVIOUS
<1>1. 0 \in Coordinate /\ 0 \in 0..(enemy_range + 1)
  BY BasesAssumption, EnemyAssumption DEF BasesAssumption, EnemyAssumption, Coordinate
<1>2. base \in [Base -> Point]
  BY BasesAssumption DEF Init, BasesInit, BasesAssumption, Point, Coordinate
<1>3. TypeOK
  BY <1>1, <1>2 DEF Init, BulletsInit, TypeOK
<1>4. \A b \in Base : ~shoot_bullet[b] /\ enemy_distance[b] = 0
  BY DEF Init, BulletsInit
<1>5. QED
  BY <1>3, <1>4 DEF IInv, StaysOnPlane, FullRangeWhenIdle

-----------------------------------------------------------------------------
\* What one base's registers are after a frame, case by case.
LEMMA OneBullet ==
    ASSUME IInv, BulletsFrame, NEW b \in Base
    PROVE  /\ shoot_bullet'[b] \in BOOLEAN
           /\ shoot_l_or_r'[b] \in {"none", "left", "right"}
           /\ enemy_distance'[b] \in 0..(enemy_range + 1)
           /\ enemy_bullet_x'[b] \in Coordinate
           /\ enemy_bullet_y'[b] \in Coordinate
           /\ shoot_bullet'[b] =>
                /\ enemy_bullet_x'[b] - Ship_Center_X <= ReachX + enemy_distance'[b]
                /\ Ship_Center_X - enemy_bullet_x'[b] <= ReachX + enemy_distance'[b]
           /\ ~shoot_bullet'[b] => enemy_distance'[b] = 0
<1> DEFINE d == enemy_distance[b]
           x == enemy_bullet_x[b]
<1>1. /\ enemy_range \in 1..254 /\ ReachX \in Nat /\ Plane \in Nat
      /\ Ship_Center_X \in (ReachX + enemy_range + 1)..(Plane - ReachX - enemy_range - 2)
  BY BasesAssumption, EnemyAssumption DEF BasesAssumption, EnemyAssumption
<1>2. /\ shoot_bullet[b] \in BOOLEAN
      /\ d \in 0..(enemy_range + 1)
      /\ shoot_l_or_r[b] \in {"none", "left", "right"}
      /\ x \in Coordinate /\ enemy_bullet_y[b] \in Coordinate
  BY DEF IInv, TypeOK
<1>3. Center(b).x \in Coordinate /\ Center(b).y \in Coordinate
  BY CenterOnPlane DEF IInv
<1>4. /\ shoot_bullet'[b] = IF shoot_bullet[b] THEN ~RangeReached(b) ELSE ShipIsClose(b)
      /\ shoot_l_or_r'[b] = IF shoot_bullet[b] THEN ShipSide(b) ELSE shoot_l_or_r[b]
      /\ enemy_distance'[b] = NextDistance(b)
      /\ enemy_bullet_x'[b] = NextX(b)
      /\ enemy_bullet_y'[b] = NextY(b)
  BY DEF BulletsFrame
<1>5. shoot_bullet'[b] \in BOOLEAN
  BY <1>2, <1>4 DEF RangeReached, ShipIsClose
<1>6. shoot_l_or_r'[b] \in {"none", "left", "right"}
  BY <1>2, <1>4 DEF ShipSide
<1>7. enemy_bullet_y'[b] \in Coordinate
  BY <1>2, <1>3, <1>4 DEF NextY
<1>8. CASE ~shoot_bullet[b]
  <2>1. d = 0 /\ enemy_distance'[b] = 0
    BY <1>4, <1>8 DEF IInv, FullRangeWhenIdle, NextDistance
  <2>2. CASE ShipIsClose(b)
    <3>1. enemy_bullet_x'[b] = Center(b).x
      BY <1>4, <1>8, <2>2 DEF NextX
    <3>2. Center(b).x - Ship_Center_X <= ReachX /\ Ship_Center_X - Center(b).x <= ReachX
      BY <1>1, <1>3, <2>2 DEF ShipIsClose, Coordinate
    <3>3. QED
      BY <1>1, <1>3, <1>5, <1>6, <1>7, <2>1, <3>1, <3>2
  <2>3. CASE ~ShipIsClose(b)
    <3>1. enemy_bullet_x'[b] = x /\ ~shoot_bullet'[b]
      BY <1>4, <1>8, <2>3 DEF NextX
    <3>2. QED
      BY <1>1, <1>2, <1>5, <1>6, <1>7, <2>1, <3>1
  <2>4. QED
    BY <2>2, <2>3
<1>9. CASE shoot_bullet[b] /\ RangeReached(b)
  <2>1. enemy_distance'[b] = 0 /\ enemy_bullet_x'[b] = Center(b).x /\ ~shoot_bullet'[b]
    BY <1>4, <1>9 DEF NextDistance, NextX
  <2>2. QED
    BY <1>1, <1>3, <1>5, <1>6, <1>7, <2>1
<1>10. CASE shoot_bullet[b] /\ ~RangeReached(b)
  <2>1. /\ d < enemy_range /\ shoot_bullet'[b]
        /\ x - Ship_Center_X <= ReachX + d /\ Ship_Center_X - x <= ReachX + d
    <3>1. d < enemy_range
      BY <1>1, <1>2, <1>10 DEF RangeReached
    <3>2. shoot_bullet'[b]
      BY <1>4, <1>10
    <3>3. x - Ship_Center_X <= ReachX + d /\ Ship_Center_X - x <= ReachX + d
      BY <1>10 DEF IInv, StaysOnPlane
    <3>4. QED
      BY <3>1, <3>2, <3>3
  <2>2. /\ (d + 2) % 256 = d + 2
        /\ (x - 2) % Plane = x - 2 /\ (x + 2) % Plane = x + 2
    <3>1. /\ d + 2 \in Int /\ 0 <= d + 2 /\ d + 2 < 256
          /\ x - 2 \in Int /\ 0 <= x - 2 /\ x - 2 < Plane
          /\ x + 2 \in Int /\ 0 <= x + 2 /\ x + 2 < Plane
      BY <1>1, <1>2, <2>1 DEF Coordinate
    <3>2. QED
      BY <1>1, <3>1, NoWrap
  <2>3. CASE shoot_l_or_r[b] = "none"
    <3>1. enemy_distance'[b] = d /\ enemy_bullet_x'[b] = x
      BY <1>4, <1>10, <2>3 DEF NextDistance, NextX
    <3>2. QED
      BY <1>1, <1>2, <1>5, <1>6, <1>7, <2>1, <3>1
  <2>4. CASE shoot_l_or_r[b] # "none"
    <3>1. enemy_distance'[b] = d + 2 /\ enemy_bullet_x'[b] \in {x - 2, x + 2}
      BY <1>2, <1>4, <1>10, <2>2, <2>4 DEF NextDistance, NextX
    <3>2. QED
      BY <1>1, <1>2, <1>5, <1>6, <1>7, <2>1, <3>1 DEF Coordinate
  <2>5. QED
    BY <2>3, <2>4
<1>11. QED
  BY <1>8, <1>9, <1>10

LEMMA NextIInv == IInv /\ [Next]_vars => IInv'
<1> SUFFICES ASSUME IInv, [Next]_vars PROVE IInv'
  OBVIOUS
<1>1. CASE Next
  <2>1. PICK direction \in Direction : BulletsFrame /\ Scroll(direction)
    BY <1>1 DEF Next, FrameEdge
  <2>2. base' \in [Base -> Point]
    <3>1. \A b \in Base : Corner(base[b], BaseStart[b], direction) \in Point
      BY BasesAssumption, CornerOnPlane DEF BasesAssumption, IInv, TypeOK, Point, Coordinate
    <3>2. QED
      BY <2>1, <3>1 DEF Scroll
  <2>3. TypeOK'
    <3>1. /\ shoot_bullet' \in [Base -> BOOLEAN]
          /\ shoot_l_or_r' \in [Base -> {"none", "left", "right"}]
          /\ enemy_distance' \in [Base -> 0..(enemy_range + 1)]
          /\ enemy_bullet_x' \in [Base -> Coordinate]
          /\ enemy_bullet_y' \in [Base -> Coordinate]
      <4>1. /\ shoot_bullet' = [b \in Base |-> shoot_bullet'[b]]
            /\ shoot_l_or_r' = [b \in Base |-> shoot_l_or_r'[b]]
            /\ enemy_distance' = [b \in Base |-> enemy_distance'[b]]
            /\ enemy_bullet_x' = [b \in Base |-> enemy_bullet_x'[b]]
            /\ enemy_bullet_y' = [b \in Base |-> enemy_bullet_y'[b]]
        BY <2>1 DEF BulletsFrame
      <4>2. QED
        BY <2>1, <4>1, OneBullet
    <3>2. QED
      BY <2>2, <3>1 DEF TypeOK, Coordinate, Point
  <2>4. StaysOnPlane' /\ FullRangeWhenIdle'
    BY <2>1, OneBullet DEF StaysOnPlane, FullRangeWhenIdle
  <2>5. QED
    BY <2>3, <2>4 DEF IInv
<1>2. CASE UNCHANGED vars
  BY <1>2 DEF vars, bulletVars, IInv, TypeOK, StaysOnPlane, FullRangeWhenIdle, Point, Coordinate
<1>3. QED
  BY <1>1, <1>2

-----------------------------------------------------------------------------
THEOREM Invariant == Spec => []IInv
  BY InitIInv, NextIInv, PTL DEF Spec

\* Every register of every base keeps to its width.
THEOREM TypeCorrect == Spec => []TypeOK
<1>1. IInv => TypeOK
  BY DEF IInv
<1>2. QED
  BY <1>1, Invariant, PTL

\* No bullet gets further from the ship than the reach and its range, so none
\* wraps round the plane, however the base swings across the ship during a flight.
THEOREM PlaneSafe == Spec => []StaysOnPlane
<1>1. IInv => StaysOnPlane
  BY DEF IInv
<1>2. QED
  BY <1>1, Invariant, PTL

\* Every flight starts with no distance flown.
THEOREM RangeRestored == Spec => []FullRangeWhenIdle
<1>1. IInv => FullRangeWhenIdle
  BY DEF IInv
<1>2. QED
  BY <1>1, Invariant, PTL

-----------------------------------------------------------------------------
\* A number less than one turn off the ring is at most one turn from its place.
LEMMA Turn ==
    ASSUME NEW n \in Nat \ {0}, NEW a \in Int, -n <= a, a < 2 * n
    PROVE  a % n = IF a < 0 THEN a + n ELSE IF a < n THEN a ELSE a - n
<1>1. CASE a < 0
  <2>1. (a + n) % n = a + n
    BY <1>1
  <2>2. QED
    BY <1>1
<1>2. CASE a >= 0 /\ a < n
  BY <1>2
<1>3. CASE a >= n
  BY <1>3
<1>4. QED
  BY <1>1, <1>2, <1>3

\* Half a base and one step of the map may be added in either order.
LEMMA StepThenHalf ==
    ASSUME NEW n \in Nat \ {0}, NEW y \in 0..(n - 1), NEW h \in 0..(n - 1), NEW d \in -1..1
    PROVE  (((y + h) % n) + d) % n = (((y + d) % n) + h) % n
<1> DEFINE u == y + h
           v == y + d
           s == u % n
           t == v % n
           p == s + d
           q == t + h
<1>1. /\ u \in Int /\ -n <= u /\ u < 2 * n
      /\ v \in Int /\ -n <= v /\ v < 2 * n
  OBVIOUS
<1> HIDE DEF u, v
<1>2. /\ s = IF u < 0 THEN u + n ELSE IF u < n THEN u ELSE u - n
      /\ t = IF v < 0 THEN v + n ELSE IF v < n THEN v ELSE v - n
  BY <1>1, Turn
<1>3. s \in 0..(n - 1) /\ t \in 0..(n - 1)
  BY <1>2 DEF u, v
<1> HIDE DEF s, t
<1>4. /\ p \in Int /\ -n <= p /\ p < 2 * n
      /\ q \in Int /\ -n <= q /\ q < 2 * n
  BY <1>3
<1> HIDE DEF p, q
<1>5. /\ p % n = IF p < 0 THEN p + n ELSE IF p < n THEN p ELSE p - n
      /\ q % n = IF q < 0 THEN q + n ELSE IF q < n THEN q ELSE q - n
  BY <1>4, Turn
<1>6. p % n = q % n
  BY <1>1, <1>2, <1>3, <1>5 DEF u, v, p, q
<1>7. QED
  BY <1>6 DEF s, t, u, v, p, q

\* A frame scrolls a base by one pixel at most or puts it back at its start.
LEMMA ScrolledRow ==
    ASSUME TypeOK, NEW direction, Scroll(direction), NEW b \in Base
    PROVE  \/ base'[b] = BaseStart[b]
           \/ \E d \in {-1, 0, 1} : base'[b].y = (base[b].y + d) % Plane
<1>1. base[b] \in Point
  BY DEF TypeOK
<1>2. (base[b].y + 0) % Plane = base[b].y
  BY <1>1, BasesAssumption DEF BasesAssumption, Point, Coordinate
<1>3. base'[b] = Corner(base[b], BaseStart[b], direction)
  BY DEF Scroll
<1>4. QED
  BY <1>2, <1>3 DEF Corner, Moved

\* The row a bullet takes is its base's row of the frame before.
LEMMA NextRow == IInv /\ Next => RowFollowsBase'
<1> SUFFICES ASSUME IInv, Next, NEW b \in Base, shoot_bullet'[b],
                    base'[b] # BaseStart[b]
             PROVE  \E d \in {-1, 0, 1} : (enemy_bullet_y'[b] + d) % Plane = Center(b)'.y
  BY DEF RowFollowsBase
<1>1. PICK direction \in Direction : BulletsFrame /\ Scroll(direction)
  BY DEF Next, FrameEdge
<1>2. enemy_bullet_y'[b] = Center(b).y
  BY <1>1 DEF BulletsFrame, NextY
<1>3. PICK d \in {-1, 0, 1} : base'[b].y = (base[b].y + d) % Plane
  BY <1>1, ScrolledRow DEF IInv
<1>4. base[b].y \in 0..(Plane - 1) /\ HalfY \in 0..(Plane - 1) /\ Plane \in Nat \ {0}
  BY BasesAssumption DEF BasesAssumption, IInv, TypeOK, Point, Coordinate
<1>5. Center(b).y = (base[b].y + HalfY) % Plane /\ Center(b)'.y = (base'[b].y + HalfY) % Plane
  BY DEF Center, Moved
<1>6. d \in -1..1
  OBVIOUS
<1>7. (((base[b].y + HalfY) % Plane) + d) % Plane = (((base[b].y + d) % Plane) + HalfY) % Plane
  BY <1>4, <1>6, StepThenHalf
<1>8. QED
  BY <1>2, <1>3, <1>5, <1>7

LEMMA InitRow == Init => RowFollowsBase
  BY DEF Init, BulletsInit, RowFollowsBase

LEMMA StepRow == RowFollowsBase /\ IInv /\ [Next]_vars => RowFollowsBase'
<1>1. RowFollowsBase /\ UNCHANGED vars => RowFollowsBase'
  BY DEF vars, bulletVars, RowFollowsBase, Center, Moved
<1>2. QED
  BY <1>1, NextRow

\* A bullet in flight is on the row its base had one frame before, on every plane
\* and for every base, unless the base was put back at its start in that frame.
THEOREM RowKept == Spec => []RowFollowsBase
  BY InitRow, StepRow, Invariant, PTL DEF Spec
=============================================================================

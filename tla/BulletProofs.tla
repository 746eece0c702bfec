---------------------------- MODULE BulletProofs ----------------------------
(***************************************************************************)
(* The gun's registers never wrap, its handshake never restarts a shot and *)
(* its hit test never mixes up the two bullets: for every range a 7-bit    *)
(* distance can count, every plane and every position of the ship that     *)
(* BulletAssumption allows, the code's 120, 1024 and (320, 240) among them.*)
(***************************************************************************)
EXTENDS Bullet, TLAPS

-----------------------------------------------------------------------------
\* How far a coordinate of a bullet may be from the ship's after the given
\* distance: a position is registered one frame before the offset it comes from.
Lag(p, center, distance) ==
    IF distance = 0 THEN p = center
    ELSE p - center <= distance - 2 /\ center - p <= distance - 2

InFlight ==
    /\ bullet_distance_traveled # 1
    /\ IF shoot_left_right
         THEN /\ x_offset = bullet_distance_traveled
              /\ y_offset = 0 /\ change_x = 0
              /\ change_y <= bullet_distance_traveled
         ELSE /\ y_offset = bullet_distance_traveled
              /\ x_offset = 0 /\ change_y = 0
              /\ change_x <= bullet_distance_traveled
    /\ Lag(x_pos_bullet_1, Ship_Center_X, bullet_distance_traveled)
    /\ Lag(x_pos_bullet_2, Ship_Center_X, bullet_distance_traveled)
    /\ Lag(y_pos_bullet_1, Ship_Center_Y, bullet_distance_traveled)
    /\ Lag(y_pos_bullet_2, Ship_Center_Y, bullet_distance_traveled)

\* The inductive invariant: what the offsets are during a flight bounds the positions.
IInv ==
    /\ TypeOK
    /\ exists => InFlight
    /\ shoot /\ exists => bullet_distance_traveled = 0
    /\ Paired

-----------------------------------------------------------------------------
\* A sum that fits its register is stored as it is.
LEMMA NoWrap ==
    ASSUME NEW n \in Int, NEW m \in Nat, 0 <= n, n < m
    PROVE  n % m = n
  OBVIOUS

LEMMA InitIInv == Init => IInv
<1> SUFFICES ASSUME Init PROVE IInv
  OBVIOUS
<1>1. TypeOK
  <2>1. shoot \in BOOLEAN /\ exists \in BOOLEAN /\ shoot_left_right \in BOOLEAN
    BY DEF Init
  <2>2. 0 \in Distance /\ 0 \in Coordinate
    BY BulletAssumption DEF BulletAssumption, Distance, Coordinate
  <2>3. QED
    BY <2>1, <2>2 DEF Init, TypeOK
<1>2. Paired
  BY DEF Init, Paired, positions
<1>3. ~exists
  BY DEF Init
<1>4. QED
  BY <1>1, <1>2, <1>3 DEF IInv

\* No sum of a flight leaves its register while the distance is below the range.
LEMMA FlightFits ==
    ASSUME NEW d \in Nat, d < bullet_range
    PROVE  /\ (d + 2) % 128 = d + 2 /\ (d + 1) % 128 = d + 1
           /\ (Ship_Center_X + d) % Plane = Ship_Center_X + d
           /\ (Ship_Center_X - d) % Plane = Ship_Center_X - d
           /\ (Ship_Center_Y + d) % Plane = Ship_Center_Y + d
           /\ (Ship_Center_Y - d) % Plane = Ship_Center_Y - d
<1>1. /\ bullet_range \in 1..126 /\ Plane \in Nat
      /\ Ship_Center_X \in (bullet_range + 2)..(Plane - bullet_range - 2)
      /\ Ship_Center_Y \in (bullet_range + 2)..(Plane - bullet_range - 2)
  BY BulletAssumption DEF BulletAssumption
<1>2. /\ d + 2 \in Int /\ 0 <= d + 2 /\ d + 2 < 128
      /\ d + 1 \in Int /\ 0 <= d + 1 /\ d + 1 < 128
  BY <1>1
<1>3. \A c \in {Ship_Center_X, Ship_Center_Y} :
        /\ c + d \in Int /\ 0 <= c + d /\ c + d < Plane
        /\ c - d \in Int /\ 0 <= c - d /\ c - d < Plane
  BY <1>1
<1>4. (d + 2) % 128 = d + 2 /\ (d + 1) % 128 = d + 1
  BY <1>2, NoWrap
<1>5. \A c \in {Ship_Center_X, Ship_Center_Y} :
        (c + d) % Plane = c + d /\ (c - d) % Plane = c - d
  BY <1>1, <1>3, NoWrap
<1>6. QED
  BY <1>4, <1>5

-----------------------------------------------------------------------------
\* A launch puts both bullets at the ship with all distances zero.
LEMMA LaunchIInv ==
    ASSUME IInv, NEW fire \in BOOLEAN, NEW direction, Trigger(fire), Launch(direction)
    PROVE  IInv'
<1>1. TypeOK'
  <2>1. 0 \in Distance /\ Ship_Center_X \in Coordinate /\ Ship_Center_Y \in Coordinate
    BY BulletAssumption DEF BulletAssumption, Distance, Coordinate
  <2>2. shoot' \in BOOLEAN
    BY DEF Trigger, IInv, TypeOK
  <2>3. QED
    BY <2>1, <2>2 DEF Launch, TypeOK, Distance, Coordinate
<1>2. InFlight'
  BY DEF Launch, InFlight, Lag
<1>3. Paired'
  BY BulletAssumption DEF BulletAssumption, Launch, Paired
<1>4. bullet_distance_traveled' = 0
  BY DEF Launch
<1>5. QED
  BY <1>1, <1>2, <1>3, <1>4 DEF IInv

\* A shot that expires leaves its positions in their registers.
LEMMA ExpireIInv ==
    ASSUME IInv, NEW fire \in BOOLEAN, Trigger(fire), Expire
    PROVE  IInv'
<1>1. TypeOK'
  <2>1. 0 \in Distance
    BY BulletAssumption DEF BulletAssumption, Distance
  <2>2. shoot' \in BOOLEAN
    BY DEF Trigger, IInv, TypeOK
  <2>3. QED
    BY <2>1, <2>2 DEF Expire, IInv, TypeOK, offsets, positions, Distance, Coordinate
<1>2. Paired'
  BY DEF Expire, IInv, Paired, positions
<1>3. ~exists'
  BY DEF Expire
<1>4. QED
  BY <1>1, <1>2, <1>3 DEF IInv

LEMMA IdleIInv ==
    ASSUME IInv, NEW fire \in BOOLEAN, Trigger(fire), Idle
    PROVE  IInv'
<1>1. TypeOK'
  <2>1. shoot' \in BOOLEAN
    BY DEF Trigger, IInv, TypeOK
  <2>2. QED
    BY <2>1 DEF Idle, flight, IInv, TypeOK, offsets, positions, Distance, Coordinate
<1>2. Paired'
  BY DEF Idle, flight, IInv, Paired, positions
<1>3. ~exists'
  BY DEF Idle, flight
<1>4. QED
  BY <1>1, <1>2, <1>3 DEF IInv

\* What a flight has in its registers before a step.
LEMMA FlightFacts ==
    ASSUME IInv, exists, ~RangeReached
    PROVE  /\ bullet_distance_traveled \in Nat
           /\ bullet_distance_traveled < bullet_range
           /\ change_x \in Nat /\ change_y \in Nat
           /\ x_offset \in Distance /\ y_offset \in Distance
           /\ change_x \in Distance /\ change_y \in Distance
           /\ bullet_range \in 1..126 /\ Plane \in Nat
           /\ Ship_Center_X \in (bullet_range + 2)..(Plane - bullet_range - 2)
           /\ Ship_Center_Y \in (bullet_range + 2)..(Plane - bullet_range - 2)
  BY BulletAssumption DEF BulletAssumption, IInv, TypeOK, Distance, RangeReached

\* A step along x moves the pair apart, and across by the drift so far.
LEMMA FlyLeftRightIInv ==
    ASSUME IInv, NEW fire \in BOOLEAN, NEW direction, Trigger(fire),
           Fly(direction), FlyLeftRight(direction)
    PROVE  IInv'
<1> DEFINE d == bullet_distance_traveled
<1> USE FlightFacts
<1>1. exists /\ ~shoot /\ ~RangeReached /\ shoot_left_right
  BY DEF Fly, FlyLeftRight
<1>2. /\ d # 1 /\ x_offset = d /\ y_offset = 0 /\ change_x = 0 /\ change_y <= d
  BY <1>1 DEF IInv, InFlight
<1>3. change_y < bullet_range
  BY <1>1, <1>2
<1>4. /\ (d + 2) % 128 = d + 2
      /\ (Ship_Center_X + d) % Plane = Ship_Center_X + d
      /\ (Ship_Center_X - d) % Plane = Ship_Center_X - d
  BY <1>1, FlightFits
<1>5. /\ (change_y + 1) % 128 = change_y + 1
      /\ (Ship_Center_Y + change_y) % Plane = Ship_Center_Y + change_y
      /\ (Ship_Center_Y - change_y) % Plane = Ship_Center_Y - change_y
  BY <1>1, <1>3, FlightFits
<1>6. /\ d' = d + 2 /\ x_offset' = d + 2 /\ y_offset' = 0 /\ change_x' = 0
      /\ change_y' \in {change_y, change_y + 1}
      /\ x_pos_bullet_1' = Ship_Center_X + d
      /\ x_pos_bullet_2' = Ship_Center_X - d
      /\ y_pos_bullet_1' \in {Ship_Center_Y, Ship_Center_Y + change_y, Ship_Center_Y - change_y}
      /\ y_pos_bullet_2' = y_pos_bullet_1'
  BY <1>2, <1>4, <1>5 DEF Fly, FlyLeftRight
<1>7. exists' /\ shoot_left_right' /\ ~shoot'
  BY <1>1 DEF Fly, Trigger
<1>8. TypeOK'
  <2>1. /\ d' \in Distance /\ x_offset' \in Distance /\ y_offset' \in Distance
        /\ change_x' \in Distance /\ change_y' \in Distance
    BY <1>1, <1>2, <1>6 DEF Distance
  <2>2. /\ x_pos_bullet_1' \in Coordinate /\ x_pos_bullet_2' \in Coordinate
        /\ y_pos_bullet_1' \in Coordinate /\ y_pos_bullet_2' \in Coordinate
    BY <1>1, <1>3, <1>6 DEF Coordinate
  <2>3. shoot' \in BOOLEAN /\ exists' \in BOOLEAN /\ shoot_left_right' \in BOOLEAN
    BY <1>7 DEF Fly, IInv, TypeOK, Trigger
  <2>4. QED
    BY <2>1, <2>2, <2>3 DEF TypeOK, Distance, Coordinate
<1>9. InFlight'
  BY <1>1, <1>2, <1>6, <1>7 DEF InFlight, Lag
<1>10. Paired'
  BY <1>1, <1>6 DEF Paired
<1>11. QED
  BY <1>7, <1>8, <1>9, <1>10 DEF IInv

\* The same along y.
LEMMA FlyUpDownIInv ==
    ASSUME IInv, NEW fire \in BOOLEAN, NEW direction, Trigger(fire),
           Fly(direction), FlyUpDown(direction)
    PROVE  IInv'
<1> DEFINE d == bullet_distance_traveled
<1> USE FlightFacts
<1>1. exists /\ ~shoot /\ ~RangeReached /\ ~shoot_left_right
  BY DEF Fly, FlyUpDown
<1>2. /\ d # 1 /\ y_offset = d /\ x_offset = 0 /\ change_y = 0 /\ change_x <= d
  BY <1>1 DEF IInv, InFlight
<1>3. change_x < bullet_range
  BY <1>1, <1>2
<1>4. /\ (d + 2) % 128 = d + 2
      /\ (Ship_Center_Y + d) % Plane = Ship_Center_Y + d
      /\ (Ship_Center_Y - d) % Plane = Ship_Center_Y - d
  BY <1>1, FlightFits
<1>5. /\ (change_x + 1) % 128 = change_x + 1
      /\ (Ship_Center_X + change_x) % Plane = Ship_Center_X + change_x
      /\ (Ship_Center_X - change_x) % Plane = Ship_Center_X - change_x
  BY <1>1, <1>3, FlightFits
<1>6. /\ d' = d + 2 /\ y_offset' = d + 2 /\ x_offset' = 0 /\ change_y' = 0
      /\ change_x' \in {change_x, change_x + 1}
      /\ y_pos_bullet_1' = Ship_Center_Y + d
      /\ y_pos_bullet_2' = Ship_Center_Y - d
      /\ x_pos_bullet_1' \in {Ship_Center_X, Ship_Center_X + change_x, Ship_Center_X - change_x}
      /\ x_pos_bullet_2' = x_pos_bullet_1'
  BY <1>2, <1>4, <1>5 DEF Fly, FlyUpDown
<1>7. exists' /\ ~shoot_left_right' /\ ~shoot'
  BY <1>1 DEF Fly, Trigger
<1>8. TypeOK'
  <2>1. /\ d' \in Distance /\ y_offset' \in Distance /\ x_offset' \in Distance
        /\ change_y' \in Distance /\ change_x' \in Distance
    BY <1>1, <1>2, <1>6 DEF Distance
  <2>2. /\ y_pos_bullet_1' \in Coordinate /\ y_pos_bullet_2' \in Coordinate
        /\ x_pos_bullet_1' \in Coordinate /\ x_pos_bullet_2' \in Coordinate
    BY <1>1, <1>3, <1>6 DEF Coordinate
  <2>3. shoot' \in BOOLEAN /\ exists' \in BOOLEAN /\ shoot_left_right' \in BOOLEAN
    BY <1>7 DEF Fly, IInv, TypeOK, Trigger
  <2>4. QED
    BY <2>1, <2>2, <2>3 DEF TypeOK, Distance, Coordinate
<1>9. InFlight'
  BY <1>1, <1>2, <1>6, <1>7 DEF InFlight, Lag
<1>10. Paired'
  BY <1>1, <1>6 DEF Paired
<1>11. QED
  BY <1>7, <1>8, <1>9, <1>10 DEF IInv

LEMMA NextIInv == IInv /\ [Next]_vars => IInv'
<1> SUFFICES ASSUME IInv, [Next]_vars PROVE IInv'
  OBVIOUS
<1>1. CASE Next
  <2>1. PICK fire \in BOOLEAN, direction \in Direction : FrameEdge(fire, direction)
    BY <1>1 DEF Next
  <2>2. Trigger(fire)
    BY <2>1 DEF FrameEdge
  <2>3. CASE Launch(direction)
    BY <2>2, <2>3, LaunchIInv
  <2>4. CASE Expire
    BY <2>2, <2>4, ExpireIInv
  <2>5. CASE Fly(direction)
    <3>1. CASE FlyLeftRight(direction)
      BY <2>2, <2>5, <3>1, FlyLeftRightIInv
    <3>2. CASE FlyUpDown(direction)
      BY <2>2, <2>5, <3>2, FlyUpDownIInv
    <3>3. QED
      BY <2>5, <3>1, <3>2 DEF Fly
  <2>6. CASE Idle
    BY <2>2, <2>6, IdleIInv
  <2>7. QED
    BY <2>1, <2>3, <2>4, <2>5, <2>6 DEF FrameEdge
<1>2. CASE UNCHANGED vars
  <2>1. TypeOK'
    BY <1>2 DEF vars, flight, offsets, positions, IInv, TypeOK, Distance, Coordinate
  <2>2. (exists => InFlight)'
    BY <1>2 DEF vars, flight, offsets, positions, IInv, InFlight, Lag
  <2>3. (shoot /\ exists => bullet_distance_traveled = 0)'
    BY <1>2 DEF vars, flight, IInv
  <2>4. Paired'
    BY <1>2 DEF vars, flight, offsets, positions, IInv, Paired
  <2>5. QED
    BY <2>1, <2>2, <2>3, <2>4 DEF IInv
<1>3. QED
  BY <1>1, <1>2

-----------------------------------------------------------------------------
\* The inductive invariant holds in every reachable state of the gun.
THEOREM Invariant == Spec => []IInv
  BY InitIInv, NextIInv, PTL DEF Spec

\* Every register keeps to its width and to the distances of one flight: the
\* code's 7-bit and 10-bit arithmetic never overflows.
THEOREM TypeCorrect == Spec => []TypeOK
<1>1. IInv => TypeOK
  BY DEF IInv
<1>2. QED
  BY <1>1, Invariant, PTL

\* The late clearing of the trigger never restarts a shot that has left the ship.
THEOREM HandshakeSafe == Spec => []NoRelaunchInFlight
<1>1. IInv => NoRelaunchInFlight
  BY DEF IInv, InFlight, Lag, NoRelaunchInFlight, positions
<1>2. QED
  BY <1>1, Invariant, PTL

LEMMA IInvInRange == IInv => WithinRange
<1> SUFFICES ASSUME IInv, exists PROVE WithinRange
  BY DEF WithinRange
<1>1. /\ bullet_distance_traveled \in 0..(bullet_range + 1)
      /\ bullet_range \in 1..126
      /\ Plane \in Nat
      /\ Ship_Center_X \in (bullet_range + 2)..(Plane - bullet_range - 2)
      /\ Ship_Center_Y \in (bullet_range + 2)..(Plane - bullet_range - 2)
  BY BulletAssumption DEF BulletAssumption, IInv, TypeOK, Distance
<1>2. /\ x_pos_bullet_1 \in Int /\ y_pos_bullet_1 \in Int
      /\ x_pos_bullet_2 \in Int /\ y_pos_bullet_2 \in Int
  BY <1>1 DEF IInv, TypeOK, Coordinate
<1>3. InFlight
  BY DEF IInv
<1>4. QED
  BY <1>1, <1>2, <1>3 DEF InFlight, Lag, WithinRange

\* No turn of the ship takes a bullet bullet_range pixels or more from it.
THEOREM RangeSafe == Spec => []WithinRange
  BY IInvInRange, Invariant, PTL

\* A pair on one line across its flight leaves no room for a mixed-up hit.
LEMMA PairedHits ==
    ASSUME Paired, NEW cx, NEW cy
    PROVE  NoPhantomHitAt(cx, cy)
  BY DEF Paired, NoPhantomHitAt, enemy_hit, positions

\* A hit is always the hit of one bullet, at every centre a base can have.
THEOREM HitsAreReal ==
    Spec => [](\A cx, cy \in Coordinate : NoPhantomHitAt(cx, cy))
<1>1. IInv => \A cx, cy \in Coordinate : NoPhantomHitAt(cx, cy)
  BY PairedHits DEF IInv
<1>2. QED
  BY <1>1, Invariant, PTL

\* The same at the centres the run tries: where a box's edge or middle lies on the
\* coordinates of the two bullets, one taken from each of them.
THEOREM MixedHitsAreReal == Spec => []NoPhantomHit
<1>1. IInv => NoPhantomHit
  BY PairedHits DEF IInv, NoPhantomHit
<1>2. QED
  BY <1>1, Invariant, PTL

\* The pair stays symmetric about the ship, in flight and after it.
THEOREM PairSymmetric == Spec => []Paired
<1>1. IInv => Paired
  BY DEF IInv
<1>2. QED
  BY <1>1, Invariant, PTL

\* What the inductive invariant is for, all at once: a larger system that takes the
\* gun's steps and no others keeps every one of these.
LEMMA IInvIsSafe ==
    IInv => /\ TypeOK /\ NoRelaunchInFlight /\ WithinRange /\ Paired
            /\ \A cx, cy \in Coordinate : NoPhantomHitAt(cx, cy)
<1>1. IInv => NoRelaunchInFlight
  BY DEF IInv, InFlight, Lag, NoRelaunchInFlight, positions
<1>2. QED
  BY <1>1, IInvInRange, PairedHits DEF IInv
=============================================================================

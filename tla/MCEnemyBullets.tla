--------------------------- MODULE MCEnemyBullets ---------------------------
(* One base on a plane of 32 x 32: bases do not see each other's bullets. *)
EXTENDS EnemyBullets

CONSTANT one

MCBase == {one}

\* The base starts up and to the left of the ship, out of its reach, as base one does.
MCBaseStart == [b \in MCBase |-> [x |-> 9, y |-> 8]]
=============================================================================

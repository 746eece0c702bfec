----------------------------- MODULE GameRules ------------------------------
(***************************************************************************)
(* What a player is promised: the rules of the game, without the map, the  *)
(* bullets, the clocks and the beam.  Game.tla is shown to implement them. *)
(***************************************************************************)
CONSTANT Base       \* the enemy bases

VARIABLES
    State,          \* the screen shown
    hit             \* hit[b]: base b is destroyed

rulesVars == <<State, hit>>

Screen == {"START_SCREEN", "PLAY", "WIN", "LOSE"}
AllHit == \A b \in Base : hit[b]

Init == State = "START_SCREEN" /\ hit = [b \in Base |-> FALSE]

Start == State = "START_SCREEN" /\ State' = "PLAY" /\ UNCHANGED hit

\* Bases that are destroyed stay destroyed, on whatever screen the shot lands.
Destroy ==
    /\ hit' \in [Base -> BOOLEAN]
    /\ \A b \in Base : hit[b] => hit'[b]
    /\ UNCHANGED State

\* Only a base that still stands kills the ship, and never on the winning screen.
Lose == State # "WIN" /\ ~AllHit /\ State' = "LOSE" /\ UNCHANGED hit

\* A shot still flying when the ship is lost can turn the game.
Win == AllHit /\ State' = "WIN" /\ UNCHANGED hit

\* The only way out of a won or lost game is the reset button.
Reset == State' = "START_SCREEN" /\ hit' = [b \in Base |-> FALSE]

Next == Start \/ Destroy \/ Lose \/ Win \/ Reset

\* A player who has destroyed every base is shown the winning screen.
Rules == Init /\ [][Next]_rulesVars /\ WF_rulesVars(Win)

RulesTypeOK == State \in Screen /\ hit \in [Base -> BOOLEAN]
=============================================================================

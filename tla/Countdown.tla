----------------------------- MODULE Countdown -----------------------------
(***************************************************************************)
(* What alarms promise: an alarm started with a period is called at the    *)
(* tick after that many, and then again after as many ticks as its         *)
(* callback asks for each time, never early, late or twice.                *)
(***************************************************************************)
EXTENDS Integers

CONSTANTS Alarms, Periods

VARIABLES
    left,               \* left[a]: ticks until a is called, 0 when it is not started
    called              \* the alarms called by the last tick

Init == left = [a \in Alarms |-> 0] /\ called = {}

Start(a) ==
    /\ left[a] = 0
    /\ \E n \in Periods : left' = [left EXCEPT ![a] = n + 1]
    /\ UNCHANGED called

Stop(a) ==
    /\ left' = [left EXCEPT ![a] = 0]
    /\ UNCHANGED called

Tick ==
    /\ called' = {a \in Alarms : left[a] = 1}
    /\ \E next \in [Alarms -> Periods \cup {0}] :
           left' = [a \in Alarms |-> IF left[a] = 1 THEN next[a]
                                     ELSE IF left[a] = 0 THEN 0 ELSE left[a] - 1]

Next == Tick \/ \E a \in Alarms : Start(a) \/ Stop(a)

Spec == Init /\ [][Next]_<<left, called>>

=============================================================================

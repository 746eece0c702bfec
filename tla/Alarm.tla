------------------------------- MODULE Alarm -------------------------------
(***************************************************************************)
(* The alarms of the board support package (alt_tick.c, alt_alarm_start.c):*)
(* a word counts the ticks of the system clock and wraps; every alarm has  *)
(* the count at which it is due, and a flag that says that this count lies *)
(* beyond the wrap.                                                        *)
(*                                                                         *)
(* alt_alarm_start and alt_alarm_stop disable interrupts while they touch  *)
(* the list, and alt_tick runs in the timer's interrupt: each is one step. *)
(***************************************************************************)
EXTENDS Integers

CONSTANTS
    Word,               \* 2^32
    Alarms,
    Periods             \* what callers ask for: alt_ticks_per_second()

ASSUME AlarmAssumption ==
    /\ Word \in Nat \ {0}
    /\ Periods \subseteq 1..(Word - 2)

VARIABLES
    nticks,             \* _alt_nticks
    listed,             \* the alarms in alt_alarm_list
    time, rollover,     \* the fields of each alarm
    called              \* history: the alarms whose callback the last tick has called

vars == <<nticks, listed, time, rollover, called>>

\* The sum of two words.
Plus(a, b) == IF a + b < Word THEN a + b ELSE a + b - Word

Init ==
    /\ nticks = 0
    /\ listed = {} /\ called = {}
    /\ time = [a \in Alarms |-> 0]
    /\ rollover = [a \in Alarms |-> FALSE]

alt_alarm_start(a, n) ==
    /\ a \notin listed
    /\ listed' = listed \cup {a}
    /\ time' = [time EXCEPT ![a] = Plus(nticks, n + 1)]
    /\ rollover' = [rollover EXCEPT ![a] = Plus(nticks, n + 1) < nticks]
    /\ UNCHANGED <<nticks, called>>

alt_alarm_stop(a) ==
    /\ a \in listed
    /\ listed' = listed \ {a}
    /\ UNCHANGED <<nticks, time, rollover, called>>

\* Mutation: the flag is not cleared at the wrap.
BeyondForGood(a, n) == rollover[a]

\* An alarm of the list after the counter has become n: the flag is cleared at the wrap.
StillBeyond(a, n) == rollover[a] /\ n # 0
Due(a, n) == a \in listed /\ time[a] <= n /\ ~StillBeyond(a, n)

\* The callbacks of all alarms that are due are called and return how many
\* ticks to wait for the next call, or 0.
alt_tick ==
    LET n == Plus(nticks, 1)
        due == {a \in Alarms : Due(a, n)}
    IN /\ nticks' = n
       /\ called' = due
       /\ \E next \in [Alarms -> Periods \cup {0}] :
              LET again == {a \in due : next[a] # 0}
              IN /\ listed' = listed \ (due \ again)
                 /\ time' = [a \in Alarms |->
                        IF a \in again THEN Plus(time[a], next[a]) ELSE time[a]]
                 /\ rollover' = [a \in Alarms |->
                        IF a \in again THEN time'[a] < n
                        ELSE IF a \in listed THEN StillBeyond(a, n) ELSE rollover[a]]

Next ==
    \/ alt_tick
    \/ \E a \in Alarms : alt_alarm_stop(a) \/ \E n \in Periods : alt_alarm_start(a, n)

Spec == Init /\ [][Next]_vars

-----------------------------------------------------------------------------
\* The ticks until the alarm is due, over the wrap if the flag is set.
Left == [a \in Alarms |->
            IF a \notin listed THEN 0
            ELSE time[a] - nticks + (IF rollover[a] THEN Word ELSE 0)]

\* The flag tells the counts before the wrap from those after it.
TypeOK ==
    /\ nticks \in 0..(Word - 1)
    /\ listed \subseteq Alarms
    /\ time \in [Alarms -> 0..(Word - 1)]
    /\ rollover \in [Alarms -> BOOLEAN]
    /\ \A a \in listed : Left[a] \in 1..(Word - 1)

\* An alarm is called exactly when its time has come, also when the tick
\* counter wraps in between, once or again and again.
Promise == INSTANCE Countdown WITH left <- Left
CalledOnTime == Promise!Spec

=============================================================================

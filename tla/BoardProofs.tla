---------------------------- MODULE BoardProofs ----------------------------
(***************************************************************************)
(* What the firmware rests on: the system clock and the terminal.          *)
(*                                                                         *)
(* Alarms are called on time whatever the width of the tick counter, the   *)
(* number of alarms and their periods: Alarm implements Countdown.  A      *)
(* device has its settle time whatever the clock's rate and the wait, and  *)
(* wherever the milliseconds and the ticks go back to 0.                   *)
(*                                                                         *)
(* Driver and core of the terminal are a Link, for rings and FIFOs of any  *)
(* size and requests of any length, and leave nothing behind in the ring.  *)
(***************************************************************************)
EXTENDS SettleTimer, JtagUart, SequenceTheorems, TLAPS

\* What alt_alarm_start and alt_tick do to the fields of an alarm with j ticks
\* to wait: the flag is set exactly if the due count wraps.
LEMMA Sum ==
    ASSUME NEW c \in 0..(Word - 1), NEW j \in 1..(Word - 1)
    PROVE  /\ Plus(c, j) \in 0..(Word - 1)
           /\ Plus(c, j) - c + (IF Plus(c, j) < c THEN Word ELSE 0) = j
BY AlarmAssumption DEF Plus

\* What an alarm of the list has left at the next tick, before it is called.
LEMMA OneLess ==
    ASSUME TypeOK, NEW a \in listed, NEW j, j = Plus(nticks, 1)
    PROVE  /\ time[a] - j + (IF StillBeyond(a, j) THEN Word ELSE 0) = Left[a] - 1
           /\ Due(a, j) <=> Left[a] = 1
           /\ Due(a, j) => time[a] = j
<1>1. /\ nticks \in 0..(Word - 1) /\ time[a] \in 0..(Word - 1)
      /\ rollover[a] \in BOOLEAN /\ a \in Alarms
  BY DEF TypeOK
<1>2. Left[a] = time[a] - nticks + (IF rollover[a] THEN Word ELSE 0)
  BY <1>1 DEF Left
<1>3. Left[a] \in 1..(Word - 1)
  BY DEF TypeOK
<1>4. CASE rollover[a]
  BY <1>1, <1>2, <1>3, <1>4, AlarmAssumption DEF Plus, StillBeyond, Due
<1>5. CASE ~rollover[a]
  BY <1>1, <1>2, <1>3, <1>5, AlarmAssumption DEF Plus, StillBeyond, Due
<1> QED BY <1>1, <1>4, <1>5

LEMMA InitTypeOK == Init => TypeOK
BY AlarmAssumption DEF Init, TypeOK, Left

\* alt_alarm_start leaves the other alarms alone and gives a its full wait.
LEMMA StartStep ==
    ASSUME TypeOK, NEW a \in Alarms, NEW j \in Periods, alt_alarm_start(a, j)
    PROVE  TypeOK' /\ Promise!Start(a)
<1>1. j + 1 \in 1..(Word - 1) /\ nticks \in 0..(Word - 1)
  BY AlarmAssumption DEF TypeOK
<1>2. /\ Plus(nticks, j + 1) \in 0..(Word - 1)
      /\ Plus(nticks, j + 1) - nticks
            + (IF Plus(nticks, j + 1) < nticks THEN Word ELSE 0) = j + 1
  BY <1>1, Sum
<1>3. Left' = [Left EXCEPT ![a] = j + 1]
  BY <1>2 DEF alt_alarm_start, TypeOK, Left
<1>4. TypeOK'
  <2>1. \A b \in listed' : Left'[b] \in 1..(Word - 1)
    BY <1>1, <1>3 DEF TypeOK, alt_alarm_start, Left
  <2> QED BY <1>1, <1>2, <2>1 DEF TypeOK, alt_alarm_start
<1>5. Left[a] = 0
  BY DEF alt_alarm_start, Left
<1> QED BY <1>3, <1>4, <1>5 DEF Promise!Start, alt_alarm_start

LEMMA StopStep ==
    ASSUME TypeOK, NEW a \in Alarms, alt_alarm_stop(a)
    PROVE  TypeOK' /\ Promise!Stop(a)
<1>1. Left' = [Left EXCEPT ![a] = 0]
  BY DEF alt_alarm_stop, TypeOK, Left
<1>2. \A b \in listed' : Left'[b] = Left[b]
  BY <1>1 DEF alt_alarm_stop, TypeOK, Left
<1>3. TypeOK'
  BY <1>2 DEF TypeOK, alt_alarm_stop
<1> QED BY <1>1, <1>3 DEF Promise!Stop, alt_alarm_stop

\* A tick takes one from what every alarm has left and calls those that had one.
LEMMA TickStep ==
    ASSUME TypeOK, alt_tick
    PROVE  TypeOK' /\ Promise!Tick
<1> DEFINE j == Plus(nticks, 1)
           due == {a \in Alarms : Due(a, j)}
           again(next) == {a \in due : next[a] # 0}
<1>1. PICK next \in [Alarms -> Periods \cup {0}] :
          /\ listed' = listed \ (due \ again(next))
          /\ time' = [a \in Alarms |->
                 IF a \in again(next) THEN Plus(time[a], next[a]) ELSE time[a]]
          /\ rollover' = [a \in Alarms |->
                 IF a \in again(next) THEN time'[a] < j
                 ELSE IF a \in listed THEN StillBeyond(a, j) ELSE rollover[a]]
  BY DEF alt_tick
<1>2. nticks' = j /\ called' = due
  BY DEF alt_tick
<1>3. j \in 0..(Word - 1)
  BY AlarmAssumption DEF TypeOK, Plus
<1>4. \A a \in Alarms : next[a] # 0 => next[a] \in 1..(Word - 1)
  <2>1. \A m \in Periods : m \in 1..(Word - 1)
    BY AlarmAssumption
  <2>2. \A a \in Alarms : next[a] \in Periods \cup {0}
    OBVIOUS
  <2> QED BY <2>1, <2>2
<1>5. \A a \in Alarms : a \in due <=> Left[a] = 1
  <2> SUFFICES ASSUME NEW a \in Alarms PROVE a \in due <=> Left[a] = 1
    OBVIOUS
  <2>1. CASE a \in listed
    BY <2>1, OneLess
  <2>2. CASE a \notin listed
    BY <2>2 DEF Left, Due
  <2> QED BY <2>1, <2>2
<1>6. ASSUME NEW a \in Alarms
      PROVE  /\ time'[a] \in 0..(Word - 1) /\ rollover'[a] \in BOOLEAN
             /\ a \in listed' => Left'[a] \in 1..(Word - 1)
             /\ Left'[a] = IF Left[a] = 1 THEN next[a]
                           ELSE IF Left[a] = 0 THEN 0 ELSE Left[a] - 1
  <2>0. /\ time[a] \in 0..(Word - 1) /\ rollover[a] \in BOOLEAN
        /\ Left'[a] = IF a \notin listed' THEN 0
                      ELSE time'[a] - j + (IF rollover'[a] THEN Word ELSE 0)
    BY <1>2 DEF TypeOK, Left
  <2>1. CASE a \in again(next)
    <3>1. a \in listed /\ Left[a] = 1 /\ time[a] = j
      BY <2>1, <1>5, OneLess DEF Due
    <3>2. /\ time'[a] = Plus(j, next[a]) /\ rollover'[a] = (time'[a] < j)
          /\ a \in listed'
      BY <1>1, <2>1, <3>1
    <3>3. /\ Plus(j, next[a]) \in 0..(Word - 1)
          /\ Plus(j, next[a]) - j + (IF Plus(j, next[a]) < j THEN Word ELSE 0) = next[a]
      BY <1>3, <1>4, <2>1, Sum
    <3>4. rollover'[a] \in BOOLEAN
      BY <3>2
    <3>5. Left'[a] = time'[a] - j + (IF time'[a] < j THEN Word ELSE 0)
      BY <2>0, <3>2
    <3>6. Left'[a] = next[a] /\ next[a] \in 1..(Word - 1)
      BY <3>2, <3>3, <3>5, <1>4, <2>1
    <3> QED BY <3>1, <3>2, <3>3, <3>4, <3>6
  <2>2. CASE a \in due /\ next[a] = 0
    <3>1. a \notin again(next)
      BY <2>2
    <3>2. a \notin listed' /\ Left[a] = 1 /\ time'[a] = time[a]
      BY <1>1, <1>5, <2>2, <3>1
    <3>3. rollover'[a] \in BOOLEAN
      BY <1>1, <2>0, <3>1 DEF StillBeyond
    <3> QED BY <2>0, <2>2, <3>2, <3>3
  <2>3. CASE a \notin due /\ a \in listed
    <3>1. /\ a \in listed' /\ time'[a] = time[a] /\ rollover'[a] = StillBeyond(a, j)
      BY <1>1, <2>3
    <3>2. time[a] - j + (IF StillBeyond(a, j) THEN Word ELSE 0) = Left[a] - 1
      BY <2>3, OneLess
    <3>3. Left[a] # 1 /\ Left[a] \in 1..(Word - 1)
      BY <1>5, <2>3 DEF TypeOK
    <3>4. rollover'[a] \in BOOLEAN
      BY <3>1, <2>0 DEF StillBeyond
    <3> QED BY <2>0, <3>1, <3>2, <3>3, <3>4, AlarmAssumption
  <2>4. CASE a \notin listed
    <3>1. a \notin listed' /\ a \notin due /\ time'[a] = time[a] /\ rollover'[a] = rollover[a]
      BY <1>1, <2>4 DEF Due
    <3>2. Left[a] = 0
      BY <2>4 DEF Left
    <3> QED BY <2>0, <3>1, <3>2
  <2> QED BY <2>1, <2>2, <2>3, <2>4
<1>7. TypeOK'
  <2>1. listed' \subseteq Alarms
    BY <1>1 DEF TypeOK
  <2>2. time' \in [Alarms -> 0..(Word - 1)] /\ rollover' \in [Alarms -> BOOLEAN]
    BY <1>1, <1>6
  <2> QED BY <1>2, <1>3, <1>6, <2>1, <2>2 DEF TypeOK
<1>8. Left' = [a \in Alarms |-> IF Left[a] = 1 THEN next[a]
                                ELSE IF Left[a] = 0 THEN 0 ELSE Left[a] - 1]
  BY <1>6 DEF Left
<1>9. called' = {a \in Alarms : Left[a] = 1}
  BY <1>2, <1>5
<1> QED BY <1>7, <1>8, <1>9 DEF Promise!Tick

LEMMA NextStep == TypeOK /\ [Next]_vars => TypeOK' /\ [Promise!Next]_<<Left, called>>
<1> SUFFICES ASSUME TypeOK, [Next]_vars
             PROVE  TypeOK' /\ [Promise!Next]_<<Left, called>>
  OBVIOUS
<1>1. CASE alt_tick
  BY <1>1, TickStep DEF Promise!Next
<1>2. ASSUME NEW a \in Alarms, alt_alarm_stop(a)
      PROVE  TypeOK' /\ [Promise!Next]_<<Left, called>>
  BY <1>2, StopStep DEF Promise!Next
<1>3. ASSUME NEW a \in Alarms, NEW j \in Periods, alt_alarm_start(a, j)
      PROVE  TypeOK' /\ [Promise!Next]_<<Left, called>>
  BY <1>3, StartStep DEF Promise!Next
<1>4. CASE UNCHANGED vars
  BY <1>4 DEF TypeOK, Left, vars
<1> QED BY <1>1, <1>2, <1>3, <1>4 DEF Next

\* The flag and the due count of every alarm in the list say together how many
\* ticks it has left, at least one and never a whole round of the counter.
THEOREM TypeCorrect == Spec => []TypeOK
<1>1. TypeOK /\ [Next]_vars => TypeOK'
  BY NextStep
<1> QED BY InitTypeOK, <1>1, PTL DEF Spec

\* Every alarm is called exactly when its time has come, over the wrap of the
\* tick counter too, for counters of any width.
THEOREM OnTime == Spec => CalledOnTime
<1>1. Init => Promise!Init
  BY DEF Init, Promise!Init, Left
<1>2. TypeOK /\ [Next]_vars => [Promise!Next]_<<Left, called>>
  BY NextStep
<1> QED BY <1>1, <1>2, TypeCorrect, PTL DEF Spec, CalledOnTime, Promise!Spec

-----------------------------------------------------------------------------
(* Quotients and remainders *)

LEMMA Multiple ==
    ASSUME NEW w \in Nat \ {0}, NEW k \in Int, -w < w * k, w * k < w
    PROVE  k = 0
<1>1. CASE k >= 1
  BY <1>1
<1>2. CASE k <= -1
  BY <1>2
<1> QED BY <1>1, <1>2

LEMMA Division ==
    ASSUME NEW w \in Nat \ {0}, NEW a \in Nat
    PROVE  /\ a \div w \in Nat /\ a % w \in 0..(w - 1)
           /\ a = w * (a \div w) + (a % w)
  OBVIOUS

\* No other quotient and remainder fit.
LEMMA Unique ==
    ASSUME NEW w \in Nat \ {0}, NEW q \in Nat, NEW r \in 0..(w - 1), NEW a, a = w * q + r
    PROVE  a \div w = q /\ a % w = r
<1> DEFINE p == a \div w
           s == a % w
<1>1. a \in Nat
  OBVIOUS
<1>2. p \in Nat /\ s \in 0..(w - 1) /\ a = w * p + s
  BY <1>1, Division
<1> HIDE DEF p, s
<1>3. w * (p - q) = r - s
  BY <1>2
<1>4. p - q = 0
  BY <1>2, <1>3, Multiple
<1>5. p = q /\ s = r
  BY <1>2, <1>4
<1> QED BY <1>5 DEF p, s

\* What an addition to a word does to it, whether or not it wraps: at a wrap by less
\* than t, less than t is left.
LEMMA WordSum ==
    ASSUME NEW w \in Nat \ {0}, NEW t \in Nat \ {0}, NEW a \in Nat
    PROVE  \/ (a + t) % w = (a % w) + t
           \/ (a + t) % w < t
<1> DEFINE b == a + t
           q == a \div w
           r == a % w
           u == b % w
           v == b \div w
<1>0. b \in Nat /\ b = a + t
  OBVIOUS
<1> HIDE DEF b
<1>1. q \in Nat /\ r \in 0..(w - 1) /\ a = w * q + r
  BY Division
<1>2. v \in Nat /\ u \in 0..(w - 1) /\ b = w * v + u
  BY <1>0, Division
<1> HIDE DEF q, r, u, v
<1>3. CASE r + t < w
  <2> DEFINE s == r + t
  <2>1. s \in 0..(w - 1) /\ b = w * q + s
    BY <1>0, <1>1, <1>3
  <2> HIDE DEF s
  <2>2. b % w = s
    BY <1>1, <2>1, Unique
  <2> QED BY <2>2 DEF b, r, s
<1>4. CASE r + t >= w /\ u >= t
  <2>1. w * (v - q) = r + t - u
    BY <1>0, <1>1, <1>2
  <2>2. -w < w * (v - q) /\ w * (v - q) < w
    BY <1>1, <1>2, <1>4, <2>1
  <2>3. v - q = 0
    BY <1>1, <1>2, <2>2, Multiple
  <2>4. r + t = u
    BY <1>1, <1>2, <2>1, <2>3
  <2> QED BY <2>4 DEF b, r, u
<1>5. CASE u < t
  BY <1>5 DEF b, u
<1> QED BY <1>1, <1>2, <1>3, <1>4, <1>5

\* At a tick the milliseconds go on by one, or back to 0.
LEMMA NextMillisecond ==
    ASSUME NEW w \in Nat \ {0}, NEW t \in Nat \ {0}, NEW a \in Nat
    PROVE  \/ ((a + t) % w) \div t = ((a % w) \div t) + 1
           \/ ((a + t) % w) \div t = 0
<1> DEFINE b == a + t
           x == a % w
           y == b % w
<1>0. b \in Nat
  OBVIOUS
<1>1. y = x + t \/ y < t
  BY WordSum
<1> HIDE DEF b
<1>2. x \in Nat /\ y \in Nat
  BY <1>0, Division
<1> HIDE DEF x, y
<1>3. CASE y = x + t
  <2> DEFINE q == x \div t
             r == x % t
  <2>1. q \in Nat /\ r \in 0..(t - 1) /\ x = t * q + r
    BY <1>2, Division
  <2> HIDE DEF q, r
  <2> DEFINE j == q + 1
  <2>2. j \in Nat /\ y = t * j + r
    BY <2>1, <1>3
  <2> HIDE DEF j
  <2>3. y \div t = j
    BY <1>2, <2>1, <2>2, Unique
  <2> QED BY <2>3 DEF b, j, q, x, y
<1>4. CASE y < t
  <2>1. y = t * 0 + y /\ y \in 0..(t - 1)
    BY <1>2, <1>4
  <2>2. y \div t = 0
    BY <2>1, Unique
  <2> QED BY <2>2 DEF b, y
<1> QED BY <1>1, <1>3, <1>4

-----------------------------------------------------------------------------
(* The settle time *)

\* The milliseconds are less than the settle time beyond those at the start by
\* as many ticks as are still to be waited.
Waiting ==
    /\ usb_delay \in Nat /\ waited \in 0..SettleTime
    /\ usb_task_state = "SETTLE" /\ ~skipped /\ waited < SettleTime =>
         Now + SettleTime <= usb_delay + waited

NowFits == Now \in Nat /\ Now + SettleTime < Word

LEMMA Milliseconds == TypeOK => NowFits
<1> SUFFICES ASSUME TypeOK PROVE NowFits
  OBVIOUS
<1> DEFINE x == (nticks * Thousand) % Word
           q == x \div Thousand
           m == Word - 1
           l == m \div Thousand
<1>1. /\ x \in 0..m /\ x \in Nat /\ m \in Nat
      /\ Thousand \in Nat \ {0} /\ SettleTime \in Nat
  <2>1. nticks * Thousand \in Nat
    BY SettleAssumption, AlarmAssumption DEF TypeOK
  <2> QED BY <2>1, AlarmAssumption, SettleAssumption, Division
<1> HIDE DEF x, m
<1>2. q \in Nat /\ x % Thousand \in 0..(Thousand - 1) /\ x = Thousand * q + (x % Thousand)
  BY <1>1, Division
<1>3. /\ l \in Nat /\ m % Thousand \in 0..(Thousand - 1)
      /\ m = Thousand * l + (m % Thousand)
  BY <1>1, Division
<1>4. l + SettleTime < Word
  BY SettleAssumption DEF m
<1> HIDE DEF q, l
<1>5. q <= l
  <2> SUFFICES ASSUME q >= l + 1 PROVE FALSE
    BY <1>2, <1>3
  <2>1. Thousand * q >= Thousand * (l + 1)
    BY <1>1, <1>2, <1>3
  <2>2. Thousand * (l + 1) = Thousand * l + Thousand
    BY <1>1, <1>3
  <2> DEFINE h == m % Thousand
             k == x % Thousand
  <2>3. h \in 0..(Thousand - 1) /\ k \in Nat /\ m = Thousand * l + h /\ x = Thousand * q + k
    BY <1>2, <1>3
  <2> HIDE DEF h, k
  <2> QED BY <2>1, <2>2, <2>3, <1>1, <1>2, <1>3
<1>6. Now = q
  BY DEF Now, q, x
<1> QED BY <1>1, <1>2, <1>3, <1>4, <1>5, <1>6, AlarmAssumption DEF NowFits

\* The same after a step.
LEMMA MillisecondsNext == TypeOK' => NowFits'
BY Milliseconds, PTL

\* A tick takes the milliseconds on by one at most.
LEMMA TickNow ==
    ASSUME TypeOK, alt_tick
    PROVE  Now' <= Now + 1
<1>0. nticks \in Nat /\ Thousand \in Nat \ {0} /\ Word \in Nat \ {0}
  BY AlarmAssumption, SettleAssumption DEF TypeOK
<1>1. Now \in Nat
  BY Milliseconds DEF NowFits
<1>2. CASE nticks' = nticks + 1
  <2> DEFINE a == nticks * Thousand
  <2>1. a \in Nat /\ nticks' * Thousand = a + Thousand
    BY <1>0, <1>2
  <2>2. Now = (a % Word) \div Thousand /\ Now' = ((a + Thousand) % Word) \div Thousand
    BY <2>1 DEF Now
  <2> HIDE DEF a
  <2>3. Now' = Now + 1 \/ Now' = 0
    BY <1>0, <2>1, <2>2, NextMillisecond
  <2> QED BY <1>1, <2>3
<1>3. CASE nticks' = 0
  <2>1. 0 % Word = 0 /\ 0 \div Thousand = 0
    <3>1. 0 = Word * 0 + 0 /\ 0 = Thousand * 0 + 0
      BY <1>0
    <3> QED BY <1>0, <3>1, Unique
  <2>2. Now' = 0
    BY <1>0, <1>3, <2>1 DEF Now
  <2> QED BY <1>1, <2>2
<1> QED BY <1>0, <1>2, <1>3, AlarmAssumption DEF alt_tick, Plus, TypeOK

\* The settle timer only reads the clock that it shares with the alarms.
LEMMA ClockIsAlarms == ClockSpec => Spec
<1>1. ClockInit => Init
  BY DEF ClockInit
<1>2. [ClockNext]_clockVars => [Next]_vars
  BY DEF ClockNext, clockVars, Tick, SetAlarm, Attached, Detached, USB_Task, StartTimer,
         TimerExpires, Next
<1> QED BY <1>1, <1>2, PTL DEF ClockSpec, Spec

LEMMA ClockTypeOK == ClockSpec => []TypeOK
BY ClockIsAlarms, TypeCorrect, PTL

\* Alarms are called on time also beside the settle timer.
THEOREM ClockOnTime == ClockSpec => CalledOnTime
BY ClockIsAlarms, OnTime, PTL

\* Ticks use up the wait as fast as the milliseconds come nearer to its end.
LEMMA WaitingStep ==
    ASSUME TypeOK, Waiting, ClockNext
    PROVE  Waiting'
<1>0. SettleTime \in Nat \ {0} /\ Now \in Nat /\ Now + SettleTime < Word /\ Word \in Nat
  BY Milliseconds, AlarmAssumption, SettleAssumption DEF NowFits
<1>1. CASE Tick
  <2>1. Now' <= Now + 1 /\ Now' \in Nat
    <3>1. TypeOK'
      BY <1>1, TickStep DEF Tick
    <3>2. Now' \in Nat
      BY <3>1, MillisecondsNext DEF NowFits
    <3> QED BY <1>1, <3>2, TickNow DEF Tick
  <2>2. UNCHANGED <<usb_task_state, usb_delay, skipped>>
    BY <1>1 DEF Tick
  <2>3. usb_delay \in Nat /\ waited \in 0..SettleTime
    BY DEF Waiting
  <2>4. CASE waited < SettleTime
    <3>1. waited' = waited + 1
      BY <1>1, <2>4 DEF Tick
    <3>2. usb_task_state = "SETTLE" /\ ~skipped => Now + SettleTime <= usb_delay + waited
      BY <2>4 DEF Waiting
    <3>3. usb_task_state' = "SETTLE" /\ ~skipped' => Now' + SettleTime <= usb_delay' + waited'
      <4>1. Now + SettleTime <= usb_delay + waited => Now' + SettleTime <= usb_delay + waited'
        <5>1. \A j, m, d, w \in Nat : m <= j + 1 /\ j + SettleTime <= d + w =>
                m + SettleTime <= d + (w + 1)
          BY <1>0
        <5>2. Now \in Nat /\ Now' \in Nat /\ usb_delay \in Nat /\ waited \in Nat
          BY <1>0, <2>1, <2>3
        <5> QED BY <2>1, <3>1, <5>1, <5>2, Zenon
      <4>2. usb_delay' = usb_delay /\ usb_task_state' = usb_task_state /\ skipped' = skipped
        BY <2>2
      <4> QED BY <3>2, <4>1, <4>2, Zenon
    <3> QED BY <1>0, <2>2, <2>3, <2>4, <3>1, <3>3 DEF Waiting
  <2>5. CASE waited = SettleTime
    <3>1. waited' = waited
      BY <1>0, <1>1, <2>5 DEF Tick
    <3> QED BY <1>0, <2>2, <2>3, <2>5, <3>1 DEF Waiting
  <2> QED BY <1>0, <2>3, <2>4, <2>5
<1>2. CASE SetAlarm
  <2>1. nticks' = nticks
    BY <1>2 DEF SetAlarm, alt_alarm_start, alt_alarm_stop
  <2> QED BY <1>2, <2>1 DEF SetAlarm, settle, Waiting, Now
<1>3. CASE Attached
  BY <1>0, <1>3 DEF Attached, Waiting
<1>4. CASE Detached
  BY <1>4 DEF Detached, Waiting
<1>5. CASE StartTimer
  <2>1. (Now + SettleTime) % Word = Now + SettleTime
    <3> DEFINE s == Now + SettleTime
    <3>1. s \in 0..(Word - 1) /\ s = Word * 0 + s /\ Word \in Nat \ {0}
      BY <1>0, AlarmAssumption
    <3> HIDE DEF s
    <3>2. s % Word = s
      BY <3>1, Unique
    <3> QED BY <3>2 DEF s
  <2>2. Now' = Now
    BY <1>5 DEF StartTimer, vars, Now
  <2> QED BY <1>0, <1>5, <2>1, <2>2 DEF StartTimer, Waiting
<1>6. CASE TimerExpires
  BY <1>6 DEF TimerExpires, Waiting
<1> QED BY <1>1, <1>2, <1>3, <1>4, <1>5, <1>6 DEF ClockNext, USB_Task

\* The bus reset never comes before the settle time is over, for every rate of the
\* clock and every width of its counter, unless the timer was not started.
THEOREM SettleSafe == ClockSpec => SettleWaited
<1>1. ClockInit => Waiting
  BY SettleAssumption DEF ClockInit, Waiting
<1>2. TypeOK /\ Waiting /\ [ClockNext]_clockVars => Waiting'
  <2>1. UNCHANGED clockVars /\ Waiting => Waiting'
    BY DEF clockVars, vars, settle, Waiting, Now
  <2> QED BY <2>1, WaitingStep
<1>3. TypeOK /\ Waiting /\ [ClockNext]_clockVars =>
          [TimerExpires => waited = SettleTime \/ skipped]_clockVars
  <2> SUFFICES ASSUME TypeOK, Waiting, TimerExpires, ~skipped, waited # SettleTime
               PROVE  FALSE
    OBVIOUS
  <2>1. Now \in Nat /\ SettleTime \in Nat
    BY Milliseconds, SettleAssumption DEF NowFits
  <2> QED BY <2>1 DEF TimerExpires, Waiting
<1> QED BY <1>1, <1>2, <1>3, ClockTypeOK, PTL DEF ClockSpec, SettleWaited

-----------------------------------------------------------------------------
(* The rings of the terminal *)

Places == 0..(BUF_LEN - 1)

\* A place in the ring plus less than a round is a place of the ring, and the
\* distance between two places is less than a round.
LEMMA Around ==
    ASSUME BUF_LEN \in Nat \ {0, 1}, NEW i \in Places, NEW j \in Places
    PROVE  /\ \A k \in 0..BUF_LEN : Step(i, k) \in Places
           /\ Used(i, j) \in Places
           /\ Step(i, 0) = i
           /\ Step(j, Used(i, j)) = i
           /\ Used(i, j) = 0 <=> i = j
           /\ \A k \in Places : Used(Step(j, k), j) = k
<1> DEFINE N == BUF_LEN
<1> HIDE DEF N
<1> N \in Nat \ {0, 1}
    BY DEF N
<1> Places = 0..(N - 1)
    BY DEF N, Places
<1>1. \A x, k : Step(x, k) = IF x + k < N THEN x + k ELSE x + k - N
    BY DEF Step, N
<1>2. \A x, y : Used(x, y) = IF x >= y THEN x - y ELSE x - y + N
    BY DEF Used, N
<1>3. \A k \in 0..N : Step(i, k) \in Places
    BY <1>1
<1>4. Used(i, j) \in Places
    BY <1>2
<1>5. Step(i, 0) = i
    BY <1>1
<1>6. Step(j, Used(i, j)) = i
    BY <1>1, <1>2
<1>7. Used(i, j) = 0 <=> i = j
    BY <1>2
<1>8. \A k \in Places : Used(Step(j, k), j) = k
    BY <1>1, <1>2
<1> QED
    BY <1>3, <1>4, <1>5, <1>6, <1>7, <1>8 DEF N

\* What is put in or taken out moves one end of what is used.
LEMMA Moved ==
    ASSUME BUF_LEN \in Nat \ {0, 1}, NEW in \in Places, NEW out \in Places, NEW k \in Nat
    PROVE  /\ Used(in, out) + k < BUF_LEN => Used(Step(in, k), out) = Used(in, out) + k
           /\ k <= Used(in, out) =>
                /\ Used(in, Step(out, k)) = Used(in, out) - k
                /\ Used(Step(out, k), out) = k
           /\ \A l \in Nat : k + l < BUF_LEN => Step(Step(out, k), l) = Step(out, k + l)
           /\ \A l \in Nat : Used(in, out) + l < BUF_LEN =>
                                Step(in, l) = Step(out, Used(in, out) + l)
<1> DEFINE N == BUF_LEN
<1> HIDE DEF N
<1> N \in Nat \ {0, 1}
    BY DEF N
<1> Places = 0..(N - 1)
    BY DEF N, Places
<1>1. \A x, y : Step(x, y) = IF x + y < N THEN x + y ELSE x + y - N
    BY DEF Step, N
<1>2. \A x, y : Used(x, y) = IF x >= y THEN x - y ELSE x - y + N
    BY DEF Used, N
<1>3. Used(in, out) + k < N => Used(Step(in, k), out) = Used(in, out) + k
    BY <1>1, <1>2
<1>4. k <= Used(in, out) => Used(in, Step(out, k)) = Used(in, out) - k
    BY <1>1, <1>2
<1>5. k <= Used(in, out) => Used(Step(out, k), out) = k
    BY <1>1, <1>2
<1>6. \A l \in Nat : k + l < N => Step(Step(out, k), l) = Step(out, k + l)
    BY <1>1
<1>7. \A l \in Nat : Used(in, out) + l < N => Step(in, l) = Step(out, Used(in, out) + l)
    BY <1>1, <1>2
<1> QED
    BY <1>3, <1>4, <1>5, <1>6, <1>7 DEF N
\* A sequence cut in two.
LEMMA Cut ==
    ASSUME NEW S, NEW s \in Seq(S), NEW k \in 0..Len(s)
    PROVE  /\ First(s, k) \in Seq(S) /\ Len(First(s, k)) = k
           /\ \A i \in 1..k : First(s, k)[i] = s[i]
           /\ Rest(s, k) \in Seq(S) /\ Len(Rest(s, k)) = Len(s) - k
           /\ \A i \in 1..(Len(s) - k) : Rest(s, k)[i] = s[k + i]
           /\ s = First(s, k) \o Rest(s, k)
<1> DEFINE l == Len(s)
<1>1. l \in Nat /\ k \in Nat /\ k <= l
    BY LenProperties
<1>2. /\ First(s, k) \in Seq(S) /\ Len(First(s, k)) = k
      /\ \A i \in 1..k : First(s, k)[i] = s[i]
    <2>1. \A i \in 1..k : s[i] \in S
        BY <1>1, ElementOfSeq
    <2>2. /\ SubSeq(s, 1, k) \in Seq(S) /\ Len(SubSeq(s, 1, k)) = IF 1 <= k THEN k - 1 + 1 ELSE 0
          /\ \A i \in 1..(k - 1 + 1) : SubSeq(s, 1, k)[i] = s[1 + i - 1]
        BY <1>1, <2>1, SubSeqProperties
    <2>3. /\ k - 1 + 1 = k /\ \A i \in Nat : 1 + i - 1 = i
          /\ (IF 1 <= k THEN k - 1 + 1 ELSE 0) = k
        BY <1>1
    <2> QED
        BY <2>2, <2>3 DEF First
<1>3. /\ Rest(s, k) \in Seq(S) /\ Len(Rest(s, k)) = l - k
      /\ \A i \in 1..(l - k) : Rest(s, k)[i] = s[k + i]
    <2>1. \A i \in (k + 1)..l : s[i] \in S
        BY <1>1, ElementOfSeq
    <2> DEFINE r == Rest(s, k)
    <2>2. /\ r \in Seq(S) /\ Len(r) = IF k + 1 <= l THEN l - (k + 1) + 1 ELSE 0
          /\ \A i \in 1..(l - (k + 1) + 1) : r[i] = s[(k + 1) + i - 1]
        BY <1>1, <2>1, SubSeqProperties DEF Rest
    <2> HIDE DEF r
    <2>3. l - (k + 1) + 1 = l - k /\ (IF k + 1 <= l THEN l - (k + 1) + 1 ELSE 0) = l - k
        BY <1>1
    <2>4. \A i \in 1..(l - k) : r[i] = s[k + i]
        <3> TAKE i \in 1..(l - k)
        <3>1. i \in 1..(l - (k + 1) + 1) /\ (k + 1) + i - 1 = k + i
            BY <1>1
        <3> QED
            BY <3>1, <2>2
    <2> QED
        BY <2>2, <2>3, <2>4 DEF r
<1>4. s = First(s, k) \o Rest(s, k)
    <2>1. 1 \in 1..(l + 1) /\ k \in (1 - 1)..l /\ l \in k..l
        BY <1>1
    <2>2. SubSeq(s, 1, k) \o SubSeq(s, k + 1, l) = SubSeq(s, 1, l)
        BY <2>1, ConcatAdjacentSubSeq
    <2> QED
        BY <2>2, SubSeqFull DEF First, Rest
<1> QED
    BY <1>2, <1>3, <1>4

\* Two sequences joined, and cut where they were joined.
LEMMA Joined ==
    ASSUME NEW S, NEW s \in Seq(S), NEW r \in Seq(S), NEW k \in Nat, Len(s) = k
    PROVE  First(s \o r, k) = s /\ Rest(s \o r, k) = r
<1> DEFINE both == s \o r
           l == Len(r)
<1>1. l \in Nat /\ both \in Seq(S) /\ Len(both) = k + l
    BY LenProperties, ConcatProperties
<1>2. \A i \in 1..(k + l) : both[i] = IF i <= k THEN s[i] ELSE r[i - k]
    BY ConcatProperties
<1> HIDE DEF both, l
<1>3. k \in 0..Len(both) /\ Len(both) - k = l
    BY <1>1
<1>4. /\ First(both, k) \in Seq(S) /\ Len(First(both, k)) = k
      /\ \A i \in 1..k : First(both, k)[i] = both[i]
      /\ Rest(both, k) \in Seq(S) /\ Len(Rest(both, k)) = l
      /\ \A i \in 1..l : Rest(both, k)[i] = both[k + i]
    BY <1>1, <1>3, Cut
<1>5. \A i \in 1..k : First(both, k)[i] = s[i]
    BY <1>1, <1>2, <1>4
<1>6. \A i \in 1..l : Rest(both, k)[i] = r[i]
    <2> TAKE i \in 1..l
    <2>1. k + i \in 1..(k + l) /\ ~(k + i <= k) /\ (k + i) - k = i
        BY <1>1
    <2> QED
        BY <2>1, <1>2, <1>4
<1>7. First(both, k) = s
    BY <1>4, <1>5, SeqEqual
<1>8. Rest(both, k) = r
    BY <1>4, <1>6, SeqEqual DEF l
<1> QED
    BY <1>7, <1>8 DEF both

\* What is taken from the front of two sequences joined is taken from the first.
LEMMA TailJoined ==
    ASSUME NEW S, NEW s \in Seq(S), NEW r \in Seq(S), s # <<>>
    PROVE  Tail(s) \o r = Tail(s \o r) /\ s \o r # <<>>
<1> DEFINE both == s \o r
           l == Len(s)
           m == Len(r)
<1>1. l \in Nat /\ m \in Nat /\ l # 0
    BY LenProperties, EmptySeq
<1>2. /\ both \in Seq(S) /\ Len(both) = l + m
      /\ \A i \in 1..(l + m) : both[i] = IF i <= l THEN s[i] ELSE r[i - l]
    BY ConcatProperties
<1>3. both # <<>>
    BY <1>1, ConcatEqualIffEmpty
<1> DEFINE t == Tail(s)
<1>4. t \in Seq(S) /\ Len(t) = l - 1 /\ \A i \in 1..(l - 1) : t[i] = s[i + 1]
    BY HeadTailProperties
<1> HIDE DEF both, l, m, t
<1>5. /\ Tail(both) \in Seq(S) /\ Len(Tail(both)) = l + m - 1
      /\ \A i \in 1..(l + m - 1) : Tail(both)[i] = both[i + 1]
    <2> DEFINE v == Tail(both)
    <2>1. v \in Seq(S) /\ Len(v) = Len(both) - 1 /\ \A i \in 1..Len(v) : v[i] = both[i + 1]
        BY <1>2, <1>3, HeadTailProperties
    <2> HIDE DEF v
    <2>2. Len(v) = l + m - 1
        BY <1>1, <1>2, <2>1
    <2> QED
        BY <2>1, <2>2 DEF v
<1> DEFINE u == t \o r
<1>6. /\ u \in Seq(S) /\ Len(u) = Len(t) + m
      /\ \A i \in 1..(Len(t) + m) : u[i] = IF i <= Len(t) THEN t[i] ELSE r[i - Len(t)]
    BY <1>4, ConcatProperties DEF m
<1> HIDE DEF u
<1>7. Len(t) + m = l + m - 1
    BY <1>1, <1>4
<1>8. \A i \in 1..(l + m - 1) : u[i] = Tail(both)[i]
    <2> TAKE i \in 1..(l + m - 1)
    <2>1. i + 1 \in 1..(l + m) /\ i \in 1..(Len(t) + m)
        BY <1>1, <1>7
    <2>2. Tail(both)[i] = IF i + 1 <= l THEN s[i + 1] ELSE r[(i + 1) - l]
        BY <2>1, <1>2, <1>5
    <2>3. CASE i + 1 <= l
        <3>1. i <= Len(t) /\ i \in 1..(l - 1)
            BY <2>3, <1>1, <1>4
        <3> QED
            BY <2>1, <2>2, <2>3, <3>1, <1>4, <1>6
    <2>4. CASE ~(i + 1 <= l)
        <3>1. ~(i <= Len(t)) /\ i - Len(t) = (i + 1) - l
            BY <2>4, <1>1, <1>4
        <3> QED
            BY <2>1, <2>2, <2>4, <3>1, <1>6
    <2> QED
        BY <2>3, <2>4
<1>9. u = Tail(both)
    BY <1>5, <1>6, <1>7, <1>8, SeqEqual
<1> QED
    BY <1>3, <1>9 DEF u, t, both

\* What is added at the end of two sequences joined is added to the second.
LEMMA AppendJoined ==
    ASSUME NEW S, NEW s \in Seq(S), NEW r \in Seq(S), NEW x \in S
    PROVE  s \o Append(r, x) = Append(s \o r, x)
<1>1. Append(r, x) = r \o <<x>> /\ <<x>> \in Seq(S)
    BY AppendIsConcat
<1>2. s \o r \in Seq(S)
    BY ConcatProperties
<1>3. Append(s \o r, x) = (s \o r) \o <<x>>
    BY <1>2, AppendIsConcat
<1> QED
    BY <1>1, <1>3, ConcatAssociative, SMTT(30)

Ring(buf, in, out) ==
    /\ BUF_LEN \in Nat \ {0, 1}
    /\ buf \in [Places -> Alphabet]
    /\ in \in Places /\ out \in Places

\* The content is a sequence of the characters between the two ends.
LEMMA ContentType ==
    ASSUME NEW buf, NEW in, NEW out, Ring(buf, in, out)
    PROVE  /\ Content(buf, in, out) \in Seq(Alphabet)
           /\ Len(Content(buf, in, out)) = Used(in, out)
           /\ \A k \in 1..Used(in, out) : Content(buf, in, out)[k] = buf[Step(out, k - 1)]
           /\ Used(in, out) \in 0..(BUF_LEN - 1)
<1>1. Used(in, out) \in 0..(BUF_LEN - 1)
    BY Around DEF Ring, Places
<1>2. BUF_LEN \in Nat
    BY DEF Ring
<1>3. \A k \in 1..Used(in, out) : k - 1 \in 0..BUF_LEN
    BY <1>1, <1>2
<1>4. \A k \in 1..Used(in, out) : buf[Step(out, k - 1)] \in Alphabet
    BY <1>3, Around DEF Ring
<1>5. Content(buf, in, out) \in [1..Used(in, out) -> Alphabet]
    BY <1>4 DEF Content
<1>6. Used(in, out) \in Nat
    BY <1>1, <1>2
<1>7. \A f, d : d \in Nat /\ f \in [1..d -> Alphabet] => f \in Seq(Alphabet) /\ Len(f) = d
    <2> TAKE f, d
    <2> HAVE d \in Nat /\ f \in [1..d -> Alphabet]
    <2>1. f \in Seq(Alphabet)
        BY SeqDef
    <2>2. DOMAIN f = 1..d
        OBVIOUS
    <2> QED
        BY <2>1, <2>2, LenProperties
<1>8. \A k \in 1..Used(in, out) : Content(buf, in, out)[k] = buf[Step(out, k - 1)]
    BY DEF Content
<1> QED
    BY <1>1, <1>5, <1>6, <1>7, <1>8

\* What is taken out first leaves the rest.
LEMMA TakenOut ==
    ASSUME NEW buf, NEW in, NEW out, Ring(buf, in, out), NEW k \in 0..Used(in, out)
    PROVE  /\ Content(buf, in, Step(out, k)) = Rest(Content(buf, in, out), k)
           /\ Content(buf, Step(out, k), out) = First(Content(buf, in, out), k)
           /\ Content(buf, in, out) =
                First(Content(buf, in, out), k) \o Content(buf, in, Step(out, k))
           /\ First(Content(buf, in, out), k) \in Seq(Alphabet)
           /\ Len(First(Content(buf, in, out), k)) = k
<1> DEFINE u == Used(in, out)
           c == Content(buf, in, out)
           next == Step(out, k)
           rest == Content(buf, in, next)
           first == Content(buf, next, out)
<1>1. /\ u \in 0..(BUF_LEN - 1) /\ BUF_LEN \in Nat /\ u \in Nat /\ k \in Nat /\ k <= u
      /\ c \in Seq(Alphabet) /\ Len(c) = u
      /\ \A j \in 1..u : c[j] = buf[Step(out, j - 1)]
    BY ContentType DEF Ring
<1>2. next \in Places
    <2>1. k \in 0..BUF_LEN
        BY <1>1
    <2>2. BUF_LEN \in Nat \ {0, 1} /\ out \in Places
        BY DEF Ring
    <2> QED
        BY <2>1, <2>2, Around
<1>3. Ring(buf, in, next) /\ Ring(buf, next, out)
    BY <1>2 DEF Ring
<1>4. Used(in, next) = u - k /\ Used(next, out) = k
    BY <1>1, Moved DEF Ring
<1>5. /\ rest \in Seq(Alphabet) /\ Len(rest) = u - k
      /\ \A j \in 1..(u - k) : rest[j] = buf[Step(next, j - 1)]
    BY <1>3, <1>4, ContentType
<1>6. /\ first \in Seq(Alphabet) /\ Len(first) = k
      /\ \A j \in 1..k : first[j] = buf[Step(out, j - 1)]
    BY <1>3, <1>4, ContentType
<1>7. \A j \in 1..(u - k) : Step(next, j - 1) = Step(out, k + (j - 1))
    <2> TAKE j \in 1..(u - k)
    <2>1. j - 1 \in Nat /\ k + (j - 1) < BUF_LEN
        BY <1>1
    <2> QED
        BY <2>1, <1>1, Moved DEF Ring
<1> HIDE DEF u, c, next, rest, first
<1>8. \A j \in 1..(u - k) : rest[j] = c[k + j]
    <2> TAKE j \in 1..(u - k)
    <2>1. k + j \in 1..u /\ (k + j) - 1 = k + (j - 1)
        BY <1>1
    <2> QED
        BY <2>1, <1>1, <1>5, <1>7
<1>9. \A j \in 1..k : first[j] = c[j]
    BY <1>1, <1>6
<1>10. /\ First(c, k) \in Seq(Alphabet) /\ Len(First(c, k)) = k
       /\ \A j \in 1..k : First(c, k)[j] = c[j]
       /\ Rest(c, k) \in Seq(Alphabet) /\ Len(Rest(c, k)) = u - k
       /\ \A j \in 1..(u - k) : Rest(c, k)[j] = c[k + j]
       /\ c = First(c, k) \o Rest(c, k)
    <2>1. k \in 0..Len(c) /\ c \in Seq(Alphabet) /\ Len(c) = u
        BY <1>1
    <2>2. /\ First(c, k) \in Seq(Alphabet) /\ Len(First(c, k)) = k
          /\ \A j \in 1..k : First(c, k)[j] = c[j]
          /\ Rest(c, k) \in Seq(Alphabet) /\ Len(Rest(c, k)) = Len(c) - k
          /\ \A j \in 1..(Len(c) - k) : Rest(c, k)[j] = c[k + j]
          /\ c = First(c, k) \o Rest(c, k)
        BY <2>1, Cut
    <2> QED
        BY <2>1, <2>2
<1>11. rest = Rest(c, k)
    BY <1>5, <1>8, <1>10, SeqEqual
<1>12. first = First(c, k)
    BY <1>6, <1>9, <1>10, SeqEqual
<1> QED
    BY <1>10, <1>11, <1>12 DEF u, c, next, rest, first

\* What is put in comes after what was there, if it fits and leaves a place free.
LEMMA PutIn ==
    ASSUME NEW buf, NEW in, NEW out, Ring(buf, in, out), NEW s \in Seq(Alphabet),
           Used(in, out) + Len(s) < BUF_LEN
    PROVE  /\ Ring(Fill(buf, in, s), Step(in, Len(s)), out)
           /\ Content(Fill(buf, in, s), Step(in, Len(s)), out) = Content(buf, in, out) \o s
           /\ Used(Step(in, Len(s)), out) = Used(in, out) + Len(s)
<1> DEFINE u == Used(in, out)
           l == Len(s)
           N == BUF_LEN
           c == Content(buf, in, out)
           new == Fill(buf, in, s)
           next == Step(in, l)
           more == Content(new, next, out)
           both == c \o s
<1>1. N \in Nat \ {0, 1} /\ u \in 0..(N - 1) /\ l \in Nat /\ u + l < N
    <2>1. l \in Nat
        BY LenProperties
    <2> QED
        BY <2>1, ContentType DEF Ring
<1>2. /\ c \in Seq(Alphabet) /\ Len(c) = u
      /\ \A j \in 1..u : c[j] = buf[Step(out, j - 1)]
    BY ContentType
<1>3. in \in Places /\ out \in Places /\ buf \in [Places -> Alphabet]
    BY DEF Ring
<1>4. \A k \in 1..l : s[k] \in Alphabet
    BY ElementOfSeq
<1>5. \A k \in 1..l : Used(Step(in, k - 1), in) + 1 = k
    <2> TAKE k \in 1..l
    <2>1. k - 1 \in Places
        BY <1>1 DEF Places
    <2>2. Used(Step(in, k - 1), in) = k - 1
        BY <2>1, <1>1, <1>3, Around
    <2> QED
        BY <2>2
<1>6. /\ new \in [Places -> Alphabet]
      /\ \A k \in 1..l : new[Step(in, k - 1)] = s[k]
      /\ \A i \in Places : (\A k \in 1..l : i # Step(in, k - 1)) => new[i] = buf[i]
    <2>1. new = [i \in Places |-> IF \E k \in 1..l : i = Step(in, k - 1)
                                  THEN s[Used(i, in) + 1] ELSE buf[i]]
        BY DEF Fill, Places
    <2> HIDE DEF new
    <2>2. \A k \in 1..l : Step(in, k - 1) \in Places
        <3> TAKE k \in 1..l
        <3>1. k - 1 \in 0..N
            BY <1>1
        <3> QED
            BY <3>1, <1>1, <1>3, Around
    <2>3. \A k \in 1..l : new[Step(in, k - 1)] = s[k]
        <3> TAKE k \in 1..l
        <3>1. Step(in, k - 1) \in Places /\ Used(Step(in, k - 1), in) + 1 = k
            BY <1>5, <2>2
        <3> QED
            BY <2>1, <3>1
    <2>4. \A i \in Places : (\A k \in 1..l : i # Step(in, k - 1)) => new[i] = buf[i]
        BY <2>1
    <2>5. \A i \in Places : new[i] \in Alphabet
        <3> TAKE i \in Places
        <3>1. CASE \E k \in 1..l : i = Step(in, k - 1)
            BY <3>1, <2>3, <1>4
        <3>2. CASE \A k \in 1..l : i # Step(in, k - 1)
            BY <3>2, <2>4, <1>3
        <3> QED
            BY <3>1, <3>2
    <2> QED
        BY <2>1, <2>3, <2>4, <2>5
<1>7. next \in Places
    <2>1. l \in 0..N
        BY <1>1
    <2> QED
        BY <2>1, <1>1, <1>3, Around
<1>8. Ring(new, next, out)
    BY <1>1, <1>3, <1>6, <1>7 DEF Ring
<1>9. Used(next, out) = u + l
    BY <1>1, <1>3, Moved
<1>10. /\ more \in Seq(Alphabet) /\ Len(more) = u + l
       /\ \A j \in 1..(u + l) : more[j] = new[Step(out, j - 1)]
    BY <1>8, <1>9, ContentType
<1>11. /\ both \in Seq(Alphabet) /\ Len(both) = u + l
       /\ \A j \in 1..(u + l) : both[j] = IF j <= u THEN c[j] ELSE s[j - u]
    <2>1. /\ both \in Seq(Alphabet) /\ Len(both) = Len(c) + Len(s)
          /\ \A j \in 1..(Len(c) + Len(s)) : both[j] = IF j <= Len(c) THEN c[j] ELSE s[j - Len(c)]
        BY <1>2, ConcatProperties
    <2>2. Len(c) + Len(s) = u + l
        BY <1>2
    <2> QED
        BY <2>1, <2>2, <1>2
<1>12. \A j, k : j \in 1..u /\ k \in 1..l => Step(out, j - 1) # Step(in, k - 1)
    <2> TAKE j, k
    <2> HAVE j \in 1..u /\ k \in 1..l
    <2>1. Step(in, k - 1) = Step(out, u + (k - 1))
        <3>1. k - 1 \in Nat /\ u + (k - 1) < N
            BY <1>1
        <3> QED
            BY <3>1, <1>1, <1>3, Moved
    <2>2. Used(Step(out, u + (k - 1)), out) = u + (k - 1)
        <3>1. u + (k - 1) \in Places
            BY <1>1 DEF Places
        <3> QED
            BY <3>1, <1>1, <1>3, Around
    <2>3. Used(Step(out, j - 1), out) = j - 1
        <3>1. j - 1 \in Places
            BY <1>1 DEF Places
        <3> QED
            BY <3>1, <1>1, <1>3, Around
    <2>4. j - 1 # u + (k - 1)
        BY <1>1
    <2> QED
        BY <2>1, <2>2, <2>3, <2>4
<1>13. \A j \in 1..(u + l) : more[j] = both[j]
    <2> TAKE j \in 1..(u + l)
    <2>1. CASE j <= u
        <3>1. j \in 1..u
            BY <2>1, <1>1
        <3>2. Step(out, j - 1) \in Places
            <4>1. j - 1 \in 0..N
                BY <1>1
            <4> QED
                BY <4>1, <1>1, <1>3, Around
        <3>3. new[Step(out, j - 1)] = buf[Step(out, j - 1)]
            BY <3>1, <3>2, <1>6, <1>12
        <3>4. more[j] = new[Step(out, j - 1)] /\ both[j] = c[j]
            BY <2>1, <1>10, <1>11
        <3> QED
            BY <3>1, <3>3, <3>4, <1>2
    <2>2. CASE ~(j <= u)
        <3>1. j - u \in 1..l /\ (j - u) - 1 \in Nat /\ u + ((j - u) - 1) < N
              /\ u + ((j - u) - 1) = j - 1
            BY <2>2, <1>1
        <3>2. Step(in, (j - u) - 1) = Step(out, j - 1)
            BY <3>1, <1>1, <1>3, Moved
        <3>3. new[Step(in, (j - u) - 1)] = s[j - u]
            BY <3>1, <1>6
        <3>4. more[j] = new[Step(out, j - 1)] /\ both[j] = s[j - u]
            BY <2>2, <1>10, <1>11
        <3> QED
            BY <3>2, <3>3, <3>4
    <2> QED
        BY <2>1, <2>2
<1>14. more = both
    BY <1>10, <1>11, <1>13, SeqEqual
<1> QED
    BY <1>8, <1>9, <1>14
-----------------------------------------------------------------------------
(* The terminal *)

CallTyped ==
    /\ pc \in {"idle", "look", "put", "kick", "wait", "judge", "take", "await", "listen"}
    /\ todo \in Seq(Alphabet) /\ Len(todo) <= Request
    /\ buffer \in Seq(Alphabet)
    /\ {written, n, space} \subseteq Nat /\ seen \in Places

CoreTyped ==
    /\ wfifo \in Seq(Alphabet) /\ Len(wfifo) <= FIFO_LEN
    /\ rfifo \in Seq(Alphabet) /\ Len(rfifo) <= FIFO_LEN
    /\ irq_enable \subseteq {"RE", "WE"} /\ {pause_irq, ac, host} \subseteq BOOLEAN
    /\ isr \in {"off", "loop", "serve"}
    /\ control \in [ri : BOOLEAN, wi : BOOLEAN, wspace : 0..FIFO_LEN]

\* What a write has yet to write belongs to the write, and what it is about to
\* put into the ring fits there: the interrupt routine only takes out of it.
Copying ==
    /\ pc \in {"idle", "take", "await", "listen"} => todo = <<>>
    /\ pc = "put" => n \in 1..Len(todo) /\ Used(tx_in, tx_out) + n < BUF_LEN

\* The space the interrupt routine has read is still there when it fills it: the
\* host only takes out of the FIFO.
SpaceKept == isr = "serve" => control.wspace <= FIFO_LEN - Len(wfifo)

UartInv ==
    /\ setting \in Settings
    /\ CallTyped /\ CoreTyped
    /\ Ring(tx_buf, tx_in, tx_out) /\ Ring(rx_buf, rx_in, rx_out)
    /\ Copying /\ SpaceKept /\ WriteKicked

\* What the assumption says of the setting of a run.
LEMMA Sizes ==
    ASSUME setting \in Settings
    PROVE  /\ BUF_LEN \in Nat \ {0, 1} /\ FIFO_LEN \in Nat \ {0} /\ THRESHOLD \in Nat
           /\ Request \in 1..MaxRequest /\ MaxRequest \in Nat
           /\ Alphabet # {} /\ Alphabet \subseteq Chars
           /\ 0 \in Places
BY JtagUartAssumption DEF BUF_LEN, FIFO_LEN, THRESHOLD, Request, Alphabet, Places

LEMMA UartBegins == UartInit => UartInv
<1> SUFFICES ASSUME UartInit PROVE UartInv
    OBVIOUS
<1>1. setting \in Settings
    BY DEF UartInit
<1>2. Blank \in Alphabet
    BY <1>1, Sizes DEF Blank
<1>3. CallTyped
    BY <1>1, Sizes DEF UartInit, CallTyped
<1>4. CoreTyped
    <2>1. control \in [ri : BOOLEAN, wi : BOOLEAN, wspace : 0..FIFO_LEN]
        BY <1>1, Sizes DEF UartInit, NoControl
    <2>2. {pause_irq, ac, host} \subseteq BOOLEAN /\ FIFO_LEN \in Nat
        BY <1>1, Sizes DEF UartInit
    <2> QED
        BY <2>1, <2>2 DEF UartInit, CoreTyped
<1>5. Ring(tx_buf, tx_in, tx_out) /\ Ring(rx_buf, rx_in, rx_out)
    BY <1>1, <1>2, Sizes DEF UartInit, Ring, Places
<1>6. Copying /\ SpaceKept /\ WriteKicked
    BY DEF UartInit, Copying, SpaceKept, WriteKicked
<1> QED
    BY <1>1, <1>3, <1>4, <1>5, <1>6 DEF UartInv

\* The sizes stay, so an operator on the rings after a step is the operator on
\* what the rings have become.
LEMMA Fixed ==
    ASSUME setting' = setting
    PROVE  /\ BUF_LEN' = BUF_LEN /\ FIFO_LEN' = FIFO_LEN /\ Alphabet' = Alphabet
           /\ Request' = Request /\ Places' = Places
           /\ Ring(tx_buf, tx_in, tx_out)' = Ring(tx_buf', tx_in', tx_out')
           /\ Ring(rx_buf, rx_in, rx_out)' = Ring(rx_buf', rx_in', rx_out')
           /\ Used(tx_in, tx_out)' = Used(tx_in', tx_out')
           /\ Content(tx_buf, tx_in, tx_out)' = Content(tx_buf', tx_in', tx_out')
           /\ Content(rx_buf, rx_in, rx_out)' = Content(rx_buf', rx_in', rx_out')
BY DEF BUF_LEN, FIFO_LEN, Alphabet, Request, Places, Ring, Used, Step, Content

\* What a step leaves alone.
LEMMA Untouched ==
    ASSUME UartInv, setting' = setting
    PROVE  /\ setting' \in Settings
           /\ UNCHANGED call => CallTyped'
           /\ UNCHANGED <<irq_enable, isr, control, core>> => CoreTyped'
           /\ UNCHANGED <<isr, control, wfifo>> => SpaceKept'
           /\ UNCHANGED tx => Ring(tx_buf, tx_in, tx_out)'
           /\ UNCHANGED rx => Ring(rx_buf, rx_in, rx_out)'
           /\ UNCHANGED <<call, tx>> => Copying'
           /\ UNCHANGED <<pc, irq_enable, tx>> => WriteKicked'
<1>1. setting' \in Settings
    BY DEF UartInv
<1>2. UNCHANGED call => CallTyped'
    BY Fixed DEF UartInv, CallTyped, call
<1>3. UNCHANGED <<irq_enable, isr, control, core>> => CoreTyped'
    BY Fixed DEF UartInv, CoreTyped, core
<1>4. UNCHANGED <<isr, control, wfifo>> => SpaceKept'
    BY Fixed DEF UartInv, SpaceKept
<1>5. UNCHANGED tx => Ring(tx_buf, tx_in, tx_out)'
    BY Fixed DEF UartInv, tx
<1>6. UNCHANGED rx => Ring(rx_buf, rx_in, rx_out)'
    BY Fixed DEF UartInv, rx
<1>7. UNCHANGED <<call, tx>> => Copying'
    BY Fixed DEF UartInv, Copying, call, tx
<1>8. UNCHANGED <<pc, irq_enable, tx>> => WriteKicked'
    BY DEF UartInv, WriteKicked, tx
<1> QED
    BY <1>1, <1>2, <1>3, <1>4, <1>5, <1>6, <1>7, <1>8

\* The length of the room found in the ring.
LEMMA RoomFits ==
    ASSUME BUF_LEN \in Nat \ {0, 1}, NEW in \in Places, NEW out \in Places
    PROVE  Room(in, out) \in Nat /\ Used(in, out) + Room(in, out) < BUF_LEN
BY DEF Room, Used, Places

-----------------------------------------------------------------------------
\* A call of write and its copying loop.
LEMMA WriteStep ==
    ASSUME UartInv, setting' = setting,
           (\E s \in Texts : Write(s)) \/ Look \/ Put \/ Kick \/ Wait \/ Judge
    PROVE  UartInv'
<1>1. /\ BUF_LEN \in Nat \ {0, 1} /\ Places = 0..(BUF_LEN - 1) /\ 0 \in Places
      /\ tx_in \in Places /\ tx_out \in Places
      /\ Alphabet' = Alphabet /\ Request' = Request /\ Places' = Places
      /\ FIFO_LEN' = FIFO_LEN /\ BUF_LEN' = BUF_LEN
      /\ Request \in Nat
    BY Sizes, Fixed DEF UartInv, Ring, Places
<1>2. Len(todo) \in Nat
    BY LenProperties DEF UartInv, CallTyped
<1>3. ASSUME NEW s \in Texts, Write(s) PROVE UartInv'
    <2>1. s \in Seq(Alphabet) /\ Len(s) <= Request
        <3>1. PICK k \in 1..Request : s \in [1..k -> Alphabet]
            BY DEF Texts
        <3>2. k \in Nat /\ DOMAIN s = 1..k
            BY <1>1, <3>1
        <3>3. s \in Seq(Alphabet)
            BY <3>1, <3>2, SeqDef
        <3> QED
            BY <1>1, <3>2, <3>3, LenProperties
    <2>2. CallTyped'
        BY <1>1, <1>3, <2>1 DEF Write, UartInv, CallTyped
    <2>3. Copying' /\ WriteKicked'
        BY <1>3 DEF Write, Copying, WriteKicked
    <2> QED
        BY <1>3, <2>2, <2>3, Untouched DEF Write, UartInv, core
<1>4. CASE Look
    <2> DEFINE m == MinOf(Room(tx_in, tx_out), Len(todo))
    <2>1. m \in Nat /\ m <= Len(todo) /\ Used(tx_in, tx_out) + m < BUF_LEN
        <3>1. Room(tx_in, tx_out) \in Nat /\ Used(tx_in, tx_out) + Room(tx_in, tx_out) < BUF_LEN
              /\ Used(tx_in, tx_out) \in Nat
            <4>1. Room(tx_in, tx_out) \in Nat /\ Used(tx_in, tx_out) + Room(tx_in, tx_out) < BUF_LEN
                BY <1>1, RoomFits
            <4>2. Used(tx_in, tx_out) \in 0..(BUF_LEN - 1)
                BY <1>1, Around
            <4> QED
                BY <4>1, <4>2, <1>1
        <3> QED
            BY <1>1, <1>2, <3>1 DEF MinOf
    <2> HIDE DEF m
    <2>2. /\ n' \in Nat /\ seen' \in Places
          /\ pc' \in {"kick", "put"}
          /\ pc' = "put" => n' \in 1..Len(todo) /\ Used(tx_in, tx_out) + n' < BUF_LEN
        <3>1. CASE todo = <<>>
            BY <1>4, <3>1 DEF Look, UartInv, CallTyped
        <3>2. CASE todo # <<>>
            BY <1>1, <1>2, <1>4, <2>1, <3>2 DEF Look, m
        <3> QED
            BY <3>1, <3>2
    <2>3. CallTyped'
        BY <1>1, <1>4, <2>2 DEF Look, UartInv, CallTyped
    <2>4. Copying'
        BY <1>1, <1>4, <2>2, Fixed DEF Look, Copying, tx
    <2>5. WriteKicked'
        BY <2>2 DEF WriteKicked
    <2> QED
        BY <1>4, <2>3, <2>4, <2>5, Untouched DEF Look, UartInv, core
<1>5. CASE Put
    <2>1. n \in 0..Len(todo) /\ Used(tx_in, tx_out) + n < BUF_LEN
        BY <1>5, <1>2 DEF Put, UartInv, Copying
    <2>2. /\ First(todo, n) \in Seq(Alphabet) /\ Len(First(todo, n)) = n
          /\ Rest(todo, n) \in Seq(Alphabet) /\ Len(Rest(todo, n)) = Len(todo) - n
        BY <2>1, Cut DEF UartInv, CallTyped
    <2>3. Ring(tx_buf', tx_in', tx_out')
        BY <1>5, <2>1, <2>2, PutIn DEF Put, UartInv
    <2>4. Ring(tx_buf, tx_in, tx_out)'
        BY <2>3, Fixed
    <2>5. CallTyped'
        <3>1. Len(todo') <= Request
            BY <1>1, <1>2, <1>5, <2>1, <2>2 DEF Put, UartInv, CallTyped
        <3>2. written' \in Nat
            BY <1>2, <1>5, <2>1 DEF Put, UartInv, CallTyped
        <3> QED
            BY <1>1, <1>5, <2>2, <3>1, <3>2 DEF Put, UartInv, CallTyped
    <2>6. Copying' /\ WriteKicked'
        BY <1>5 DEF Put, Copying, WriteKicked
    <2> QED
        BY <1>5, <2>4, <2>5, <2>6, Untouched DEF Put, UartInv, core
<1>6. CASE Kick
    <2>1. CallTyped'
        BY <1>1, <1>6 DEF Kick, UartInv, CallTyped
    <2>2. CoreTyped'
        BY <1>1, <1>6 DEF Kick, UartInv, CoreTyped, core
    <2>3. Copying' /\ WriteKicked'
        BY <1>6 DEF Kick, Copying, WriteKicked
    <2> QED
        BY <1>6, <2>1, <2>2, <2>3, Untouched DEF Kick, UartInv, core
<1>7. CASE Wait
    <2>1. CallTyped'
        BY <1>1, <1>7 DEF Wait, UartInv, CallTyped
    <2>2. Copying' /\ WriteKicked'
        BY <1>7 DEF Wait, UartInv, Copying, WriteKicked, tx
    <2> QED
        BY <1>7, <2>1, <2>2, Untouched DEF Wait, UartInv, core
<1>8. CASE Judge
    <2>1. CallTyped'
        <3>1. <<>> \in Seq(Alphabet) /\ Len(<<>>) = 0
            OBVIOUS
        <3>2. todo' \in {todo, <<>>} /\ pc' \in {"idle", "look"}
            BY <1>8 DEF Judge
        <3>3. todo' \in Seq(Alphabet) /\ Len(todo') <= Request
            <4>1. CASE todo' = todo
                BY <1>1, <4>1 DEF UartInv, CallTyped
            <4>2. CASE todo' = <<>>
                BY <1>1, <3>1, <4>2
            <4> QED
                BY <3>2, <4>1, <4>2
        <3> QED
            BY <1>1, <1>8, <3>2, <3>3 DEF Judge, UartInv, CallTyped
    <2>2. Copying' /\ WriteKicked'
        BY <1>8 DEF Judge, UartInv, Copying, WriteKicked, tx
    <2> QED
        BY <1>8, <2>1, <2>2, Untouched DEF Judge, UartInv, core
<1> QED
    BY <1>3, <1>4, <1>5, <1>6, <1>7, <1>8

\* A call of read and its copying loop.
LEMMA ReadStep ==
    ASSUME UartInv, setting' = setting,
           (\E k \in 1..Request : Read(k)) \/ Take \/ Satisfied \/ Await \/ Listen
    PROVE  UartInv'
<1>1. /\ BUF_LEN \in Nat \ {0, 1} /\ Places = 0..(BUF_LEN - 1) /\ 0 \in Places
      /\ rx_in \in Places /\ rx_out \in Places
      /\ Alphabet' = Alphabet /\ Request' = Request /\ Places' = Places
      /\ FIFO_LEN' = FIFO_LEN /\ BUF_LEN' = BUF_LEN
      /\ Request \in Nat
    BY Sizes, Fixed DEF UartInv, Ring, Places
<1>2. ASSUME NEW k \in 1..Request, Read(k) PROVE UartInv'
    <2>1. CallTyped'
        BY <1>1, <1>2 DEF Read, UartInv, CallTyped
    <2>2. Copying' /\ WriteKicked'
        BY <1>2 DEF Read, UartInv, Copying, WriteKicked, tx
    <2> QED
        BY <1>2, <2>1, <2>2, Untouched DEF Read, UartInv, core
<1>3. CASE Take
    <2> DEFINE all == IF rx_in >= rx_out THEN rx_in - rx_out ELSE BUF_LEN - rx_out
               k == MinOf(all, space)
    <2>1. k \in 0..Used(rx_in, rx_out) /\ k <= space /\ space \in Nat
        <3>1. all \in Nat /\ all <= Used(rx_in, rx_out) /\ Used(rx_in, rx_out) \in Nat
            BY <1>1, Around DEF Used
        <3>2. space \in Nat
            BY DEF UartInv, CallTyped
        <3> HIDE DEF all
        <3> QED
            BY <3>1, <3>2 DEF MinOf
    <2>2. /\ rx_out' = Step(rx_out, k) /\ space' = space - k /\ seen' = rx_in
          /\ buffer' = buffer \o First(Content(rx_buf, Step(rx_out, k), rx_out), k)
          /\ pc' \in {"take", "listen", "await"} /\ pc = "take"
          /\ UNCHANGED <<todo, written, n, result, tx, rx_buf, rx_in, irq_enable, host_inactive,
                         isr, control, core>>
        BY <1>3 DEF Take
    <2> HIDE DEF k
    <2>3. Ring(rx_buf', rx_in', rx_out')
        <3>1. k \in 0..BUF_LEN
            <4>1. Used(rx_in, rx_out) \in 0..(BUF_LEN - 1)
                BY <1>1, Around
            <4> QED
                BY <1>1, <2>1, <4>1
        <3>2. rx_out' \in Places
            BY <1>1, <2>2, <3>1, Around
        <3> QED
            BY <2>2, <3>2 DEF UartInv, Ring
    <2>4. Ring(rx_buf, rx_in, rx_out)'
        BY <2>3, Fixed
    <2>5. buffer' \in Seq(Alphabet)
        <3> DEFINE c == Content(rx_buf, Step(rx_out, k), rx_out)
        <3>1. c \in Seq(Alphabet) /\ Len(c) = k
            BY <2>1, TakenOut DEF UartInv
        <3> HIDE DEF c
        <3>2. First(c, k) \in Seq(Alphabet)
            <4>1. k \in 0..Len(c)
                BY <2>1, <3>1, Around, <1>1
            <4> QED
                BY <3>1, <4>1, Cut
        <3>3. buffer \in Seq(Alphabet)
            BY DEF UartInv, CallTyped
        <3>4. buffer' = buffer \o First(c, k)
            BY <2>2 DEF c
        <3> QED
            BY <3>2, <3>3, <3>4, ConcatProperties
    <2>6. CallTyped'
        <3>1. space' \in Nat
            <4>1. Used(rx_in, rx_out) \in Nat
                BY <1>1, Around
            <4> QED
                BY <2>1, <2>2, <4>1
        <3> QED
            BY <1>1, <2>2, <2>5, <3>1 DEF UartInv, CallTyped
    <2>7. Copying' /\ WriteKicked'
        BY <2>2 DEF UartInv, Copying, WriteKicked, tx
    <2> QED
        BY <2>2, <2>4, <2>6, <2>7, Untouched DEF UartInv, core
<1>4. CASE Satisfied
    <2>1. CallTyped'
        BY <1>1, <1>4 DEF Satisfied, UartInv, CallTyped
    <2>2. Copying' /\ WriteKicked'
        BY <1>4 DEF Satisfied, UartInv, Copying, WriteKicked, tx
    <2> QED
        BY <1>4, <2>1, <2>2, Untouched DEF Satisfied, UartInv, core
<1>5. CASE Await
    <2>1. CallTyped'
        BY <1>1, <1>5 DEF Await, UartInv, CallTyped
    <2>2. Copying' /\ WriteKicked'
        BY <1>5 DEF Await, UartInv, Copying, WriteKicked, tx
    <2> QED
        BY <1>5, <2>1, <2>2, Untouched DEF Await, UartInv, core
<1>6. CASE Listen
    <2>1. CallTyped'
        BY <1>1, <1>6 DEF Listen, UartInv, CallTyped
    <2>2. CoreTyped'
        BY <1>1, <1>6 DEF Listen, UartInv, CoreTyped, core
    <2>3. Copying' /\ WriteKicked'
        BY <1>6 DEF Listen, UartInv, Copying, WriteKicked, tx
    <2> QED
        BY <1>6, <2>1, <2>2, <2>3, Untouched DEF Listen, UartInv, core
<1> QED
    BY <1>2, <1>3, <1>4, <1>5, <1>6
\* One service moves characters on without losing any: the ring that is read
\* into has room for what is taken, and the FIFO for what is sent.
LEMMA Served ==
    ASSUME UartInv, setting' = setting, Serve
    PROVE  /\ Ring(tx_buf', tx_in', tx_out') /\ Ring(rx_buf', rx_in', rx_out')
           /\ wfifo' \in Seq(Alphabet) /\ Len(wfifo') <= FIFO_LEN
           /\ rfifo' \in Seq(Alphabet) /\ Len(rfifo') <= FIFO_LEN
           /\ wfifo' \o Content(tx_buf', tx_in', tx_out') = wfifo \o Content(tx_buf, tx_in, tx_out)
           /\ Content(rx_buf', rx_in', rx_out') \o rfifo' = Content(rx_buf, rx_in, rx_out) \o rfifo
           /\ Used(tx_in', tx_out') \in Nat /\ Used(tx_in', tx_out') <= Used(tx_in, tx_out)
           /\ RingEmpty => tx_in' = tx_out'
<1> DEFINE t == Taken
           x == Sent
           down == Content(tx_buf, tx_in, tx_out)
           up == Content(rx_buf, rx_in, rx_out)
           uDown == Used(tx_in, tx_out)
           uUp == Used(rx_in, rx_out)
           new == First(rfifo, t)
           out == First(down, x)
<1>1. /\ BUF_LEN \in Nat \ {0, 1} /\ FIFO_LEN \in Nat \ {0}
      /\ wfifo \in Seq(Alphabet) /\ Len(wfifo) <= FIFO_LEN
      /\ rfifo \in Seq(Alphabet) /\ Len(rfifo) <= FIFO_LEN
      /\ Len(wfifo) \in Nat /\ Len(rfifo) \in Nat
      /\ control.wspace \in Nat /\ control.wspace <= FIFO_LEN - Len(wfifo)
      /\ Ring(tx_buf, tx_in, tx_out) /\ Ring(rx_buf, rx_in, rx_out)
    <2>1. wfifo \in Seq(Alphabet) /\ rfifo \in Seq(Alphabet)
        BY DEF UartInv, CoreTyped
    <2>2. Len(wfifo) \in Nat /\ Len(rfifo) \in Nat
        BY <2>1, LenProperties
    <2>3. control.wspace \in 0..FIFO_LEN
        BY DEF UartInv, CoreTyped
    <2> QED
        BY <2>1, <2>2, <2>3, Sizes DEF UartInv, CoreTyped, SpaceKept, Serve
<1>2. /\ down \in Seq(Alphabet) /\ Len(down) = uDown /\ uDown \in 0..(BUF_LEN - 1)
      /\ up \in Seq(Alphabet) /\ Len(up) = uUp /\ uUp \in 0..(BUF_LEN - 1)
      /\ tx_in \in Places /\ tx_out \in Places
    BY <1>1, ContentType DEF Ring
<1>3. t \in 0..Len(rfifo) /\ uUp + t < BUF_LEN
    <2>1. Free = BUF_LEN - 1 - uUp
        BY DEF Free
    <2> HIDE DEF uUp
    <2> QED
        BY <2>1, <1>1, <1>2 DEF Taken, MinOf
<1>4. x \in 0..uDown /\ x <= FIFO_LEN - Len(wfifo) /\ (control.wi /\ x < control.wspace => x = uDown)
    <2>1. x = IF control.wi THEN MinOf(control.wspace, uDown) ELSE 0
        BY DEF Sent
    <2> HIDE DEF uDown, x
    <2> QED
        BY <2>1, <1>1, <1>2 DEF MinOf
<1>5. /\ rx_buf' = Fill(rx_buf, rx_in, new) /\ rx_in' = Step(rx_in, t) /\ rx_out' = rx_out
      /\ rfifo' = Rest(rfifo, t)
      /\ wfifo' = Kept(wfifo \o out) /\ tx_out' = Step(tx_out, x)
      /\ tx_buf' = tx_buf /\ tx_in' = tx_in
    BY DEF Serve
<1>6. RingEmpty => control.wi /\ x < control.wspace
    BY DEF RingEmpty
<1>7. /\ new \in Seq(Alphabet) /\ Len(new) = t
      /\ rfifo' \in Seq(Alphabet) /\ Len(rfifo') = Len(rfifo) - t
      /\ rfifo = new \o rfifo'
    <2>1. t \in 0..Len(rfifo) /\ rfifo \in Seq(Alphabet)
        BY <1>1, <1>3
    <2> HIDE DEF t
    <2>2. /\ First(rfifo, t) \in Seq(Alphabet) /\ Len(First(rfifo, t)) = t
          /\ Rest(rfifo, t) \in Seq(Alphabet) /\ Len(Rest(rfifo, t)) = Len(rfifo) - t
          /\ rfifo = First(rfifo, t) \o Rest(rfifo, t)
        BY <2>1, Cut
    <2>3. rfifo' = Rest(rfifo, t)
        BY <1>5
    <2> QED
        BY <2>2, <2>3
<1>8. /\ out \in Seq(Alphabet) /\ Len(out) = x
      /\ down = out \o Content(tx_buf, tx_in, Step(tx_out, x))
    BY <1>1, <1>4, TakenOut
<1> HIDE DEF t, x, down, up, uDown, uUp, new, out
<1>9. /\ Ring(rx_buf', rx_in', rx_out')
      /\ Content(rx_buf', rx_in', rx_out') = up \o new
    <2>1. Used(rx_in, rx_out) + Len(new) < BUF_LEN
        BY <1>3, <1>7 DEF uUp
    <2>2. Ring(rx_buf, rx_in, rx_out) /\ new \in Seq(Alphabet)
        BY <1>1, <1>7
    <2>3. /\ Ring(Fill(rx_buf, rx_in, new), Step(rx_in, Len(new)), rx_out)
          /\ Content(Fill(rx_buf, rx_in, new), Step(rx_in, Len(new)), rx_out)
               = Content(rx_buf, rx_in, rx_out) \o new
        BY <2>1, <2>2, PutIn
    <2>4. /\ rx_buf' = Fill(rx_buf, rx_in, new) /\ rx_in' = Step(rx_in, Len(new))
          /\ rx_out' = rx_out
        BY <1>5, <1>7
    <2> QED
        BY <2>3, <2>4 DEF up
<1>10. Step(tx_out, x) \in Places
    <2>1. x \in 0..BUF_LEN
        BY <1>1, <1>2, <1>4
    <2> QED
        BY <2>1, <1>1, <1>2, Around
<1>11. Ring(tx_buf', tx_in', tx_out')
    BY <1>1, <1>5, <1>10 DEF Ring
<1>12. Used(tx_in', tx_out') = uDown - x
    <2>1. x \in Nat /\ x <= uDown
        BY <1>2, <1>4
    <2> QED
        BY <2>1, <1>1, <1>2, <1>5, Moved DEF uDown
<1>13. wfifo' = wfifo \o out
    <2> DEFINE s == wfifo \o out
    <2>1. s \in Seq(Alphabet) /\ Len(s) = Len(wfifo) + Len(out)
        BY <1>1, <1>8, ConcatProperties
    <2>2. Len(s) \in Nat /\ Len(s) <= FIFO_LEN
        BY <2>1, <1>1, <1>2, <1>4, <1>8
    <2> HIDE DEF s
    <2>3. Kept(s) = s
        <3>1. MinOf(Len(s), FIFO_LEN) = Len(s)
            BY <2>2, <1>1 DEF MinOf
        <3> QED
            BY <2>1, <3>1, SubSeqFull DEF Kept, First
    <2> QED
        BY <2>3, <1>5 DEF s
<1>14. wfifo' \in Seq(Alphabet) /\ Len(wfifo') <= FIFO_LEN
    <2>1. wfifo' \in Seq(Alphabet) /\ Len(wfifo') = Len(wfifo) + Len(out)
        BY <1>1, <1>8, <1>13, ConcatProperties
    <2> QED
        BY <2>1, <1>1, <1>2, <1>4, <1>8
<1>15. Len(rfifo') <= FIFO_LEN
    BY <1>1, <1>3, <1>7
<1>16. wfifo' \o Content(tx_buf', tx_in', tx_out') = wfifo \o down
    <2> DEFINE rest == Content(tx_buf', tx_in', tx_out')
    <2>1. rest \in Seq(Alphabet)
        BY <1>11, ContentType
    <2>2. down = out \o rest
        BY <1>5, <1>8
    <2> HIDE DEF rest
    <2>3. (wfifo \o out) \o rest = wfifo \o (out \o rest)
        <3>1. wfifo \in Seq(Alphabet) /\ out \in Seq(Alphabet)
            BY <1>1, <1>8
        <3> QED
            BY <2>1, <3>1, ConcatAssociative, SMTT(30)
    <2> QED
        BY <2>2, <2>3, <1>13 DEF rest
<1>17. Content(rx_buf', rx_in', rx_out') \o rfifo' = up \o rfifo
    <2>1. (up \o new) \o rfifo' = up \o (new \o rfifo')
        <3>1. up \in Seq(Alphabet) /\ new \in Seq(Alphabet) /\ rfifo' \in Seq(Alphabet)
            BY <1>2, <1>7
        <3> DEFINE q == rfifo'
        <3> HIDE DEF q
        <3>2. (up \o new) \o q = up \o (new \o q)
            <4>1. q \in Seq(Alphabet)
                BY <3>1 DEF q
            <4> QED
                BY <3>1, <4>1, ConcatAssociative, SMTT(30)
        <3> QED
            BY <3>2 DEF q
    <2> QED
        BY <2>1, <1>7, <1>9
<1>18. RingEmpty => tx_in' = tx_out'
    <2>1. RingEmpty => x = uDown
        BY <1>4, <1>6
    <2>2. Step(tx_out, uDown) = tx_in
        BY <1>1, <1>2, Around DEF uDown
    <2> QED
        BY <2>1, <2>2, <1>5
<1>19. Used(tx_in', tx_out') \in Nat /\ Used(tx_in', tx_out') <= uDown
    BY <1>2, <1>4, <1>12
<1> QED
    BY <1>7, <1>9, <1>11, <1>14, <1>15, <1>16, <1>17, <1>18, <1>19 DEF down, up, uDown

\* The interrupt routine, the alarm and the host.
LEMMA OtherStep ==
    ASSUME UartInv, setting' = setting, Irq \/ Second \/ Host
    PROVE  UartInv'
<1>1. /\ Alphabet' = Alphabet /\ FIFO_LEN' = FIFO_LEN /\ FIFO_LEN \in Nat \ {0}
      /\ wfifo \in Seq(Alphabet) /\ rfifo \in Seq(Alphabet)
      /\ Len(wfifo) \in Nat /\ Len(wfifo) <= FIFO_LEN
      /\ Len(rfifo) \in Nat /\ Len(rfifo) <= FIFO_LEN
    <2>1. /\ wfifo \in Seq(Alphabet) /\ rfifo \in Seq(Alphabet)
          /\ Len(wfifo) <= FIFO_LEN /\ Len(rfifo) <= FIFO_LEN
        BY DEF UartInv, CoreTyped
    <2> QED
        BY <2>1, Sizes, Fixed, LenProperties DEF UartInv
<1>2. CASE Interrupt
    <2>1. CoreTyped' /\ SpaceKept'
        BY <1>1, <1>2 DEF Interrupt, UartInv, CoreTyped, SpaceKept, core
    <2> QED
        BY <1>2, <2>1, Untouched DEF Interrupt, UartInv, call, tx
<1>3. CASE ReadControl
    <2>1. /\ control' \in {control, [ri |-> ReadPending, wi |-> WritePending,
                                     wspace |-> FIFO_LEN - Len(wfifo)]}
          /\ isr' \in {"serve", "off"}
          /\ isr' = "serve" => control'.wspace = FIFO_LEN - Len(wfifo)
          /\ UNCHANGED <<call, tx, rx, irq_enable, host_inactive, core>>
        BY <1>3 DEF ReadControl
    <2>2. FIFO_LEN - Len(wfifo) \in 0..FIFO_LEN
        BY <1>1
    <2>3. ReadPending \in BOOLEAN /\ WritePending \in BOOLEAN
        BY DEF ReadPending, WritePending
    <2>4. control' \in [ri : BOOLEAN, wi : BOOLEAN, wspace : 0..FIFO_LEN]
        <3>1. control \in [ri : BOOLEAN, wi : BOOLEAN, wspace : 0..FIFO_LEN]
            BY DEF UartInv, CoreTyped
        <3> QED
            BY <2>1, <2>2, <2>3, <3>1
    <2>5. CoreTyped' /\ SpaceKept'
        BY <1>1, <2>1, <2>2, <2>4 DEF UartInv, CoreTyped, SpaceKept, core
    <2> QED
        BY <2>1, <2>5, Untouched DEF UartInv, call, tx
<1>4. CASE Serve
    <2>1. Ring(tx_buf, tx_in, tx_out)' /\ Ring(rx_buf, rx_in, rx_out)'
        BY <1>4, Served, Fixed
    <2>2. control' \in [ri : BOOLEAN, wi : BOOLEAN, wspace : 0..FIFO_LEN]
        BY <1>1, <1>4 DEF Serve, NoControl
    <2>3. irq_enable' \subseteq {"RE", "WE"} /\ pause_irq' \in BOOLEAN /\ isr' = "loop"
          /\ ac' = ac /\ host' = host
        BY <1>4 DEF Serve, UartInv, CoreTyped
    <2>4. CoreTyped'
        BY <1>1, <1>4, <2>2, <2>3, Served DEF UartInv, CoreTyped
    <2>5. Copying'
        <3>1. UNCHANGED call
            BY <1>4 DEF Serve
        <3>2. Used(tx_in, tx_out)' \in Nat /\ Used(tx_in, tx_out)' <= Used(tx_in, tx_out)
            BY <1>4, Served, Fixed
        <3>3. Used(tx_in, tx_out) \in Nat /\ BUF_LEN \in Nat /\ BUF_LEN' = BUF_LEN
            BY ContentType, Sizes, Fixed DEF UartInv
        <3>4. pc = "put" => n \in 1..Len(todo) /\ Used(tx_in, tx_out) + n < BUF_LEN /\ n \in Nat
            BY DEF UartInv, Copying, CallTyped
        <3>5. pc = "put" => Used(tx_in, tx_out)' + n < BUF_LEN
            BY <3>2, <3>3, <3>4
        <3> QED
            BY <3>1, <3>3, <3>4, <3>5 DEF UartInv, Copying, call
    <2>6. WriteKicked'
        <3>1. CASE RingEmpty
            BY <1>4, <3>1, Served DEF WriteKicked
        <3>2. CASE ~RingEmpty /\ "WE" \in irq_enable
            BY <1>4, <3>2 DEF Serve, WriteKicked
        <3>3. CASE "WE" \notin irq_enable /\ pc \in {"look", "put", "kick"}
            BY <1>4, <3>3 DEF Serve, WriteKicked, call
        <3>4. CASE "WE" \notin irq_enable /\ tx_in = tx_out
            <4>1. Used(tx_in, tx_out) = 0
                BY <3>4, Around, Sizes DEF UartInv, Ring
            <4>2. Used(tx_in', tx_out') = 0
                BY <4>1, <1>4, Served
            <4>3. tx_in' \in Places /\ tx_out' \in Places
                BY <1>4, Served DEF Ring
            <4>4. tx_in' = tx_out'
                BY <4>2, <4>3, Around, Sizes DEF UartInv
            <4> QED
                BY <4>4 DEF WriteKicked
        <3> QED
            BY <3>1, <3>2, <3>3, <3>4 DEF UartInv, WriteKicked
    <2>7. SpaceKept'
        BY <2>3 DEF SpaceKept
    <2> QED
        BY <1>4, <2>1, <2>4, <2>5, <2>6, <2>7, Untouched DEF Serve, UartInv
<1>5. CASE Second
    <2>1. CoreTyped' /\ SpaceKept'
        BY <1>1, <1>5 DEF Second, UartInv, CoreTyped, SpaceKept
    <2> QED
        BY <1>5, <2>1, Untouched DEF Second, UartInv, call, tx
<1>6. CASE Connect
    <2>1. CoreTyped' /\ SpaceKept'
        BY <1>1, <1>6 DEF Connect, UartInv, CoreTyped, SpaceKept
    <2> QED
        BY <1>6, <2>1, Untouched DEF Connect, UartInv, call, tx
<1>7. CASE HostReads
    <2>1. wfifo' \in Seq(Alphabet) /\ Len(wfifo') = Len(wfifo) - 1
        BY <1>1, <1>7, HeadTailProperties DEF HostReads
    <2>2. Len(wfifo') <= FIFO_LEN
        BY <1>1, <2>1
    <2>3. CoreTyped'
        BY <1>1, <1>7, <2>1, <2>2 DEF HostReads, UartInv, CoreTyped
    <2>4. SpaceKept'
        <3>1. control.wspace \in Nat
            BY <1>1 DEF UartInv, CoreTyped
        <3> QED
            BY <1>1, <1>7, <2>1, <3>1 DEF HostReads, UartInv, SpaceKept
    <2> QED
        BY <1>7, <2>3, <2>4, Untouched DEF HostReads, UartInv, call, tx
<1>8. CASE HostTypes
    <2>1. PICK c \in Alphabet : rfifo' = Append(rfifo, c)
        BY <1>8 DEF HostTypes
    <2>2. rfifo' \in Seq(Alphabet) /\ Len(rfifo') = Len(rfifo) + 1
        BY <1>1, <2>1, AppendProperties
    <2>3. Len(rfifo') <= FIFO_LEN
        BY <1>1, <1>8, <2>2 DEF HostTypes
    <2>4. CoreTyped' /\ SpaceKept'
        BY <1>1, <1>8, <2>2, <2>3 DEF HostTypes, UartInv, CoreTyped, SpaceKept
    <2> QED
        BY <1>8, <2>4, Untouched DEF HostTypes, UartInv, call, tx
<1>9. CASE HostPauses
    <2>1. CoreTyped' /\ SpaceKept'
        BY <1>1, <1>9 DEF HostPauses, UartInv, CoreTyped, SpaceKept
    <2> QED
        BY <1>9, <2>1, Untouched DEF HostPauses, UartInv, call, tx
<1> QED
    BY <1>2, <1>3, <1>4, <1>5, <1>6, <1>7, <1>8, <1>9 DEF Irq, Host

LEMMA UartStays == UartInv /\ [UartNext]_uartVars => UartInv'
<1> SUFFICES ASSUME UartInv, [UartNext]_uartVars PROVE UartInv'
    OBVIOUS
<1>1. CASE UartNext
    BY <1>1, WriteStep, ReadStep, OtherStep DEF UartNext, Begin, Program
<1>2. CASE UNCHANGED uartVars
    BY <1>2, Untouched DEF uartVars, UartInv, call, tx, core
<1> QED
    BY <1>1, <1>2

LEMMA UartHolds == UartSpec => []UartInv
BY UartBegins, UartStays, PTL DEF UartSpec

\* A character in the ring is on its way: its interrupt is on, or a write is
\* about to switch it on.
THEOREM RingKicked == UartSpec => []WriteKicked
<1>1. UartInv => WriteKicked
    BY DEF UartInv
<1> QED
    BY <1>1, UartHolds, PTL
-----------------------------------------------------------------------------
(* The terminal is a link *)

link == <<todo, Down, Up, buffer>>

\* The queues change only with the rings and the FIFOs.
LEMMA QueuesKept ==
    ASSUME setting' = setting
    PROVE  /\ UNCHANGED tx /\ wfifo' = wfifo => Down' = Down
           /\ UNCHANGED rx /\ rfifo' = rfifo => Up' = Up
BY Fixed DEF tx, rx, Down, Up

LEMMA QueuesTyped ==
    ASSUME UartInv
    PROVE  /\ wfifo \in Seq(Alphabet) /\ rfifo \in Seq(Alphabet)
           /\ Content(tx_buf, tx_in, tx_out) \in Seq(Alphabet)
           /\ Content(rx_buf, rx_in, rx_out) \in Seq(Alphabet)
BY ContentType DEF UartInv, CoreTyped

\* The steps of the program, seen from the two ends of the link.
LEMMA CallIsLink ==
    ASSUME UartInv, setting' = setting, Begin \/ Program
    PROVE  [L!Next]_link /\ (Down' # Down => Put)
<1>1. ASSUME NEW s \in Texts, Write(s) PROVE L!Write /\ Down' = Down
    <2>1. todo = <<>> /\ todo' = s /\ UNCHANGED <<tx, rx, wfifo, rfifo, buffer>>
        BY <1>1 DEF Write, UartInv, Copying, core
    <2>2. s \in L!Texts
        BY Sizes DEF UartInv, Texts, L!Texts
    <2> QED
        BY <2>1, <2>2, QueuesKept DEF L!Write, Up, Down
<1>2. ASSUME NEW k \in 1..Request, Read(k) PROVE L!Read /\ Down' = Down
    <2>1. buffer' = <<>> /\ UNCHANGED <<todo, tx, rx, wfifo, rfifo>>
        BY <1>2 DEF Read, core
    <2> QED
        BY <2>1, QueuesKept DEF L!Read, Up, Down
<1>3. CASE Look \/ Kick \/ Wait \/ Satisfied \/ Await \/ Listen
    <2>1. UNCHANGED <<todo, buffer, tx, rx, wfifo, rfifo>>
        BY <1>3 DEF Look, Kick, Wait, Satisfied, Await, Listen, core
    <2> QED
        BY <2>1, QueuesKept DEF link
<1>4. CASE Judge
    <2>1. todo' \in {todo, <<>>} /\ UNCHANGED <<buffer, tx, rx, wfifo, rfifo>>
        BY <1>4 DEF Judge, core
    <2>2. Down' = Down /\ Up' = Up
        BY <2>1, QueuesKept
    <2> QED
        BY <2>1, <2>2 DEF link, L!Next, L!GiveUp, Up, Down
<1>5. CASE Put
    <2> DEFINE s == First(todo, n)
               c == Content(tx_buf, tx_in, tx_out)
    <2>1. n \in 1..Len(todo) /\ Used(tx_in, tx_out) + n < BUF_LEN
        BY <1>5 DEF Put, UartInv, Copying
    <2>2. s \in Seq(Alphabet) /\ Len(s) = n
        <3>1. n \in 0..Len(todo)
            BY <2>1
        <3> QED
            BY <3>1, Cut DEF UartInv, CallTyped
    <2>3. /\ tx_buf' = Fill(tx_buf, tx_in, s) /\ tx_in' = Step(tx_in, n) /\ tx_out' = tx_out
          /\ todo' = Rest(todo, n) /\ UNCHANGED <<buffer, rx, wfifo, rfifo>>
        BY <1>5 DEF Put, core
    <2>4. Content(tx_buf', tx_in', tx_out') = c \o s
        BY <2>1, <2>2, <2>3, PutIn DEF UartInv
    <2>5. Down' = wfifo \o (c \o s)
        BY <2>3, <2>4, Fixed DEF Down
    <2> HIDE DEF s, c
    <2>6. (wfifo \o c) \o s = wfifo \o (c \o s)
        <3>1. wfifo \in Seq(Alphabet) /\ c \in Seq(Alphabet)
            BY QueuesTyped DEF c
        <3> QED
            BY <2>2, <3>1, ConcatAssociative, SMTT(30)
    <2>7. Down' = Down \o s
        BY <2>5, <2>6 DEF Down, c
    <2>8. Up' = Up
        BY <2>3, QueuesKept
    <2>9. s = L!First(todo, n) /\ todo' = L!Rest(todo, n)
        BY <2>3 DEF s, First, Rest, L!First, L!Rest
    <2>10. L!Accept
        BY <2>1, <2>3, <2>7, <2>8, <2>9 DEF L!Accept, Up, Down
    <2> QED
        BY <1>5, <2>10 DEF L!Next
<1>6. CASE Take
    <2> DEFINE all == IF rx_in >= rx_out THEN rx_in - rx_out ELSE BUF_LEN - rx_out
               k == MinOf(all, space)
               c == Content(rx_buf, rx_in, rx_out)
               rest == Content(rx_buf, rx_in, Step(rx_out, k))
               part == Content(rx_buf, Step(rx_out, k), rx_out)
    <2>1. /\ rx_out' = Step(rx_out, k)
          /\ buffer' = buffer \o First(part, k)
          /\ UNCHANGED <<todo, tx, rx_buf, rx_in, wfifo, rfifo>>
        BY <1>6 DEF Take, core
    <2>2. k \in 0..Used(rx_in, rx_out) /\ Used(rx_in, rx_out) \in Nat
        <3>1. BUF_LEN \in Nat \ {0, 1} /\ rx_in \in Places /\ rx_out \in Places
              /\ Places = 0..(BUF_LEN - 1)
            BY DEF UartInv, Ring, Places
        <3>2. all \in Nat /\ all <= Used(rx_in, rx_out) /\ Used(rx_in, rx_out) \in Nat
            BY <3>1 DEF Used
        <3>3. space \in Nat
            BY DEF UartInv, CallTyped
        <3> HIDE DEF all
        <3> QED
            BY <3>2, <3>3 DEF MinOf
    <2> HIDE DEF k
    <2>3. /\ c \in Seq(Alphabet) /\ Len(c) = Used(rx_in, rx_out)
          /\ rest = Rest(c, k) /\ part = First(c, k) /\ c = First(c, k) \o rest
          /\ part \in Seq(Alphabet) /\ Len(part) = k
        BY <2>2, TakenOut, ContentType DEF UartInv
    <2>4. Content(rx_buf, rx_in, rx_out)' = rest
        BY <2>1, Fixed
    <2> HIDE DEF c, rest, part
    <2>5. First(part, k) = part
        BY <2>3, SubSeqFull DEF First
    <2>6. Up = c \o rfifo /\ Up' = rest \o rfifo
        BY <2>1, <2>4 DEF Up, c
    <2>7. rfifo \in Seq(Alphabet) /\ rest \in Seq(Alphabet) /\ buffer \in Seq(Alphabet)
        <3>1. rest \in Seq(Alphabet)
            BY <2>2, <2>3, Cut
        <3> QED
            BY <3>1, QueuesTyped DEF UartInv, CallTyped
    <2>8. Up = part \o Up'
        <3>1. (part \o rest) \o rfifo = part \o (rest \o rfifo)
            <4>1. part \in Seq(Alphabet) /\ rest \in Seq(Alphabet) /\ rfifo \in Seq(Alphabet)
                BY <2>3, <2>7
            <4> QED
                BY <4>1, ConcatAssociative, SMTT(30)
        <3>2. c = part \o rest
            BY <2>3
        <3> QED
            BY <3>1, <3>2, <2>6
    <2>9. Up' \in Seq(Alphabet)
        BY <2>6, <2>7, ConcatProperties
    <2>10. Up \in Seq(Alphabet) /\ Len(Up) = k + Len(Up') /\ Len(Up') \in Nat
        <3>1. Len(Up') \in Nat
            BY <2>9, LenProperties
        <3> HIDE DEF Up
        <3> QED
            BY <3>1, <2>3, <2>8, <2>9, ConcatProperties
    <2>11. First(Up, k) = part /\ Rest(Up, k) = Up'
        BY <2>2, <2>3, <2>8, <2>9, <2>10, Joined
    <2>12. Down' = Down
        BY <2>1, QueuesKept
    <2>13. CASE k = 0
        <3>1. part = <<>>
            BY <2>3, <2>13, EmptySeq
        <3>2. buffer' = buffer
            BY <2>1, <2>5, <2>7, <3>1, ConcatEmptySeq
        <3>3. Up' = Up
            BY <2>8, <2>9, <3>1, ConcatEmptySeq
        <3> QED
            BY <2>1, <2>12, <3>2, <3>3 DEF link
    <2>14. CASE k # 0
        <3>1. k \in 1..Len(Up)
            BY <2>2, <2>10, <2>14
        <3>2. buffer' = buffer \o L!First(Up, k) /\ Up' = L!Rest(Up, k)
            BY <2>1, <2>5, <2>11 DEF First, Rest, L!First, L!Rest
        <3>3. L!Take
            BY <2>1, <2>12, <3>1, <3>2 DEF L!Take, Up, Down
        <3> QED
            BY <2>12, <3>3 DEF L!Next
    <2> QED
        BY <2>13, <2>14
<1> QED
    BY <1>1, <1>2, <1>3, <1>4, <1>5, <1>6 DEF Begin, Program, L!Next
\* The steps of the interrupt routine are not seen: what it takes from one side
\* it adds to the other.  Those of the host are the link's.
LEMMA OtherIsLink ==
    ASSUME UartInv, setting' = setting, Irq \/ Second \/ Host
    PROVE  [L!Next]_link /\ (Down' # Down => HostReads)
<1>1. CASE Interrupt \/ ReadControl \/ Second \/ Connect \/ HostPauses
    <2>1. UNCHANGED <<todo, buffer, tx, rx, wfifo, rfifo>>
        BY <1>1 DEF Interrupt, ReadControl, Second, Connect, HostPauses, call, core
    <2> QED
        BY <2>1, QueuesKept DEF link
<1>2. CASE Serve
    <2>1. UNCHANGED <<todo, buffer>>
        BY <1>2 DEF Serve, call
    <2>2. Down' = Down /\ Up' = Up
        BY <1>2, Served, Fixed DEF Down, Up
    <2> QED
        BY <2>1, <2>2 DEF link
<1>3. CASE HostReads
    <2> DEFINE c == Content(tx_buf, tx_in, tx_out)
    <2>1. wfifo # <<>> /\ wfifo' = Tail(wfifo) /\ UNCHANGED <<todo, buffer, tx, rx, rfifo>>
        BY <1>3 DEF HostReads, call
    <2>2. wfifo \in Seq(Alphabet) /\ c \in Seq(Alphabet)
        BY QueuesTyped
    <2>3. Down' = Tail(wfifo) \o c
        BY <2>1, Fixed DEF Down, tx
    <2> HIDE DEF c
    <2>4. Tail(wfifo) \o c = Tail(wfifo \o c) /\ wfifo \o c # <<>>
        BY <2>1, <2>2, TailJoined
    <2>5. Down # <<>> /\ Down' = Tail(Down)
        BY <2>3, <2>4 DEF Down, c
    <2>6. L!HostReads
        BY <2>1, <2>5, QueuesKept DEF L!HostReads, Up, Down
    <2> QED
        BY <1>3, <2>6 DEF L!Next
<1>4. CASE HostTypes
    <2> DEFINE c == Content(rx_buf, rx_in, rx_out)
    <2>1. UNCHANGED <<todo, buffer, tx, rx, wfifo>>
        BY <1>4 DEF HostTypes, call
    <2>2. PICK x \in Alphabet : rfifo' = Append(rfifo, x)
        BY <1>4 DEF HostTypes
    <2>3. rfifo \in Seq(Alphabet) /\ c \in Seq(Alphabet)
        BY QueuesTyped
    <2>4. Up' = c \o Append(rfifo, x)
        BY <2>1, <2>2, Fixed DEF Up, rx
    <2> HIDE DEF c
    <2>5. c \o Append(rfifo, x) = Append(c \o rfifo, x)
        BY <2>3, AppendJoined
    <2>6. Up' = Append(Up, x)
        BY <2>4, <2>5 DEF Up, c
    <2>7. x \in Chars
        BY Sizes DEF UartInv
    <2>8. L!HostTypes
        BY <2>1, <2>6, <2>7, QueuesKept DEF L!HostTypes, Up, Down
    <2> QED
        BY <2>1, <2>8, QueuesKept DEF L!Next
<1> QED
    BY <1>1, <1>2, <1>3, <1>4 DEF Irq, Host

LEMMA UartStepIsLink ==
    UartInv /\ [UartNext]_uartVars => [L!Next]_link /\ [Down' # Down => HostReads \/ Put]_uartVars
<1> SUFFICES ASSUME UartInv, [UartNext]_uartVars
             PROVE  [L!Next]_link /\ [Down' # Down => HostReads \/ Put]_uartVars
    OBVIOUS
<1>1. CASE UartNext
    BY <1>1, CallIsLink, OtherIsLink DEF UartNext
<1>2. CASE UNCHANGED uartVars
    <2>1. UNCHANGED <<setting, todo, buffer, tx, rx, wfifo, rfifo>>
        BY <1>2 DEF uartVars, call, core
    <2> QED
        BY <1>2, <2>1, QueuesKept DEF link
<1> QED
    BY <1>1, <1>2

\* Driver and core together are two queues: whatever the interrupt routine and
\* the host do between two steps of a call, no character is lost, overwritten,
\* repeated or reordered, and only the host and a write change what is on its way.
THEOREM TerminalIsLink == UartSpec => IsLink
<1>1. UartInit => L!Init
    <2> SUFFICES ASSUME UartInit PROVE L!Init
        OBVIOUS
    <2>1. UartInv
        BY UartBegins
    <2>2. Used(tx_in, tx_out) = 0 /\ Used(rx_in, rx_out) = 0
        BY <2>1, Around, Sizes DEF UartInit, UartInv, Ring
    <2>3. Content(tx_buf, tx_in, tx_out) = <<>> /\ Content(rx_buf, rx_in, rx_out) = <<>>
        BY <2>1, <2>2, ContentType, EmptySeq DEF UartInv
    <2>4. Down = <<>> /\ Up = <<>>
        BY <2>3, ConcatEmptySeq DEF UartInit, Down, Up
    <2> QED
        BY <2>4 DEF UartInit, L!Init, Down, Up
<1>2. UartInv /\ [UartNext]_uartVars => [L!Next]_<<todo, Down, Up, buffer>>
    BY UartStepIsLink DEF link
<1>3. UartInv /\ [UartNext]_uartVars => [Down' # Down => HostReads \/ Put]_uartVars
    BY UartStepIsLink
<1>4. UartSpec => L!Spec
    BY <1>1, <1>2, UartHolds, PTL DEF UartSpec, L!Spec, Down, Up
<1>5. UartSpec => [][Down' # Down => HostReads \/ Put]_uartVars
    BY <1>3, UartHolds, PTL DEF UartSpec
<1> QED
    BY <1>4, <1>5, PTL DEF IsLink
=============================================================================

---------------------------- MODULE TimerProofs -----------------------------
(***************************************************************************)
(* For any number of timers, tokens and holders, any interval and any lag: *)
(* after a cancel a timer calls back once at most, and only for a deadline *)
(* that was past at the cancel; deadlines are whole intervals apart.       *)
(***************************************************************************)
EXTENDS Timer, TLAPS

\* A callback is only near once its deadline is past.
NotEarly ==
    \A t \in Timers :
        place[t] \in {"retest", "invoke", "running", "firing"} => due[t] <= 0

\* A thread that ended has no token.
DoneLetsGo == \A t \in Timers : place[t] = "done" => use[t] = Null

\* A late callback is the last: its thread finds the flag set when it looks
\* next, and has nowhere else to go.
LateIsLast ==
    \A t \in Timers :
        late[t] # 0 =>
            /\ late[t] = 1
            /\ overdue[t]
            /\ place[t] \in {"running", "test", "done"}
            /\ place[t] # "done" => Stopped(t)

\* The one that slips past the second look was due at the cancel.
SlipsPast ==
    \A t \in Timers : place[t] = "invoke" /\ Stopped(t) => overdue[t]

\* A deadline is whole intervals from the start, and the start is counted
\* from the first one.
Paced ==
    \A t \in Timers :
        /\ place[t] \in Loop => (elapsed[t] + due[t]) % Interval = 0
        /\ place[t] \in {"unused", "spawned"} => elapsed[t] = 0

TimerIInv ==
    TimerTypeOK /\ NotEarly /\ DoneLetsGo /\ LateIsLast /\ SlipsPast /\ Paced

-----------------------------------------------------------------------------
LEMMA Multiple ==
    ASSUME NEW n \in Nat \ {0}, NEW a \in Int, NEW q \in Int, a = q * n
    PROVE  a % n = 0
  BY SMT

\* One interval more or less leaves the remainder 0.
LEMMA IntervalStep ==
    ASSUME NEW n \in Nat \ {0}, NEW a \in Int, a % n = 0
    PROVE  (a + n) % n = 0 /\ (a - n) % n = 0
<1>1. PICK q \in Int : a = q * n
  <2>1. a = (n * (a \div n)) + (a % n) /\ a \div n \in Int
    BY SMT
  <2> QED BY <2>1, SMT
<1> DEFINE b == a + n
           c == a - n
           r == q + 1
           p == q - 1
<1>2. a + n = (q + 1) * n /\ a - n = (q - 1) * n
  BY <1>1, SMT
<1>3. b \in Int /\ c \in Int /\ r \in Int /\ p \in Int /\ b = r * n /\ c = p * n
  BY <1>2
<1> HIDE DEF b, c, r, p
<1>4. b % n = 0 /\ c % n = 0
  BY <1>3, Multiple
<1> QED BY <1>4 DEF b, c

LEMMA NextRemainder ==
    ASSUME NEW n \in Nat \ {0}, NEW a \in 0..(n - 1)
    PROVE  (a + 1) % n = IF a + 1 = n THEN 0 ELSE a + 1
  BY SMT

LEMMA InitTimerIInv == TimerInit => TimerIInv
<1> SUFFICES ASSUME TimerInit PROVE TimerIInv
  OBVIOUS
<1> USE TimerAssumption
<1>1. TimerTypeOK
  BY DEF TimerInit, TimerTypeOK, Loop, Shot
<1>2. NotEarly /\ DoneLetsGo /\ LateIsLast /\ SlipsPast /\ Paced
  BY DEF TimerInit, NotEarly, DoneLetsGo, LateIsLast, SlipsPast, Stopped, Paced, Loop
<1> QED
  BY <1>1, <1>2 DEF TimerIInv

\* A timer's thread works at that timer alone, and moves no flag or holder.
LEMMA ThreadStep ==
    ASSUME TimerIInv, NEW t \in Timers, Works(t) \/ Once(t)
    PROVE  TimerIInv'
<1> USE TimerAssumption DEF TimerIInv, TimerTypeOK, Loop, Shot, Goto, Step, history
<1>1. CASE ShotStart(t)
  <2>1. TimerTypeOK'
    BY <1>1 DEF ShotStart
  <2>2. (NotEarly /\ DoneLetsGo /\ LateIsLast /\ SlipsPast)'
    BY <1>1 DEF ShotStart, NotEarly, DoneLetsGo, LateIsLast, SlipsPast, Stopped
  <2>3. Paced'
    BY <1>1 DEF ShotStart, Paced
  <2> QED BY <2>1, <2>2, <2>3
<1>2. CASE ShotWakes(t)
  <2>1. TimerTypeOK'
    BY <1>2 DEF ShotWakes
  <2>2. (NotEarly /\ DoneLetsGo /\ LateIsLast /\ SlipsPast)'
    BY <1>2 DEF ShotWakes, NotEarly, DoneLetsGo, LateIsLast, SlipsPast, Stopped
  <2>3. Paced'
    BY <1>2 DEF ShotWakes, Paced
  <2> QED BY <2>1, <2>2, <2>3
<1>3. CASE ShotDone(t)
  <2>1. TimerTypeOK'
    BY <1>3 DEF ShotDone, End
  <2>2. (NotEarly /\ DoneLetsGo /\ LateIsLast /\ SlipsPast)'
    BY <1>3 DEF ShotDone, End, NotEarly, DoneLetsGo, LateIsLast, SlipsPast, Stopped
  <2>3. Paced'
    BY <1>3 DEF ShotDone, End, Paced
  <2> QED BY <2>1, <2>2, <2>3
<1>4. CASE LoopStart(t)
  <2>1. TimerTypeOK'
    BY <1>4 DEF LoopStart
  <2>2. (NotEarly /\ DoneLetsGo /\ LateIsLast /\ SlipsPast)'
    BY <1>4 DEF LoopStart, NotEarly, DoneLetsGo, LateIsLast, SlipsPast, Stopped
  <2>3. Paced'
    BY <1>4 DEF LoopStart, Paced
  <2> QED BY <2>1, <2>2, <2>3
<1>5. CASE Test(t)
  <2>1. TimerTypeOK'
    BY <1>5 DEF Test, End
  <2>2. (NotEarly /\ DoneLetsGo /\ LateIsLast /\ SlipsPast)'
    BY <1>5 DEF Test, End, NotEarly, DoneLetsGo, LateIsLast, SlipsPast, Stopped
  <2>3. Paced'
    BY <1>5 DEF Test, End, Paced
  <2> QED BY <2>1, <2>2, <2>3
<1>6. CASE Wake(t)
  <2>1. TimerTypeOK'
    BY <1>6 DEF Wake
  <2>2. (NotEarly /\ DoneLetsGo /\ LateIsLast /\ SlipsPast)'
    BY <1>6 DEF Wake, NotEarly, DoneLetsGo, LateIsLast, SlipsPast, Stopped
  <2>3. Paced'
    BY <1>6 DEF Wake, Paced
  <2> QED BY <2>1, <2>2, <2>3
<1>7. CASE Retest(t)
  <2>1. TimerTypeOK'
    BY <1>7 DEF Retest, End
  <2>2. (NotEarly /\ DoneLetsGo /\ LateIsLast /\ SlipsPast)'
    BY <1>7 DEF Retest, End, NotEarly, DoneLetsGo, LateIsLast, SlipsPast, Stopped
  <2>3. Paced'
    BY <1>7 DEF Retest, End, Paced
  <2> QED BY <2>1, <2>2, <2>3
<1>8. CASE Invoke(t)
  <2>1. TimerTypeOK'
    BY <1>8 DEF Invoke
  <2>2. (NotEarly /\ DoneLetsGo /\ LateIsLast /\ SlipsPast)'
    BY <1>8 DEF Invoke, NotEarly, DoneLetsGo, LateIsLast, SlipsPast, Stopped
  <2>3. Paced'
    BY <1>8 DEF Invoke, Paced
  <2> QED BY <2>1, <2>2, <2>3
<1>9. CASE Again(t)
  <2>1. TimerTypeOK'
    BY <1>9 DEF Again, NotEarly
  <2>2. (NotEarly /\ DoneLetsGo /\ LateIsLast /\ SlipsPast)'
    BY <1>9 DEF Again, NotEarly, DoneLetsGo, LateIsLast, SlipsPast, Stopped
  <2>3. Paced'
    <3>1. ((elapsed[t] + due[t]) + Interval) % Interval = 0
      <4>1. (elapsed[t] + due[t]) % Interval = 0
        BY <1>9 DEF Again, Paced
      <4> QED BY <4>1, IntervalStep
    <3>2. elapsed'[t] + due'[t] = (elapsed[t] + due[t]) + Interval
      BY <1>9 DEF Again
    <3>3. (elapsed'[t] + due'[t]) % Interval = 0
      BY <3>1, <3>2
    <3> QED BY <1>9, <3>3 DEF Again, Paced
  <2> QED BY <2>1, <2>2, <2>3
<1>10. CASE Once(t)
  <2>1. TimerTypeOK'
    BY <1>10 DEF Once
  <2>2. (NotEarly /\ DoneLetsGo /\ LateIsLast /\ SlipsPast)'
    BY <1>10 DEF Once, NotEarly, DoneLetsGo, LateIsLast, SlipsPast, Stopped
  <2>3. Paced'
    BY <1>10 DEF Once, Paced
  <2> QED BY <2>1, <2>2, <2>3
<1> QED
  BY <1>1, <1>2, <1>3, <1>4, <1>5, <1>6, <1>7, <1>8, <1>9, <1>10 DEF Works, Shoots, Loops

\* Both forms of periodic() spawn a thread with a token that has a holder.
LEMMA PeriodicStep ==
    ASSUME TimerIInv, NEW t \in Timers, NEW h \in Holders,
           Periodic(t, h) \/ PeriodicShared(t, h)
    PROVE  TimerIInv'
<1> USE TimerAssumption DEF TimerIInv, TimerTypeOK, Loop, Shot, Goto, Step, history
<1>1. CASE Periodic(t, h)
  <2>1. TimerTypeOK'
    BY <1>1 DEF Periodic
  <2>2. (NotEarly /\ DoneLetsGo /\ LateIsLast /\ SlipsPast)'
    BY <1>1 DEF Periodic, NotEarly, DoneLetsGo, LateIsLast, SlipsPast, Stopped
  <2>3. Paced'
    BY <1>1 DEF Periodic, Paced
  <2> QED BY <2>1, <2>2, <2>3
<1>2. CASE PeriodicShared(t, h)
  <2>1. TimerTypeOK'
    BY <1>2 DEF PeriodicShared
  <2>2. (NotEarly /\ DoneLetsGo /\ LateIsLast /\ SlipsPast)'
    BY <1>2 DEF PeriodicShared, NotEarly, DoneLetsGo, LateIsLast, SlipsPast, Stopped
  <2>3. Paced'
    BY <1>2 DEF PeriodicShared, Paced
  <2> QED BY <2>1, <2>2, <2>3
<1> QED
  BY <1>1, <1>2

\* What is done with tokens and guards moves no thread.
LEMMA HolderStep ==
    ASSUME TimerIInv, NEW h \in Holders, NEW g \in Holders,
           MakeToken(h) \/ Cancel(h) \/ Move(h, g) \/ Copy(h, g)
    PROVE  TimerIInv'
<1> USE TimerAssumption DEF TimerIInv, TimerTypeOK, Loop, Shot, Goto, Step, history
<1>1. CASE MakeToken(h)
  <2>1. TimerTypeOK'
    BY <1>1 DEF MakeToken
  <2>2. (NotEarly /\ DoneLetsGo /\ LateIsLast /\ SlipsPast)'
    BY <1>1 DEF MakeToken, NotEarly, DoneLetsGo, LateIsLast, SlipsPast, Stopped
  <2>3. Paced'
    BY <1>1 DEF MakeToken, Paced
  <2> QED BY <2>1, <2>2, <2>3
<1>2. CASE Cancel(h)
  <2>1. TimerTypeOK'
    <3>1. cancelled' \subseteq made' /\ hold' \in [Holders -> made' \cup {Null}]
      BY <1>2 DEF Cancel
    <3>2. \A s \in Timers : (due[s] <= 0) \in BOOLEAN /\ overdue[s] \in BOOLEAN
      OBVIOUS
    <3>3. overdue' \in [Timers -> BOOLEAN]
      BY <1>2, <3>2, Zenon DEF Cancel
    <3> QED BY <1>2, <3>1, <3>3 DEF Cancel
  <2>2. (NotEarly /\ DoneLetsGo /\ LateIsLast /\ SlipsPast)'
    BY <1>2 DEF Cancel, NotEarly, DoneLetsGo, LateIsLast, SlipsPast, Stopped
  <2>3. Paced'
    BY <1>2 DEF Cancel, Paced
  <2> QED BY <2>1, <2>2, <2>3
<1>3. CASE Move(h, g)
  <2>1. TimerTypeOK'
    BY <1>3 DEF Move
  <2>2. (NotEarly /\ DoneLetsGo /\ LateIsLast /\ SlipsPast)'
    BY <1>3 DEF Move, NotEarly, DoneLetsGo, LateIsLast, SlipsPast, Stopped
  <2>3. Paced'
    BY <1>3 DEF Move, Paced
  <2> QED BY <2>1, <2>2, <2>3
<1>4. CASE Copy(h, g)
  <2>1. TimerTypeOK'
    BY <1>4 DEF Copy
  <2>2. (NotEarly /\ DoneLetsGo /\ LateIsLast /\ SlipsPast)'
    BY <1>4 DEF Copy, NotEarly, DoneLetsGo, LateIsLast, SlipsPast, Stopped
  <2>3. Paced'
    BY <1>4 DEF Copy, Paced
  <2> QED BY <2>1, <2>2, <2>3
<1> QED
  BY <1>1, <1>2, <1>3, <1>4

\* A tick brings every deadline one nearer, and the count of the time since
\* the start wraps at an interval.
LEMMA TickStep == ASSUME TimerIInv, Tick PROVE TimerIInv'
<1> USE TimerAssumption DEF TimerIInv, TimerTypeOK, Loop, Shot, Tick, Timed
<1>1. \A t \in Timers :
        (elapsed[t] + 1) % Interval =
          IF elapsed[t] + 1 = Interval THEN 0 ELSE elapsed[t] + 1
  BY NextRemainder
<1>2. TimerTypeOK'
  BY <1>1
<1>3. (NotEarly /\ DoneLetsGo /\ LateIsLast /\ SlipsPast)'
  BY DEF NotEarly, DoneLetsGo, LateIsLast, SlipsPast, Stopped
<1>4. Paced'
  <2> SUFFICES ASSUME NEW t \in Timers, place[t] \in Loop
               PROVE  (elapsed'[t] + due'[t]) % Interval = 0
    BY DEF Paced
  <2>1. (elapsed[t] + due[t]) % Interval = 0
    BY DEF Paced
  <2>2. ((elapsed[t] + due[t]) - Interval) % Interval = 0
    BY <2>1, IntervalStep
  <2>3. CASE elapsed[t] + 1 = Interval
    <3>1. elapsed'[t] + due'[t] = (elapsed[t] + due[t]) - Interval
      BY <1>1, <2>3
    <3> QED BY <2>2, <3>1
  <2>4. CASE elapsed[t] + 1 # Interval
    <3>1. elapsed'[t] + due'[t] = elapsed[t] + due[t]
      BY <1>1, <2>4
    <3> QED BY <2>1, <3>1
  <2> QED BY <2>3, <2>4
<1> QED BY <1>2, <1>3, <1>4

LEMMA TimerStep == TimerIInv /\ [TimerNext]_timerVars => TimerIInv'
<1> SUFFICES ASSUME TimerIInv, [TimerNext]_timerVars PROVE TimerIInv'
  OBVIOUS
<1>1. CASE TimerNext
  BY <1>1, ThreadStep, PeriodicStep, HolderStep, TickStep DEF TimerNext
<1>2. CASE UNCHANGED timerVars
  BY <1>2 DEF timerVars, history, TimerIInv, TimerTypeOK, NotEarly, DoneLetsGo,
              LateIsLast, SlipsPast, Stopped, Paced
<1> QED BY <1>1, <1>2

\* The inductive invariant of the timers.
THEOREM TimerInvariance == TimerSpec => []TimerIInv
<1>1. TimerInit => TimerIInv
  BY InitTimerIInv
<1>2. TimerIInv /\ [TimerNext]_timerVars => TimerIInv'
  BY TimerStep
<1> QED BY <1>1, <1>2, PTL DEF TimerSpec

\* A cancelled timer calls back once more at most, and never for a deadline
\* that comes after the cancel (interval_worker looks at the flag on both
\* sides of its sleep).
THEOREM CancelCorrect == TimerSpec => []CancelInv
<1>1. TimerIInv => CancelInv
  <2> SUFFICES ASSUME TimerIInv, NEW t \in Timers
               PROVE  late[t] <= 1 /\ (late[t] = 1 => overdue[t])
    BY DEF CancelInv
  <2> QED BY DEF TimerIInv, TimerTypeOK, LateIsLast
<1> QED BY <1>1, TimerInvariance, PTL

\* A periodic timer never drifts (next += interval, whatever the callback
\* took), and no callback begins early.
THEOREM DeadlineCorrect == TimerSpec => []DeadlineInv
<1>1. TimerIInv => DeadlineInv
  BY DEF TimerIInv, Paced, NotEarly, DeadlineInv
<1> QED BY <1>1, TimerInvariance, PTL
=============================================================================

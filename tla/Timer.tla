------------------------------- MODULE Timer --------------------------------
(***************************************************************************)
(* hitycho::timer (src/timer.hpp): each timer is a thread of its own that  *)
(* sleeps and calls back; periodic ones look at an atomic flag, the cancel *)
(* token, which any number of timers, token variables and cancel_guards    *)
(* may share.                                                              *)
(*                                                                         *)
(* Time is counted from each timer's point of view: due[t] is the time     *)
(* that is left until its deadline, at or below 0 once it is past.         *)
(***************************************************************************)
EXTENDS Integers

CONSTANTS
    Timers,     \* threads, each of which runs one timer
    Tokens,     \* flags that may be allocated
    Holders,    \* cancel_token variables and cancel_guards
    Null,       \* a holder without a token, a timer that cannot be cancelled
    Interval,   \* the interval of a periodic timer, the delay of a one-shot
    MaxLag      \* bound: how late a timer may be before time waits for it

ASSUME TimerAssumption ==
    /\ Interval \in Nat \ {0}
    /\ MaxLag \in Nat \ {0}
    /\ Null \notin Tokens

VARIABLES
    place,      \* timer -> where its thread is
    use,        \* timer -> the token it looks at
    due,        \* timer -> next - now()
    made,       \* tokens allocated
    cancelled,  \* tokens whose flag is set
    hold,       \* holder -> its token
    late,       \* history: timer -> callbacks begun after the cancel
    overdue,    \* history: timer -> its deadline was past at the cancel
    elapsed     \* history: timer -> time since its start, modulo Interval

history == <<late, overdue, elapsed>>
timerVars == <<place, use, due, made, cancelled, hold, history>>

Loop == {"test", "sleep", "retest", "invoke", "running"}
Shot == {"delay", "firing"}

TimerTypeOK ==
    /\ place \in [Timers -> {"unused", "spawned", "shot", "done"} \cup Loop \cup Shot]
    /\ use \in [Timers -> Tokens \cup {Null}]
    /\ due \in [Timers -> (-MaxLag)..Interval]
    /\ made \subseteq Tokens
    /\ cancelled \subseteq made
    /\ hold \in [Holders -> made \cup {Null}]
    /\ late \in [Timers -> Nat]
    /\ overdue \in [Timers -> BOOLEAN]
    /\ elapsed \in [Timers -> 0..(Interval - 1)]

TimerInit ==
    /\ place = [t \in Timers |-> "unused"]
    /\ use = [t \in Timers |-> Null]
    /\ due = [t \in Timers |-> 0]
    /\ made = {}
    /\ cancelled = {}
    /\ hold = [h \in Holders |-> Null]
    /\ late = [t \in Timers |-> 0]
    /\ overdue = [t \in Timers |-> FALSE]
    /\ elapsed = [t \in Timers |-> 0]

Goto(t, label) == place' = [place EXCEPT ![t] = label]

\* The thread of t goes on, and touches no token.
Step(t, from, to) ==
    /\ place[t] = from
    /\ Goto(t, to)
    /\ UNCHANGED <<made, cancelled, hold>>

Stopped(t) == use[t] \in cancelled

\* The thread ends, and lets its token go.
End(t) ==
    /\ Goto(t, "done")
    /\ use' = [use EXCEPT ![t] = Null]
    /\ due' = [due EXCEPT ![t] = 0]
    /\ elapsed' = [elapsed EXCEPT ![t] = 0]
    /\ UNCHANGED <<late, overdue>>

-----------------------------------------------------------------------------
(* once() and periodic(): a thread is spawned.                             *)
(*                                                                         *)
(* WakeOnTheDot, RetestNothing, AgainFromNow and AgainNever take no part   *)
(* in TimerSpec: each is an action below it with a slip that breaks a      *)
(* property.                                                               *)

Once(t) ==
    /\ place[t] = "unused"
    /\ Goto(t, "shot")
    /\ UNCHANGED <<use, due, made, cancelled, hold, history>>

\* periodic() makes a token and returns it.
Periodic(t, h) ==
    /\ place[t] = "unused"
    /\ hold[h] = Null
    /\ \E k \in Tokens \ made :
        /\ made' = made \cup {k}
        /\ use' = [use EXCEPT ![t] = k]
        /\ hold' = [hold EXCEPT ![h] = k]
    /\ Goto(t, "spawned")
    /\ UNCHANGED <<due, cancelled, history>>

MakeToken(h) ==
    /\ hold[h] = Null
    /\ \E k \in Tokens \ made :
        /\ made' = made \cup {k}
        /\ hold' = [hold EXCEPT ![h] = k]
    /\ UNCHANGED <<place, use, due, cancelled, history>>

\* "a timer group can share a single cancellation"
PeriodicShared(t, h) ==
    /\ place[t] = "unused"
    /\ hold[h] # Null
    /\ use' = [use EXCEPT ![t] = hold[h]]
    /\ Goto(t, "spawned")
    /\ UNCHANGED <<due, made, cancelled, hold, history>>

-----------------------------------------------------------------------------
(* timeout_worker                                                          *)

ShotStart(t) ==
    /\ Step(t, "shot", "delay")
    /\ due' = [due EXCEPT ![t] = Interval]
    /\ UNCHANGED <<use, history>>

ShotWakes(t) ==
    /\ Step(t, "delay", "firing")
    /\ due[t] <= 0
    /\ UNCHANGED <<use, due, history>>

ShotDone(t) ==
    /\ place[t] = "firing"
    /\ End(t)
    /\ UNCHANGED <<made, cancelled, hold>>

-----------------------------------------------------------------------------
(* interval_worker                                                         *)

LoopStart(t) ==
    /\ Step(t, "spawned", "test")
    /\ due' = [due EXCEPT ![t] = Interval]
    /\ UNCHANGED <<use, history>>

Test(t) ==
    /\ place[t] = "test"
    /\ IF Stopped(t) THEN End(t) ELSE Goto(t, "sleep") /\ UNCHANGED <<use, due, history>>
    /\ UNCHANGED <<made, cancelled, hold>>

WakeOnTheDot(t) ==
    /\ Step(t, "sleep", "retest")
    /\ due[t] = 0
    /\ UNCHANGED <<use, due, history>>

\* sleep_until(next), which returns at once when next is past.
Wake(t) ==
    /\ Step(t, "sleep", "retest")
    /\ due[t] <= 0
    /\ UNCHANGED <<use, due, history>>

RetestNothing(t) ==
    /\ Step(t, "retest", "invoke")
    /\ UNCHANGED <<use, due, history>>

Retest(t) ==
    /\ place[t] = "retest"
    /\ IF Stopped(t) THEN End(t) ELSE Goto(t, "invoke") /\ UNCHANGED <<use, due, history>>
    /\ UNCHANGED <<made, cancelled, hold>>

Invoke(t) ==
    /\ Step(t, "invoke", "running")
    /\ late' = [late EXCEPT ![t] = IF Stopped(t) THEN @ + 1 ELSE @]
    /\ UNCHANGED <<use, due, overdue, elapsed>>

AgainFromNow(t) ==
    /\ Step(t, "running", "test")
    /\ due' = [due EXCEPT ![t] = Interval]
    /\ UNCHANGED <<use, history>>

AgainNever(t) ==
    /\ place[t] = "running"
    /\ End(t)
    /\ UNCHANGED <<made, cancelled, hold>>

\* next += interval, however long the callback took.
Again(t) ==
    /\ Step(t, "running", "test")
    /\ due' = [due EXCEPT ![t] = @ + Interval]
    /\ UNCHANGED <<use, history>>

-----------------------------------------------------------------------------
(* Tokens and guards.                                                      *)

\* ~cancel_guard() and release_token() set the flag and let the token go.
Cancel(h) ==
    /\ hold[h] # Null
    /\ cancelled' = cancelled \cup {hold[h]}
    /\ overdue' = [t \in Timers |->
                     IF use[t] = hold[h] /\ ~Stopped(t) THEN due[t] <= 0 ELSE overdue[t]]
    /\ hold' = [hold EXCEPT ![h] = Null]
    /\ UNCHANGED <<place, use, due, made, late, elapsed>>

\* A guard is made from a token, or takes another guard's; what it held is
\* let go without being cancelled.
Move(h, g) ==
    /\ h # g
    /\ hold' = [hold EXCEPT ![h] = hold[g], ![g] = Null]
    /\ UNCHANGED <<place, use, due, made, cancelled, history>>

\* A token is a shared_ptr.
Copy(h, g) ==
    /\ h # g
    /\ hold[h] = Null
    /\ hold' = [hold EXCEPT ![h] = hold[g]]
    /\ UNCHANGED <<place, use, due, made, cancelled, history>>

Timed == {t \in Timers : place[t] \in Loop \cup Shot}

Tick ==
    /\ \A t \in Timed : due[t] > -MaxLag
    /\ due' = [t \in Timers |-> IF t \in Timed THEN due[t] - 1 ELSE due[t]]
    /\ elapsed' = [t \in Timers |->
                     IF t \in Timed THEN (elapsed[t] + 1) % Interval ELSE elapsed[t]]
    /\ UNCHANGED <<place, use, made, cancelled, hold, late, overdue>>

-----------------------------------------------------------------------------
Shoots(t) == ShotStart(t) \/ ShotWakes(t) \/ ShotDone(t)
Loops(t) ==
    LoopStart(t) \/ Test(t) \/ Wake(t) \/ Retest(t) \/ Invoke(t) \/ Again(t)
Works(t) == Shoots(t) \/ Loops(t)

TimerNext ==
    \/ \E t \in Timers : Works(t) \/ Once(t)
    \/ \E t \in Timers, h \in Holders : Periodic(t, h) \/ PeriodicShared(t, h)
    \/ \E h \in Holders : MakeToken(h) \/ Cancel(h)
    \/ \E h, g \in Holders : Move(h, g) \/ Copy(h, g)
    \/ Tick

TimerSpec == TimerInit /\ [][TimerNext]_timerVars

(***************************************************************************)
(* HPX runs the timers' threads, their callbacks return, and time passes.  *)
(***************************************************************************)
TimerFairness ==
    /\ \A t \in Timers : WF_timerVars(Works(t))
    /\ WF_timerVars(Tick)

TimerFairSpec == TimerSpec /\ TimerFairness

-----------------------------------------------------------------------------
\* CancelInv: after a cancel a timer calls back once at most, and only if the
\* callback was due before the cancel: it may be past the second look at the
\* flag and not in the callback yet, but what comes due later never begins,
\* even when slow callbacks have made several fall behind.
CancelInv ==
    \A t \in Timers :
        /\ late[t] <= 1
        /\ late[t] = 1 => overdue[t]

\* DeadlineInv: a periodic timer's deadlines are whole intervals from its
\* start, however late its callbacks are, and no callback begins before its
\* deadline.
DeadlineInv ==
    \A t \in Timers :
        /\ place[t] \in Loop => (elapsed[t] + due[t]) % Interval = 0
        /\ place[t] \in {"retest", "invoke", "running", "firing"} => due[t] <= 0

\* CancelStops: a cancel through any holder ends every timer that shares the
\* token, and one that is started with a cancelled token.
CancelStops == \A t \in Timers : Stopped(t) ~> place[t] = "done"

\* TimerServed: a periodic timer calls back again and again until it is
\* cancelled, and a one-shot timer once, whatever happens to any token.
TimerServed ==
    \A t \in Timers :
        /\ place[t] \in {"spawned", "running"} ~> place[t] = "invoke" \/ Stopped(t)
        /\ place[t] = "shot" ~> place[t] = "firing"
=============================================================================

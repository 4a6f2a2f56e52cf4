--------------------------------- MODULE Timers --------------------------------
(***************************************************************************)
(* What a tick scheduler promises: a task runs in the very tick it is due, *)
(* a periodic one again its period later, and a cancelled one never again. *)
(***************************************************************************)
EXTENDS Integers

CONSTANTS Task,      \* tasks
          Never,     \* a task that does not wait for any tick
          Interval   \* delays and periods

VARIABLES clock,   \* the current tick
          due,     \* due[t]: the tick in which t runs next
          period,  \* period[t]: 0 for a task that runs once
          ran      \* the tasks that have run in the current tick

timerVars == <<clock, due, period, ran>>

TimersInit ==
    /\ clock = 0
    /\ due = [t \in Task |-> Never]
    /\ period = [t \in Task |-> 0]
    /\ ran = {}

Schedule(t, d, p) ==
    /\ due[t] = Never
    /\ due' = [due EXCEPT ![t] = clock + d]
    /\ period' = [period EXCEPT ![t] = p]
    /\ UNCHANGED <<clock, ran>>

Run(t) ==
    /\ due[t] = clock
    /\ ran' = ran \cup {t}
    /\ due' = [due EXCEPT ![t] = IF period[t] = 0 THEN Never ELSE clock + period[t]]
    /\ UNCHANGED <<clock, period>>

Cancel(S) ==
    /\ due' = [t \in Task |-> IF t \in S THEN Never ELSE due[t]]
    /\ UNCHANGED <<clock, period, ran>>

\* A tick ends when everything that was due in it has run.
Advance ==
    /\ \A t \in Task : due[t] # Never => due[t] > clock
    /\ clock' = clock + 1
    /\ ran' = {}
    /\ UNCHANGED <<due, period>>

TimersNext ==
    \/ \E t \in Task, d \in Interval, p \in Interval \cup {0} : Schedule(t, d, p)
    \/ \E t \in Task : Run(t)
    \/ \E S \in SUBSET Task : Cancel(S)
    \/ Advance

TimersSpec == TimersInit /\ [][TimersNext]_timerVars
===============================================================================

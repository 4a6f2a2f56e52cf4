----------------------------- MODULE TickScheduler -----------------------------
(***************************************************************************)
(* network/managers/scheduler.py: the server's own scheduler.  tick() goes *)
(* through the list _tasks by position while callbacks, and during an      *)
(* awaited callback every other coroutine, may change that very list, and  *)
(* puts a list of its own in its place at the end.                         *)
(***************************************************************************)
EXTENDS Integers, Sequences, SequencesExt

CONSTANTS Task,      \* tasks, each scheduled once; a task is its id
          NoTask,    \* no task; also the due time of a task that is not waiting
          Delay,     \* delays and periods: natural numbers, 0 among them
          MaxTicks   \* bound: ticks

\* What the constants must be; the suite that instantiates this module assumes it.
TickSchedulerAssumption ==
    /\ NoTask \notin Task /\ NoTask \notin Int
    /\ Delay \subseteq Nat
    /\ MaxTicks \in Nat

VARIABLES fresh,      \* tasks not scheduled yet
          ids,        \* the keys of _task_map
          cancelled,  \* tasks whose _cancelled is set
          delay, period, elapsed,  \* fields of a task
          tasks,      \* _tasks
          position,   \* how many of _tasks the loop of tick() has taken
          remaining,  \* the list tick() builds
          running,    \* the task whose callback runs
          inTick,     \* TRUE inside tick()
          clock,      \* history: ticks so far
          ran,        \* history: tasks that were started in the last tick
          nested      \* history: a task was scheduled during a tick

fields == <<delay, period, elapsed>>
loop == <<position, remaining, running, inTick, clock, ran>>
vars == <<fresh, ids, cancelled, fields, tasks, loop, nested>>

TypeOK ==
    /\ fresh \subseteq Task /\ ids \subseteq Task \ fresh
    /\ cancelled \subseteq Task \ (fresh \cup ids)
    /\ {delay, period} \subseteq [Task -> Delay] /\ elapsed \in [Task -> Nat]
    /\ \A s \in {tasks, remaining} : s \in Seq(Task \ fresh) /\ IsInjective(s)
    /\ position \in Nat
    /\ running \in (Task \ fresh) \cup {NoTask}
    /\ inTick \in BOOLEAN
    /\ clock \in 0..MaxTicks
    /\ ran \subseteq Task \ fresh
    /\ nested \in BOOLEAN
    /\ ~inTick => position = 0 /\ remaining = <<>> /\ running = NoTask

Init ==
    /\ fresh = Task /\ ids = {} /\ cancelled = {}
    /\ delay = [t \in Task |-> 0] /\ period = [t \in Task |-> 0]
    /\ elapsed = [t \in Task |-> 0]
    /\ tasks = <<>>
    /\ position = 0 /\ remaining = <<>> /\ running = NoTask
    /\ inTick = FALSE /\ clock = 0 /\ ran = {}
    /\ nested = FALSE

AtLeastOne(n) == IF n < 1 THEN 1 ELSE n

-------------------------------------------------------------------------------
(* Operations, called between ticks, by the callback that runs or, while   *)
(* that is awaited, by another coroutine.                                  *)

CanCall == inTick => running # NoTask

\* schedule with p = 0, schedule_periodic with any p.
Schedule(t, d, p) ==
    /\ CanCall
    /\ t \in fresh
    /\ fresh' = fresh \ {t}
    /\ ids' = ids \cup {t}
    /\ delay' = [delay EXCEPT ![t] = d]
    /\ period' = [period EXCEPT ![t] = p]
    /\ tasks' = Append(tasks, t)
    /\ nested' = (nested \/ inTick)
    /\ UNCHANGED <<cancelled, elapsed, loop>>

\* The task stays in the list; the next tick that meets it drops it.
Cancel(t) ==
    /\ CanCall
    /\ t \in ids
    /\ ids' = ids \ {t}
    /\ cancelled' = cancelled \cup {t}
    /\ UNCHANGED <<fresh, fields, tasks, loop, nested>>

Clear ==
    /\ CanCall
    /\ cancelled' = cancelled \cup ToSet(tasks)
    /\ ids' = {}
    /\ tasks' = <<>>
    /\ UNCHANGED <<fresh, fields, loop, nested>>

-------------------------------------------------------------------------------
(* tick().                                                                 *)

StartTick ==
    /\ ~inTick
    /\ clock < MaxTicks
    /\ clock' = clock + 1
    /\ ran' = {}
    /\ inTick' = TRUE
    /\ UNCHANGED <<fresh, ids, cancelled, fields, tasks, position, remaining, running, nested>>

\* The next task of the loop.
Taken(t) ==
    /\ inTick /\ running = NoTask
    /\ position < Len(tasks) /\ t = tasks[position + 1]
    /\ position' = position + 1

SkipCancelled(t) ==
    /\ Taken(t)
    /\ t \in cancelled
    /\ UNCHANGED <<fresh, ids, cancelled, fields, tasks, remaining, running, inTick, clock, ran, nested>>

Reached(n, d) == n >= d

Wait(t) ==
    /\ Taken(t)
    /\ t \notin cancelled /\ ~Reached(elapsed[t] + 1, delay[t])
    /\ elapsed' = [elapsed EXCEPT ![t] = @ + 1]
    /\ remaining' = Append(remaining, t)
    /\ UNCHANGED <<fresh, ids, cancelled, delay, period, tasks, running, inTick, clock, ran, nested>>

Begin(t) ==
    /\ Taken(t)
    /\ t \notin cancelled /\ Reached(elapsed[t] + 1, delay[t])
    /\ elapsed' = [elapsed EXCEPT ![t] = @ + 1]
    /\ running' = t
    /\ ran' = ran \cup {t}
    /\ UNCHANGED <<fresh, ids, cancelled, delay, period, tasks, remaining, inTick, clock, nested>>

\* Mutant: the counter of a periodic task is not reset.
RepeatUnreset ==
    /\ running # NoTask /\ period[running] > 0
    /\ delay' = [delay EXCEPT ![running] = period[running]]
    /\ remaining' = Append(remaining, running)
    /\ running' = NoTask
    /\ UNCHANGED <<fresh, ids, cancelled, period, elapsed, tasks, position, inTick, clock, ran, nested>>

\* A periodic task stays, even one that was cancelled while its callback ran.
Repeat ==
    /\ running # NoTask /\ period[running] > 0
    /\ elapsed' = [elapsed EXCEPT ![running] = 0]
    /\ delay' = [delay EXCEPT ![running] = period[running]]
    /\ remaining' = Append(remaining, running)
    /\ running' = NoTask
    /\ UNCHANGED <<fresh, ids, cancelled, period, tasks, position, inTick, clock, ran, nested>>

Finish ==
    /\ running # NoTask /\ period[running] = 0
    /\ ids' = ids \ {running}
    /\ running' = NoTask
    /\ UNCHANGED <<fresh, cancelled, fields, tasks, position, remaining, inTick, clock, ran, nested>>

\* The loop ends where the list ends now.
EndTick ==
    /\ inTick /\ running = NoTask
    /\ position >= Len(tasks)
    /\ tasks' = remaining
    /\ position' = 0 /\ remaining' = <<>>
    /\ inTick' = FALSE
    /\ UNCHANGED <<fresh, ids, cancelled, fields, running, clock, ran, nested>>

Next ==
    \/ \E t \in Task : \/ \E d, p \in Delay : Schedule(t, d, p)
                       \/ Cancel(t) \/ SkipCancelled(t) \/ Wait(t) \/ Begin(t)
    \/ Clear \/ StartTick \/ Repeat \/ Finish \/ EndTick

Spec == Init /\ [][Next]_vars

-------------------------------------------------------------------------------
(* Properties.                                                             *)

\* The tick a task waits for; one that runs waits for its next one already.
DueTick(t) ==
    LET ahead == SubSeq(tasks, position + 1, Len(tasks))
        wait == AtLeastOne(delay[t] - elapsed[t])
    IN  IF t \in fresh \cup cancelled THEN NoTask
        ELSE IF t = running THEN IF period[t] > 0 THEN clock + period[t] ELSE NoTask
        ELSE IF Contains(ahead, t) THEN (IF inTick THEN clock - 1 ELSE clock) + wait
        ELSE IF Contains(remaining, t) THEN clock + wait
        ELSE NoTask

T == INSTANCE Timers WITH Never <- NoTask,
                          Interval <- {AtLeastOne(d) : d \in Delay},
                          due <- [t \in Task |-> DueTick(t)]

\* As long as no task has been scheduled during a tick, every task runs in
\* exactly the tick it is due, at most once a tick, unless it is cancelled, by
\* anyone and at any time.  (A task scheduled during a tick is met by the loop
\* that is under way, a tick too early.)
OnTime == T!TimersInit /\ [][nested' \/ [T!TimersNext]_T!timerVars]_vars
===============================================================================

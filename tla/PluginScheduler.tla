---------------------------- MODULE PluginScheduler ----------------------------
(***************************************************************************)
(* plugins/scheduler.py: the scheduler of plugins and mods, ticked by      *)
(* hook_server_tick in the game loop.  Callbacks are synchronous and may   *)
(* call any operation of the scheduler, so a tick is taken apart into the  *)
(* countdown, the start and the end of each callback, and its end.         *)
(***************************************************************************)
EXTENDS Integers, FiniteSets

CONSTANTS Task,      \* task ids, each used once
          Plugin,    \* plugin ids
          NoTask,    \* no task; also the due time of a task that is not waiting
          Interval,  \* interval_ticks and delay_ticks
          MaxTicks   \* bound: ticks

ASSUME SchedulerAssumption ==
    /\ Interval \subseteq Nat \ {0}   \* run_every, run_delayed raise ValueError
    /\ NoTask \notin Task /\ NoTask \notin Int
    /\ MaxTicks \in Nat

Kinds == {"repeat", "delayed", "async"}

VARIABLES live,      \* the keys of _tasks
          fresh,     \* ids _allocate_id has not given out yet
          kind, owner, interval,   \* fields of a task
          left,      \* ticks_remaining
          batch,     \* due tasks of this tick that have not been visited yet
          running,   \* the task whose callback runs
          inTick,    \* TRUE inside tick()
          clock,     \* history: ticks so far
          ran        \* history: tasks that were started in the last tick

fields == <<kind, owner, interval>>
history == <<clock, ran>>
vars == <<live, fresh, fields, left, batch, running, inTick, history>>

TypeOK ==
    /\ live \subseteq Task
    /\ fresh \subseteq Task /\ live \cap fresh = {}
    /\ kind \in [Task -> Kinds]
    /\ owner \in [Task -> Plugin \cup {NoTask}]
    /\ interval \in [Task -> Interval \cup {0}]
    /\ left \in [Task -> Int]
    /\ batch \subseteq Task \ fresh
    /\ running \in (Task \ fresh) \cup {NoTask}
    /\ inTick \in BOOLEAN
    /\ clock \in 0..MaxTicks
    /\ ran \subseteq Task \ fresh
    /\ ~inTick => batch = {} /\ running = NoTask
    /\ \A t \in Task : kind[t] = "repeat" <=> interval[t] # 0

Init ==
    /\ live = {}
    /\ fresh = Task
    /\ kind = [t \in Task |-> "delayed"]
    /\ owner = [t \in Task |-> NoTask]
    /\ interval = [t \in Task |-> 0]
    /\ left = [t \in Task |-> 0]
    /\ batch = {}
    /\ running = NoTask
    /\ inTick = FALSE
    /\ clock = 0
    /\ ran = {}

-------------------------------------------------------------------------------
(* Operations, called between ticks or by the callback that runs.          *)

CanCall == inTick => running # NoTask

Register(t, k, p, d) ==
    /\ CanCall
    /\ t \in fresh
    /\ fresh' = fresh \ {t}
    /\ live' = live \cup {t}
    /\ kind' = [kind EXCEPT ![t] = k]
    /\ owner' = [owner EXCEPT ![t] = p]
    /\ interval' = [interval EXCEPT ![t] = IF k = "repeat" THEN d ELSE 0]
    /\ left' = [left EXCEPT ![t] = d]
    /\ UNCHANGED <<batch, running, inTick, history>>

RunEvery(t, p, d) == Register(t, "repeat", p, d)

\* run_next_tick is run_delayed(1, ...).
RunDelayed(t, p, d) == Register(t, "delayed", p, d)

RunAsync(t, p) == 1 \in Interval /\ Register(t, "async", p, 1)

Drop(S) ==
    /\ CanCall
    /\ live' = live \ S
    /\ UNCHANGED <<fresh, fields, left, batch, running, inTick, history>>

Cancel(t) == t \in live /\ Drop({t})

CancelAllForPlugin(p) == Drop({t \in live : owner[t] = p})

Shutdown == Drop(live)

-------------------------------------------------------------------------------
(* tick().                                                                 *)

\* ticks_remaining <= 0.
IsDue(n) == n <= 0

\* The first loop: every counter is decremented, the due tasks are listed.
StartTick ==
    /\ ~inTick
    /\ clock < MaxTicks
    /\ clock' = clock + 1
    /\ ran' = {}
    /\ left' = [t \in Task |-> IF t \in live THEN left[t] - 1 ELSE left[t]]
    /\ batch' = {t \in live : IsDue(left[t] - 1)}
    /\ inTick' = TRUE
    /\ UNCHANGED <<live, fresh, fields, running>>

\* A due task was cancelled by a callback of this tick.
Skip(t) ==
    /\ inTick /\ running = NoTask
    /\ t \in batch \ live
    /\ batch' = batch \ {t}
    /\ UNCHANGED <<live, fresh, fields, left, running, inTick, history>>

\* Mutant: tasks cancelled since the first loop are run all the same.
StartUnchecked(t) ==
    /\ inTick /\ running = NoTask
    /\ t \in batch
    /\ kind[t] # "async"
    /\ batch' = batch \ {t}
    /\ running' = t
    /\ ran' = ran \cup {t}
    /\ UNCHANGED <<live, fresh, fields, left, inTick, clock>>

\* _execute_sync starts the callback of a repeating or delayed task.
Start(t) ==
    /\ inTick /\ running = NoTask
    /\ t \in batch \cap live
    /\ kind[t] # "async"
    /\ batch' = batch \ {t}
    /\ running' = t
    /\ ran' = ran \cup {t}
    /\ UNCHANGED <<live, fresh, fields, left, inTick, clock>>

\* _execute_async hands the coroutine to the event loop.
Launch(t) ==
    /\ inTick /\ running = NoTask
    /\ t \in batch \cap live
    /\ kind[t] = "async"
    /\ batch' = batch \ {t}
    /\ live' = live \ {t}
    /\ ran' = ran \cup {t}
    /\ UNCHANGED <<fresh, fields, left, running, inTick, clock>>

\* The callback of a repeating task is over, or has raised.
Again ==
    /\ running # NoTask /\ kind[running] = "repeat"
    /\ left' = IF running \in live THEN [left EXCEPT ![running] = interval[running]] ELSE left
    /\ running' = NoTask
    /\ UNCHANGED <<live, fresh, fields, batch, inTick, history>>

\* The same for a delayed task.
Finish ==
    /\ running # NoTask /\ kind[running] = "delayed"
    /\ live' = live \ {running}
    /\ running' = NoTask
    /\ UNCHANGED <<fresh, fields, left, batch, inTick, history>>

EndTick ==
    /\ inTick /\ running = NoTask
    /\ batch = {}
    /\ inTick' = FALSE
    /\ UNCHANGED <<live, fresh, fields, left, batch, running, history>>

Next ==
    \/ \E t \in Task, p \in Plugin :
          \/ RunAsync(t, p)
          \/ \E d \in Interval : RunEvery(t, p, d) \/ RunDelayed(t, p, d)
    \/ \E t \in Task : Cancel(t) \/ Skip(t) \/ Start(t) \/ Launch(t)
    \/ \E p \in Plugin : CancelAllForPlugin(p)
    \/ Shutdown \/ StartTick \/ Again \/ Finish \/ EndTick

Spec == Init /\ [][Next]_vars

-------------------------------------------------------------------------------
(* Properties.                                                             *)

\* The tick a task waits for.  A repeating task whose callback runs waits for
\* its next one already, a delayed one for none.
DueTick(t) ==
    IF t \notin live THEN NoTask
    ELSE IF t # running THEN clock + left[t]
    ELSE IF kind[t] = "repeat" THEN clock + interval[t] ELSE NoTask

\* Every task that has not been cancelled runs in exactly the tick it is due,
\* once, although callbacks of the same tick register and cancel tasks, each
\* other and themselves.
T == INSTANCE Timers WITH Never <- NoTask,
                          due <- [t \in Task |-> DueTick(t)],
                          period <- interval

ImplementsTimers == T!TimersSpec

\* Between ticks every live task has its next tick still before it and no
\* task that is gone is left in a batch.
NothingOverdue == ~inTick => \A t \in live : left[t] >= 1
===============================================================================

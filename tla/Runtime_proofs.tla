------------------------------ MODULE Runtime_proofs ----------------------------
(***************************************************************************)
(* Proofs about the five components of MCRuntime, for any tasks, delays,   *)
(* messages, processes and packages: the plugin scheduler and the server's *)
(* scheduler run every task in the tick it is due (both implement Timers), *)
(* the ring delivers every message whole, once and in order (it implements *)
(* Channel), a watchdog kills no process that is not silent, and packages  *)
(* are enabled after what they need and disabled before it.                *)
(***************************************************************************)
EXTENDS MCRuntime, DataTheorems, TLAPS

-------------------------------------------------------------------------------
(* PluginScheduler.                                                        *)
(*                                                                         *)
(* The counter of a task says when it is due only together with the place  *)
(* the task has in the current tick: 0 while it is in the batch or runs,   *)
(* at least 1 otherwise (Counters).                                        *)

\* A due task has counted down to exactly 0; every other live task waits.
Counters ==
    \A t \in live : IF t \in batch \/ t = running THEN left[t] = 0 ELSE left[t] >= 1

\* What runs is not still to be visited, and is a callback.
RunningApart == running \notin batch /\ (running # NoTask => kind[running] # "async")

SchedulerInv == TypeOK /\ Counters /\ RunningApart

LEMMA InitInv == Init => SchedulerInv
<1> SUFFICES ASSUME Init PROVE SchedulerInv
  OBVIOUS
<1>1. TypeOK
  <2>1. /\ kind \in [Task -> Kinds] /\ owner \in [Task -> Plugin \cup {NoTask}]
        /\ interval \in [Task -> Interval \cup {0}] /\ left \in [Task -> Int]
    BY DEF Init, Kinds
  <2>2. \A t \in Task : kind[t] = "repeat" <=> interval[t] # 0
    BY DEF Init
  <2>3. clock \in 0..MaxTicks
    BY SchedulerAssumption DEF Init
  <2> QED
    BY <2>1, <2>2, <2>3 DEF Init, TypeOK
<1>2. Counters /\ RunningApart
  BY DEF Init, Counters, RunningApart
<1> QED
  BY <1>1, <1>2 DEF SchedulerInv

\* The operations of a caller.
LEMMA RegisterInv ==
    ASSUME SchedulerInv, NEW t \in Task, NEW k \in Kinds, NEW p \in Plugin,
           NEW d \in Interval, Register(t, k, p, d)
    PROVE  SchedulerInv'
BY SchedulerAssumption
DEF Register, CanCall, SchedulerInv, TypeOK, Counters, RunningApart, Kinds, history

LEMMA DropInv ==
    ASSUME SchedulerInv, NEW S, Drop(S)
    PROVE  SchedulerInv'
BY DEF Drop, CanCall, SchedulerInv, TypeOK, Counters, RunningApart, fields, history

LEMMA NextInv == SchedulerInv /\ [Next]_vars => SchedulerInv'
<1> SUFFICES ASSUME SchedulerInv, [Next]_vars PROVE SchedulerInv'
  OBVIOUS
<1> USE SchedulerAssumption
<1>1. ASSUME NEW t \in Task, NEW p \in Plugin, RunAsync(t, p) PROVE SchedulerInv'
  BY <1>1, RegisterInv DEF RunAsync, Kinds
<1>2. ASSUME NEW t \in Task, NEW p \in Plugin, NEW d \in Interval,
             RunEvery(t, p, d) \/ RunDelayed(t, p, d)
      PROVE  SchedulerInv'
  BY <1>2, RegisterInv DEF RunEvery, RunDelayed, Kinds
<1>3. ASSUME NEW S, Drop(S) PROVE SchedulerInv'
  BY <1>3, DropInv
<1>4. ASSUME StartTick PROVE SchedulerInv'
  <2>1. running = NoTask /\ running' = NoTask
    BY <1>4 DEF StartTick, SchedulerInv, TypeOK
  <2>2. \A t \in live : left[t] >= 1 /\ left[t] \in Int /\ left'[t] = left[t] - 1
    BY <1>4, <2>1 DEF StartTick, SchedulerInv, TypeOK, Counters
  <2>3. \A t \in live : t \in batch' <=> left'[t] = 0
    BY <1>4, <2>2 DEF StartTick, IsDue
  <2>4. Counters'
    BY <1>4, <2>1, <2>2, <2>3 DEF StartTick, Counters, SchedulerInv, TypeOK
  <2>5. RunningApart'
    BY <1>4, <2>1 DEF StartTick, RunningApart, SchedulerInv, TypeOK
  <2>6. left' \in [Task -> Int] /\ clock' \in 0..MaxTicks /\ batch' \subseteq Task \ fresh
    BY <1>4 DEF StartTick, SchedulerInv, TypeOK
  <2>7. TypeOK'
    BY <1>4, <2>1, <2>6 DEF StartTick, SchedulerInv, TypeOK, fields, history
  <2> QED
    BY <2>4, <2>5, <2>7 DEF SchedulerInv
<1>5. ASSUME NEW t \in Task, Skip(t) PROVE SchedulerInv'
  BY <1>5 DEF Skip, SchedulerInv, TypeOK, Counters, RunningApart, fields, history
<1>6. ASSUME NEW t \in Task, Start(t) PROVE SchedulerInv'
  BY <1>6 DEF Start, SchedulerInv, TypeOK, Counters, RunningApart, fields, history
<1>7. ASSUME NEW t \in Task, Launch(t) PROVE SchedulerInv'
  BY <1>7 DEF Launch, SchedulerInv, TypeOK, Counters, RunningApart, fields, history
<1>8. ASSUME Again PROVE SchedulerInv'
  <2>1. running \in Task /\ interval[running] \in Nat \ {0}
    BY <1>8 DEF Again, SchedulerInv, TypeOK
  <2>2. left' \in [Task -> Int] /\ \A t \in live : t # running => left'[t] = left[t]
    BY <1>8, <2>1 DEF Again, SchedulerInv, TypeOK
  <2>3. running \in live => left'[running] = interval[running]
    BY <1>8, <2>1 DEF Again, SchedulerInv, TypeOK
  <2>4. Counters' /\ RunningApart'
    BY <1>8, <2>1, <2>2, <2>3 DEF Again, Counters, RunningApart, SchedulerInv, TypeOK
  <2>5. TypeOK'
    BY <1>8, <2>2 DEF Again, SchedulerInv, TypeOK, fields, history
  <2> QED
    BY <2>4, <2>5 DEF SchedulerInv
<1>9. ASSUME Finish PROVE SchedulerInv'
  BY <1>9 DEF Finish, SchedulerInv, TypeOK, Counters, RunningApart, fields, history
<1>10. ASSUME EndTick PROVE SchedulerInv'
  BY <1>10 DEF EndTick, SchedulerInv, TypeOK, Counters, RunningApart, fields, history
<1>11. ASSUME UNCHANGED vars PROVE SchedulerInv'
  BY <1>11 DEF vars, SchedulerInv, TypeOK, Counters, RunningApart, fields, history
<1> QED
  BY <1>1, <1>2, <1>3, <1>4, <1>5, <1>6, <1>7, <1>8, <1>9, <1>10, <1>11
  DEF Next, Cancel, CancelAllForPlugin, Shutdown

LEMMA Invariant == Spec => []SchedulerInv
BY InitInv, NextInv, PTL DEF Spec

\* Tasks, counters and the batch of a tick keep their types.
THEOREM TypeCorrect == Spec => []TypeOK
<1>1. SchedulerInv => TypeOK
  BY DEF SchedulerInv
<1> QED
  BY Invariant, <1>1, PTL

\* Between ticks no task is overdue.
THEOREM NeverOverdue == Spec => []NothingOverdue
<1>1. SchedulerInv => NothingOverdue
  BY SchedulerAssumption DEF SchedulerInv, TypeOK, Counters, NothingOverdue
<1> QED
  BY Invariant, <1>1, PTL

-------------------------------------------------------------------------------
(* The refinement: every step is one of Timers or changes nothing there.   *)

LEMMA InitMaps == Init => T!TimersInit
BY DEF Init, T!TimersInit, DueTick

LEMMA RegisterMaps ==
    ASSUME SchedulerInv, NEW t \in Task, NEW k \in Kinds, NEW p \in Plugin,
           NEW d \in Interval, Register(t, k, p, d)
    PROVE  T!TimersNext
<1> DEFINE q == IF k = "repeat" THEN d ELSE 0
<1>1. DueTick(t) = NoTask /\ t # running
  BY SchedulerAssumption DEF Register, SchedulerInv, TypeOK, DueTick
<1>2. [u \in Task |-> DueTick(u)]' = [[u \in Task |-> DueTick(u)] EXCEPT ![t] = clock + d]
  BY <1>1 DEF Register, SchedulerInv, TypeOK, DueTick, history
<1>3. interval' = [interval EXCEPT ![t] = q] /\ q \in Interval \cup {0} /\ UNCHANGED <<clock, ran>>
  BY DEF Register, history
<1>4. T!Schedule(t, d, q)
  BY <1>1, <1>2, <1>3 DEF T!Schedule
<1> QED
  BY <1>3, <1>4 DEF T!TimersNext

LEMMA DropMaps ==
    ASSUME SchedulerInv, NEW S, Drop(S)
    PROVE  T!TimersNext
<1>1. [u \in Task |-> DueTick(u)]'
          = [u \in Task |-> IF u \in S \cap Task THEN NoTask ELSE [v \in Task |-> DueTick(v)][u]]
  BY DEF Drop, DueTick, fields, history
<1>2. UNCHANGED <<clock, ran, interval>>
  BY DEF Drop, fields, history
<1>3. T!Cancel(S \cap Task)
  BY <1>1, <1>2 DEF T!Cancel
<1> QED
  BY <1>3 DEF T!TimersNext

\* A callback that starts, or a coroutine that is launched, is a run.
LEMMA RunMaps ==
    ASSUME SchedulerInv, NEW t \in Task, Start(t) \/ Launch(t)
    PROVE  T!TimersNext
<1> USE SchedulerAssumption
<1>1. t \in live /\ t # running /\ left[t] = 0 /\ clock \in Nat
  BY DEF Start, Launch, SchedulerInv, TypeOK, Counters
<1>2. DueTick(t) = clock
  BY <1>1 DEF DueTick
<1>3. DueTick(t)' = IF interval[t] = 0 THEN NoTask ELSE clock + interval[t]
  <2>1. CASE Start(t)
    BY <1>1, <2>1 DEF Start, DueTick, SchedulerInv, TypeOK, fields, history
  <2>2. CASE Launch(t)
    BY <1>1, <2>2 DEF Launch, DueTick, SchedulerInv, TypeOK, fields, history
  <2> QED
    BY <2>1, <2>2
<1>4. \A u \in Task : u # t => DueTick(u)' = DueTick(u)
  BY DEF Start, Launch, DueTick, SchedulerInv, TypeOK, fields, history
<1>5. [u \in Task |-> DueTick(u)]'
          = [[u \in Task |-> DueTick(u)] EXCEPT ![t] = IF interval[t] = 0 THEN NoTask ELSE clock + interval[t]]
  BY <1>3, <1>4
<1>6. T!Run(t)
  BY <1>2, <1>5 DEF T!Run, Start, Launch, fields, history
<1> QED
  BY <1>6 DEF T!TimersNext

LEMMA StartTickMaps ==
    ASSUME SchedulerInv, StartTick
    PROVE  T!TimersNext
<1> USE SchedulerAssumption
<1>1. running = NoTask /\ batch = {} /\ clock \in Nat
  BY DEF StartTick, SchedulerInv, TypeOK
<1>2. \A u \in Task : DueTick(u) # NoTask => DueTick(u) > clock
  BY <1>1 DEF DueTick, SchedulerInv, TypeOK, Counters
<1>3. \A u \in Task : DueTick(u)' = DueTick(u)
  BY <1>1 DEF StartTick, DueTick, SchedulerInv, TypeOK, fields, history
<1>4. [u \in Task |-> DueTick(u)]' = [u \in Task |-> DueTick(u)]
  BY <1>3
<1>5. T!Advance
  BY <1>2, <1>4 DEF T!Advance, StartTick, fields, history
<1> QED
  BY <1>5 DEF T!TimersNext

\* The steps of which Timers sees nothing.
LEMMA OtherSteps ==
    ASSUME SchedulerInv,
           \/ \E t \in Task : Skip(t)
           \/ Again \/ Finish \/ EndTick
           \/ UNCHANGED vars
    PROVE  UNCHANGED <<clock, [u \in Task |-> DueTick(u)], interval, ran>>
<1>1. \A u \in Task : DueTick(u)' = DueTick(u)
  BY SchedulerAssumption
  DEF Skip, Again, Finish, EndTick, vars, fields, history, DueTick, SchedulerInv, TypeOK
<1>2. UNCHANGED <<clock, ran, interval>>
  BY DEF Skip, Again, Finish, EndTick, vars, fields, history
<1> QED
  BY <1>1, <1>2

LEMMA NextMaps == SchedulerInv /\ [Next]_vars => [T!TimersNext]_(T!timerVars)
<1> SUFFICES ASSUME SchedulerInv, [Next]_vars PROVE [T!TimersNext]_(T!timerVars)
  OBVIOUS
<1>1. ASSUME NEW t \in Task, NEW p \in Plugin,
             \/ RunAsync(t, p)
             \/ \E d \in Interval : RunEvery(t, p, d) \/ RunDelayed(t, p, d)
      PROVE  T!TimersNext
  BY <1>1, RegisterMaps DEF RunAsync, RunEvery, RunDelayed, Kinds
<1>2. ASSUME NEW S, Drop(S) PROVE T!TimersNext
  BY <1>2, DropMaps
<1>3. CASE \/ \E t \in Task : Skip(t)
           \/ Again \/ Finish \/ EndTick
           \/ UNCHANGED vars
  BY <1>3, OtherSteps DEF T!timerVars
<1> QED
  BY <1>1, <1>2, <1>3, RunMaps, StartTickMaps
  DEF Next, Cancel, CancelAllForPlugin, Shutdown

\* Every task runs in exactly the tick it is due, unless it was cancelled.
THEOREM Refinement == Spec => ImplementsTimers
BY InitMaps, Invariant, NextMaps, PTL DEF Spec, ImplementsTimers, T!TimersSpec

-------------------------------------------------------------------------------
(* TickScheduler.                                                          *)
(*                                                                         *)
(* What the loop of tick() has still to come to, what it has kept and what *)
(* runs are never the same task, whoever changes the list meanwhile.       *)

\* The loop will come to t, in this tick or, between ticks, in the next.
Coming(t) == \E i \in sPosition + 1 .. Len(sTasks) : sTasks[i] = t

ServerType ==
    /\ sFresh \in SUBSET Task /\ sIds \in SUBSET (Task \ sFresh)
    /\ sDelay \in [Task -> Nat] /\ sPeriod \in [Task -> Nat] /\ sElapsed \in [Task -> Nat]
    /\ sTasks \in Seq(Task) /\ Distinct(sTasks)
    /\ sRemaining \in Seq(Task) /\ Distinct(sRemaining)
    /\ sPosition \in Nat /\ sClock \in Nat
    /\ sRunning \in Task \cup {NoTask}
    /\ sInTick \in BOOLEAN

OutsideTick == ~sInTick => sPosition = 0 /\ sRemaining = <<>> /\ sRunning = NoTask

FreshUnseen ==
    \A t \in sFresh : /\ ~Listed(sTasks, t) /\ ~Listed(sRemaining, t) /\ t # sRunning
                      /\ t \notin sCancelled /\ sElapsed[t] = 0

PlacesApart ==
    /\ \A t \in Task : Coming(t) => t # sRunning /\ ~Listed(sRemaining, t)
    /\ ~Listed(sRemaining, sRunning)

ServerInv == ServerType /\ OutsideTick /\ FreshUnseen /\ PlacesApart

LEMMA AheadLists ==
    ASSUME NEW S, NEW s \in Seq(S), NEW n \in Nat, NEW x
    PROVE  Server!Contains(SubSeq(s, n + 1, Len(s)), x) <=> \E i \in n + 1 .. Len(s) : s[i] = x
<1> DEFINE r == SubSeq(s, n + 1, Len(s))
<1>1. Len(s) \in Nat
  BY LenProperties
<1>2. CASE n <= Len(s)
  <2>1. Len(r) = Len(s) - n /\ \A i \in 1..Len(s) - n : r[i] = s[i + n]
    BY <1>2, PopLists
  <2> HIDE DEF r
  <2>2. ASSUME NEW i \in 1..Len(r), r[i] = x PROVE i + n \in n + 1 .. Len(s) /\ s[i + n] = x
    BY <1>1, <2>1, <2>2
  <2>3. ASSUME NEW i \in n + 1 .. Len(s), s[i] = x PROVE i - n \in 1..Len(r) /\ r[i - n] = x
    BY <1>1, <2>1, <2>3
  <2>4. Server!Contains(r, x) <=> \E i \in 1..Len(r) : r[i] = x
    BY DEF Server!Contains
  <2> QED
    BY <2>2, <2>3, <2>4 DEF r
<1>3. CASE n > Len(s)
  <2>1. \A i \in 1..Len(s) - n : FALSE
    BY <1>1, <1>3
  <2>2. r = <<>>
    BY <1>1, <1>3
  <2> HIDE DEF r
  <2>3. ~Server!Contains(r, x)
    BY <2>2, NoneListed DEF Server!Contains
  <2>4. \A i \in n + 1 .. Len(s) : FALSE
    BY <1>1, <1>3
  <2> QED
    BY <2>3, <2>4 DEF r
<1> QED
  BY <1>1, <1>2, <1>3

\* Server!DueTick, with places instead of lists.
WaitOf(t) == Server!AtLeastOne(sDelay[t] - sElapsed[t])

DueAt(t) ==
    IF t \in sFresh \cup sCancelled THEN NoTask
    ELSE IF t = sRunning THEN IF sPeriod[t] > 0 THEN sClock + sPeriod[t] ELSE NoTask
    ELSE IF Coming(t) THEN (IF sInTick THEN sClock - 1 ELSE sClock) + WaitOf(t)
    ELSE IF Listed(sRemaining, t) THEN sClock + WaitOf(t)
    ELSE NoTask

LEMMA DueIs == ServerType => \A t \in Task : Server!DueTick(t) = DueAt(t)
<1> SUFFICES ASSUME ServerType, NEW t \in Task PROVE Server!DueTick(t) = DueAt(t)
  OBVIOUS
<1>1. Server!Contains(SubSeq(sTasks, sPosition + 1, Len(sTasks)), t) <=> Coming(t)
  BY AheadLists DEF ServerType, Coming
<1>2. Server!Contains(sRemaining, t) <=> Listed(sRemaining, t)
  BY DEF Server!Contains, Listed
<1> QED
  BY <1>1, <1>2 DEF Server!DueTick, DueAt, WaitOf

LEMMA DueIsNext == ServerType' => \A t \in Task : Server!DueTick(t)' = DueAt(t)'
<1> SUFFICES ASSUME ServerType', NEW t \in Task PROVE Server!DueTick(t)' = DueAt(t)'
  OBVIOUS
<1>1. Server!Contains(SubSeq(sTasks', sPosition' + 1, Len(sTasks')), t) <=> Coming(t)'
  BY AheadLists DEF ServerType, Coming
<1>2. Server!Contains(sRemaining', t) <=> Listed(sRemaining', t)
  BY DEF Server!Contains, Listed
<1> QED
  BY <1>1, <1>2 DEF Server!DueTick, DueAt, WaitOf, Server!AtLeastOne

LEMMA ServerStart == Server!Init => ServerInv
<1> SUFFICES ASSUME Server!Init PROVE ServerInv
  OBVIOUS
<1>1. /\ sTasks = <<>> /\ sRemaining = <<>> /\ sPosition = 0 /\ sRunning = NoTask
      /\ Len(sTasks) = 0 /\ \A x : ~Listed(sTasks, x) /\ ~Listed(sRemaining, x)
  BY NoneListed DEF Server!Init
<1>2. Distinct(sTasks) /\ Distinct(sRemaining) /\ sTasks \in Seq(Task) /\ sRemaining \in Seq(Task)
  BY <1>1, NoneListed DEF Distinct
<1>3. ServerType
  <2>1. /\ sFresh = Task /\ sIds = {} /\ sClock = 0 /\ sInTick = FALSE
        /\ sDelay = [t \in Task |-> 0] /\ sPeriod = [t \in Task |-> 0]
        /\ sElapsed = [t \in Task |-> 0]
    BY DEF Server!Init
  <2> QED
    BY <1>1, <1>2, <2>1 DEF ServerType
<1>4. OutsideTick /\ FreshUnseen
  BY <1>1, ServerAssumption DEF Server!Init, OutsideTick, FreshUnseen, Server!TickSchedulerAssumption
<1>5. PlacesApart
  BY <1>1 DEF PlacesApart, Coming
<1> QED
  BY <1>3, <1>4, <1>5 DEF ServerInv

\* What the loop has still to come to.
LEMMA ComingSame ==
    ASSUME UNCHANGED <<sTasks, sPosition>>
    PROVE  \A u : Coming(u)' <=> Coming(u)
BY DEF Coming

LEMMA TakenComing ==
    ASSUME ServerInv, NEW t \in Task, Server!Taken(t), UNCHANGED sTasks
    PROVE  /\ Coming(t) /\ sInTick /\ sRunning = NoTask /\ sPosition' \in Nat
           /\ \A u : Coming(u)' <=> Coming(u) /\ u # t
<1>1. /\ sInTick /\ sRunning = NoTask /\ sPosition < Len(sTasks)
      /\ t = sTasks[sPosition + 1] /\ sPosition' = sPosition + 1
      /\ sPosition \in Nat /\ Len(sTasks) \in Nat /\ Distinct(sTasks)
  BY LenProperties DEF Server!Taken, ServerInv, ServerType
<1>2. Coming(t)
  BY <1>1 DEF Coming
<1>3. ASSUME NEW u, Coming(u), u # t PROVE Coming(u)'
  <2>1. PICK i \in sPosition + 1 .. Len(sTasks) : sTasks[i] = u
    BY <1>3 DEF Coming
  <2>2. i # sPosition + 1
    BY <1>1, <1>3, <2>1
  <2>3. i \in sPosition' + 1 .. Len(sTasks')
    BY <1>1, <2>2
  <2> QED
    BY <2>1, <2>3 DEF Coming
<1>4. ASSUME NEW u, Coming(u)' PROVE Coming(u) /\ u # t
  <2>1. PICK i \in sPosition' + 1 .. Len(sTasks') : sTasks'[i] = u
    BY <1>4 DEF Coming
  <2>2. i \in sPosition + 1 .. Len(sTasks) /\ i # sPosition + 1 /\ sTasks[i] = u
    BY <1>1, <2>1
  <2>3. sTasks[i] # sTasks[sPosition + 1]
    BY <1>1, <2>2 DEF Distinct
  <2> QED
    BY <1>1, <2>2, <2>3 DEF Coming
<1> QED
  BY <1>1, <1>2, <1>3, <1>4

\* Steps that leave the places of all tasks as they are.
LEMMA PlacesSame ==
    ASSUME ServerInv, UNCHANGED <<sTasks, sPosition, sRemaining, sRunning>>
    PROVE  /\ PlacesApart'
           /\ \A u : Listed(sRemaining', u) <=> Listed(sRemaining, u)
           /\ \A u : Listed(sTasks', u) <=> Listed(sTasks, u)
<1>1. \A u : Coming(u)' <=> Coming(u)
  BY ComingSame
<1>2. \A u : Listed(sRemaining', u) <=> Listed(sRemaining, u)
  BY DEF Listed
<1>3. \A u : Listed(sTasks', u) <=> Listed(sTasks, u)
  BY DEF Listed
<1>4. PlacesApart'
  BY <1>1, <1>2 DEF ServerInv, PlacesApart
<1> QED
  BY <1>2, <1>3, <1>4

LEMMA CancelServer ==
    ASSUME ServerInv, NEW t \in Task, Server!Cancel(t)
    PROVE  /\ ServerInv'
           /\ \A u \in Task : DueAt(u)' = IF u = t THEN NoTask ELSE DueAt(u)
<1>1. /\ t \in sIds /\ sIds' = sIds \ {t} /\ sCancelled' = sCancelled \cup {t}
      /\ UNCHANGED <<sFresh, sDelay, sPeriod, sElapsed, sTasks, sPosition, sRemaining,
                     sRunning, sInTick, sClock, sRan>>
  BY DEF Server!Cancel, Server!fields, Server!loop
<1>2. /\ PlacesApart'
      /\ \A u : Listed(sRemaining', u) <=> Listed(sRemaining, u)
      /\ \A u : Listed(sTasks', u) <=> Listed(sTasks, u)
  BY <1>1, PlacesSame
<1>3. ServerType' /\ OutsideTick'
  BY <1>1 DEF ServerInv, ServerType, OutsideTick
<1>4. t \notin sFresh
  BY <1>1 DEF ServerInv, ServerType
<1>5. FreshUnseen'
  BY <1>1, <1>2, <1>4 DEF ServerInv, FreshUnseen
<1>6. \A u : Coming(u)' <=> Coming(u)
  BY <1>1, ComingSame
<1>7. \A u \in Task : DueAt(u)' = IF u = t THEN NoTask ELSE DueAt(u)
  BY <1>1, <1>2, <1>6 DEF DueAt, WaitOf, Server!AtLeastOne
<1> QED
  BY <1>2, <1>3, <1>5, <1>7 DEF ServerInv

LEMMA ClearServer ==
    ASSUME ServerInv, Server!Clear
    PROVE  /\ ServerInv'
           /\ \A u \in Task : DueAt(u)' = IF Listed(sTasks, u) THEN NoTask ELSE DueAt(u)
<1>1. /\ sIds' = {} /\ sTasks' = <<>>
      /\ UNCHANGED <<sFresh, sDelay, sPeriod, sElapsed, sPosition, sRemaining,
                     sRunning, sInTick, sClock, sRan>>
  BY DEF Server!Clear, Server!fields, Server!loop
<1>2. \A u : u \in sCancelled' <=> u \in sCancelled \/ Listed(sTasks, u)
  <2>1. sTasks \in Seq(Task)
    BY DEF ServerInv, ServerType
  <2>2. sCancelled' = sCancelled \cup {sTasks[i] : i \in 1..Len(sTasks)}
    BY <2>1, LenProperties DEF Server!Clear, Server!ToSet
  <2> QED
    BY <2>2 DEF Listed
<1>3. Len(sTasks') = 0 /\ sTasks' \in Seq(Task) /\ Distinct(sTasks') /\ \A u : ~Listed(sTasks', u)
  BY <1>1, NoneListed DEF Distinct
<1>4. \A u : ~Coming(u)'
  <2>1. \A i \in sPosition' + 1 .. Len(sTasks') : FALSE
    BY <1>1, <1>3 DEF ServerInv, ServerType
  <2> QED
    BY <2>1 DEF Coming
<1>5. \A u : Listed(sRemaining', u) <=> Listed(sRemaining, u)
  BY <1>1 DEF Listed
<1>6. ServerType' /\ OutsideTick'
  BY <1>1, <1>3 DEF ServerInv, ServerType, OutsideTick
<1>7. FreshUnseen' /\ PlacesApart'
  BY <1>1, <1>2, <1>3, <1>4, <1>5 DEF ServerInv, FreshUnseen, PlacesApart
<1>8. \A u \in Task : Coming(u) => Listed(sTasks, u)
  BY LenProperties DEF Coming, Listed, ServerInv, ServerType
<1>9. \A u \in Task : DueAt(u)' = IF Listed(sTasks, u) THEN NoTask ELSE DueAt(u)
  BY <1>1, <1>2, <1>4, <1>5, <1>8 DEF DueAt, WaitOf, Server!AtLeastOne
<1> QED
  BY <1>6, <1>7, <1>9 DEF ServerInv

LEMMA ScheduleServer ==
    ASSUME ServerInv, NEW t \in Task, NEW d \in Delay, NEW p \in Delay, Server!Schedule(t, d, p)
    PROVE  /\ ServerInv'
           /\ ~sInTick => /\ DueAt(t) = NoTask
                          /\ \A u \in Task : DueAt(u)' = IF u = t THEN sClock + Server!AtLeastOne(d)
                                                         ELSE DueAt(u)
<1>0. d \in Nat /\ p \in Nat
  BY ServerAssumption DEF Server!TickSchedulerAssumption
<1>1. /\ t \in sFresh /\ sFresh' = sFresh \ {t} /\ sIds' = sIds \cup {t}
      /\ sDelay' = [sDelay EXCEPT ![t] = d] /\ sPeriod' = [sPeriod EXCEPT ![t] = p]
      /\ sTasks' = Append(sTasks, t)
      /\ UNCHANGED <<sCancelled, sElapsed, sPosition, sRemaining, sRunning, sInTick, sClock, sRan>>
  BY DEF Server!Schedule, Server!loop
<1>2. /\ sTasks \in Seq(Task) /\ Distinct(sTasks) /\ Len(sTasks) \in Nat /\ sPosition \in Nat
      /\ sDelay \in [Task -> Nat] /\ sPeriod \in [Task -> Nat] /\ sElapsed \in [Task -> Nat]
  BY LenProperties DEF ServerInv, ServerType
<1>3. /\ ~Listed(sTasks, t) /\ ~Listed(sRemaining, t) /\ t # sRunning
      /\ t \notin sCancelled /\ sElapsed[t] = 0
  BY <1>1 DEF ServerInv, FreshUnseen
<1>4. /\ sTasks' \in Seq(Task) /\ Distinct(sTasks') /\ Len(sTasks') = Len(sTasks) + 1
      /\ \A u : Listed(sTasks', u) <=> Listed(sTasks, u) \/ u = t
  BY <1>1, <1>2, <1>3, AppendKey
<1>5. /\ \A i \in 1..Len(sTasks) : sTasks'[i] = sTasks[i]
      /\ sTasks'[Len(sTasks) + 1] = t
  BY <1>1, <1>2, AppendLists
<1>6. \A u : Listed(sRemaining', u) <=> Listed(sRemaining, u)
  BY <1>1 DEF Listed
<1>7. ASSUME NEW u, u # t PROVE Coming(u)' <=> Coming(u)
  <2>1. ASSUME NEW i \in sPosition + 1 .. Len(sTasks) PROVE i \in sPosition' + 1 .. Len(sTasks') /\ sTasks'[i] = sTasks[i]
    BY <1>1, <1>2, <1>4, <1>5
  <2>2. ASSUME NEW i \in sPosition' + 1 .. Len(sTasks'), sTasks'[i] = u
        PROVE  i \in sPosition + 1 .. Len(sTasks)
    BY <1>1, <1>2, <1>4, <1>5, <1>7, <2>2
  <2> QED
    BY <2>1, <2>2 DEF Coming
<1>8. ServerType'
  BY <1>0, <1>1, <1>2, <1>4 DEF ServerInv, ServerType
<1>9. OutsideTick' /\ FreshUnseen'
  BY <1>1, <1>4, <1>6 DEF ServerInv, OutsideTick, FreshUnseen
<1>10. PlacesApart'
  BY <1>1, <1>3, <1>6, <1>7 DEF ServerInv, PlacesApart
<1>11. ASSUME ~sInTick
       PROVE  /\ DueAt(t) = NoTask
              /\ \A u \in Task : DueAt(u)' = IF u = t THEN sClock + Server!AtLeastOne(d)
                                             ELSE DueAt(u)
  <2>1. DueAt(t) = NoTask
    BY <1>1 DEF DueAt
  <2>2. Coming(t)'
    BY <1>1, <1>2, <1>4, <1>5, <1>11 DEF Coming, ServerInv, OutsideTick
  <2>3. sDelay'[t] = d /\ sElapsed'[t] = 0 /\ d - 0 = d
    BY <1>0, <1>1, <1>2, <1>3
  <2>4. DueAt(t)' = sClock + Server!AtLeastOne(d)
    BY <1>1, <1>3, <1>11, <2>2, <2>3 DEF DueAt, WaitOf, Server!AtLeastOne
  <2>5. ASSUME NEW u \in Task, u # t PROVE DueAt(u)' = DueAt(u)
    <3>1. sDelay'[u] = sDelay[u] /\ sPeriod'[u] = sPeriod[u] /\ sElapsed'[u] = sElapsed[u]
      BY <1>1, <1>2, <2>5
    <3>2. u \in sFresh' \cup sCancelled' <=> u \in sFresh \cup sCancelled
      BY <1>1, <2>5
    <3>3. Coming(u)' <=> Coming(u)
      BY <1>7, <2>5
    <3> QED
      BY <1>1, <1>6, <3>1, <3>2, <3>3 DEF DueAt, WaitOf, Server!AtLeastOne
  <2> QED
    BY <2>1, <2>4, <2>5
<1> QED
  BY <1>8, <1>9, <1>10, <1>11 DEF ServerInv

LEMMA StartTickServer ==
    ASSUME ServerInv, Server!StartTick
    PROVE  /\ ServerInv'
           /\ \A u \in Task : DueAt(u)' = DueAt(u)
           /\ \A u \in Task : DueAt(u) # NoTask => DueAt(u) > sClock
<1>1. /\ ~sInTick /\ sClock' = sClock + 1 /\ sInTick' = TRUE
      /\ UNCHANGED <<sFresh, sIds, sCancelled, sDelay, sPeriod, sElapsed, sTasks, sPosition,
                     sRemaining, sRunning>>
  BY DEF Server!StartTick, Server!fields
<1>2. /\ PlacesApart'
      /\ \A u : Listed(sRemaining', u) <=> Listed(sRemaining, u)
      /\ \A u : Listed(sTasks', u) <=> Listed(sTasks, u)
  BY <1>1, PlacesSame
<1>3. ServerType' /\ OutsideTick'
  BY <1>1 DEF ServerInv, ServerType, OutsideTick
<1>5. FreshUnseen'
  BY <1>1, <1>2 DEF ServerInv, FreshUnseen
<1>6. \A u : Coming(u)' <=> Coming(u)
  BY <1>1, ComingSame
<1>7. sRunning = NoTask /\ (\A u : ~Listed(sRemaining, u)) /\ sClock \in Nat
  BY <1>1, NoneListed DEF ServerInv, ServerType, OutsideTick
<1>8. \A u \in Task : DueAt(u)' = DueAt(u)
  BY <1>1, <1>2, <1>6, <1>7, ServerAssumption
  DEF DueAt, WaitOf, Server!AtLeastOne, Server!TickSchedulerAssumption
<1>9. ASSUME NEW u \in Task, DueAt(u) # NoTask PROVE DueAt(u) > sClock
  <2>1. DueAt(u) = sClock + WaitOf(u)
    BY <1>1, <1>7, <1>9, ServerAssumption DEF DueAt, Server!TickSchedulerAssumption
  <2>2. WaitOf(u) \in Nat /\ WaitOf(u) >= 1
    BY DEF WaitOf, Server!AtLeastOne, ServerInv, ServerType
  <2> QED
    BY <1>7, <2>1, <2>2
<1> QED
  BY <1>2, <1>3, <1>5, <1>8, <1>9 DEF ServerInv

LEMMA SkipServer ==
    ASSUME ServerInv, NEW t \in Task, Server!SkipCancelled(t)
    PROVE  ServerInv' /\ \A u \in Task : DueAt(u)' = DueAt(u)
<1>1. /\ Server!Taken(t) /\ t \in sCancelled
      /\ UNCHANGED <<sFresh, sIds, sCancelled, sDelay, sPeriod, sElapsed, sTasks, sRemaining,
                     sRunning, sInTick, sClock, sRan>>
  BY DEF Server!SkipCancelled, Server!fields
<1>2. /\ sInTick /\ sPosition' \in Nat /\ \A u : Coming(u)' <=> Coming(u) /\ u # t
  BY <1>1, TakenComing
<1>3. /\ \A u : Listed(sRemaining', u) <=> Listed(sRemaining, u)
      /\ \A u : Listed(sTasks', u) <=> Listed(sTasks, u)
  BY <1>1 DEF Listed
<1>4. ServerType' /\ OutsideTick'
  BY <1>1, <1>2 DEF ServerInv, ServerType, OutsideTick
<1>5. FreshUnseen' /\ PlacesApart'
  BY <1>1, <1>2, <1>3 DEF ServerInv, FreshUnseen, PlacesApart
<1>6. \A u \in Task : DueAt(u)' = DueAt(u)
  BY <1>1, <1>2, <1>3 DEF DueAt, WaitOf, Server!AtLeastOne
<1> QED
  BY <1>4, <1>5, <1>6 DEF ServerInv

\* A task joins those that remain.
LEMMA RemainMore ==
    ASSUME ServerInv, NEW t \in Task, ~Listed(sRemaining, t), sRemaining' = Append(sRemaining, t)
    PROVE  /\ sRemaining' \in Seq(Task) /\ Distinct(sRemaining')
           /\ \A u : Listed(sRemaining', u) <=> Listed(sRemaining, u) \/ u = t
<1>1. sRemaining \in Seq(Task) /\ Distinct(sRemaining)
  BY DEF ServerInv, ServerType
<1> QED
  BY <1>1, AppendKey

LEMMA ComingListed ==
    ASSUME ServerInv, NEW t, Coming(t)
    PROVE  Listed(sTasks, t)
<1>1. PICK i \in sPosition + 1 .. Len(sTasks) : sTasks[i] = t
  BY DEF Coming
<1>2. i \in 1..Len(sTasks)
  BY <1>1, LenProperties DEF ServerInv, ServerType
<1> QED
  BY <1>1, <1>2 DEF Listed

LEMMA WaitServer ==
    ASSUME ServerInv, NEW t \in Task, Server!Wait(t)
    PROVE  ServerInv' /\ \A u \in Task : DueAt(u)' = DueAt(u)
<1>1. /\ Server!Taken(t) /\ t \notin sCancelled /\ ~(sElapsed[t] + 1 >= sDelay[t])
      /\ sElapsed' = [sElapsed EXCEPT ![t] = @ + 1]
      /\ sRemaining' = Append(sRemaining, t)
      /\ UNCHANGED <<sFresh, sIds, sCancelled, sDelay, sPeriod, sTasks,
                     sRunning, sInTick, sClock, sRan>>
  BY DEF Server!Wait, Server!Reached
<1>2. /\ Coming(t) /\ sInTick /\ sRunning = NoTask /\ sPosition' \in Nat
      /\ \A u : Coming(u)' <=> Coming(u) /\ u # t
  BY <1>1, TakenComing
<1>3. sElapsed \in [Task -> Nat] /\ sDelay \in [Task -> Nat] /\ sClock \in Nat
  BY DEF ServerInv, ServerType
<1>4. ~Listed(sRemaining, t) /\ t # sRunning
  BY <1>2 DEF ServerInv, PlacesApart
<1>5. /\ sRemaining' \in Seq(Task) /\ Distinct(sRemaining')
      /\ \A u : Listed(sRemaining', u) <=> Listed(sRemaining, u) \/ u = t
  BY <1>1, <1>4, RemainMore
<1>6. \A u : Listed(sTasks', u) <=> Listed(sTasks, u)
  BY <1>1 DEF Listed
<1>7. t \notin sFresh
  <2>1. Listed(sTasks, t)
    BY <1>2, ComingListed
  <2> QED
    BY <2>1 DEF ServerInv, FreshUnseen
<1>8. sElapsed' \in [Task -> Nat] /\ sElapsed'[t] = sElapsed[t] + 1
      /\ \A u \in Task \ {t} : sElapsed'[u] = sElapsed[u]
  BY <1>1, <1>3
<1>9. ServerType' /\ OutsideTick'
  BY <1>1, <1>2, <1>5, <1>8 DEF ServerInv, ServerType, OutsideTick
<1>10. FreshUnseen'
  <2>1. \A u \in sFresh : u \in Task \ {t}
    BY <1>7 DEF ServerInv, ServerType
  <2> QED
    BY <1>1, <1>5, <1>6, <1>8, <2>1 DEF ServerInv, FreshUnseen
<1>11. PlacesApart'
  BY <1>1, <1>2, <1>4, <1>5 DEF ServerInv, PlacesApart
<1>12. DueAt(t)' = DueAt(t)
  <2>1. DueAt(t) = sClock - 1 + WaitOf(t)
    BY <1>1, <1>2, <1>4, <1>7 DEF DueAt
  <2>2. DueAt(t)' = sClock' + WaitOf(t)'
    BY <1>1, <1>2, <1>4, <1>5, <1>7 DEF DueAt
  <2>3. WaitOf(t) = sDelay[t] - sElapsed[t]
    BY <1>1, <1>3 DEF WaitOf, Server!AtLeastOne
  <2>4. WaitOf(t)' = sDelay[t] - sElapsed[t] - 1
    BY <1>1, <1>3, <1>8 DEF WaitOf, Server!AtLeastOne
  <2>5. sDelay[t] \in Nat /\ sElapsed[t] \in Nat /\ sClock' = sClock
    BY <1>1, <1>3
  <2>6. DueAt(t)' = sClock + (sDelay[t] - sElapsed[t] - 1) /\ DueAt(t) = sClock - 1 + (sDelay[t] - sElapsed[t])
    BY <2>1, <2>2, <2>3, <2>4, <2>5
  <2> QED
    BY <1>3, <2>5, <2>6
<1>13. ASSUME NEW u \in Task, u # t PROVE DueAt(u)' = DueAt(u)
  BY <1>1, <1>2, <1>5, <1>8, <1>13 DEF DueAt, WaitOf, Server!AtLeastOne
<1> QED
  BY <1>9, <1>10, <1>11, <1>12, <1>13 DEF ServerInv

LEMMA BeginServer ==
    ASSUME ServerInv, NEW t \in Task, Server!Begin(t)
    PROVE  /\ ServerInv' /\ DueAt(t) = sClock
           /\ \A u \in Task : DueAt(u)' = IF u = t
                                          THEN IF sPeriod[t] = 0 THEN NoTask ELSE sClock + sPeriod[t]
                                          ELSE DueAt(u)
<1>1. /\ Server!Taken(t) /\ t \notin sCancelled /\ sElapsed[t] + 1 >= sDelay[t]
      /\ sElapsed' = [sElapsed EXCEPT ![t] = @ + 1] /\ sRunning' = t
      /\ UNCHANGED <<sFresh, sIds, sCancelled, sDelay, sPeriod, sTasks, sRemaining, sInTick, sClock>>
  BY DEF Server!Begin, Server!Reached
<1>2. /\ Coming(t) /\ sInTick /\ sRunning = NoTask /\ sPosition' \in Nat
      /\ \A u : Coming(u)' <=> Coming(u) /\ u # t
  BY <1>1, TakenComing
<1>3. /\ sElapsed \in [Task -> Nat] /\ sDelay \in [Task -> Nat] /\ sPeriod \in [Task -> Nat]
      /\ sClock \in Nat
  BY DEF ServerInv, ServerType
<1>4. ~Listed(sRemaining, t) /\ t # sRunning
  BY <1>2 DEF ServerInv, PlacesApart
<1>5. /\ \A u : Listed(sRemaining', u) <=> Listed(sRemaining, u)
      /\ \A u : Listed(sTasks', u) <=> Listed(sTasks, u)
  BY <1>1 DEF Listed
<1>6. t \notin sFresh
  <2>1. Listed(sTasks, t)
    BY <1>2, ComingListed
  <2> QED
    BY <2>1 DEF ServerInv, FreshUnseen
<1>7. sElapsed' \in [Task -> Nat] /\ \A u \in Task \ {t} : sElapsed'[u] = sElapsed[u]
  BY <1>1, <1>3
<1>8. ServerType' /\ OutsideTick'
  BY <1>1, <1>2, <1>7 DEF ServerInv, ServerType, OutsideTick
<1>9. FreshUnseen'
  <2>1. \A u \in sFresh : u \in Task \ {t}
    BY <1>6 DEF ServerInv, ServerType
  <2> QED
    BY <1>1, <1>5, <1>7, <2>1 DEF ServerInv, FreshUnseen
<1>10. PlacesApart'
  BY <1>1, <1>2, <1>4, <1>5 DEF ServerInv, PlacesApart
<1>11. DueAt(t) = sClock
  <2>1. DueAt(t) = sClock - 1 + WaitOf(t)
    BY <1>1, <1>2, <1>4, <1>6 DEF DueAt
  <2>2. WaitOf(t) = 1
    BY <1>1, <1>3 DEF WaitOf, Server!AtLeastOne
  <2> QED
    BY <1>3, <2>1, <2>2
<1>12. DueAt(t)' = IF sPeriod[t] = 0 THEN NoTask ELSE sClock + sPeriod[t]
  BY <1>1, <1>3, <1>6 DEF DueAt
<1>13. ASSUME NEW u \in Task, u # t PROVE DueAt(u)' = DueAt(u)
  <2>1. u # sRunning /\ u # sRunning'
    BY <1>1, <1>2, <1>13, ServerAssumption DEF Server!TickSchedulerAssumption
  <2> QED
    BY <1>1, <1>2, <1>5, <1>7, <1>13, <2>1 DEF DueAt, WaitOf, Server!AtLeastOne
<1> QED
  BY <1>8, <1>9, <1>10, <1>11, <1>12, <1>13 DEF ServerInv

LEMMA RepeatServer ==
    ASSUME ServerInv, NEW t \in Task, t = sRunning, Server!Repeat
    PROVE  ServerInv' /\ \A u \in Task : DueAt(u)' = DueAt(u)
<1>1. /\ t # NoTask /\ sPeriod[t] > 0
      /\ sElapsed' = [sElapsed EXCEPT ![t] = 0] /\ sDelay' = [sDelay EXCEPT ![t] = sPeriod[t]]
      /\ sRemaining' = Append(sRemaining, t) /\ sRunning' = NoTask
      /\ UNCHANGED <<sFresh, sIds, sCancelled, sPeriod, sTasks, sPosition, sInTick, sClock>>
  BY DEF Server!Repeat
<1>2. /\ t \in Task /\ sInTick /\ ~Listed(sRemaining, t) /\ ~Coming(t)
      /\ sElapsed \in [Task -> Nat] /\ sDelay \in [Task -> Nat] /\ sPeriod \in [Task -> Nat]
      /\ sClock \in Nat
  BY <1>1 DEF ServerInv, ServerType, OutsideTick, PlacesApart
<1>3. /\ sRemaining' \in Seq(Task) /\ Distinct(sRemaining')
      /\ \A u : Listed(sRemaining', u) <=> Listed(sRemaining, u) \/ u = t
  BY <1>1, <1>2, RemainMore
<1>4. /\ \A u : Listed(sTasks', u) <=> Listed(sTasks, u)
      /\ \A u : Coming(u)' <=> Coming(u)
  BY <1>1, ComingSame DEF Listed
<1>5. t \notin sFresh
  BY <1>2 DEF ServerInv, FreshUnseen
<1>6. /\ sElapsed' \in [Task -> Nat] /\ sDelay' \in [Task -> Nat]
      /\ sElapsed'[t] = 0 /\ sDelay'[t] = sPeriod[t] /\ sPeriod[t] \in Nat
      /\ \A u \in Task \ {t} : sElapsed'[u] = sElapsed[u] /\ sDelay'[u] = sDelay[u]
  BY <1>1, <1>2
<1>7. \A u \in Task : u # NoTask
  BY ServerAssumption DEF Server!TickSchedulerAssumption
<1>8. \A u : Listed(sRemaining', u) => u \in Task
  BY <1>3, ListedIn
<1>9. ServerType' /\ OutsideTick'
  BY <1>1, <1>2, <1>3, <1>6 DEF ServerInv, ServerType, OutsideTick
<1>10. FreshUnseen'
  <2>1. \A u \in sFresh : u \in Task \ {t}
    BY <1>5 DEF ServerInv, ServerType
  <2> QED
    BY <1>1, <1>3, <1>4, <1>6, <1>7, <2>1 DEF ServerInv, FreshUnseen
<1>11. PlacesApart'
  <2>1. \A u \in Task : Coming(u) => u # t /\ ~Listed(sRemaining, u)
    BY <1>2 DEF ServerInv, PlacesApart
  <2>2. ~Listed(sRemaining', NoTask)
    BY <1>7, <1>8
  <2> QED
    BY <1>1, <1>3, <1>4, <1>7, <2>1, <2>2 DEF PlacesApart
<1>12. DueAt(t)' = DueAt(t)
  <2>1. CASE t \in sCancelled
    BY <1>1, <2>1 DEF DueAt
  <2>2. CASE t \notin sCancelled
    <3>1. DueAt(t) = sClock + sPeriod[t]
      BY <1>1, <1>5, <2>2 DEF DueAt
    <3>2. DueAt(t)' = sClock + WaitOf(t)'
      BY <1>1, <1>2, <1>3, <1>4, <1>5, <2>2 DEF DueAt
    <3>3. WaitOf(t)' = sPeriod[t]
      BY <1>1, <1>6 DEF WaitOf, Server!AtLeastOne
    <3> QED
      BY <3>1, <3>2, <3>3
  <2> QED
    BY <2>1, <2>2
<1>13. ASSUME NEW u \in Task, u # t PROVE DueAt(u)' = DueAt(u)
  <2>1. u # sRunning /\ u # sRunning'
    BY <1>1, <1>7, <1>13
  <2>2. sElapsed'[u] = sElapsed[u] /\ sDelay'[u] = sDelay[u]
    BY <1>6, <1>13
  <2>3. (Listed(sRemaining', u) <=> Listed(sRemaining, u)) /\ (Coming(u)' <=> Coming(u))
    BY <1>3, <1>4, <1>13
  <2> QED
    BY <1>1, <2>1, <2>2, <2>3 DEF DueAt, WaitOf, Server!AtLeastOne
<1> QED
  BY <1>9, <1>10, <1>11, <1>12, <1>13 DEF ServerInv

LEMMA FinishServer ==
    ASSUME ServerInv, Server!Finish
    PROVE  ServerInv' /\ \A u \in Task : DueAt(u)' = DueAt(u)
<1>1. /\ sRunning # NoTask /\ sPeriod[sRunning] = 0 /\ sIds' = sIds \ {sRunning}
      /\ sRunning' = NoTask
      /\ UNCHANGED <<sFresh, sCancelled, sDelay, sPeriod, sElapsed, sTasks, sPosition, sRemaining,
                     sInTick, sClock>>
  BY DEF Server!Finish, Server!fields
<1>2. sRunning \in Task /\ sInTick /\ ~Listed(sRemaining, sRunning) /\ ~Coming(sRunning)
  BY <1>1 DEF ServerInv, ServerType, OutsideTick, PlacesApart
<1>3. /\ \A u : Listed(sTasks', u) <=> Listed(sTasks, u)
      /\ \A u : Listed(sRemaining', u) <=> Listed(sRemaining, u)
      /\ \A u : Coming(u)' <=> Coming(u)
  BY <1>1, ComingSame DEF Listed
<1>4. \A u \in Task : u # NoTask
  BY ServerAssumption DEF Server!TickSchedulerAssumption
<1>5. \A u : Listed(sRemaining, u) => u \in Task
  BY ListedIn DEF ServerInv, ServerType
<1>6. ServerType' /\ OutsideTick'
  BY <1>1, <1>2 DEF ServerInv, ServerType, OutsideTick
<1>7. FreshUnseen'
  BY <1>1, <1>3, <1>4 DEF ServerInv, ServerType, FreshUnseen
<1>8. PlacesApart'
  BY <1>1, <1>3, <1>4, <1>5 DEF ServerInv, PlacesApart
<1>9. ASSUME NEW u \in Task PROVE DueAt(u)' = DueAt(u)
  BY <1>1, <1>2, <1>3, <1>4 DEF DueAt, WaitOf, Server!AtLeastOne
<1> QED
  BY <1>6, <1>7, <1>8, <1>9 DEF ServerInv

LEMMA EndTickServer ==
    ASSUME ServerInv, Server!EndTick
    PROVE  ServerInv' /\ \A u \in Task : DueAt(u)' = DueAt(u)
<1>1. /\ sInTick /\ sRunning = NoTask /\ sPosition >= Len(sTasks)
      /\ sTasks' = sRemaining /\ sPosition' = 0 /\ sRemaining' = <<>> /\ sInTick' = FALSE
      /\ UNCHANGED <<sFresh, sIds, sCancelled, sDelay, sPeriod, sElapsed, sRunning, sClock>>
  BY DEF Server!EndTick, Server!fields
<1>2. sPosition \in Nat /\ Len(sTasks) \in Nat /\ sClock \in Nat
  BY LenProperties DEF ServerInv, ServerType
<1>3. \A u : ~Coming(u)
  BY <1>1, <1>2 DEF Coming
<1>4. \A u : Coming(u)' <=> Listed(sRemaining, u)
  BY <1>1 DEF Coming, Listed
<1>5. /\ \A u : ~Listed(sRemaining', u) 
      /\ \A u : Listed(sTasks', u) <=> Listed(sRemaining, u)
      /\ sRemaining' \in Seq(Task) /\ Distinct(sRemaining')
  <2>1. Len(sRemaining') = 0 /\ sRemaining' \in Seq(Task)
    BY <1>1, NoneListed
  <2> QED
    BY <1>1, <2>1 DEF Listed, Distinct
<1>6. \A u \in Task : u # NoTask
  BY ServerAssumption DEF Server!TickSchedulerAssumption
<1>7. ServerType' /\ OutsideTick'
  BY <1>1, <1>5 DEF ServerInv, ServerType, OutsideTick
<1>8. FreshUnseen' /\ PlacesApart'
  BY <1>1, <1>4, <1>5, <1>6 DEF ServerInv, ServerType, FreshUnseen, PlacesApart
<1>9. ASSUME NEW u \in Task PROVE DueAt(u)' = DueAt(u)
  BY <1>1, <1>2, <1>3, <1>4, <1>5, <1>6 DEF DueAt, WaitOf, Server!AtLeastOne
<1> QED
  BY <1>7, <1>8, <1>9 DEF ServerInv

(* The refinement. *)

DueNow == [t \in Task |-> Server!DueTick(t)]

LEMMA ServerMaps ==
    ASSUME ServerInv, [Server!Next]_(Server!vars)
    PROVE  /\ ServerInv'
           /\ sNested' \/ [Server!T!TimersNext]_(Server!T!timerVars)
<1>1. DueNow = [t \in Task |-> DueAt(t)]
  BY DueIs DEF DueNow, ServerInv
<1>2. ServerInv' => DueNow' = [t \in Task |-> DueAt(t)']
  BY DueIsNext DEF DueNow, ServerInv
<1>3. ASSUME ServerInv', \A u \in Task : DueAt(u)' = DueAt(u), UNCHANGED <<sClock, sPeriod, sRan>>
      PROVE  UNCHANGED Server!T!timerVars
  <2>1. DueNow' = DueNow
    BY <1>1, <1>2, <1>3
  <2> QED
    BY <1>3, <2>1 DEF Server!T!timerVars, DueNow
<1>4. ASSUME NEW t \in Task, NEW d \in Delay, NEW p \in Delay, Server!Schedule(t, d, p)
      PROVE  ServerInv' /\ (sNested' \/ Server!T!TimersNext)
  <2>1. ServerInv'
    BY <1>4, ScheduleServer
  <2>2. ASSUME ~sNested' PROVE Server!T!TimersNext
    <3>1. ~sInTick
      BY <1>4, <2>2 DEF Server!Schedule
    <3>2. /\ DueAt(t) = NoTask
          /\ \A u \in Task : DueAt(u)' = IF u = t THEN sClock + Server!AtLeastOne(d) ELSE DueAt(u)
      BY <1>4, <3>1, ScheduleServer
    <3>3. DueNow[t] = NoTask /\ DueNow' = [DueNow EXCEPT ![t] = sClock + Server!AtLeastOne(d)]
      BY <1>1, <1>2, <2>1, <3>2
    <3>4. sPeriod' = [sPeriod EXCEPT ![t] = p] /\ UNCHANGED <<sClock, sRan>>
      BY <1>4 DEF Server!Schedule, Server!loop
    <3>5. Server!T!Schedule(t, Server!AtLeastOne(d), p)
      BY <3>3, <3>4 DEF Server!T!Schedule, DueNow
    <3>6. p \in {Server!AtLeastOne(e) : e \in Delay} \cup {0}
      BY ServerAssumption DEF Server!TickSchedulerAssumption, Server!AtLeastOne
    <3> QED
      BY <3>5, <3>6 DEF Server!T!TimersNext
  <2> QED
    BY <2>1, <2>2
<1>5. ASSUME NEW t \in Task, Server!Cancel(t) PROVE ServerInv' /\ Server!T!TimersNext
  <2>1. ServerInv' /\ \A u \in Task : DueAt(u)' = IF u = t THEN NoTask ELSE DueAt(u)
    BY <1>5, CancelServer
  <2>2. DueNow' = [u \in Task |-> IF u \in {t} THEN NoTask ELSE DueNow[u]]
    BY <1>1, <1>2, <2>1
  <2>3. UNCHANGED <<sClock, sPeriod, sRan>>
    BY <1>5 DEF Server!Cancel, Server!fields, Server!loop
  <2>4. Server!T!Cancel({t})
    BY <2>2, <2>3 DEF Server!T!Cancel, DueNow
  <2> QED
    BY <2>1, <2>4 DEF Server!T!TimersNext
<1>6. ASSUME Server!Clear PROVE ServerInv' /\ Server!T!TimersNext
  <2> DEFINE S == {u \in Task : Listed(sTasks, u)}
  <2>1. ServerInv' /\ \A u \in Task : DueAt(u)' = IF Listed(sTasks, u) THEN NoTask ELSE DueAt(u)
    BY <1>6, ClearServer
  <2>2. DueNow' = [u \in Task |-> IF u \in S THEN NoTask ELSE DueNow[u]]
    BY <1>1, <1>2, <2>1
  <2>3. UNCHANGED <<sClock, sPeriod, sRan>>
    BY <1>6 DEF Server!Clear, Server!fields, Server!loop
  <2>4. Server!T!Cancel(S)
    BY <2>2, <2>3 DEF Server!T!Cancel, DueNow
  <2> QED
    BY <2>1, <2>4 DEF Server!T!TimersNext
<1>7. ASSUME Server!StartTick PROVE ServerInv' /\ Server!T!TimersNext
  <2>1. /\ ServerInv' /\ \A u \in Task : DueAt(u)' = DueAt(u)
        /\ \A u \in Task : DueAt(u) # NoTask => DueAt(u) > sClock
    BY <1>7, StartTickServer
  <2>2. DueNow' = DueNow /\ \A u \in Task : DueNow[u] # NoTask => DueNow[u] > sClock
    BY <1>1, <1>2, <2>1
  <2>3. sClock' = sClock + 1 /\ sRan' = {} /\ sPeriod' = sPeriod
    BY <1>7 DEF Server!StartTick, Server!fields
  <2>4. Server!T!Advance
    BY <2>2, <2>3 DEF Server!T!Advance, DueNow
  <2> QED
    BY <2>1, <2>4 DEF Server!T!TimersNext
<1>8. ASSUME NEW t \in Task, Server!Begin(t) PROVE ServerInv' /\ Server!T!TimersNext
  <2>1. /\ ServerInv' /\ DueAt(t) = sClock
        /\ \A u \in Task : DueAt(u)' = IF u = t
                                       THEN IF sPeriod[t] = 0 THEN NoTask ELSE sClock + sPeriod[t]
                                       ELSE DueAt(u)
    BY <1>8, BeginServer
  <2>2. /\ DueNow[t] = sClock
        /\ DueNow' = [DueNow EXCEPT ![t] = IF sPeriod[t] = 0 THEN NoTask ELSE sClock + sPeriod[t]]
    BY <1>1, <1>2, <2>1
  <2>3. sRan' = sRan \cup {t} /\ UNCHANGED <<sClock, sPeriod>>
    BY <1>8 DEF Server!Begin
  <2>4. Server!T!Run(t)
    BY <2>2, <2>3 DEF Server!T!Run, DueNow
  <2> QED
    BY <2>1, <2>4 DEF Server!T!TimersNext
<1>9. ASSUME \/ \E t \in Task : Server!SkipCancelled(t) \/ Server!Wait(t)
             \/ Server!Repeat \/ Server!Finish \/ Server!EndTick
      PROVE  ServerInv' /\ UNCHANGED Server!T!timerVars
  <2>1. ServerInv' /\ \A u \in Task : DueAt(u)' = DueAt(u)
    <3>1. CASE Server!Repeat
      <4>1. sRunning \in Task
        BY <3>1 DEF Server!Repeat, ServerInv, ServerType
      <4>2. PICK t \in Task : t = sRunning
        BY <4>1
      <4> QED
        BY <3>1, <4>2, RepeatServer
    <3> QED
      BY <1>9, <3>1, SkipServer, WaitServer, FinishServer, EndTickServer
  <2>2. UNCHANGED <<sClock, sPeriod, sRan>>
    BY <1>9 DEF Server!SkipCancelled, Server!Wait, Server!Repeat, Server!Finish, Server!EndTick, Server!fields
  <2> QED
    BY <1>3, <2>1, <2>2
<1>10. ASSUME UNCHANGED Server!vars PROVE ServerInv' /\ UNCHANGED Server!T!timerVars
  <2>1. UNCHANGED <<sFresh, sIds, sCancelled, sDelay, sPeriod, sElapsed, sTasks, sPosition,
                    sRemaining, sRunning, sInTick, sClock, sRan>>
    BY <1>10 DEF Server!vars, Server!fields, Server!loop
  <2>2. \A u : Coming(u)' <=> Coming(u)
    BY <2>1, ComingSame
  <2>3. ServerInv'
    BY <2>1, <2>2 DEF ServerInv, ServerType, OutsideTick, FreshUnseen, PlacesApart
  <2>4. \A u \in Task : DueAt(u)' = DueAt(u)
    BY <2>1, <2>2 DEF DueAt, WaitOf, Server!AtLeastOne
  <2> QED
    BY <1>3, <2>1, <2>3, <2>4
<1> QED
  BY <1>4, <1>5, <1>6, <1>7, <1>8, <1>9, <1>10 DEF Server!Next

\* As long as nothing is scheduled during a tick, every task of the server runs in the
\* very tick it is due, whatever callbacks and other coroutines do to the list.
THEOREM ServerTasksOnTime == Server!Spec => ServerOnTime
<1>1. Server!Init => ServerInv /\ Server!T!TimersInit
  <2> SUFFICES ASSUME Server!Init PROVE Server!T!TimersInit
    BY ServerStart
  <2>1. \A t \in Task : Server!DueTick(t) = NoTask
    BY DEF Server!Init, Server!DueTick
  <2> QED
    BY <2>1 DEF Server!Init, Server!T!TimersInit
<1>2. ServerInv /\ [Server!Next]_(Server!vars) =>
          ServerInv' /\ [sNested' \/ [Server!T!TimersNext]_(Server!T!timerVars)]_(Server!vars)
  BY ServerMaps
<1> QED
  BY <1>1, <1>2, PTL DEF Server!Spec, ServerOnTime, Server!OnTime

-------------------------------------------------------------------------------
(* ShmRing. *)

LEMMA ShmAssumption ==
    /\ Capacity \in Nat /\ Capacity > Shm!Prefix
    /\ Size \in [Msg -> Nat \ {0}]
    /\ MaxRead \in Nat
    /\ Garbled \notin Msg
    /\ Blank \notin Msg \X Nat
BY RingAssumption DEF Prefix, Shm!Prefix

RingCell == {Blank} \cup (Msg \X Nat)

\* Bytes from r to p.
RingOff(p, r) == IF p >= r THEN p - r ELSE Capacity - r + p

\* The byte that lies n bytes after p.
RingAt(p, n) == Shm!Wrap(p + n)

RingType ==
    /\ rBuf \in [Shm!Ring -> RingCell]
    /\ rWrite \in Shm!Ring
    /\ rRead \in Shm!Ring
    /\ rOut \in Msg \cup {Garbled}
    /\ rStored \in Nat
    /\ rTotal \in Nat
    /\ rCopied \in Seq(RingCell)
    /\ rLast \in Msg \cup {Garbled}
    /\ rQueue \in Seq(Msg)
    /\ rPlaces \in Seq(Shm!Ring)

\* The unread messages lie one after the other between the two positions.
RingInLine ==
    /\ Len(rPlaces) = Len(rQueue)
    /\ Len(rQueue) = 0 => Shm!Used = 0
    /\ Len(rQueue) > 0 => rPlaces[1] = rRead
    /\ \A i \in 1..Len(rQueue) :
          Shm!Ahead(rPlaces[i]) + Shm!Total(rQueue[i]) =
              IF i = Len(rQueue) THEN Shm!Used ELSE Shm!Ahead(rPlaces[i + 1])
    /\ \A i \in 1..Len(rQueue) : Shm!Ahead(rPlaces[i]) + Shm!Total(rQueue[i]) <= Shm!Used
    /\ \A i, k \in 1..Len(rQueue) : i < k => Shm!Ahead(rPlaces[i]) + Shm!Total(rQueue[i]) <= Shm!Ahead(rPlaces[k])

\* Their bytes are in the ring.
RingKept == \A i \in 1..Len(rQueue) : \A j \in 0..(Shm!Total(rQueue[i]) - 1) :
    rBuf[RingAt(rPlaces[i], j)] = <<rQueue[i], j>>

\* What is being written has room, and what is there of it is right.
RingWriting ==
    /\ rOut = Garbled => rStored = 0
    /\ rOut # Garbled => /\ Shm!Used + Shm!Total(rOut) < Capacity
                       /\ rStored <= Shm!Total(rOut)
                       /\ \A j \in 0..(rStored - 1) : rBuf[RingAt(rWrite, j)] = <<rOut, j>>

\* What is being read is the first message.
RingReading ==
    /\ rTotal = 0 => rCopied = <<>>
    /\ rTotal > 0 => /\ Len(rQueue) > 0
                    /\ rTotal = Shm!Total(rQueue[1])
                    /\ rQueue[1] \in Shm!Fits
                    /\ Len(rCopied) <= rTotal
                    /\ \A j \in 1..Len(rCopied) : rCopied[j] = <<rQueue[1], j - 1>>

RingInv == RingType /\ RingInLine /\ RingKept /\ RingWriting /\ RingReading

-------------------------------------------------------------------------------
(* Positions of the ring. *)

LEMMA TotalType ==
    ASSUME NEW m \in Msg
    PROVE  Shm!Total(m) \in Nat /\ Shm!Total(m) > Shm!Prefix
BY ShmAssumption DEF Shm!Total, Shm!Prefix

\* A position is as far ahead as the bytes between say, and no further than the ring.
LEMMA AheadType ==
    ASSUME rRead \in Shm!Ring, NEW p \in Shm!Ring
    PROVE  Shm!Ahead(p) \in Shm!Ring
BY ShmAssumption DEF Shm!Ring, Shm!Ahead, Shm!Prefix

LEMMA AtType ==
    ASSUME NEW p \in Shm!Ring, NEW n \in 0..Capacity
    PROVE  RingAt(p, n) \in Shm!Ring
BY ShmAssumption DEF Shm!Ring, RingAt, Shm!Wrap, Shm!Prefix

LEMMA AheadOfAt ==
    ASSUME rRead \in Shm!Ring, NEW p \in Shm!Ring, NEW n \in Nat, Shm!Ahead(p) + n < Capacity
    PROVE  RingAt(p, n) \in Shm!Ring /\ Shm!Ahead(RingAt(p, n)) = Shm!Ahead(p) + n
BY ShmAssumption DEF Shm!Ring, RingAt, Shm!Wrap, Shm!Ahead, Shm!Prefix

LEMMA AheadInjective ==
    ASSUME rRead \in Shm!Ring, NEW p \in Shm!Ring, NEW q \in Shm!Ring, Shm!Ahead(p) = Shm!Ahead(q)
    PROVE  p = q
BY ShmAssumption DEF Shm!Ring, Shm!Ahead, Shm!Prefix

\* When the reader moves on everything is that much nearer.
LEMMA AheadAfter ==
    ASSUME rRead \in Shm!Ring, NEW p \in Shm!Ring, NEW n \in Nat, n <= Shm!Ahead(p),
           rRead' = Shm!Wrap(rRead + n)
    PROVE  /\ rRead' \in Shm!Ring
           /\ (IF p >= rRead' THEN p - rRead' ELSE Capacity - rRead' + p) = Shm!Ahead(p) - n
BY ShmAssumption DEF Shm!Ring, Shm!Wrap, Shm!Ahead, Shm!Prefix

-------------------------------------------------------------------------------
(* The initial state and the steps of the writer. *)

LEMMA RingStart == Shm!Init => RingInv
<1> SUFFICES ASSUME Shm!Init PROVE RingInv
  OBVIOUS
<1>1. RingType
  BY ShmAssumption DEF Shm!Init, RingType, Shm!Ring, RingCell, Shm!Prefix
<1>2. RingInLine
  BY ShmAssumption DEF Shm!Init, RingInLine, Shm!Used, Shm!Ahead
<1>3. RingKept /\ RingWriting /\ RingReading
  BY ShmAssumption DEF Shm!Init, RingKept, RingWriting, RingReading
<1> QED BY <1>1, <1>2, <1>3 DEF RingInv

LEMMA BeginWriteInv ==
    ASSUME RingInv, NEW m \in Msg, Shm!BeginWrite(m)
    PROVE  RingInv'
<1> USE DEF Shm!BeginWrite, Shm!reader
<1>1. RingType'
  BY DEF RingInv, RingType
<1>2. RingInLine'
  BY DEF RingInv, RingInLine, Shm!Used, Shm!Ahead
<1>3. RingKept'
  BY DEF RingInv, RingKept
<1>4. RingWriting'
  <2>1. Shm!Used \in Shm!Ring /\ Shm!Total(m) \in Nat
    BY AheadType, TotalType DEF RingInv, RingType, Shm!Used
  <2>2. Shm!Used' = Shm!Used
    BY DEF Shm!Used, Shm!Ahead
  <2>3. rStored' = 0 /\ rOut' = m /\ m # Garbled
    BY ShmAssumption DEF RingInv, RingWriting
  <2> QED BY <2>1, <2>2, <2>3, ShmAssumption DEF RingWriting, Shm!Free, Shm!Ring
<1>5. RingReading'
  BY DEF RingInv, RingReading
<1> QED BY <1>1, <1>2, <1>3, <1>4, <1>5 DEF RingInv

\* A message lies in front of write_pos.
LEMMA InFront ==
    ASSUME RingInv, NEW i \in 1..Len(rQueue), NEW j \in 0..(Shm!Total(rQueue[i]) - 1)
    PROVE  /\ rPlaces[i] \in Shm!Ring
           /\ rQueue[i] \in Msg
           /\ RingAt(rPlaces[i], j) \in Shm!Ring
           /\ Shm!Ahead(RingAt(rPlaces[i], j)) = Shm!Ahead(rPlaces[i]) + j
           /\ Shm!Ahead(rPlaces[i]) + j < Shm!Used
<1>1. rPlaces[i] \in Shm!Ring /\ rQueue[i] \in Msg
  BY DEF RingInv, RingType, RingInLine
<1>2. Shm!Total(rQueue[i]) \in Nat /\ Shm!Ahead(rPlaces[i]) \in Shm!Ring /\ Shm!Used \in Shm!Ring
  BY <1>1, TotalType, AheadType DEF RingInv, RingType, Shm!Used
<1>3. Shm!Ahead(rPlaces[i]) + j < Shm!Used
  BY <1>2 DEF RingInv, RingInLine, Shm!Ring
<1>4. Shm!Ahead(rPlaces[i]) + j < Capacity
  BY <1>2, <1>3, ShmAssumption DEF Shm!Ring
<1>5. j \in Nat
  BY <1>2
<1> QED BY <1>1, <1>3, <1>4, <1>5, AheadOfAt DEF RingInv, RingType

LEMMA StoreInv ==
    ASSUME RingInv, Shm!Store
    PROVE  RingInv'
<1> USE DEF Shm!Store, Shm!reader
<1>1. /\ rOut \in Msg /\ Shm!Total(rOut) \in Nat /\ rStored \in Nat /\ rStored < Shm!Total(rOut)
      /\ Shm!Used \in Shm!Ring /\ Shm!Used + Shm!Total(rOut) < Capacity
  BY AheadType, TotalType DEF RingInv, RingType, RingWriting, Shm!Used
<1>2. /\ RingAt(rWrite, rStored) \in Shm!Ring
      /\ Shm!Ahead(RingAt(rWrite, rStored)) = Shm!Used + rStored
  <2>1. Shm!Used + rStored < Capacity
    BY <1>1, ShmAssumption DEF Shm!Ring
  <2> QED BY <1>1, <2>1, AheadOfAt DEF RingInv, RingType, Shm!Used
<1>3. RingType'
  <2>1. <<rOut, rStored>> \in RingCell
    BY <1>1 DEF RingCell
  <2>2. rBuf' \in [Shm!Ring -> RingCell]
    BY <2>1 DEF RingInv, RingType
  <2> QED BY <1>1, <2>2 DEF RingInv, RingType
<1>4. RingInLine'
  BY DEF RingInv, RingInLine, Shm!Used, Shm!Ahead
<1>5. RingKept'
  <2> SUFFICES ASSUME NEW i \in 1..Len(rQueue), NEW j \in 0..(Shm!Total(rQueue[i]) - 1)
               PROVE  rBuf'[RingAt(rPlaces[i], j)] = <<rQueue[i], j>>
    BY DEF RingKept, RingAt, Shm!Wrap
  <2>1. RingAt(rPlaces[i], j) \in Shm!Ring /\ Shm!Ahead(RingAt(rPlaces[i], j)) < Shm!Used
    BY InFront
  <2>2. Shm!Ahead(RingAt(rPlaces[i], j)) # Shm!Ahead(RingAt(rWrite, rStored))
    BY <1>1, <1>2, <2>1, AheadType DEF RingInv, RingType, Shm!Ring
  <2>3. RingAt(rPlaces[i], j) # RingAt(rWrite, rStored)
    BY <2>2
  <2>4. rBuf'[RingAt(rPlaces[i], j)] = rBuf[RingAt(rPlaces[i], j)]
    BY <2>1, <2>3 DEF RingAt, RingInv, RingType
  <2> QED BY <2>4 DEF RingInv, RingKept
<1>6. RingWriting'
  <2>1. Shm!Used' = Shm!Used
    BY DEF Shm!Used, Shm!Ahead
  <2>2. ASSUME NEW j \in 0..rStored
        PROVE  rBuf'[RingAt(rWrite, j)] = <<rOut, j>>
    <3>1. CASE j = rStored
      BY <1>2, <3>1 DEF RingAt, RingInv, RingType
    <3>2. CASE j < rStored
      <4>1. Shm!Used + j < Capacity /\ j \in Nat
        BY <1>1, <3>2, ShmAssumption DEF Shm!Ring
      <4>2. RingAt(rWrite, j) \in Shm!Ring /\ Shm!Ahead(RingAt(rWrite, j)) = Shm!Used + j
        BY <1>1, <4>1, AheadOfAt DEF RingInv, RingType, Shm!Used
      <4>3. Shm!Ahead(RingAt(rWrite, j)) # Shm!Ahead(RingAt(rWrite, rStored))
        BY <1>1, <1>2, <3>2, <4>2 DEF Shm!Ring
      <4>4. RingAt(rWrite, j) # RingAt(rWrite, rStored)
        BY <4>3
      <4>5. rBuf'[RingAt(rWrite, j)] = rBuf[RingAt(rWrite, j)]
        BY <4>2, <4>4 DEF RingAt, RingInv, RingType
      <4>6. rOut # Garbled /\ j \in 0..(rStored - 1)
        BY <1>1, <3>2
      <4>7. rBuf[RingAt(rWrite, j)] = <<rOut, j>>
        BY <4>6 DEF RingInv, RingWriting
      <4> QED BY <4>5, <4>7
    <3> QED BY <1>1, <3>1, <3>2
  <2>3. rOut' = rOut /\ rStored' = rStored + 1 /\ rWrite' = rWrite
    OBVIOUS
  <2>4. \A j \in 0..(rStored' - 1) : rBuf'[RingAt(rWrite', j)] = <<rOut', j>>
    BY <1>1, <2>2, <2>3
  <2> QED BY <1>1, <2>1, <2>3, <2>4 DEF RingWriting, RingAt, Shm!Wrap
<1>7. RingReading'
  BY DEF RingInv, RingReading
<1> QED BY <1>3, <1>4, <1>5, <1>6, <1>7 DEF RingInv

LEMMA PublishInv ==
    ASSUME RingInv, Shm!Publish
    PROVE  RingInv'
<1> USE DEF Shm!Publish, Shm!reader
<1> DEFINE n == Len(rQueue)
<1>1. /\ rOut \in Msg /\ Shm!Total(rOut) \in Nat
      /\ Shm!Used \in Shm!Ring /\ Shm!Used + Shm!Total(rOut) < Capacity
      /\ rStored = Shm!Total(rOut)
  BY AheadType, TotalType DEF RingInv, RingType, RingWriting, Shm!Used
<1>2. rWrite' \in Shm!Ring /\ Shm!Used' = Shm!Used + Shm!Total(rOut)
  <2>1. RingAt(rWrite, Shm!Total(rOut)) \in Shm!Ring /\ Shm!Ahead(RingAt(rWrite, Shm!Total(rOut))) = Shm!Used + Shm!Total(rOut)
    BY <1>1, AheadOfAt DEF RingInv, RingType, Shm!Used
  <2> QED BY <2>1 DEF RingAt, Shm!Used, Shm!Ahead
<1>3. /\ n \in Nat /\ Len(rQueue') = n + 1 /\ Len(rPlaces') = n + 1
      /\ rQueue'[n + 1] = rOut /\ rPlaces'[n + 1] = rWrite
      /\ \A i \in 1..n : rQueue'[i] = rQueue[i] /\ rPlaces'[i] = rPlaces[i]
      /\ \A i \in 1..n : rQueue[i] \in Msg /\ rPlaces[i] \in Shm!Ring
      /\ rQueue' \in Seq(Msg) /\ rPlaces' \in Seq(Shm!Ring)
  BY <1>1 DEF RingInv, RingType, RingInLine
<1>4. RingType'
  BY <1>2, <1>3 DEF RingInv, RingType
<1>6. RingInLine'
  <2>1. \A i \in 1..n : Shm!Ahead(rPlaces[i]) + Shm!Total(rQueue[i]) <= Shm!Used
    BY DEF RingInv, RingInLine
  <2>2. \A i \in 1..n : /\ RingOff(rPlaces'[i], rRead) = Shm!Ahead(rPlaces[i])
                        /\ Shm!Total(rQueue'[i]) = Shm!Total(rQueue[i]) /\ Shm!Total(rQueue[i]) \in Nat
                        /\ Shm!Ahead(rPlaces[i]) \in Shm!Ring
    BY <1>3, TotalType, AheadType DEF Shm!Ahead, RingOff, RingInv, RingType
  <2>3. RingOff(rPlaces'[n + 1], rRead) = Shm!Used /\ Shm!Total(rQueue'[n + 1]) = Shm!Total(rOut)
    BY <1>3 DEF Shm!Ahead, Shm!Used, RingOff
  <2>4. rPlaces'[1] = rRead
    <3>1. CASE n = 0
      <4>1. Shm!Ahead(rWrite) = 0 /\ Shm!Ahead(rRead) = 0
        BY <3>1 DEF RingInv, RingInLine, Shm!Used, RingType, Shm!Ahead, Shm!Ring
      <4>2. rWrite = rRead
        BY <4>1, AheadInjective DEF RingInv, RingType
      <4> QED BY <1>3, <3>1, <4>2
    <3>2. CASE n > 0
      BY <1>3, <3>2 DEF RingInv, RingInLine
    <3> QED BY <1>3, <3>1, <3>2
  <2>5. ASSUME NEW i \in 1..(n + 1)
        PROVE  RingOff(rPlaces'[i], rRead) + Shm!Total(rQueue'[i]) =
                  IF i = n + 1 THEN Shm!Used' ELSE RingOff(rPlaces'[i + 1], rRead)
    <3>1. CASE i = n + 1
      BY <1>2, <2>3, <3>1
    <3>2. CASE i = n /\ n > 0
      <4>1. Shm!Ahead(rPlaces[n]) + Shm!Total(rQueue[n]) = Shm!Used
        BY <1>3, <3>2 DEF RingInv, RingInLine
      <4> QED BY <1>3, <2>2, <2>3, <3>2, <4>1
    <3>3. CASE i < n
      <4>1. i \in 1..n /\ i + 1 \in 1..n /\ i # n
        BY <1>3, <3>3
      <4>2. Shm!Ahead(rPlaces[i]) + Shm!Total(rQueue[i]) = Shm!Ahead(rPlaces[i + 1])
        BY <4>1 DEF RingInv, RingInLine
      <4>3. i # n + 1
        BY <1>3, <4>1
      <4>4. RingOff(rPlaces'[i], rRead) = Shm!Ahead(rPlaces[i]) /\ Shm!Total(rQueue'[i]) = Shm!Total(rQueue[i])
        BY <2>2, <4>1
      <4>5. RingOff(rPlaces'[i + 1], rRead) = Shm!Ahead(rPlaces[i + 1])
        BY <2>2, <4>1
      <4> QED BY ONLY <4>2, <4>3, <4>4, <4>5, Zenon
    <3> QED BY <1>3, <3>1, <3>2, <3>3
  <2>6. ASSUME NEW i \in 1..(n + 1)
        PROVE  RingOff(rPlaces'[i], rRead) + Shm!Total(rQueue'[i]) <= Shm!Used'
    <3>1. Shm!Used \in Nat /\ Shm!Total(rOut) \in Nat /\ Shm!Used' = Shm!Used + Shm!Total(rOut)
      BY <1>1, <1>2 DEF Shm!Ring
    <3>2. CASE i = n + 1
      <4>1. RingOff(rPlaces'[i], rRead) = Shm!Used /\ Shm!Total(rQueue'[i]) = Shm!Total(rOut)
        BY <2>3, <3>2
      <4> QED BY <3>1, <4>1
    <3>3. CASE i \in 1..n
      <4>1. Shm!Ahead(rPlaces[i]) + Shm!Total(rQueue[i]) <= Shm!Used /\ Shm!Ahead(rPlaces[i]) \in Nat
        BY <2>1, <2>2, <3>3 DEF Shm!Ring
      <4>2. /\ RingOff(rPlaces'[i], rRead) = Shm!Ahead(rPlaces[i])
            /\ Shm!Total(rQueue'[i]) = Shm!Total(rQueue[i]) /\ Shm!Total(rQueue[i]) \in Nat
        BY <2>2, <3>3
      <4> QED BY <3>1, <4>1, <4>2
    <3> QED BY <1>3, <3>2, <3>3
  <2>7. rRead' = rRead /\ Len(rQueue') = n + 1 /\ Len(rPlaces') = n + 1
    BY <1>3
  <2>8. \A i \in 1..Len(rQueue') : RingOff(rPlaces'[i], rRead') + Shm!Total(rQueue'[i]) =
                  IF i = Len(rQueue') THEN Shm!Used' ELSE RingOff(rPlaces'[i + 1], rRead')
    BY <2>5, <2>7
  <2>9. \A i \in 1..Len(rQueue') : RingOff(rPlaces'[i], rRead') + Shm!Total(rQueue'[i]) <= Shm!Used'
    BY <2>6, <2>7
  <2>10. Len(rQueue') = n + 1 /\ n \in Nat
    BY <1>3
  <2>11. ASSUME NEW i \in 1..(n + 1), NEW k \in 1..(n + 1), i < k
         PROVE  RingOff(rPlaces'[i], rRead) + Shm!Total(rQueue'[i]) <= RingOff(rPlaces'[k], rRead)
    <3>1. i \in 1..n
      BY <1>3, <2>11
    <3>2. RingOff(rPlaces'[i], rRead) = Shm!Ahead(rPlaces[i]) /\ Shm!Total(rQueue'[i]) = Shm!Total(rQueue[i])
      BY <2>2, <3>1
    <3>3. CASE k = n + 1
      BY <2>1, <2>3, <3>1, <3>2, <3>3
    <3>4. CASE k \in 1..n
      <4>1. Shm!Ahead(rPlaces[i]) + Shm!Total(rQueue[i]) <= Shm!Ahead(rPlaces[k])
        BY <2>11, <3>1, <3>4 DEF RingInv, RingInLine
      <4>2. RingOff(rPlaces'[k], rRead) = Shm!Ahead(rPlaces[k])
        BY <2>2, <3>4
      <4> QED BY <3>2, <4>1, <4>2
    <3> QED BY <1>3, <3>3, <3>4
  <2>12. \A i, k \in 1..Len(rQueue') : i < k =>
            RingOff(rPlaces'[i], rRead') + Shm!Total(rQueue'[i]) <= RingOff(rPlaces'[k], rRead')
    BY <2>7, <2>11
  <2>13. Len(rPlaces') = Len(rQueue') /\ Len(rQueue') # 0
    BY <2>7, <2>10
  <2> QED BY ONLY <2>4, <2>7, <2>8, <2>9, <2>12, <2>13, SMTT(60) DEF RingInLine, Shm!Ahead, RingOff, Shm!Used, Shm!Total
<1>7. RingKept'
  <2> SUFFICES ASSUME NEW i \in 1..(n + 1), NEW j \in 0..(Shm!Total(rQueue'[i]) - 1)
               PROVE  rBuf[RingAt(rPlaces'[i], j)] = <<rQueue'[i], j>>
    BY <1>3 DEF RingKept, RingAt, Shm!Wrap, Shm!Total
  <2>1. CASE i = n + 1
    BY <1>1, <1>3, <2>1, ShmAssumption DEF RingInv, RingWriting
  <2>2. CASE i \in 1..n
    BY <1>3, <2>2 DEF RingInv, RingKept
  <2> QED BY <1>3, <2>1, <2>2
<1>8. RingWriting'
  BY DEF RingWriting
<1>9. RingReading'
  <2>1. rTotal > 0 => n > 0 /\ rQueue'[1] = rQueue[1]
    BY <1>3 DEF RingInv, RingReading
  <2>2. rTotal' = rTotal /\ rCopied' = rCopied
    BY <1>3
  <2>3. rTotal > 0 => Len(rQueue') > 0
    BY <1>3, <2>1
  <2>4. RingReading
    BY DEF RingInv
  <2> QED BY ONLY <2>1, <2>2, <2>3, <2>4 DEF RingReading, Shm!Total, Shm!Fits
<1> QED BY <1>4, <1>6, <1>7, <1>8, <1>9 DEF RingInv

-------------------------------------------------------------------------------
(* The steps of the reader. *)

\* What has_message() finds is the first message.
LEMMA CompleteIsFirst ==
    ASSUME RingInv, NEW n \in Shm!Totals, Shm!Complete(n)
    PROVE  Len(rQueue) > 0 /\ rQueue[1] \in Msg /\ n = Shm!Total(rQueue[1])
<1>1. Shm!Used # 0 /\ Len(rQueue) \in Nat
  BY DEF Shm!Complete, Shm!Prefix, RingInv, RingType
<1>2. Len(rQueue) > 0
  BY <1>1 DEF RingInv, RingInLine
<1>3. rQueue[1] \in Msg /\ rPlaces[1] = rRead /\ Shm!Total(rQueue[1]) > Shm!Prefix /\ Shm!Total(rQueue[1]) \in Nat
  BY <1>2, TotalType DEF RingInv, RingType, RingInLine
<1>4. \A j \in 0..(Shm!Prefix - 1) : rBuf[Shm!Wrap(rRead + j)] = <<rQueue[1], j>>
  <2>1. \A j \in 0..(Shm!Prefix - 1) : j \in 0..(Shm!Total(rQueue[1]) - 1)
    BY <1>3 DEF Shm!Prefix
  <2>2. 1 \in 1..Len(rQueue)
    BY <1>1, <1>2
  <2> QED BY <1>3, <2>1, <2>2 DEF RingInv, RingKept, RingAt
<1>5. \A m \in Msg : (\A j \in 0..(Shm!Prefix - 1) : rBuf[Shm!Wrap(rRead + j)] = <<m, j>>) => m = rQueue[1]
  BY <1>4 DEF Shm!Prefix
<1>6. {m \in Msg : \A j \in 0..(Shm!Prefix - 1) : rBuf[Shm!Wrap(rRead + j)] = <<m, j>>} = {rQueue[1]}
  BY <1>3, <1>4, <1>5
<1>7. Shm!TotalsAt(rRead) = {Shm!Total(rQueue[1])}
  BY <1>6 DEF Shm!TotalsAt
<1> QED BY <1>2, <1>3, <1>7 DEF Shm!Complete

LEMMA BeginReadInv ==
    ASSUME RingInv, Shm!BeginRead
    PROVE  RingInv'
<1>1. PICK n \in Shm!Totals : Shm!Complete(n) /\ n - Shm!Prefix <= MaxRead /\ rTotal' = n
  BY DEF Shm!BeginRead
<1>2. Len(rQueue) > 0 /\ rQueue[1] \in Msg /\ n = Shm!Total(rQueue[1]) /\ n \in Nat /\ n > 0
  BY <1>1, CompleteIsFirst, TotalType DEF Shm!Prefix
<1>3. rQueue[1] \in Shm!Fits
  BY <1>1, <1>2, ShmAssumption DEF Shm!Fits, Shm!Total, Shm!Prefix
<1>4. rCopied = <<>> /\ Len(rCopied) = 0
  BY DEF Shm!BeginRead, RingInv, RingReading
<1>5. RingType'
  BY <1>1, <1>2 DEF Shm!BeginRead, Shm!writer, RingInv, RingType
<1>6. RingInLine' /\ RingKept' /\ RingWriting'
  BY DEF Shm!BeginRead, Shm!writer, RingInv, RingInLine, RingKept, RingWriting, Shm!Used, Shm!Ahead, RingAt, Shm!Wrap
<1>7. RingReading'
  BY <1>1, <1>2, <1>3, <1>4 DEF Shm!BeginRead, RingReading
<1> QED BY <1>5, <1>6, <1>7 DEF RingInv

LEMMA LoadInv ==
    ASSUME RingInv, Shm!Load
    PROVE  RingInv'
<1> USE DEF Shm!Load, Shm!writer
<1> DEFINE n == Len(rCopied)
<1>1. /\ n \in Nat /\ n < rTotal /\ rTotal \in Nat /\ rTotal > 0
      /\ Len(rQueue) > 0 /\ rTotal = Shm!Total(rQueue[1])
  BY DEF RingInv, RingType, RingReading
<1>2. rPlaces[1] = rRead /\ 1 \in 1..Len(rQueue) /\ n \in 0..(Shm!Total(rQueue[1]) - 1)
  BY <1>1 DEF RingInv, RingInLine, RingType
<1>3. rBuf[RingAt(rRead, n)] = <<rQueue[1], n>> /\ RingAt(rRead, n) \in Shm!Ring
  BY <1>2, InFront DEF RingInv, RingKept
<1>4. rBuf[RingAt(rRead, n)] \in RingCell
  BY <1>3 DEF RingInv, RingType
<1>5. /\ rCopied' \in Seq(RingCell) /\ Len(rCopied') = n + 1
      /\ rCopied'[n + 1] = <<rQueue[1], n>>
      /\ \A j \in 1..n : rCopied'[j] = rCopied[j]
  BY <1>3, <1>4 DEF RingInv, RingType, RingAt
<1>6. RingType'
  BY <1>5 DEF RingInv, RingType
<1>7. RingInLine' /\ RingKept' /\ RingWriting'
  BY DEF RingInv, RingInLine, RingKept, RingWriting, Shm!Used, Shm!Ahead, RingAt, Shm!Wrap
<1>8. \A j \in 1..(n + 1) : rCopied'[j] = <<rQueue[1], j - 1>>
  <2> TAKE j \in 1..(n + 1)
  <2>1. CASE j = n + 1
    BY <1>1, <1>5, <2>1
  <2>2. CASE j \in 1..n
    BY <1>1, <1>5, <2>2 DEF RingInv, RingReading
  <2> QED BY <1>1, <2>1, <2>2
<1>9. RingReading'
  BY <1>1, <1>5, <1>8 DEF RingInv, RingReading
<1> QED BY <1>6, <1>7, <1>9 DEF RingInv

\* The first message leaves the ring: the others are that much nearer.
LEMMA LeaveInv ==
    ASSUME RingInv, Len(rQueue) > 0, Shm!Leave,
           rRead' = Shm!Wrap(rRead + Shm!Total(rQueue[1])),
           UNCHANGED <<rBuf, rWrite, Shm!writer>>
    PROVE  /\ rRead' \in Shm!Ring
           /\ rQueue' \in Seq(Msg) /\ rPlaces' \in Seq(Shm!Ring)
           /\ RingInLine' /\ RingKept' /\ RingWriting'
<1> DEFINE n == Len(rQueue) - 1
           t == Shm!Total(rQueue[1])
<1>1. /\ Len(rQueue) \in Nat /\ n \in Nat /\ 1 \in 1..Len(rQueue) /\ rQueue # <<>> /\ rPlaces # <<>>
      /\ rQueue[1] \in Msg /\ t \in Nat /\ t > 0
      /\ rPlaces[1] = rRead /\ Shm!Ahead(rRead) = 0
  BY TotalType DEF RingInv, RingType, RingInLine, Shm!Ahead, Shm!Ring, Shm!Prefix
<1>2. /\ Len(rQueue') = n /\ Len(rPlaces') = n
      /\ \A i \in 1..n : rQueue'[i] = rQueue[i + 1] /\ rPlaces'[i] = rPlaces[i + 1]
      /\ rQueue' \in Seq(Msg) /\ rPlaces' \in Seq(Shm!Ring)
  BY <1>1 DEF Shm!Leave, RingInv, RingType, RingInLine
<1>3. Shm!Used \in Nat /\ t <= Shm!Used /\ rWrite \in Shm!Ring
  <2>1. Shm!Used \in Nat /\ rWrite \in Shm!Ring
    BY AheadType DEF RingInv, RingType, Shm!Used, Shm!Ring
  <2>2. Shm!Ahead(rPlaces[1]) + t <= Shm!Used
    BY <1>1 DEF RingInv, RingInLine
  <2> QED BY <1>1, <2>1, <2>2
<1>4. rRead' \in Shm!Ring /\ RingOff(rWrite, rRead') = Shm!Used - t
  BY <1>1, <1>3, AheadAfter DEF RingInv, RingType, RingOff, Shm!Used
<1>5. Shm!Used' = Shm!Used - t
  BY <1>4 DEF Shm!Used, Shm!Ahead, RingOff
<1>6. \A i \in 1..n : /\ Shm!Ahead(rPlaces[i + 1]) \in Nat /\ t <= Shm!Ahead(rPlaces[i + 1])
                      /\ rPlaces[i + 1] \in Shm!Ring /\ i + 1 \in 1..Len(rQueue)
                      /\ rQueue[i + 1] \in Msg
  <2>1. ASSUME NEW i \in 2..Len(rQueue)
        PROVE  /\ Shm!Ahead(rPlaces[i]) \in Nat /\ t <= Shm!Ahead(rPlaces[i]) /\ rPlaces[i] \in Shm!Ring
               /\ rQueue[i] \in Msg
    <3>1. i \in 1..Len(rQueue) /\ 1 < i
      BY <1>1
    <3>2. rPlaces[i] \in Shm!Ring /\ rQueue[i] \in Msg
      BY <3>1 DEF RingInv, RingType, RingInLine
    <3>3. Shm!Ahead(rPlaces[1]) + Shm!Total(rQueue[1]) <= Shm!Ahead(rPlaces[i])
      BY <1>1, <3>1 DEF RingInv, RingInLine
    <3>4. Shm!Ahead(rPlaces[i]) \in Nat
      <4>1. rRead \in Shm!Ring
        BY DEF RingInv, RingType
      <4> QED BY ONLY <3>2, <4>1, AheadType DEF Shm!Ring
    <3> QED BY <1>1, <3>2, <3>3, <3>4
  <2> QED BY <1>1, <2>1
<1>7. \A i \in 1..n : RingOff(rPlaces'[i], rRead') = Shm!Ahead(rPlaces[i + 1]) - t
  <2> TAKE i \in 1..n
  <2>1. rPlaces[i + 1] \in Shm!Ring /\ t <= Shm!Ahead(rPlaces[i + 1])
    BY <1>6
  <2>2. RingOff(rPlaces[i + 1], rRead') = Shm!Ahead(rPlaces[i + 1]) - t
    BY <1>1, <2>1, AheadAfter DEF RingInv, RingType, RingOff
  <2> QED BY <1>2, <2>2
<1>8. RingInLine'
  <2>1. n = 0 => Shm!Used' = 0
    <3> SUFFICES ASSUME n = 0 PROVE Shm!Used' = 0
      OBVIOUS
    <3>1. Len(rQueue) = 1
      BY <1>1
    <3>2. Shm!Ahead(rPlaces[1]) + t = Shm!Used
      BY <1>1, <3>1 DEF RingInv, RingInLine
    <3> QED BY <1>1, <1>3, <1>5, <3>2
  <2>2. n > 0 => rPlaces'[1] = rRead'
    <3> SUFFICES ASSUME n > 0 PROVE rPlaces'[1] = rRead'
      OBVIOUS
    <3>1. 1 \in 1..Len(rQueue) /\ 1 # Len(rQueue) /\ 1 \in 1..n
      <4>1. Len(rQueue) \in Nat /\ Len(rQueue) - 1 > 0
        BY <1>1
      <4> QED BY <4>1
    <3>2. Shm!Ahead(rPlaces[1]) + t = Shm!Ahead(rPlaces[1 + 1])
      BY <3>1 DEF RingInv, RingInLine
    <3>3. RingOff(rPlaces'[1], rRead') = 0 /\ rPlaces'[1] \in Shm!Ring
      BY <1>1, <1>2, <1>6, <1>7, <3>1, <3>2
    <3> QED BY <1>4, <3>3, ShmAssumption DEF RingOff, Shm!Ring
  <2>3. ASSUME NEW i \in 1..n
        PROVE  RingOff(rPlaces'[i], rRead') + Shm!Total(rQueue'[i]) =
                  IF i = n THEN Shm!Used' ELSE RingOff(rPlaces'[i + 1], rRead')
    <3>1. /\ i + 1 \in 1..Len(rQueue) /\ RingOff(rPlaces'[i], rRead') = Shm!Ahead(rPlaces[i + 1]) - t
          /\ rQueue'[i] = rQueue[i + 1] /\ Shm!Ahead(rPlaces[i + 1]) \in Nat /\ Shm!Total(rQueue[i + 1]) \in Nat
      BY <1>1, <1>2, <1>6, <1>7, TotalType
    <3>2. CASE i = n
      <4>1. Shm!Ahead(rPlaces[i + 1]) + Shm!Total(rQueue[i + 1]) = Shm!Used
        BY <1>1, <3>1, <3>2 DEF RingInv, RingInLine
      <4> QED BY <1>1, <1>3, <1>5, <3>1, <3>2, <4>1
    <3>3. CASE i # n
      <4>1. i + 1 \in 1..n /\ i + 1 # Len(rQueue)
        BY <1>1, <3>3
      <4>2. Shm!Ahead(rPlaces[i + 1]) + Shm!Total(rQueue[i + 1]) = Shm!Ahead(rPlaces[i + 1 + 1])
        BY <3>1, <4>1 DEF RingInv, RingInLine
      <4>3. /\ RingOff(rPlaces'[i + 1], rRead') = Shm!Ahead(rPlaces[i + 1 + 1]) - t
            /\ Shm!Ahead(rPlaces[i + 1 + 1]) \in Nat
        BY <1>6, <1>7, <4>1
      <4> QED BY <1>1, <3>1, <3>3, <4>2, <4>3
    <3> QED BY <3>2, <3>3
  <2>4. ASSUME NEW i \in 1..n
        PROVE  RingOff(rPlaces'[i], rRead') + Shm!Total(rQueue'[i]) <= Shm!Used'
    <3>1. /\ i + 1 \in 1..Len(rQueue) /\ RingOff(rPlaces'[i], rRead') = Shm!Ahead(rPlaces[i + 1]) - t
          /\ rQueue'[i] = rQueue[i + 1] /\ Shm!Ahead(rPlaces[i + 1]) \in Nat /\ Shm!Total(rQueue[i + 1]) \in Nat
      BY <1>1, <1>2, <1>6, <1>7, TotalType
    <3>2. Shm!Ahead(rPlaces[i + 1]) + Shm!Total(rQueue[i + 1]) <= Shm!Used
      BY <3>1 DEF RingInv, RingInLine
    <3> QED BY <1>1, <1>3, <1>5, <3>1, <3>2
  <2>5. ASSUME NEW i \in 1..n, NEW k \in 1..n, i < k
        PROVE  RingOff(rPlaces'[i], rRead') + Shm!Total(rQueue'[i]) <= RingOff(rPlaces'[k], rRead')
    <3>1. /\ i + 1 \in 1..Len(rQueue) /\ RingOff(rPlaces'[i], rRead') = Shm!Ahead(rPlaces[i + 1]) - t
          /\ rQueue'[i] = rQueue[i + 1] /\ Shm!Ahead(rPlaces[i + 1]) \in Nat /\ Shm!Total(rQueue[i + 1]) \in Nat
      BY <1>1, <1>2, <1>6, <1>7, TotalType
    <3>2. /\ k + 1 \in 1..Len(rQueue) /\ RingOff(rPlaces'[k], rRead') = Shm!Ahead(rPlaces[k + 1]) - t
          /\ Shm!Ahead(rPlaces[k + 1]) \in Nat
      BY <1>6, <1>7
    <3>3. i + 1 < k + 1
      BY <2>5
    <3>4. Shm!Ahead(rPlaces[i + 1]) + Shm!Total(rQueue[i + 1]) <= Shm!Ahead(rPlaces[k + 1])
      BY <3>1, <3>2, <3>3 DEF RingInv, RingInLine
    <3> QED BY <1>1, <3>1, <3>2, <3>4
  <2> QED BY <1>2, <2>1, <2>2, <2>3, <2>4, <2>5 DEF RingInLine, Shm!Ahead, RingOff, Shm!Total
<1>9. RingKept'
  <2> SUFFICES ASSUME NEW i \in 1..n, NEW j \in 0..(Shm!Total(rQueue'[i]) - 1)
               PROVE  rBuf[RingAt(rPlaces'[i], j)] = <<rQueue'[i], j>>
    BY <1>2 DEF RingKept, RingAt, Shm!Wrap, Shm!Total
  <2> QED BY <1>1, <1>2, <1>6 DEF RingInv, RingKept
<1>10. RingWriting'
  <2>1. rOut # Garbled => Shm!Used' + Shm!Total(rOut) < Capacity
    <3> SUFFICES ASSUME rOut # Garbled PROVE Shm!Used' + Shm!Total(rOut) < Capacity
      OBVIOUS
    <3>1. Shm!Used + Shm!Total(rOut) < Capacity /\ Shm!Total(rOut) \in Nat
      BY TotalType DEF RingInv, RingWriting, RingType
    <3> QED BY <1>1, <1>3, <1>5, <3>1, ShmAssumption
  <2>2. rOut' = rOut /\ rStored' = rStored /\ rBuf' = rBuf /\ rWrite' = rWrite
    BY DEF Shm!writer
  <2> QED BY <2>1, <2>2 DEF RingInv, RingWriting, RingAt, Shm!Wrap
<1> QED BY <1>2, <1>4, <1>8, <1>9, <1>10

LEMMA SkipLargeInv ==
    ASSUME RingInv, Shm!SkipLarge
    PROVE  RingInv' /\ Len(rQueue) > 0 /\ rQueue[1] \in Msg \ Shm!Fits
<1>1. PICK n \in Shm!Totals : /\ Shm!Complete(n) /\ n - Shm!Prefix > MaxRead
                         /\ rRead' = Shm!Wrap(rRead + n)
  BY DEF Shm!SkipLarge
<1>2. Len(rQueue) > 0 /\ rQueue[1] \in Msg /\ n = Shm!Total(rQueue[1])
  BY <1>1, CompleteIsFirst
<1>3. rQueue[1] \notin Shm!Fits
  BY <1>1, <1>2, ShmAssumption DEF Shm!Fits, Shm!Total, Shm!Prefix
<1>4. Shm!Leave /\ UNCHANGED <<rBuf, rWrite, Shm!writer>> /\ rRead' = Shm!Wrap(rRead + Shm!Total(rQueue[1]))
  BY <1>1, <1>2 DEF Shm!SkipLarge
<1>5. /\ rRead' \in Shm!Ring /\ rQueue' \in Seq(Msg) /\ rPlaces' \in Seq(Shm!Ring)
      /\ RingInLine' /\ RingKept' /\ RingWriting'
  BY <1>2, <1>4, LeaveInv
<1>6. RingType'
  BY <1>5 DEF Shm!SkipLarge, Shm!writer, RingInv, RingType
<1>7. RingReading'
  BY DEF Shm!SkipLarge, RingInv, RingReading
<1> QED BY <1>2, <1>3, <1>5, <1>6, <1>7 DEF RingInv

\* The bytes that were read are the message.
LEMMA DecodedIsFirst ==
    ASSUME RingInv, rTotal > 0, Len(rCopied) = rTotal
    PROVE  Len(rQueue) > 0 /\ rQueue[1] \in Shm!Fits /\ rTotal = Shm!Total(rQueue[1]) /\ Shm!Decoded(rCopied) = rQueue[1]
<1>1. /\ Len(rQueue) > 0 /\ rTotal = Shm!Total(rQueue[1]) /\ rQueue[1] \in Shm!Fits
      /\ \A j \in 1..Len(rCopied) : rCopied[j] = <<rQueue[1], j - 1>>
  BY DEF RingInv, RingReading
<1>2. rQueue[1] \in Msg /\ 1 \in 1..Len(rCopied)
  BY <1>1 DEF Shm!Fits, RingInv, RingType
<1>3. {m \in Msg : /\ Len(rCopied) = Shm!Total(m)
                  /\ \A j \in 1..Len(rCopied) : rCopied[j] = <<m, j - 1>>} = {rQueue[1]}
  <2>1. \A m \in Msg : (\A j \in 1..Len(rCopied) : rCopied[j] = <<m, j - 1>>) => m = rQueue[1]
    BY <1>1, <1>2
  <2> QED BY <1>1, <1>2, <2>1
<1> QED BY <1>1, <1>3 DEF Shm!Decoded

LEMMA ReleaseInv ==
    ASSUME RingInv, Shm!Release
    PROVE  RingInv'
<1>1. Len(rQueue) > 0 /\ rQueue[1] \in Shm!Fits /\ rTotal = Shm!Total(rQueue[1]) /\ Shm!Decoded(rCopied) = rQueue[1]
  BY DecodedIsFirst DEF Shm!Release
<1>2. Shm!Leave /\ UNCHANGED <<rBuf, rWrite, Shm!writer>> /\ rRead' = Shm!Wrap(rRead + Shm!Total(rQueue[1]))
  BY <1>1 DEF Shm!Release
<1>3. /\ rRead' \in Shm!Ring /\ rQueue' \in Seq(Msg) /\ rPlaces' \in Seq(Shm!Ring)
      /\ RingInLine' /\ RingKept' /\ RingWriting'
  BY <1>1, <1>2, LeaveInv
<1>4. rCopied' = <<>> /\ rTotal' = 0 /\ rLast' \in Msg
  BY <1>1 DEF Shm!Release, Shm!Fits
<1>5. RingType'
  BY <1>3, <1>4 DEF Shm!Release, Shm!writer, RingInv, RingType
<1>6. RingReading'
  BY <1>4 DEF RingReading
<1> QED BY <1>3, <1>5, <1>6 DEF RingInv

-------------------------------------------------------------------------------
(* The invariant of every behaviour, and the refinement. *)

LEMMA RingNext ==
    ASSUME RingInv, [Shm!Next]_(Shm!vars)
    PROVE  RingInv'
<1>1. CASE \E m \in Msg : Shm!BeginWrite(m)
  BY <1>1, BeginWriteInv
<1>2. CASE Shm!Store
  BY <1>2, StoreInv
<1>3. CASE Shm!Publish
  BY <1>3, PublishInv
<1>4. CASE Shm!BeginRead
  BY <1>4, BeginReadInv
<1>5. CASE Shm!SkipLarge
  BY <1>5, SkipLargeInv
<1>6. CASE Shm!Load
  BY <1>6, LoadInv
<1>7. CASE Shm!Release
  BY <1>7, ReleaseInv
<1>8. CASE UNCHANGED Shm!vars
  BY <1>8 DEF Shm!vars, Shm!writer, Shm!reader, RingInv, RingType, RingInLine, RingKept, RingWriting, RingReading,
              Shm!Used, Shm!Ahead, RingAt, Shm!Wrap
<1> QED BY <1>1, <1>2, <1>3, <1>4, <1>5, <1>6, <1>7, <1>8 DEF Shm!Next

\* The types of the ring's variables, the order of the messages in it and what
\* the copies under way hold, in every state of every behaviour.
THEOREM RingInvariant == Shm!Spec => []RingInv
<1>1. Shm!Init => RingInv
  BY RingStart
<1>2. RingInv /\ [Shm!Next]_(Shm!vars) => RingInv'
  BY RingNext
<1> QED BY <1>1, <1>2, PTL DEF Shm!Spec

LEMMA RefineInit == Shm!Init => Shm!Pipe!Init
BY DEF Shm!Init, Shm!Pipe!Init

LEMMA RefineStep ==
    ASSUME RingInv, [Shm!Next]_(Shm!vars)
    PROVE  [Shm!Pipe!Next]_(Shm!Pipe!vars)
<1> USE DEF Shm!Pipe!vars
<1>1. ASSUME NEW m \in Msg, Shm!BeginWrite(m) PROVE UNCHANGED Shm!Pipe!vars
  BY <1>1 DEF Shm!BeginWrite, Shm!reader
<1>2. CASE Shm!Store
  BY <1>2 DEF Shm!Store, Shm!reader
<1>3. CASE Shm!Publish
  <2>1. rOut \in Msg /\ rQueue' = Append(rQueue, rOut) /\ rLast' = rLast
    BY <1>3 DEF Shm!Publish, Shm!reader, RingInv, RingType
  <2> QED BY <2>1 DEF Shm!Pipe!Next, Shm!Pipe!Send
<1>4. CASE Shm!BeginRead
  BY <1>4 DEF Shm!BeginRead
<1>5. CASE Shm!SkipLarge
  <2>1. Len(rQueue) > 0 /\ rQueue[1] \in Msg \ Shm!Fits
    BY <1>5, SkipLargeInv
  <2>2. rQueue # <<>> /\ Head(rQueue) = rQueue[1]
    BY <2>1 DEF RingInv, RingType
  <2>3. rLast' = Garbled /\ rQueue' = Tail(rQueue)
    BY <1>5, <2>2 DEF Shm!SkipLarge, Shm!Leave
  <2> QED BY <2>1, <2>2, <2>3 DEF Shm!Pipe!Next, Shm!Pipe!Receive
<1>6. CASE Shm!Load
  BY <1>6 DEF Shm!Load
<1>7. CASE Shm!Release
  <2>1. Len(rQueue) > 0 /\ rQueue[1] \in Shm!Fits /\ Shm!Decoded(rCopied) = rQueue[1]
    BY <1>7, DecodedIsFirst DEF Shm!Release
  <2>2. rQueue # <<>> /\ Head(rQueue) = rQueue[1]
    BY <2>1 DEF RingInv, RingType
  <2>3. rLast' = rQueue[1] /\ rQueue' = Tail(rQueue)
    BY <1>7, <2>1, <2>2 DEF Shm!Release, Shm!Leave
  <2> QED BY <2>1, <2>2, <2>3 DEF Shm!Pipe!Next, Shm!Pipe!Receive
<1>8. CASE UNCHANGED Shm!vars
  BY <1>8 DEF Shm!vars, Shm!reader
<1> QED BY <1>1, <1>2, <1>3, <1>4, <1>5, <1>6, <1>7, <1>8 DEF Shm!Next

\* Whatever the capacity, the messages and the interleaving of writer and reader,
\* messages arrive whole, once and in order (ipc_shm.cpp write() and read()).
THEOREM RingDelivers == Shm!Spec => RingImplementsChannel
<1>1. Shm!Init => Shm!Pipe!Init
  BY RefineInit
<1>2. RingInv /\ [Shm!Next]_(Shm!vars) => [Shm!Pipe!Next]_(Shm!Pipe!vars)
  BY RefineStep
<1> QED BY <1>1, <1>2, RingInvariant, PTL DEF Shm!Spec, RingImplementsChannel, Shm!ImplementsChannel, Shm!Pipe!Spec

-------------------------------------------------------------------------------
(* Watchdog.                                                               *)
(*                                                                         *)
(* A watchdog counts at most one second more than its partner is silent:   *)
(* what it has counted, and what it is about to count, against the         *)
(* partner's seconds.  A heartbeat starts both again, for the two ports    *)
(* are never shared.                                                       *)

Runs == {"off", "boot", "load", "serve", "zombie", "killed"}

DogType ==
    /\ wRun \in [Task -> Runs]
    /\ wSocket \in [Task -> Dogs!Port \cup {None}]
    /\ wPartner \in [Task -> Task \cup {None}]
    /\ wMissed \in [Task -> Nat]
    /\ wDue \in [Task -> SUBSET {"beat", "watch"}]
    /\ wSilence \in [Task -> 0..MaxMissed]

\* A port belongs to one process, that is up and watches.
PortsApart ==
    /\ \A p \in Task : wSocket[p] # None => wRun[p] \in {"load", "serve"}
    /\ \A p, q \in Task : wSocket[p] # None /\ wSocket[p] = wSocket[q] => p = q

NotItself == \A p \in Task : wPartner[p] # p

\* The seconds p has counted, with the one it has still to count.
Counted(p) == IF "watch" \in wDue[p] THEN wMissed[p] + 1 ELSE wMissed[p]

CountsFair ==
    \A p, q \in Task :
        /\ wRun[p] \in {"load", "serve"} /\ wSocket[p] # None
        /\ wPartner[p] = q
        /\ wRun[q] = "boot" \/ wSocket[q] # None
        => wSilence[q] = MaxMissed \/ Counted(p) <= wSilence[q] + 1

DogInv == DogType /\ PortsApart /\ NotItself /\ CountsFair

LEMMA DogStart == Dogs!Init => DogInv
<1> SUFFICES ASSUME Dogs!Init PROVE DogInv
  OBVIOUS
<1>1. /\ wRun = [p \in Task |-> "off"] /\ wSocket = [p \in Task |-> None]
      /\ wPartner = [p \in Task |-> None] /\ wMissed = [p \in Task |-> 0]
      /\ wDue = [p \in Task |-> {}] /\ wSilence = [p \in Task |-> 0]
  BY DEF Dogs!Init
<1>2. None \notin Task /\ MaxMissed \in Nat
  BY DogsAssumption DEF Dogs!WatchdogAssumption
<1>3. DogType
  BY <1>1, <1>2 DEF DogType, Runs
<1>4. PortsApart /\ NotItself /\ CountsFair
  BY <1>1, <1>2 DEF PortsApart, NotItself, CountsFair
<1> QED
  BY <1>3, <1>4 DEF DogInv

\* Two processes with a port each send to each other.
LEMMA PortsFace ==
    ASSUME DogInv, NEW p \in Task, NEW q \in Task, p # q, wSocket[p] # None, wSocket[q] # None
    PROVE  wSocket[p] = Dogs!Target(q)
<1>1. wSocket[p] \in Dogs!Port /\ wSocket[q] \in Dogs!Port /\ wSocket[p] # wSocket[q]
  BY DEF DogInv, DogType, PortsApart
<1> QED
  BY <1>1 DEF Dogs!Port, Dogs!Target, Dogs!Other

LEMMA NoEcho ==
    ASSUME DogInv, NEW p \in Task
    PROVE  wSocket[p] # Dogs!Target(p)
BY DogsAssumption DEF DogInv, DogType, Dogs!Port, Dogs!Target, Dogs!Other, Dogs!WatchdogAssumption

LEMMA LaunchDog == ASSUME DogInv, NEW q \in Task, Dogs!Launch(q) PROVE DogInv'
<1>1. /\ wRun[q] \in {"off", "killed"}
      /\ \A r \in Task : wRun[r] \in {"boot", "load", "serve"} => wPartner[r] # q
      /\ wRun' = [wRun EXCEPT ![q] = "boot"] /\ wSilence' = [wSilence EXCEPT ![q] = 0]
      /\ UNCHANGED <<wSocket, wPartner, wMissed, wDue>>
  BY DEF Dogs!Launch, Dogs!FreePid, Dogs!Up, Dogs!dogVars
<1>2. DogType /\ 0 \in 0..MaxMissed
  BY DogsAssumption DEF DogInv, Dogs!WatchdogAssumption
<1>3. /\ wRun' \in [Task -> Runs] /\ wRun'[q] = "boot"
      /\ \A r \in Task \ {q} : wRun'[r] = wRun[r] /\ wSilence'[r] = wSilence[r]
      /\ wSilence' \in [Task -> 0..MaxMissed]
  BY <1>1, <1>2 DEF DogType, Runs
<1>4. DogType'
  BY <1>1, <1>2, <1>3 DEF DogType
<1>5. PortsApart' /\ NotItself'
  BY <1>1, <1>3 DEF DogInv, PortsApart, NotItself
<1>6. CountsFair'
  <2> SUFFICES ASSUME NEW x \in Task, NEW y \in Task,
                      wRun'[x] \in {"load", "serve"}, wSocket'[x] # None, wPartner'[x] = y,
                      wRun'[y] = "boot" \/ wSocket'[y] # None
               PROVE  wSilence'[y] = MaxMissed \/ Counted(x)' <= wSilence'[y] + 1
    BY DEF CountsFair
  <2>1. x # q /\ wRun[x] \in {"load", "serve"}
    BY <1>3
  <2>2. y # q
    BY <1>1, <2>1
  <2>3. wSilence'[y] = wSilence[y] /\ wRun'[y] = wRun[y] /\ Counted(x)' = Counted(x)
    BY <1>1, <1>3, <2>2 DEF Counted
  <2> QED
    BY <1>1, <2>1, <2>3 DEF DogInv, CountsFair
<1> QED
  BY <1>4, <1>5, <1>6 DEF DogInv

LEMMA StartWatchdogDog == ASSUME DogInv, NEW p \in Task, Dogs!StartWatchdog(p) PROVE DogInv'
<1> DEFINE open == {o \in Dogs!Port : \A q \in Dogs!Up : wSocket[q] # o}
           s == IF "health" \in open THEN "health" ELSE IF "partner" \in open THEN "partner" ELSE None
<1>1. /\ wRun[p] = "boot" /\ wRun' = [wRun EXCEPT ![p] = "load"]
      /\ wSocket' = [wSocket EXCEPT ![p] = s] /\ wPartner' = [wPartner EXCEPT ![p] = None]
      /\ wMissed' = [wMissed EXCEPT ![p] = 0] /\ wDue' = [wDue EXCEPT ![p] = {"beat"}]
      /\ UNCHANGED wSilence
  BY DEF Dogs!StartWatchdog
<1>2. s \in Dogs!Port \cup {None} /\ \A q \in Task : wSocket[q] # None => s # wSocket[q]
  <2>1. \A q \in Task : wSocket[q] # None => q \in Dogs!Up /\ wSocket[q] \notin open
    BY DEF DogInv, PortsApart, Dogs!Up
  <2>2. s \in open \cup {None}
    OBVIOUS
  <2> QED
    BY <2>1, <2>2
<1> HIDE DEF s
<1>3. DogType
  BY DEF DogInv
<1>4. DogType'
  BY <1>1, <1>2, <1>3 DEF DogType, Runs
<1>5. /\ wRun'[p] = "load" /\ wSocket'[p] = s /\ wPartner'[p] = None
      /\ \A r \in Task \ {p} : /\ wRun'[r] = wRun[r] /\ wSocket'[r] = wSocket[r]
                               /\ wPartner'[r] = wPartner[r] /\ wMissed'[r] = wMissed[r]
                               /\ wDue'[r] = wDue[r]
  BY <1>1, <1>3 DEF DogType
<1>6. None \notin Task
  BY DogsAssumption DEF Dogs!WatchdogAssumption
<1>7. PortsApart'
  BY <1>2, <1>5 DEF DogInv, PortsApart
<1>8. NotItself'
  BY <1>5, <1>6 DEF DogInv, NotItself
<1>9. CountsFair'
  <2> SUFFICES ASSUME NEW x \in Task, NEW y \in Task,
                      wRun'[x] \in {"load", "serve"}, wSocket'[x] # None, wPartner'[x] = y,
                      wRun'[y] = "boot" \/ wSocket'[y] # None
               PROVE  wSilence'[y] = MaxMissed \/ Counted(x)' <= wSilence'[y] + 1
    BY DEF CountsFair
  <2>1. x # p
    BY <1>5, <1>6
  <2>2. Counted(x)' = Counted(x) /\ wSilence'[y] = wSilence[y]
    BY <1>1, <1>5, <2>1 DEF Counted
  <2>3. wRun[y] = "boot" \/ wSocket[y] # None
    BY <1>1, <1>5
  <2> QED
    BY <1>5, <2>1, <2>2, <2>3 DEF DogInv, CountsFair
<1> QED
  BY <1>4, <1>7, <1>8, <1>9 DEF DogInv

LEMMA ServeDog == ASSUME DogInv, NEW p \in Task, Dogs!Serve(p) PROVE DogInv'
<1>1. /\ wRun[p] = "load" /\ wRun' = [wRun EXCEPT ![p] = "serve"]
      /\ UNCHANGED <<wSocket, wSilence, wPartner, wMissed, wDue>>
  BY DEF Dogs!Serve, Dogs!dogVars
<1>2. /\ wRun' \in [Task -> Runs]
      /\ \A r \in Task : wRun'[r] = IF r = p THEN "serve" ELSE wRun[r]
  BY <1>1 DEF DogInv, DogType, Runs
<1>3. DogType' /\ PortsApart' /\ NotItself'
  BY <1>1, <1>2 DEF DogInv, DogType, PortsApart, NotItself
<1>4. \A x : Counted(x)' = Counted(x)
  BY <1>1 DEF Counted
<1>5. CountsFair'
  <2> SUFFICES ASSUME NEW x \in Task, NEW y \in Task,
                      wRun'[x] \in {"load", "serve"}, wSocket'[x] # None, wPartner'[x] = y,
                      wRun'[y] = "boot" \/ wSocket'[y] # None
               PROVE  wSilence'[y] = MaxMissed \/ Counted(x)' <= wSilence'[y] + 1
    BY DEF CountsFair
  <2>1. wRun[x] \in {"load", "serve"} /\ (wRun[y] = "boot" \/ wSocket[y] # None)
    BY <1>1, <1>2
  <2> QED
    BY <1>1, <1>4, <2>1 DEF DogInv, CountsFair
<1> QED
  BY <1>3, <1>5 DEF DogInv

LEMMA EndsDog == ASSUME DogInv, NEW p \in Task, Dogs!Ends(p) PROVE DogInv'
<1>1. /\ wRun' = [q \in Task |->
                    IF q = p THEN IF wParent[p] \in Dogs!Up \ {p} THEN "zombie" ELSE "off"
                    ELSE IF wRun[q] = "zombie" /\ wParent[q] = p THEN "off"
                    ELSE wRun[q]]
      /\ wSocket' = [wSocket EXCEPT ![p] = None] /\ wDue' = [wDue EXCEPT ![p] = {}]
      /\ wPartner' = [wPartner EXCEPT ![p] = None] /\ wMissed' = [wMissed EXCEPT ![p] = 0]
      /\ wSilence' = [wSilence EXCEPT ![p] = 0]
  BY DEF Dogs!Ends
<1>2. DogType /\ 0 \in 0..MaxMissed /\ None \notin Task
  BY DogsAssumption DEF DogInv, Dogs!WatchdogAssumption
<1>3. wRun' \in [Task -> Runs]
  BY <1>1, <1>2 DEF DogType, Runs
<1>4. DogType'
  BY <1>1, <1>2, <1>3 DEF DogType
<1>5. /\ wRun'[p] \in {"zombie", "off"} /\ wSocket'[p] = None /\ wPartner'[p] = None
      /\ \A r \in Task \ {p} : /\ wSocket'[r] = wSocket[r] /\ wDue'[r] = wDue[r]
                               /\ wPartner'[r] = wPartner[r] /\ wMissed'[r] = wMissed[r]
                               /\ wSilence'[r] = wSilence[r]
                               /\ wRun'[r] # wRun[r] => wRun[r] = "zombie" /\ wRun'[r] = "off"
  BY <1>1, <1>2 DEF DogType
<1>6. PortsApart' /\ NotItself'
  BY <1>2, <1>5 DEF DogInv, PortsApart, NotItself
<1>7. CountsFair'
  <2> SUFFICES ASSUME NEW x \in Task, NEW y \in Task,
                      wRun'[x] \in {"load", "serve"}, wSocket'[x] # None, wPartner'[x] = y,
                      wRun'[y] = "boot" \/ wSocket'[y] # None
               PROVE  wSilence'[y] = MaxMissed \/ Counted(x)' <= wSilence'[y] + 1
    BY DEF CountsFair
  <2>1. x # p /\ y # p
    BY <1>5
  <2>2. Counted(x)' = Counted(x) /\ wSilence'[y] = wSilence[y] /\ wSocket'[y] = wSocket[y]
    BY <1>5, <2>1 DEF Counted
  <2>3. wRun[x] \in {"load", "serve"} /\ wSocket[x] # None /\ wPartner[x] = y
    BY <1>5, <2>1
  <2>4. wRun[y] = "boot" \/ wSocket[y] # None
    BY <1>5, <2>1
  <2> QED
    BY <2>2, <2>3, <2>4 DEF DogInv, CountsFair
<1> QED
  BY <1>4, <1>6, <1>7 DEF DogInv

LEMMA SecondDog == ASSUME DogInv, Dogs!Second PROVE DogInv'
<1>1. /\ wDue' = [p \in Task |-> IF p \in Dogs!Watching THEN {"beat", "watch"} ELSE {}]
      /\ wSilence' = [p \in Task |-> IF p \notin Dogs!Up THEN 0
                                     ELSE IF wSilence[p] < MaxMissed THEN wSilence[p] + 1
                                     ELSE MaxMissed]
      /\ UNCHANGED <<wRun, wSocket, wPartner, wMissed>>
  BY DEF Dogs!Second
<1>2. DogType /\ MaxMissed \in Nat
  BY DogsAssumption DEF DogInv, Dogs!WatchdogAssumption
<1>3. wSilence' \in [Task -> 0..MaxMissed] /\ wDue' \in [Task -> SUBSET {"beat", "watch"}]
  BY <1>1, <1>2 DEF DogType
<1>4. DogType' /\ PortsApart' /\ NotItself'
  BY <1>1, <1>3 DEF DogInv, DogType, PortsApart, NotItself
<1>5. CountsFair'
  <2> SUFFICES ASSUME NEW x \in Task, NEW y \in Task,
                      wRun[x] \in {"load", "serve"}, wSocket[x] # None, wPartner[x] = y,
                      wRun[y] = "boot" \/ wSocket[y] # None
               PROVE  wSilence'[y] = MaxMissed \/ Counted(x)' <= wSilence'[y] + 1
    BY <1>1 DEF CountsFair
  <2>1. wSilence[y] = MaxMissed \/ Counted(x) <= wSilence[y] + 1
    BY DEF DogInv, CountsFair
  <2>2. wMissed[x] \in Nat /\ wSilence[y] \in 0..MaxMissed
    BY <1>2 DEF DogType
  <2>3. wMissed[x] <= Counted(x) /\ Counted(x)' <= wMissed[x] + 1
    BY <1>1, <2>2 DEF Counted
  <2>4. y \in Dogs!Up
    BY DEF DogInv, PortsApart, Dogs!Up
  <2>5. wSilence'[y] = IF wSilence[y] < MaxMissed THEN wSilence[y] + 1 ELSE MaxMissed
    BY <1>1, <2>4
  <2>6. Counted(x) \in Nat /\ Counted(x)' \in Nat
    BY <1>1, <2>2 DEF Counted
  <2> QED
    BY <1>2, <2>1, <2>2, <2>3, <2>5, <2>6
<1> QED
  BY <1>4, <1>5 DEF DogInv

LEMMA SendsDog ==
    ASSUME DogInv, NEW p \in Task, wRun[p] \in {"load", "serve"}, Dogs!Sends(p),
           NEW D \in SUBSET {"beat"}, wDue' = [wDue EXCEPT ![p] = @ \ D]
    PROVE  DogInv'
<1> DEFINE hears(q) == q \in Dogs!Watching /\ wSocket[q] = Dogs!Target(p)
<1>1. /\ wMissed' = [q \in Task |-> IF hears(q) THEN 0 ELSE wMissed[q]]
      /\ wPartner' = [q \in Task |-> IF hears(q) /\ wPartner[q] = None THEN p ELSE wPartner[q]]
      /\ wSilence' = [wSilence EXCEPT ![p] = 0]
      /\ UNCHANGED <<wRun, wSocket>>
  BY DEF Dogs!Sends
<1>2. DogType /\ 0 \in 0..MaxMissed /\ None \notin Task
  BY DogsAssumption DEF DogInv, Dogs!WatchdogAssumption
<1>3. ~hears(p)
  BY NoEcho
<1>4. \A q \in Task : q # p /\ wRun[q] \in {"load", "serve"} /\ wSocket[q] # None /\ wSocket[p] # None => hears(q)
  BY PortsFace DEF Dogs!Watching
<1> HIDE DEF hears
<1>5. /\ wMissed' \in [Task -> Nat] /\ wPartner' \in [Task -> Task \cup {None}]
      /\ wSilence' \in [Task -> 0..MaxMissed]
      /\ wDue' \in [Task -> SUBSET {"beat", "watch"}]
  BY <1>1, <1>2 DEF DogType
<1>6. DogType' /\ PortsApart'
  BY <1>1, <1>5 DEF DogInv, DogType, PortsApart
<1>7. NotItself'
  BY <1>1, <1>3 DEF DogInv, NotItself
<1>8. \A x \in Task : /\ wMissed'[x] = (IF hears(x) THEN 0 ELSE wMissed[x])
                      /\ "watch" \in wDue'[x] <=> "watch" \in wDue[x]
                      /\ wSilence'[x] = (IF x = p THEN 0 ELSE wSilence[x])
                      /\ wMissed[x] \in Nat /\ wSilence[x] \in 0..MaxMissed
  BY <1>1, <1>2 DEF DogType
<1>9. CountsFair'
  <2> SUFFICES ASSUME NEW x \in Task, NEW y \in Task,
                      wRun[x] \in {"load", "serve"}, wSocket[x] # None, wPartner'[x] = y,
                      wRun[y] = "boot" \/ wSocket[y] # None
               PROVE  wSilence'[y] = MaxMissed \/ Counted(x)' <= wSilence'[y] + 1
    BY <1>1 DEF CountsFair
  <2>1. CASE hears(x)
    <3>1. wMissed'[x] = 0 /\ wSilence'[y] \in Nat
      BY <1>8, <2>1
    <3> QED
      BY <3>1 DEF Counted
  <2>2. CASE ~hears(x)
    <3>1. wPartner[x] = y
      BY <1>1, <2>2
    <3>2. x # y
      BY <3>1 DEF DogInv, NotItself
    <3>3. y # p
      BY <1>4, <2>2, <3>2
    <3>4. Counted(x)' = Counted(x) /\ wSilence'[y] = wSilence[y]
      BY <1>8, <2>2, <3>3 DEF Counted
    <3> QED
      BY <3>1, <3>4 DEF DogInv, CountsFair
  <2> QED
    BY <2>1, <2>2
<1> QED
  BY <1>6, <1>7, <1>9 DEF DogInv

LEMMA BeatDog == ASSUME DogInv, NEW p \in Task, Dogs!Beat(p) \/ Dogs!BeatOfGameLoop(p) PROVE DogInv'
<1>1. CASE Dogs!Beat(p)
  <2>1. wRun[p] \in {"load", "serve"} /\ Dogs!Sends(p) /\ wDue' = [wDue EXCEPT ![p] = @ \ {"beat"}]
    BY <1>1 DEF Dogs!Beat, Dogs!Watching
  <2>2. {"beat"} \in SUBSET {"beat"}
    OBVIOUS
  <2> QED
    BY <2>1, <2>2, SendsDog
<1>2. CASE Dogs!BeatOfGameLoop(p)
  <2>1. wRun[p] \in {"load", "serve"} /\ Dogs!Sends(p) /\ wDue' = [wDue EXCEPT ![p] = @ \ {}]
    BY <1>2 DEF Dogs!BeatOfGameLoop, DogInv, DogType
  <2>2. {} \in SUBSET {"beat"}
    OBVIOUS
  <2> QED
    BY <2>1, <2>2, SendsDog
<1> QED
  BY <1>1, <1>2

LEMMA WaitDog == ASSUME DogInv, NEW p \in Task, Dogs!Wait(p) PROVE DogInv'
<1>1. /\ "watch" \in wDue[p]
      /\ wMissed' = [wMissed EXCEPT ![p] = @ + 1] /\ wDue' = [wDue EXCEPT ![p] = @ \ {"watch"}]
      /\ UNCHANGED <<wRun, wSocket, wPartner, wSilence>>
  BY DEF Dogs!Wait, Dogs!Due
<1>2. DogType' /\ PortsApart' /\ NotItself'
  BY <1>1 DEF DogInv, DogType, PortsApart, NotItself
<1>3. \A x \in Task : Counted(x)' = Counted(x)
  BY <1>1 DEF DogInv, DogType, Counted
<1>4. CountsFair'
  BY <1>1, <1>3 DEF DogInv, CountsFair
<1> QED
  BY <1>2, <1>4 DEF DogInv

LEMMA ReturnDog == ASSUME DogInv, NEW p \in Task, Dogs!Return(p) PROVE DogInv'
<1>1. /\ wMissed' = [wMissed EXCEPT ![p] = 0] /\ wDue' = [wDue EXCEPT ![p] = @ \ {"watch"}]
      /\ wRun' = [q \in Task |-> IF wRun[q] = "zombie" /\ wParent[q] = p THEN "off" ELSE wRun[q]]
      /\ UNCHANGED <<wSocket, wPartner, wSilence>>
  BY DEF Dogs!Return
<1>2. DogType
  BY DEF DogInv
<1>3. /\ wRun' \in [Task -> Runs]
      /\ \A q \in Task : wRun'[q] \in {"boot", "load", "serve"} => wRun'[q] = wRun[q]
      /\ \A q \in Task : wRun[q] \in {"load", "serve"} => wRun'[q] = wRun[q]
  BY <1>1, <1>2 DEF DogType, Runs
<1>4. DogType' /\ PortsApart' /\ NotItself'
  BY <1>1, <1>2, <1>3 DEF DogInv, DogType, PortsApart, NotItself
<1>5. \A x \in Task : /\ Counted(x)' = (IF x = p THEN 0 ELSE Counted(x))
                      /\ wSilence[x] \in Nat
  BY <1>1, <1>2 DEF DogType, Counted
<1>6. CountsFair'
  <2> SUFFICES ASSUME NEW x \in Task, NEW y \in Task,
                      wRun'[x] \in {"load", "serve"}, wSocket[x] # None, wPartner[x] = y,
                      wRun'[y] = "boot" \/ wSocket[y] # None
               PROVE  wSilence[y] = MaxMissed \/ Counted(x)' <= wSilence[y] + 1
    BY <1>1 DEF CountsFair
  <2>1. CASE x = p
    BY <1>5, <2>1
  <2>2. CASE x # p
    BY <1>3, <1>5, <2>2 DEF DogInv, CountsFair
  <2> QED
    BY <2>1, <2>2
<1> QED
  BY <1>4, <1>6 DEF DogInv

LEMMA RestartDog == ASSUME DogInv, NEW p \in Task, NEW q \in Task, Dogs!Restart(p, q) PROVE DogInv'
<1> DEFINE old == wPartner[p]
           dies(r) == r = old /\ r \in Dogs!Up
<1>1. /\ wRun[p] \in {"load", "serve"} /\ q # p
      /\ wRun[q] \in {"off", "killed"} /\ \A r \in Dogs!Up : wPartner[r] # q
      /\ wRun' = [r \in Task |-> IF r = q THEN "boot"
                                 ELSE IF dies(r) THEN "killed"
                                 ELSE IF wRun[r] = "zombie" /\ wParent[r] \in {p, old} THEN "off"
                                 ELSE wRun[r]]
      /\ wSocket' = [r \in Task |-> IF dies(r) THEN None ELSE wSocket[r]]
      /\ wDue' = [r \in Task |-> IF r = p THEN wDue[p] \ {"watch"}
                                 ELSE IF dies(r) THEN {} ELSE wDue[r]]
      /\ wSilence' = [r \in Task |-> IF r = q \/ dies(r) THEN 0 ELSE wSilence[r]]
      /\ wPartner' = [r \in Task |-> IF r = p THEN q ELSE IF dies(r) THEN None ELSE wPartner[r]]
      /\ wMissed' = [r \in Task |-> IF r = p \/ dies(r) THEN 0 ELSE wMissed[r]]
  BY DEF Dogs!Restart, Dogs!Due, Dogs!Watching, Dogs!FreePid
<1>2. DogType /\ 0 \in 0..MaxMissed /\ None \notin Task
  BY DogsAssumption DEF DogInv, Dogs!WatchdogAssumption
<1>3. ~dies(p)
  BY DEF DogInv, NotItself
<1> HIDE DEF dies, old
<1>4. /\ wRun' \in [Task -> Runs] /\ wSocket' \in [Task -> Dogs!Port \cup {None}]
      /\ wDue' \in [Task -> SUBSET {"beat", "watch"}]
  BY <1>1, <1>2 DEF DogType, Runs
<1>5. /\ wSilence' \in [Task -> 0..MaxMissed] /\ wPartner' \in [Task -> Task \cup {None}]
      /\ wMissed' \in [Task -> Nat]
  BY <1>1, <1>2 DEF DogType
<1>6. DogType'
  BY <1>4, <1>5 DEF DogType
<1>7. PortsApart'
  <2>1. \A r \in Task : wSocket'[r] # None => wSocket'[r] = wSocket[r] /\ ~dies(r) /\ r # q
    BY <1>1 DEF DogInv, PortsApart
  <2>2. \A r \in Task : wSocket'[r] # None => wRun'[r] \in {"load", "serve"}
    BY <1>1, <2>1 DEF DogInv, PortsApart
  <2> QED
    BY <2>1, <2>2 DEF DogInv, PortsApart
<1>8. NotItself'
  BY <1>1, <1>2 DEF DogInv, NotItself
<1>9. CountsFair'
  <2> SUFFICES ASSUME NEW x \in Task, NEW y \in Task,
                      wRun'[x] \in {"load", "serve"}, wSocket'[x] # None, wPartner'[x] = y,
                      wRun'[y] = "boot" \/ wSocket'[y] # None
               PROVE  wSilence'[y] = MaxMissed \/ Counted(x)' <= wSilence'[y] + 1
    BY DEF CountsFair
  <2>1. CASE x = p
    <3>1. Counted(x)' = 0 /\ wSilence'[y] \in Nat
      BY <1>1, <1>5, <2>1 DEF Counted
    <3> QED
      BY <3>1
  <2>2. CASE x # p
    <3>1. x # q /\ ~dies(x) /\ wRun[x] = wRun'[x] /\ wPartner[x] = y /\ wSocket[x] = wSocket'[x]
      BY <1>1, <1>2, <2>2
    <3>2. Counted(x)' = Counted(x)
      BY <1>1, <2>2, <3>1 DEF Counted
    <3>3. x \in Dogs!Up
      BY <3>1 DEF Dogs!Up
    <3>4. y # q
      BY <1>1, <3>1, <3>3
    <3>5. ~dies(y)
      BY <1>1, <3>4
    <3>6. wSilence'[y] = wSilence[y] /\ (wRun[y] = "boot" \/ wSocket[y] # None)
      BY <1>1, <3>4, <3>5
    <3> QED
      BY <3>1, <3>2, <3>6 DEF DogInv, CountsFair
  <2> QED
    BY <2>1, <2>2
<1> QED
  BY <1>6, <1>7, <1>8, <1>9 DEF DogInv

LEMMA DogNext == DogInv /\ [Dogs!Next]_(Dogs!vars) => DogInv'
<1> SUFFICES ASSUME DogInv, [Dogs!Next]_(Dogs!vars) PROVE DogInv'
  OBVIOUS
<1>1. CASE UNCHANGED Dogs!vars
  <2>1. UNCHANGED <<wRun, wSocket, wPartner, wMissed, wDue, wSilence>>
    BY <1>1 DEF Dogs!vars, Dogs!dogVars
  <2> QED
    BY <2>1 DEF DogInv, DogType, PortsApart, NotItself, CountsFair, Counted
<1>2. ASSUME NEW p \in Task, Dogs!GiveUp(p) \/ Dogs!Crash(p) PROVE DogInv'
  BY <1>2, EndsDog DEF Dogs!GiveUp, Dogs!Crash
<1>3. ASSUME NEW p \in Task,
             \/ Dogs!Launch(p) \/ Dogs!StartWatchdog(p) \/ Dogs!Serve(p)
             \/ Dogs!Beat(p) \/ Dogs!BeatOfGameLoop(p) \/ Dogs!Wait(p) \/ Dogs!Return(p)
      PROVE  DogInv'
  BY <1>3, LaunchDog, StartWatchdogDog, ServeDog, BeatDog, WaitDog, ReturnDog
<1> QED
  BY <1>1, <1>2, <1>3, SecondDog, RestartDog DEF Dogs!Next

\* Only a restart kills.
LEMMA OnlyRestartKills ==
    ASSUME DogInv, Dogs!Next, NEW q \in Dogs!Up, wRun'[q] = "killed"
    PROVE  \E r \in Task, n \in Task : Dogs!Restart(r, n)
<1>0. q \in Task /\ wRun[q] \in {"boot", "load", "serve"}
  BY DEF Dogs!Up
<1>1. SUFFICES ASSUME \A r, n \in Task : ~Dogs!Restart(r, n) PROVE FALSE
  OBVIOUS
<1>2. ASSUME NEW p \in Task, Dogs!Ends(p) PROVE FALSE
  BY <1>0, <1>2 DEF Dogs!Ends
<1>3. ASSUME NEW p \in Task, Dogs!Launch(p) \/ Dogs!StartWatchdog(p) \/ Dogs!Serve(p) PROVE FALSE
  <2>1. wRun \in [Task -> Runs]
    BY DEF DogInv, DogType
  <2>2. \/ wRun' = [wRun EXCEPT ![p] = "boot"]
        \/ wRun' = [wRun EXCEPT ![p] = "load"]
        \/ wRun' = [wRun EXCEPT ![p] = "serve"]
    BY <1>3 DEF Dogs!Launch, Dogs!StartWatchdog, Dogs!Serve
  <2> QED
    BY <1>0, <2>1, <2>2
<1>4. ASSUME NEW p \in Task, Dogs!Beat(p) \/ Dogs!BeatOfGameLoop(p) \/ Dogs!Wait(p) \/ Dogs!Return(p)
      PROVE  FALSE
  BY <1>0, <1>4 DEF Dogs!Beat, Dogs!BeatOfGameLoop, Dogs!Sends, Dogs!Wait, Dogs!Return
<1>5. ~Dogs!Second
  BY <1>0 DEF Dogs!Second
<1> QED
  BY <1>1, <1>2, <1>3, <1>4, <1>5 DEF Dogs!Next, Dogs!GiveUp, Dogs!Crash

LEMMA KillsTheSilent ==
    ASSUME DogInv, Dogs!Next, NEW p \in Dogs!Watching, NEW q \in Dogs!Up,
           wPartner[p] = q, wPartner'[p] # q, wRun'[q] = "killed", wSocket[p] # None,
           wRun[q] = "boot" \/ wSocket[q] # None
    PROVE  wSilence[q] >= MaxMissed
<1>1. PICK r \in Task, n \in Task : Dogs!Restart(r, n)
  BY OnlyRestartKills
<1>2. p \in Task /\ q \in Task /\ wRun[p] \in {"load", "serve"} /\ wRun[q] \in {"boot", "load", "serve"}
  BY DEF Dogs!Watching, Dogs!Up
<1>3. wRun'[q] = IF q = n THEN "boot"
                 ELSE IF q = wPartner[r] /\ q \in Dogs!Up THEN "killed"
                 ELSE IF wRun[q] = "zombie" /\ wParent[q] \in {r, wPartner[r]} THEN "off"
                 ELSE wRun[q]
  BY <1>1, <1>2 DEF Dogs!Restart
<1>4. q = wPartner[r]
  BY <1>2, <1>3
<1>5. p = r
  <2>1. wPartner'[p] = IF p = r THEN n
                       ELSE IF p = wPartner[r] /\ p \in Dogs!Up THEN None ELSE wPartner[p]
    BY <1>1, <1>2 DEF Dogs!Restart
  <2>2. p # q
    BY <1>2 DEF DogInv, NotItself
  <2> QED
    BY <1>4, <2>1, <2>2
<1>6. "watch" \in wDue[p] /\ Dogs!Overdue(p)
  BY <1>1, <1>5 DEF Dogs!Restart, Dogs!Due
<1>7. q \in Dogs!Alive
  BY <1>2 DEF Dogs!Alive
<1>8. wMissed[p] + 1 > MaxMissed
  BY <1>6, <1>7 DEF Dogs!Overdue
<1>9. wSilence[q] = MaxMissed \/ wMissed[p] + 1 <= wSilence[q] + 1
  BY <1>2, <1>6 DEF DogInv, CountsFair, Counted
<1>10. MaxMissed \in Nat /\ wMissed[p] \in Nat /\ wSilence[q] \in Nat
  BY <1>2, DogsAssumption DEF DogInv, DogType, Dogs!WatchdogAssumption
<1> QED
  BY <1>8, <1>9, <1>10

\* No watchdog kills a process that has sent its heartbeats, whatever is started, ends
\* or is held up meanwhile.
THEOREM PromptSurvive == Dogs!Spec => PromptStays
<1>1. DogInv /\ [Dogs!Next]_(Dogs!vars) =>
        [\A p \in Dogs!Watching, q \in Dogs!Up :
            /\ wPartner[p] = q /\ wPartner'[p] # q
            /\ wRun'[q] = "killed"
            /\ wSocket[p] # None
            /\ wRun[q] = "boot" \/ wSocket[q] # None
            => wSilence[q] >= MaxMissed]_(Dogs!vars)
  BY KillsTheSilent
<1> QED
  BY <1>1, DogStart, DogNext, PTL DEF Dogs!Spec, PromptStays, Dogs!PromptStays

-------------------------------------------------------------------------------
(* Extensions.                                                             *)
(*                                                                         *)
(* The order of load_all: Kahn's algorithm places an id after everything   *)
(* it needs and takes every id it can; what it leaves over is on a cycle   *)
(* of dependencies or needs something that is.                             *)

(* Sorted sets. *)

Increasing(s, S) ==
    /\ s \in [1..Cardinality(S) -> S]
    /\ \A i, j \in 1..Cardinality(S) : i < j => s[i] < s[j]

LEMMA IncreasingExists ==
    ASSUME NEW S \in SUBSET Nat, IsFiniteSet(S)
    PROVE  \E s : Increasing(s, S)
<1> DEFINE Wrong == {n \in Nat : \E V \in SUBSET S : Cardinality(V) = n /\ ~ \E s : Increasing(s, V)}
<1>1. \A V \in SUBSET S : IsFiniteSet(V) /\ Cardinality(V) \in Nat
  BY FS_Subset, FS_CardinalityType
<1>2. SUFFICES ASSUME Wrong # {} PROVE FALSE
  BY <1>1
<1>3. PICK n \in Wrong : \A m \in Wrong : ~(m < n)
  BY <1>2, LeastNumber
<1>4. PICK V \in SUBSET S : Cardinality(V) = n /\ ~ \E s : Increasing(s, V)
  BY <1>3
<1>5. CASE n = 0
  <2>1. V = {}
    BY <1>1, <1>4, <1>5, FS_EmptySet
  <2>2. [i \in 1..0 |-> 0] \in [1..0 -> V]
    BY <2>1
  <2>3. Increasing([i \in 1..0 |-> 0], V)
    BY <1>4, <1>5, <2>2 DEF Increasing
  <2> QED
    BY <1>4, <2>3
<1>6. CASE n # 0
  <2>0. n \in Nat /\ V \in SUBSET Nat
    BY <1>3
  <2>1. V # {} /\ V \in SUBSET Nat
    BY <1>4, <1>6, FS_EmptySet
  <2>2. PICK x \in V : \A y \in V : ~(y < x)
    BY <2>1, LeastNumber
  <2> DEFINE U == V \ {x}
  <2>3. U \in SUBSET S /\ Cardinality(U) = n - 1 /\ n - 1 \in Nat /\ n - 1 < n
    BY <1>1, <1>3, <1>4, <1>6, FS_RemoveElement
  <2>4. PICK t : Increasing(t, U)
    BY <1>3, <2>3
  <2>5. /\ t \in [1..n-1 -> U]
        /\ \A i, j \in 1..n-1 : i < j => t[i] < t[j]
    BY <2>3, <2>4 DEF Increasing
  <2> HIDE DEF U, Wrong
  <2> DEFINE s == [i \in 1..n |-> IF i = 1 THEN x ELSE t[i-1]]
  <2>6. \A i \in 1..n : i # 1 => i - 1 \in 1..n-1 /\ t[i-1] \in V /\ x < t[i-1]
    <3> SUFFICES ASSUME NEW i \in 1..n, i # 1 PROVE i - 1 \in 1..n-1 /\ t[i-1] \in V /\ x < t[i-1]
      OBVIOUS
    <3>1. i - 1 \in 1..n-1
      BY <2>0
    <3>2. t[i-1] \in U
      BY <2>5, <3>1
    <3>3. t[i-1] \in V /\ t[i-1] # x
      BY <3>2 DEF U
    <3>4. t[i-1] \in Nat /\ x \in Nat /\ ~(t[i-1] < x)
      BY <2>0, <2>2, <3>3
    <3> QED
      BY <3>1, <3>3, <3>4
  <2>7. s \in [1..n -> V]
    BY <2>6
  <2>8. ASSUME NEW i \in 1..n, NEW j \in 1..n, i < j PROVE s[i] < s[j]
    <3>1. j # 1 /\ s[j] = t[j-1]
      BY <2>8
    <3>2. CASE i = 1
      BY <2>6, <3>1, <3>2
    <3>3. CASE i # 1
      BY <2>5, <2>6, <2>8, <3>1, <3>3
    <3> QED
      BY <3>2, <3>3
  <2>9. Increasing(s, V)
    BY <1>4, <2>7, <2>8 DEF Increasing
  <2> QED
    BY <1>4, <2>9
<1> QED
  BY <1>3, <1>5, <1>6

LEMMA SameCardinality == \A S : Extension!Cardinality(S) = Cardinality(S)
BY DEF Extension!Cardinality, Cardinality

\* The sorted list of a set has each of its members once.
LEMMA SortedLists ==
    ASSUME NEW V \in SUBSET Nat, NEW S \in SUBSET V, IsFiniteSet(S)
    PROVE  /\ Extension!Sorted(S) \in Seq(V)
           /\ Distinct(Extension!Sorted(S))
           /\ \A x : Listed(Extension!Sorted(S), x) <=> x \in S
<1> DEFINE n == Cardinality(S)
           D == 1..n
           f == Extension!Sorted(S)
<1>1. n \in Nat
  BY FS_CardinalityType
<1>2. f \in [D -> S] /\ \A i, j \in D : i < j => f[i] < f[j]
  <2>0. S \in SUBSET Nat
    OBVIOUS
  <2>1. PICK s : Increasing(s, S)
    BY <2>0, IncreasingExists
  <2>2. s \in [D -> S] /\ \A i, j \in D : i < j => s[i] < s[j]
    BY <2>1 DEF Increasing
  <2>3. f = CHOOSE u \in [1..Cardinality(S) -> S] :
                 \A i, j \in 1..Cardinality(S) : i < j => u[i] < u[j]
    BY SameCardinality DEF Extension!Sorted
  <2>4. \E u \in [1..Cardinality(S) -> S] : \A i, j \in 1..Cardinality(S) : i < j => u[i] < u[j]
    BY <2>2
  <2> HIDE DEF f
  <2> QED
    BY <2>3, <2>4, Zenon
<1> HIDE DEF f
<1>3. \A i, j \in D : f[i] = f[j] => i = j
  <2> SUFFICES ASSUME NEW i \in D, NEW j \in D, f[i] = f[j], i # j PROVE FALSE
    OBVIOUS
  <2>1. f[i] \in Nat /\ f[j] \in Nat
    BY <1>2
  <2>2. i < j \/ j < i
    OBVIOUS
  <2> QED
    BY <1>2, <2>1, <2>2
<1>4. f \in Injection(D, S)
  BY <1>2, <1>3 DEF Injection, IsInjective
<1>5. Cardinality(D) = n
  BY <1>1, FS_Interval
<1>6. f \in Surjection(D, S)
  BY <1>4, <1>5, FS_Injection
<1>7. \A x \in S : \E i \in D : f[i] = x
  BY <1>6 DEF Surjection
<1>8. f \in [1..n -> V]
  BY <1>2
<1>8a. f \in Seq(V) /\ Len(f) = n
  BY <1>1, <1>8
<1>9. Distinct(f)
  BY <1>3, <1>8a DEF Distinct
<1>10. \A x : Listed(f, x) <=> x \in S
  BY <1>2, <1>7, <1>8a DEF Listed
<1> QED
  BY <1>8a, <1>9, <1>10 DEF f

LEMMA ConcatDistinct ==
    ASSUME NEW S, NEW s \in Seq(S), NEW t \in Seq(S), Distinct(s), Distinct(t),
           \A x : ~(Listed(s, x) /\ Listed(t, x))
    PROVE  Distinct(s \o t)
<1> DEFINE u == s \o t
<1>0. Len(s) \in Nat /\ Len(t) \in Nat
  BY LenProperties
<1>1. /\ Len(u) = Len(s) + Len(t)
      /\ \A i \in 1..Len(s) : u[i] = s[i]
      /\ \A i \in 1..Len(u) : i \in 1..Len(s) \/ (i - Len(s) \in 1..Len(t) /\ u[i] = t[i - Len(s)])
  BY ConcatLists
<1> HIDE DEF u
<1>2. SUFFICES ASSUME NEW i \in 1..Len(u), NEW j \in 1..Len(u), u[i] = u[j], i # j PROVE FALSE
  BY DEF Distinct, u
<1>3. ASSUME NEW k \in 1..Len(s) PROVE Listed(s, u[k]) /\ u[k] = s[k]
  BY <1>1 DEF Listed
<1>4. ASSUME NEW k \in 1..Len(u), k \notin 1..Len(s)
      PROVE  k - Len(s) \in 1..Len(t) /\ u[k] = t[k - Len(s)] /\ Listed(t, u[k])
  BY <1>1, <1>4 DEF Listed
<1>5. CASE i \in 1..Len(s) /\ j \in 1..Len(s)
  BY <1>2, <1>3, <1>5 DEF Distinct
<1>6. CASE i \notin 1..Len(s) /\ j \notin 1..Len(s)
  <2>1. t[i - Len(s)] = t[j - Len(s)] /\ i - Len(s) \in 1..Len(t) /\ j - Len(s) \in 1..Len(t)
    BY <1>2, <1>4, <1>6
  <2>2. i - Len(s) = j - Len(s)
    BY <2>1 DEF Distinct
  <2> QED
    BY <1>0, <1>1, <1>2, <2>2
<1>7. CASE i \in 1..Len(s) /\ j \notin 1..Len(s)
  BY <1>2, <1>3, <1>4, <1>7
<1>8. CASE i \notin 1..Len(s) /\ j \in 1..Len(s)
  BY <1>2, <1>3, <1>4, <1>8
<1> QED
  BY <1>5, <1>6, <1>7, <1>8

(* The order of the dependencies. *)

F == Extension!Found
Needs(p) == xDepend[p] \cap F

PackagesType ==
    /\ xFound \in Seq(Id) /\ Distinct(xFound)
    /\ xDepend \in [Id -> SUBSET Id]

LEMMA FoundIs ==
    ASSUME PackagesType
    PROVE  /\ F \in SUBSET Id /\ F \in SUBSET Nat /\ IsFiniteSet(F)
           /\ Cardinality(F) = Len(xFound) /\ Len(xFound) \in Nat
           /\ \A x : x \in F <=> Listed(xFound, x)
           /\ \A i \in 1..Len(xFound) : xFound[i] \in F
<1>1. Len(xFound) \in Nat /\ \A i \in 1..Len(xFound) : xFound[i] \in Id
  BY LenProperties DEF PackagesType
<1>2. F = {xFound[i] : i \in 1..Len(xFound)}
  BY <1>1, LenProperties DEF F, Extension!Found, Extension!ToSet, PackagesType
<1>3. \A x : x \in F <=> Listed(xFound, x)
  BY <1>2 DEF Listed
<1>4. F \in SUBSET Id /\ Id \in SUBSET Nat /\ IsFiniteSet(Id)
  BY <1>1, <1>2, PackageAssumption DEF Extension!ExtensionsAssumption, Extension!IsFiniteSet, IsFiniteSet
<1>5. IsFiniteSet(F)
  BY <1>4, FS_Subset
<1> DEFINE f == [i \in 1..Len(xFound) |-> xFound[i]]
<1>6. f \in [1..Len(xFound) -> F] /\ \A i, j \in 1..Len(xFound) : f[i] = f[j] => i = j
  BY <1>2 DEF PackagesType, Distinct
<1>7. \A x \in F : \E i \in 1..Len(xFound) : f[i] = x
  BY <1>2
<1> HIDE DEF f
<1>8. f \in Bijection(1..Len(xFound), F)
  BY <1>6, <1>7 DEF Bijection, Injection, Surjection, IsInjective
<1>9. IsFiniteSet(1..Len(xFound)) /\ Cardinality(1..Len(xFound)) = Len(xFound)
  BY <1>1, FS_Interval
<1>10. Cardinality(F) = Len(xFound)
  BY <1>8, <1>9, FS_Bijection DEF ExistsBijection
<1> QED
  BY <1>1, <1>2, <1>3, <1>4, <1>5, <1>10

\* What is so after every turn of Kahn's algorithm.
KahnWell(s) ==
    /\ s.queue \in Seq(F) /\ s.result \in Seq(F) /\ s.degree \in [F -> Nat]
    /\ Distinct(s.queue) /\ Distinct(s.result)
    /\ \A x : ~(Listed(s.queue, x) /\ Listed(s.result, x))
    /\ \A p \in F : s.degree[p] = Cardinality({d \in Needs(p) : ~Listed(s.result, d)})
    /\ \A p \in F : s.degree[p] = 0 <=> Listed(s.queue, p) \/ Listed(s.result, p)
    /\ \A i \in 1..Len(s.result) : \A d \in Needs(s.result[i]) : \E j \in 1..i-1 : s.result[j] = d

LEMMA NeedsFinite ==
    ASSUME PackagesType, NEW p \in F, NEW V \in SUBSET Needs(p)
    PROVE  IsFiniteSet(V) /\ Cardinality(V) \in Nat /\ (Cardinality(V) = 0 <=> V = {})
<1>1. V \in SUBSET F /\ IsFiniteSet(F)
  BY FoundIs DEF Needs
<1>2. IsFiniteSet(V)
  BY <1>1, FS_Subset
<1> QED
  BY <1>2, FS_CardinalityType, FS_EmptySet

LEMMA StartWell ==
    ASSUME PackagesType
    PROVE  KahnWell(Extension!Start)
<1> DEFINE degree == [p \in F |-> Cardinality(Needs(p))]
           free == {p \in F : degree[p] = 0}
           s == Extension!Start
<1>1. s.queue = Extension!Sorted(free) /\ s.degree = degree /\ s.result = <<>>
  BY SameCardinality DEF Extension!Start, F, Needs
<1>2. free \in SUBSET F /\ F \in SUBSET Nat /\ IsFiniteSet(free)
  <2>1. free \in SUBSET F /\ F \in SUBSET Nat /\ IsFiniteSet(F)
    BY FoundIs
  <2> QED
    BY <2>1, FS_Subset
<1> HIDE DEF free, s
<1>2a. /\ Extension!Sorted(free) \in Seq(F) /\ Distinct(Extension!Sorted(free))
       /\ \A x : Listed(Extension!Sorted(free), x) <=> x \in free
  BY <1>2, SortedLists
<1>3. /\ s.queue \in Seq(F) /\ Distinct(s.queue)
      /\ \A x : Listed(s.queue, x) <=> x \in free
  BY <1>1, <1>2a
<1>4. s.result \in Seq(F) /\ Distinct(s.result) /\ \A x : ~Listed(s.result, x)
  BY <1>1, NoneListed DEF Distinct
<1>5. \A p \in F : Cardinality(Needs(p)) \in Nat
  BY NeedsFinite
<1>6. s.degree \in [F -> Nat]
  BY <1>1, <1>5
<1>7. ASSUME NEW p \in F PROVE s.degree[p] = Cardinality({d \in Needs(p) : ~Listed(s.result, d)})
  <2>1. {d \in Needs(p) : ~Listed(s.result, d)} = Needs(p)
    BY <1>4
  <2> QED
    BY <1>1, <2>1
<1>8. ASSUME NEW p \in F PROVE s.degree[p] = 0 <=> Listed(s.queue, p) \/ Listed(s.result, p)
  BY <1>1, <1>3, <1>4 DEF free
<1>9. \A i \in 1..Len(s.result) : FALSE
  BY <1>1, NoneListed
<1> QED
  BY <1>3, <1>4, <1>6, <1>7, <1>8, <1>9 DEF KahnWell, s

LEMMA TurnWell ==
    ASSUME PackagesType, NEW s, KahnWell(s), s.queue # <<>>
    PROVE  /\ KahnWell(Extension!Turn(s))
           /\ Len(Extension!Turn(s).result) = Len(s.result) + 1
<1> DEFINE c == Head(s.queue)
           rest == [p \in F |-> s.degree[p] - (IF c \in xDepend[p] THEN 1 ELSE 0)]
           free == {p \in F : c \in xDepend[p] /\ rest[p] = 0}
           t == Extension!Turn(s)
<1>1. /\ t.queue = Tail(s.queue) \o Extension!Sorted(free)
      /\ t.degree = rest
      /\ t.result = Append(s.result, c)
  BY DEF Extension!Turn, F
<1>2. /\ Tail(s.queue) \in Seq(F) /\ Distinct(Tail(s.queue))
      /\ c \in F /\ Listed(s.queue, c)
      /\ \A x : Listed(Tail(s.queue), x) <=> Listed(s.queue, x) /\ x # c
  BY DropHead DEF KahnWell
<1>3. free \in SUBSET F /\ F \in SUBSET Nat /\ IsFiniteSet(free)
  <2>1. free \in SUBSET F /\ F \in SUBSET Nat /\ IsFiniteSet(F)
    BY FoundIs
  <2> QED
    BY <2>1, FS_Subset
<1> HIDE DEF c, t, free, rest
<1>4. /\ Extension!Sorted(free) \in Seq(F) /\ Distinct(Extension!Sorted(free))
      /\ \A x : Listed(Extension!Sorted(free), x) <=> x \in free
  BY <1>3, SortedLists
<1>6. ~Listed(s.result, c) /\ s.degree[c] = 0
  BY <1>2 DEF KahnWell
<1>7. /\ t.result \in Seq(F) /\ Len(t.result) = Len(s.result) + 1 /\ Distinct(t.result)
      /\ \A x : Listed(t.result, x) <=> Listed(s.result, x) \/ x = c
  BY <1>1, <1>2, <1>6, AppendKey DEF KahnWell
<1>8. ASSUME NEW p \in F
      PROVE  /\ rest[p] \in Nat
             /\ rest[p] = Cardinality({d \in Needs(p) : ~Listed(t.result, d)})
             /\ rest[p] = 0 <=> s.degree[p] = 0 \/ p \in free
             /\ p \in free => s.degree[p] # 0
  <2> DEFINE V == {d \in Needs(p) : ~Listed(s.result, d)}
             U == {d \in Needs(p) : ~Listed(t.result, d)}
  <2>1. U = V \ {c}
    BY <1>7
  <2>2. IsFiniteSet(V) /\ Cardinality(V) \in Nat /\ (Cardinality(V) = 0 <=> V = {})
    BY NeedsFinite
  <2> HIDE DEF V, U
  <2>3a. c \in V => Cardinality(V \ {c}) = Cardinality(V) - 1
    BY <2>2, FS_RemoveElement
  <2>3b. c \notin V => V \ {c} = V
    OBVIOUS
  <2>3. Cardinality(U) = IF c \in V THEN Cardinality(V) - 1 ELSE Cardinality(V)
    BY <2>1, <2>3a, <2>3b
  <2> USE DEF V, U
  <2>4. c \in V <=> c \in xDepend[p]
    BY <1>2, <1>6 DEF Needs
  <2>5. s.degree[p] = Cardinality(V)
    BY DEF KahnWell
  <2>6. rest[p] = s.degree[p] - (IF c \in xDepend[p] THEN 1 ELSE 0)
    BY DEF rest
  <2> HIDE DEF V, U
  <2>7. c \in V => Cardinality(V) # 0
    BY <2>2
  <2>8. rest[p] = Cardinality(U) /\ rest[p] \in Nat
    BY <2>2, <2>3, <2>4, <2>5, <2>6, <2>7
  <2>9. p \in free <=> c \in xDepend[p] /\ rest[p] = 0
    BY DEF free
  <2> QED
    BY <2>2, <2>3, <2>4, <2>5, <2>6, <2>7, <2>8, <2>9 DEF U
<1>9. \A x : ~(Listed(Tail(s.queue), x) /\ Listed(Extension!Sorted(free), x))
  <2>1. ASSUME NEW x, Listed(s.queue, x), x \in free PROVE FALSE
    <3>1. x \in F
      BY <1>3, <2>1
    <3>2. s.degree[x] = 0
      BY <2>1, <3>1 DEF KahnWell
    <3> QED
      BY <1>8, <2>1, <3>1, <3>2
  <2> QED
    BY <1>2, <1>4, <2>1
<1> DEFINE r == Tail(s.queue)
           o == Extension!Sorted(free)
<1> HIDE DEF r, o
<1>10a. /\ r \in Seq(F) /\ o \in Seq(F) /\ Distinct(r) /\ Distinct(o)
        /\ \A x : ~(Listed(r, x) /\ Listed(o, x))
  BY <1>2, <1>4, <1>9 DEF r, o
<1>10b. r \o o \in Seq(F) /\ (\A x : Listed(r \o o, x) <=> Listed(r, x) \/ Listed(o, x))
  BY <1>10a, ConcatLists
<1>10c. Distinct(r \o o)
  BY <1>10a, ConcatDistinct
<1>10d. t.queue = r \o o
  BY <1>1 DEF r, o
<1>10. /\ t.queue \in Seq(F)
       /\ \A x : Listed(t.queue, x) <=> Listed(Tail(s.queue), x) \/ Listed(Extension!Sorted(free), x)
  BY <1>10b, <1>10d DEF r, o
<1>11. Distinct(t.queue)
  BY <1>10c, <1>10d
<1>12. \A x : ~(Listed(t.queue, x) /\ Listed(t.result, x))
  <2>1. ASSUME NEW x, x \in free PROVE ~Listed(s.result, x) /\ x # c
    <3>1. x \in F
      BY <1>3, <2>1
    <3>2. s.degree[x] # 0
      BY <1>8, <2>1, <3>1
    <3> QED
      BY <1>6, <3>1, <3>2 DEF KahnWell
  <2>2. \A x : ~(Listed(s.queue, x) /\ Listed(s.result, x))
    BY DEF KahnWell
  <2> QED
    BY <1>2, <1>4, <1>7, <1>10, <2>1, <2>2
<1>13. t.degree \in [F -> Nat] /\ \A p \in F : t.degree[p] = rest[p]
  <2>1. rest = [p \in F |-> rest[p]]
    BY DEF rest
  <2> QED
    BY <1>1, <1>8, <2>1
<1>14. ASSUME NEW p \in F PROVE t.degree[p] = Cardinality({d \in Needs(p) : ~Listed(t.result, d)})
  BY <1>8, <1>13
<1>15. ASSUME NEW p \in F PROVE t.degree[p] = 0 <=> Listed(t.queue, p) \/ Listed(t.result, p)
  <2>1. s.degree[p] = 0 <=> Listed(s.queue, p) \/ Listed(s.result, p)
    BY DEF KahnWell
  <2>2. t.degree[p] = 0 <=> s.degree[p] = 0 \/ p \in free
    BY <1>8, <1>13
  <2>3. Listed(t.queue, p) <=> (Listed(s.queue, p) /\ p # c) \/ p \in free
    BY <1>2, <1>4, <1>10
  <2>4. Listed(t.result, p) <=> Listed(s.result, p) \/ p = c
    BY <1>7
  <2> QED
    BY <1>2, <2>1, <2>2, <2>3, <2>4
<1>16. ASSUME NEW i \in 1..Len(t.result), NEW d \in Needs(t.result[i])
       PROVE  \E j \in 1..i-1 : t.result[j] = d
  <2>1. Len(s.result) \in Nat /\ s.result \in Seq(F)
    BY LenProperties DEF KahnWell
  <2>2. /\ \A j \in 1..Len(s.result) : t.result[j] = s.result[j]
        /\ t.result[Len(s.result) + 1] = c
    BY <1>1, <1>2, <2>1, AppendLists
  <2>3. CASE i \in 1..Len(s.result)
    <3>1. t.result[i] = s.result[i]
      BY <2>2, <2>3
    <3>2. PICK j \in 1..i-1 : s.result[j] = d
      BY <1>16, <2>3, <3>1 DEF KahnWell
    <3>3. j \in 1..Len(s.result)
      BY <2>1, <2>3, <3>2
    <3> QED
      BY <2>2, <3>2, <3>3
  <2>4. CASE i = Len(s.result) + 1
    <3>1. d \in Needs(c)
      BY <1>16, <2>2, <2>4
    <3>2. Cardinality({e \in Needs(c) : ~Listed(s.result, e)}) = 0
      BY <1>2, <1>6 DEF KahnWell
    <3>3. {e \in Needs(c) : ~Listed(s.result, e)} = {}
      BY <1>2, <3>2, NeedsFinite
    <3>4. PICK j \in 1..Len(s.result) : s.result[j] = d
      BY <3>1, <3>3 DEF Listed
    <3>5. j \in 1..i-1 /\ t.result[j] = d
      BY <2>1, <2>2, <2>4, <3>4
    <3> QED
      BY <3>5
  <2> QED
    BY <1>7, <2>1, <2>3, <2>4
<1> QED
  BY <1>7, <1>10, <1>11, <1>12, <1>13, <1>14, <1>15, <1>16 DEF KahnWell, t
\* One round of the loop, which does nothing once the queue is empty.
Round(s) == IF s.queue = <<>> THEN s ELSE Extension!Turn(s)

IsKahn(n, g) == g = [k \in 0..n |-> IF k = 0 THEN Extension!Start ELSE Round(g[k - 1])]

LEMMA KahnExists ==
    ASSUME NEW n \in Nat
    PROVE  \E g : IsKahn(n, g)
<1> DEFINE Without == {k \in Nat : ~ \E g : IsKahn(k, g)}
<1>2. SUFFICES ASSUME Without # {} PROVE FALSE
  OBVIOUS
<1>3. PICK k \in Without : \A m \in Without : ~(m < k)
  BY <1>2, LeastNumber
<1>4. CASE k = 0
  <2>1. IsKahn(0, [i \in 0..0 |-> Extension!Start])
    BY DEF IsKahn
  <2> QED
    BY <1>3, <1>4, <2>1
<1>5. CASE k # 0
  <2>1. k - 1 \in Nat /\ k - 1 < k
    BY <1>5
  <2>2. PICK h : IsKahn(k - 1, h)
    BY <1>3, <2>1
  <2> DEFINE g == [i \in 0..k |-> IF i < k THEN h[i] ELSE Round(h[i-1])]
  <2>3. \A i \in 0..k-1 : h[i] = IF i = 0 THEN Extension!Start ELSE Round(h[i - 1])
    BY <2>2 DEF IsKahn
  <2>4. \A i \in 0..k : i # 0 => i - 1 \in 0..k-1 /\ g[i-1] = h[i-1]
    OBVIOUS
  <2>5. \A i \in 0..k : g[i] = IF i = 0 THEN Extension!Start ELSE Round(g[i - 1])
    BY <1>5, <2>3, <2>4
  <2>6. g = [i \in 0..k |-> IF i = 0 THEN Extension!Start ELSE Round(g[i - 1])]
    BY <2>5
  <2>7. IsKahn(k, g)
    BY <2>6 DEF IsKahn
  <2> QED
    BY <1>3, <2>7
<1> QED
  BY ONLY <1>4, <1>5

LEMMA KahnStep ==
    ASSUME PackagesType
    PROVE  \A k \in 0..Len(xFound) :
              Extension!Kahn[k] = IF k = 0 THEN Extension!Start ELSE Round(Extension!Kahn[k - 1])
<1> DEFINE n == Len(xFound)
<1>1. n \in Nat
  BY FoundIs
<1>2. \E g : IsKahn(n, g)
  BY <1>1, KahnExists
<1>3. Extension!Kahn = CHOOSE g : IsKahn(n, g)
  BY DEF Extension!Kahn, IsKahn, Round
<1>4. IsKahn(n, Extension!Kahn)
  BY <1>2, <1>3
<1> QED
  BY <1>4 DEF IsKahn

\* All n places of a list without repetitions over n things are taken.
LEMMA FullList ==
    ASSUME NEW S, IsFiniteSet(S), NEW s \in Seq(S), Distinct(s), Len(s) = Cardinality(S), NEW x \in S
    PROVE  Listed(s, x)
<1> DEFINE D == 1..Len(s)
           f == [i \in D |-> s[i]]
<1>1. Len(s) \in Nat /\ \A i \in D : s[i] \in S
  BY LenProperties
<1>2. f \in [D -> S] /\ \A i, j \in D : f[i] = f[j] => i = j
  BY <1>1 DEF Distinct
<1>3. IsFiniteSet(D) /\ Cardinality(D) = Cardinality(S)
  BY <1>1, FS_Interval
<1> HIDE DEF f
<1>4. f \in Injection(D, S)
  BY <1>2 DEF Injection, IsInjective
<1>5. f \in Surjection(D, S)
  BY <1>3, <1>4, FS_Injection
<1>6. \E i \in D : f[i] = x
  BY <1>5 DEF Surjection
<1> QED
  BY <1>6 DEF f, Listed

LEMMA KahnIsWell ==
    ASSUME PackagesType, NEW k \in 0..Len(xFound)
    PROVE  /\ KahnWell(Extension!Kahn[k])
           /\ Extension!Kahn[k].queue # <<>> => Len(Extension!Kahn[k].result) = k
<1> DEFINE K == Extension!Kahn
           n == Len(xFound)
           Good(i) == KahnWell(K[i]) /\ (K[i].queue # <<>> => Len(K[i].result) = i)
           Bad == {i \in 0..n : ~Good(i)}
<1>0. n \in Nat
  BY FoundIs
<1>1. SUFFICES ASSUME Bad # {} PROVE FALSE
  BY DEF Bad
<1>2. PICK i \in Bad : \A m \in Bad : ~(m < i)
  <2>1. Bad \in SUBSET Nat
    BY <1>0
  <2> QED
    BY <1>1, <2>1, LeastNumber
<1>3. i \in 0..n /\ ~Good(i)
  BY <1>2
<1>4. K[i] = IF i = 0 THEN Extension!Start ELSE Round(K[i - 1])
  BY <1>3, KahnStep
<1>5. CASE i = 0
  <2>1. K[i] = Extension!Start
    BY <1>4, <1>5
  <2>2. KahnWell(K[i])
    BY <2>1, StartWell
  <2>3. K[i].result = <<>>
    BY <2>1 DEF Extension!Start
  <2> QED
    BY <1>3, <1>5, <2>2, <2>3, NoneListed
<1>6. CASE i # 0
  <2>1. i - 1 \in 0..n /\ i - 1 < i /\ i \in Nat
    BY <1>0, <1>3, <1>6
  <2>2. Good(i - 1)
    BY <1>2, <2>1
  <2>3. K[i] = Round(K[i - 1])
    BY <1>4, <1>6
  <2> DEFINE s == K[i - 1]
  <2> HIDE DEF s
  <2>4. KahnWell(s) /\ (s.queue # <<>> => Len(s.result) = i - 1)
    BY <2>2 DEF s
  <2>5. CASE s.queue = <<>>
    <3>1. K[i] = s
      BY <2>3, <2>5 DEF Round, s
    <3> QED
      BY <1>3, <2>4, <2>5, <3>1
  <2>6. CASE s.queue # <<>>
    <3>1. K[i] = Extension!Turn(s)
      BY <2>3, <2>6 DEF Round, s
    <3>2. KahnWell(Extension!Turn(s)) /\ Len(Extension!Turn(s).result) = Len(s.result) + 1
      BY <2>4, <2>6, TurnWell
    <3>3. Len(K[i].result) = i
      BY <2>1, <2>4, <2>6, <3>1, <3>2
    <3> QED
      BY <1>3, <3>1, <3>2, <3>3
  <2> QED
    BY <2>5, <2>6
<1> QED
  BY <1>5, <1>6

\* What the turns have placed: an extension comes after what it needs, and one that is
\* not placed needs another that is not.
LEMMA PlacedWell ==
    ASSUME PackagesType, NEW r, r = Extension!Kahn[Len(xFound)].result
    PROVE  /\ r \in Seq(F) /\ Distinct(r)
           /\ \A i \in 1..Len(r) : \A d \in Needs(r[i]) : \E j \in 1..i-1 : r[j] = d
           /\ \A p \in F : ~Listed(r, p) => \E d \in Needs(p) : ~Listed(r, d)
<1> DEFINE n == Len(xFound)
           s == Extension!Kahn[n]
<1> HIDE DEF s
<1>1. n \in 0..n /\ IsFiniteSet(F) /\ Cardinality(F) = n
  BY FoundIs
<1>2. KahnWell(s) /\ (s.queue # <<>> => Len(s.result) = n) /\ r = s.result
  BY <1>1, KahnIsWell DEF s
<1>3. s.queue = <<>>
  <2>1. SUFFICES ASSUME s.queue # <<>> PROVE FALSE
    OBVIOUS
  <2>2. Len(r) = Cardinality(F) /\ r \in Seq(F) /\ Distinct(r)
    BY <1>1, <1>2, <2>1 DEF KahnWell
  <2>3. s.queue \in Seq(F)
    BY <1>2 DEF KahnWell
  <2>4. Head(s.queue) \in F /\ Listed(s.queue, Head(s.queue))
    BY <2>1, <2>3, TailLists
  <2>5. Listed(r, Head(s.queue))
    BY <1>1, <2>2, <2>4, FullList
  <2> QED
    BY <1>2, <2>4, <2>5 DEF KahnWell
<1>4. ASSUME NEW p \in F, ~Listed(r, p) PROVE \E d \in Needs(p) : ~Listed(r, d)
  <2>1. s.degree[p] # 0
    BY <1>2, <1>3, <1>4, NoneListed DEF KahnWell
  <2>2. Cardinality({d \in Needs(p) : ~Listed(r, d)}) # 0
    BY <1>2, <2>1 DEF KahnWell
  <2>3. {d \in Needs(p) : ~Listed(r, d)} # {}
    BY <2>2, NeedsFinite
  <2> QED
    BY <2>3
<1> QED
  BY <1>2, <1>4 DEF KahnWell
(* What needs itself. *)

LEMMA DependsOnce ==
    ASSUME NEW p \in Id, NEW d \in xDepend[p]
    PROVE  Extension!Depends(p, d)
BY DEF Extension!Depends

LEMMA DependsThrough ==
    ASSUME NEW p \in Id, NEW q \in Id, NEW r \in Id,
           Extension!Depends(p, q), Extension!Depends(q, r)
    PROVE  Extension!Depends(p, r)
<1> SUFFICES ASSUME NEW S \in SUBSET Id, xDepend[p] \subseteq S, \A t \in S : xDepend[t] \subseteq S
             PROVE  r \in S
  BY DEF Extension!Depends
<1>1. q \in S
  BY DEF Extension!Depends
<1>2. xDepend[q] \subseteq S
  BY <1>1
<1> QED
  BY <1>2 DEF Extension!Depends

\* p needs itself, or something that does.
Looped(p) == \E q \in Id : (q = p \/ Extension!Depends(p, q)) /\ Extension!Depends(q, q)

\* Where each of a set needs another of the set, each is on a cycle or before one.
LEMMA AllLooped ==
    ASSUME PackagesType, NEW L \in SUBSET Id, \A p \in L : \E d \in xDepend[p] : d \in L,
           NEW p \in L
    PROVE  Looped(p)
<1> DEFINE Reach(q) == {x \in Id : Extension!Depends(q, x)}
           W == {Cardinality(Reach(q)) : q \in {t \in L : t = p \/ Extension!Depends(p, t)}}
<1>1. IsFiniteSet(Id)
  BY PackageAssumption DEF Extension!ExtensionsAssumption, Extension!IsFiniteSet, IsFiniteSet
<1>2. \A q : IsFiniteSet(Reach(q)) /\ Cardinality(Reach(q)) \in Nat
  <2>1. \A q : Reach(q) \in SUBSET Id
    OBVIOUS
  <2> QED
    BY <1>1, <2>1, FS_Subset, FS_CardinalityType
<1>3. W \in SUBSET Nat /\ W # {}
  <2>1. Cardinality(Reach(p)) \in W
    OBVIOUS
  <2> QED
    BY <1>2, <2>1
<1> HIDE DEF W
<1>4. PICK w \in W : \A v \in W : ~(v < w)
  BY <1>3, LeastNumber
<1>5. PICK q \in L : (q = p \/ Extension!Depends(p, q)) /\ w = Cardinality(Reach(q))
  BY <1>4 DEF W
<1>6. PICK d \in xDepend[q] : d \in L
  BY <1>5
<1>7. q \in Id /\ d \in Id /\ p \in Id
  BY <1>6
<1>8. Extension!Depends(q, d)
  BY <1>6, <1>7, DependsOnce
<1>9. Extension!Depends(p, d)
  BY <1>5, <1>7, <1>8, DependsThrough
<1>10. CASE Extension!Depends(d, d)
  BY <1>7, <1>9, <1>10 DEF Looped
<1>11. CASE ~Extension!Depends(d, d)
  <2>1. \A x \in Reach(d) : x \in Reach(q)
    BY <1>7, <1>8, DependsThrough
  <2>2. d \in Reach(q) /\ d \notin Reach(d)
    BY <1>7, <1>8, <1>11
  <2>3. Reach(d) \subseteq Reach(q) /\ Reach(d) # Reach(q)
    BY <2>1, <2>2
  <2> DEFINE A == Reach(d)
             B == Reach(q)
  <2>4. IsFiniteSet(A) /\ IsFiniteSet(B) /\ Cardinality(A) \in Nat /\ Cardinality(B) \in Nat
    BY <1>2
  <2>5. A \subseteq B /\ A # B
    BY <2>3
  <2>6. Cardinality(A) \in W
    BY <1>6, <1>9 DEF W
  <2> HIDE DEF A, B
  <2>7. Cardinality(A) < Cardinality(B)
    BY <2>4, <2>5, FS_Subset
  <2>8. w = Cardinality(B)
    BY <1>5 DEF B
  <2> QED
    BY <1>4, <2>6, <2>7, <2>8
<1> QED
  BY <1>10, <1>11

(* The rest of the order. *)

Extended(c, x) == IF Listed(c, x) THEN c ELSE Append(c, x)

IsCompleted(c, n, g) == g = [k \in 0..n |-> IF k = 0 THEN c ELSE Extended(g[k - 1], xFound[k])]

LEMMA CompletedExists ==
    ASSUME NEW c, NEW n \in Nat
    PROVE  \E g : IsCompleted(c, n, g)
<1> DEFINE Without == {k \in Nat : ~ \E g : IsCompleted(c, k, g)}
<1>2. SUFFICES ASSUME Without # {} PROVE FALSE
  OBVIOUS
<1>3. PICK k \in Without : \A m \in Without : ~(m < k)
  BY <1>2, LeastNumber
<1>4. CASE k = 0
  <2>1. IsCompleted(c, 0, [i \in 0..0 |-> c])
    BY DEF IsCompleted
  <2> QED
    BY <1>3, <1>4, <2>1
<1>5. CASE k # 0
  <2>1. k - 1 \in Nat /\ k - 1 < k
    BY <1>5
  <2>2. PICK h : IsCompleted(c, k - 1, h)
    BY <1>3, <2>1
  <2> DEFINE g == [i \in 0..k |-> IF i < k THEN h[i] ELSE Extended(h[i-1], xFound[i])]
  <2>3. \A i \in 0..k-1 : h[i] = IF i = 0 THEN c ELSE Extended(h[i - 1], xFound[i])
    BY <2>2 DEF IsCompleted
  <2>4. \A i \in 0..k : i # 0 => i - 1 \in 0..k-1 /\ g[i-1] = h[i-1]
    OBVIOUS
  <2>5. \A i \in 0..k : g[i] = IF i = 0 THEN c ELSE Extended(g[i - 1], xFound[i])
    BY <1>5, <2>3, <2>4
  <2>6. g = [i \in 0..k |-> IF i = 0 THEN c ELSE Extended(g[i - 1], xFound[i])]
    BY <2>5
  <2>7. IsCompleted(c, k, g)
    BY <2>6 DEF IsCompleted
  <2> QED
    BY <1>3, <2>7
<1> QED
  BY ONLY <1>4, <1>5

LEMMA CompletedStep ==
    ASSUME PackagesType
    PROVE  \A k \in 0..Len(xFound) :
              Extension!Completed[k] = IF k = 0 THEN Extension!Kahn[Len(xFound)].result
                                       ELSE Extended(Extension!Completed[k - 1], xFound[k])
<1> DEFINE n == Len(xFound)
           c == Extension!Kahn[n].result
<1>1. n \in Nat
  BY FoundIs
<1> HIDE DEF c
<1>2. \E g : IsCompleted(c, n, g)
  BY <1>1, CompletedExists
<1>3. Extension!Completed = CHOOSE g : IsCompleted(c, n, g)
  BY DEF Extension!Completed, IsCompleted, Extended, Extension!Contains, Listed, c
<1>4. IsCompleted(c, n, Extension!Completed)
  BY <1>2, <1>3
<1> QED
  BY <1>4 DEF IsCompleted, c

\* c starts with r and lists the first k ids found.
CompletedWell(r, c, k) ==
    /\ c \in Seq(F) /\ Distinct(c)
    /\ Len(r) <= Len(c) /\ \A i \in 1..Len(r) : c[i] = r[i]
    /\ \A i \in 1..k : Listed(c, xFound[i])

LEMMA CompletedIsWell ==
    ASSUME PackagesType, NEW r, r = Extension!Kahn[Len(xFound)].result, NEW k \in 0..Len(xFound)
    PROVE  CompletedWell(r, Extension!Completed[k], k)
<1> DEFINE C == Extension!Completed
           n == Len(xFound)
           Bad == {i \in 0..n : ~CompletedWell(r, C[i], i)}
<1>0. n \in Nat /\ r \in Seq(F) /\ Distinct(r)
  BY FoundIs, PlacedWell
<1>1. SUFFICES ASSUME Bad # {} PROVE FALSE
  BY DEF Bad
<1>2. PICK i \in Bad : \A m \in Bad : ~(m < i)
  <2>1. Bad \in SUBSET Nat
    BY <1>0
  <2> QED
    BY <1>1, <2>1, LeastNumber
<1>3. i \in 0..n /\ ~CompletedWell(r, C[i], i)
  BY <1>2
<1>4. C[i] = IF i = 0 THEN r ELSE Extended(C[i - 1], xFound[i])
  BY <1>3, CompletedStep
<1>5. CASE i = 0
  <2>1. C[i] = r /\ Len(r) \in Nat
    BY <1>0, <1>4, <1>5, LenProperties
  <2>2. CompletedWell(r, C[i], i)
    BY <1>0, <1>5, <2>1 DEF CompletedWell
  <2> QED
    BY <1>3, <2>2
<1>6. CASE i # 0
  <2>1. i - 1 \in 0..n /\ i - 1 < i /\ i \in 1..n
    BY <1>0, <1>3, <1>6
  <2> DEFINE c == C[i - 1]
             x == xFound[i]
  <2>2. CompletedWell(r, c, i - 1)
    BY <1>2, <2>1
  <2>3. C[i] = Extended(c, x)
    BY <1>4, <1>6
  <2>4. x \in F
    BY <2>1, FoundIs
  <2> HIDE DEF c, x, C
  <2>5. ASSUME NEW y, CompletedWell(r, y, i - 1), Listed(y, x) PROVE CompletedWell(r, y, i)
    <3>1. \A j \in 1..i : j = i \/ j \in 1..i-1
      BY <2>1
    <3> QED
      BY <2>5, <3>1 DEF CompletedWell, x
  <2>6. CASE Listed(c, x)
    BY <1>3, <2>2, <2>3, <2>5, <2>6 DEF Extended
  <2>7. CASE ~Listed(c, x)
    <3> DEFINE y == Append(c, x)
    <3>1. C[i] = y
      BY <2>3, <2>7 DEF Extended
    <3>2. c \in Seq(F) /\ Distinct(c) /\ Len(c) \in Nat /\ Len(r) \in Nat
      BY <1>0, <2>2, LenProperties DEF CompletedWell
    <3>3. /\ y \in Seq(F) /\ Len(y) = Len(c) + 1 /\ Distinct(y)
          /\ \A z : Listed(y, z) <=> Listed(c, z) \/ z = x
      BY <2>4, <2>7, <3>2, AppendKey
    <3>4. \A j \in 1..Len(c) : y[j] = c[j]
      BY <2>4, <3>2, AppendLists
    <3> HIDE DEF y
    <3>5. CompletedWell(r, y, i - 1)
      BY <2>2, <3>2, <3>3, <3>4 DEF CompletedWell
    <3>6. Listed(y, x)
      BY <3>3
    <3> QED
      BY <1>3, <2>5, <3>1, <3>5, <3>6
  <2> QED
    BY <2>6, <2>7
<1> QED
  BY <1>5, <1>6

\* _resolve_dependency_order: everything found, once, after what it needs unless it
\* depends on a cycle.
OrderWell(o) ==
    /\ o \in Seq(F) /\ Distinct(o)
    /\ \A p \in F : Listed(o, p)
    /\ \A i \in 1..Len(o) : \A d \in Needs(o[i]) : (\E j \in 1..i-1 : o[j] = d) \/ Looped(o[i])

LEMMA OrderIsWell ==
    ASSUME PackagesType
    PROVE  OrderWell(Extension!DependencyOrder)
<1> DEFINE n == Len(xFound)
           r == Extension!Kahn[n].result
           o == Extension!DependencyOrder
           L == {p \in F : ~Listed(r, p)}
<1>1. o = Extension!Completed[n] /\ n \in 0..n /\ F \in SUBSET Id
  BY FoundIs DEF Extension!DependencyOrder
<1>2. CompletedWell(r, o, n)
  BY <1>1, CompletedIsWell
<1>3. /\ r \in Seq(F)
      /\ \A i \in 1..Len(r) : \A d \in Needs(r[i]) : \E j \in 1..i-1 : r[j] = d
      /\ \A p \in F : ~Listed(r, p) => \E d \in Needs(p) : ~Listed(r, d)
  BY PlacedWell
<1> HIDE DEF o, r
<1>4. \A p \in L : Looped(p)
  <2>1. L \in SUBSET Id
    BY <1>1
  <2>2. \A p \in L : \E d \in xDepend[p] : d \in L
    BY <1>3 DEF Needs
  <2> HIDE DEF L
  <2> QED
    BY <2>1, <2>2, AllLooped
<1>5. ASSUME NEW p \in F PROVE Listed(o, p)
  BY <1>2, FoundIs DEF CompletedWell, Listed
<1>6. Len(o) \in Nat /\ Len(r) \in Nat /\ \A i \in 1..Len(o) : o[i] \in F
  BY <1>2, <1>3, LenProperties DEF CompletedWell
<1>7. ASSUME NEW i \in 1..Len(o), NEW d \in Needs(o[i]) PROVE (\E j \in 1..i-1 : o[j] = d) \/ Looped(o[i])
  <2>1. CASE i \in 1..Len(r)
    <3>1. o[i] = r[i]
      BY <1>2, <2>1 DEF CompletedWell
    <3>2. PICK j \in 1..i-1 : r[j] = d
      BY <1>3, <1>7, <2>1, <3>1
    <3>3. o[j] = d
      BY <1>2, <1>6, <2>1, <3>2 DEF CompletedWell
    <3> QED
      BY <3>3
  <2>2. CASE i \notin 1..Len(r)
    <3>1. ~Listed(r, o[i])
      <4>1. SUFFICES ASSUME NEW j \in 1..Len(r), r[j] = o[i] PROVE FALSE
        BY DEF Listed
      <4>2. o[j] = o[i] /\ j \in 1..Len(o)
        BY <1>2, <1>6, <4>1 DEF CompletedWell
      <4>3. j = i
        BY <1>2, <4>2 DEF CompletedWell, Distinct
      <4> QED
        BY <2>2, <4>3
    <3>2. o[i] \in L
      BY <1>6, <3>1
    <3> QED
      BY <1>4, <3>2
  <2> QED
    BY <2>1, <2>2
<1> QED
  BY <1>2, <1>5, <1>7 DEF OrderWell, CompletedWell, o
-------------------------------------------------------------------------------
(* Loading, enabling, disabling, unloading. *)

PackageType ==
    /\ PackagesType
    /\ xState \in [Id -> {"absent", "loaded", "enabled", "disabled", "errored", "unloaded"}]
    /\ xRefused \in SUBSET Id
    /\ xOrder \in Seq(Id) /\ Distinct(xOrder)
    /\ xTodo \in Seq(Id) /\ Distinct(xTodo)
    /\ xPhase \in {"discover", "load", "enable", "disable", "unload"}

\* What a loaded extension needs was loaded before it, or has raised and stays out.
NeedsFirst ==
    \A i \in 1..Len(xOrder) : \A d \in xDepend[xOrder[i]] :
        \/ \E j \in 1..i-1 : xOrder[j] = d
        \/ ~Listed(xOrder, d) /\ xState[d] = "errored"

Discovering ==
    xPhase = "discover" =>
        (\A p \in Id : xState[p] = "absent") /\ xRefused = {} /\ Len(xOrder) = 0

\* Where there is no cycle, what is to be loaded comes after what it needs.
TodoInOrder ==
    \A i, j \in 1..Len(xTodo) : xTodo[j] \in xDepend[xTodo[i]] /\ ~Looped(xTodo[i]) => j < i

Loading ==
    xPhase = "load" =>
        /\ TodoInOrder
        /\ \A p \in Id : Listed(xTodo, p) => xState[p] = "absent"
        /\ \A p \in Id : xState[p] \in {"absent", "loaded", "errored"}
        /\ \A p \in Id : Listed(xOrder, p) <=> xState[p] = "loaded"

Enabling ==
    xPhase = "enable" =>
        /\ Len(xTodo) <= Len(xOrder)
        /\ \A i \in 1..Len(xTodo) : xTodo[i] = xOrder[Len(xOrder) - Len(xTodo) + i]
        /\ \A i \in 1..Len(xOrder) :
              IF i <= Len(xOrder) - Len(xTodo) THEN xState[xOrder[i]] \in {"enabled", "errored"}
                                               ELSE xState[xOrder[i]] = "loaded"

Disabling ==
    xPhase = "disable" =>
        /\ Len(xTodo) <= Len(xOrder)
        /\ \A i \in 1..Len(xTodo) : xTodo[i] = xOrder[Len(xTodo) + 1 - i]
        /\ \A i \in 1..Len(xOrder) :
              IF i <= Len(xTodo) THEN xState[xOrder[i]] \in {"enabled", "errored"}
                                 ELSE xState[xOrder[i]] \in {"disabled", "errored"}

Unloading ==
    xPhase = "unload" =>
        /\ \A p \in Id : Listed(xTodo, p) => Listed(xOrder, p)
        /\ \A p \in Id : xState[p] # "enabled"

OnlyLoaded ==
    \A p \in Id : /\ xState[p] = "enabled" => Listed(xOrder, p)
                  /\ Listed(xOrder, p) => xState[p] # "absent"

\* An extension on a cycle, or one that stays absent: not to be loaded any more.
Unmet(p) ==
    \/ Looped(p)
    \/ \E q \in Id : /\ q = p \/ Extension!Depends(p, q)
                     /\ xState[q] = "absent"
                     /\ xPhase = "load" => ~Listed(xTodo, q)

RefusalsMeant == \A p \in xRefused : Unmet(p)

PackageInv ==
    /\ PackageType /\ NeedsFirst /\ OnlyLoaded /\ RefusalsMeant
    /\ Discovering /\ Loading /\ Enabling /\ Disabling /\ Unloading
PackageVars == <<xFound, xDepend, xState, xRefused, xOrder, xPhase, xTodo>>

\* What needs what does not change.
LEMMA SameNeeds ==
    ASSUME UNCHANGED xDepend
    PROVE  \A p, q : (Extension!Depends(p, q)' <=> Extension!Depends(p, q)) /\ (Looped(p)' <=> Looped(p))
BY DEF Looped, Extension!Depends

LEMMA PackageStays == PackageInv /\ UNCHANGED PackageVars => PackageInv'
<1> SUFFICES ASSUME PackageInv, UNCHANGED PackageVars PROVE PackageInv'
  OBVIOUS
<1>1. UNCHANGED <<xFound, xDepend, xState, xRefused, xOrder, xPhase, xTodo>>
  BY DEF PackageVars
<1>2. \A p, q : (Extension!Depends(p, q)' <=> Extension!Depends(p, q)) /\ (Looped(p)' <=> Looped(p))
  BY <1>1, SameNeeds
<1>3. PackageType' /\ NeedsFirst' /\ OnlyLoaded' /\ Discovering'
  BY <1>1 DEF PackageInv, PackageType, PackagesType, NeedsFirst, OnlyLoaded, Discovering
<1>4. TodoInOrder <=> TodoInOrder'
  BY <1>1, <1>2 DEF TodoInOrder
<1>5. Loading'
  BY <1>1, <1>4 DEF PackageInv, Loading
<1>6. Enabling' /\ Disabling' /\ Unloading'
  BY <1>1 DEF PackageInv, Enabling, Disabling, Unloading
<1>7. ASSUME NEW p, Unmet(p) PROVE Unmet(p)'
  BY <1>1, <1>2, <1>7 DEF Unmet
<1>8. RefusalsMeant'
  BY <1>1, <1>7 DEF PackageInv, RefusalsMeant
<1> QED
  BY <1>3, <1>5, <1>6, <1>8 DEF PackageInv

LEMMA PackageInit == Extension!Init => PackageInv
<1> SUFFICES ASSUME Extension!Init PROVE PackageInv
  OBVIOUS
<1>1. xFound \in Seq(Id) /\ Distinct(xFound)
  BY PackageAssumption DEF Extension!Init, Extension!ExtensionsAssumption, Distinct, Extension!IsInjective
<1>2. /\ xState = [p \in Id |-> "absent"] /\ xRefused = {} /\ xOrder = <<>> /\ xTodo = <<>>
      /\ xPhase = "discover" /\ xDepend \in [Id -> SUBSET Id]
  BY DEF Extension!Init
<1>3. /\ xOrder \in Seq(Id) /\ Distinct(xOrder) /\ Len(xOrder) = 0
      /\ \A x : ~Listed(xOrder, x)
      /\ xTodo \in Seq(Id) /\ Distinct(xTodo)
  BY <1>2, NoneListed DEF Distinct
<1>4. PackageType
  BY <1>1, <1>2, <1>3 DEF PackageType, PackagesType
<1>5. NeedsFirst /\ OnlyLoaded /\ RefusalsMeant
  BY <1>2, <1>3 DEF NeedsFirst, OnlyLoaded, RefusalsMeant
<1>6. Discovering /\ Loading /\ Enabling /\ Disabling /\ Unloading
  BY <1>2, <1>3 DEF Discovering, Loading, Enabling, Disabling, Unloading
<1> QED
  BY <1>4, <1>5, <1>6 DEF PackageInv

\* A loop comes to its next id.
LEMMA TodoStep ==
    ASSUME PackageType, NEW ph, NEW p \in Id, Extension!At(ph, p)
    PROVE  /\ xPhase = ph /\ Len(xTodo) \in Nat /\ 1 \in 1..Len(xTodo) /\ p = xTodo[1]
           /\ xTodo' \in Seq(Id) /\ Distinct(xTodo')
           /\ Len(xTodo') = Len(xTodo) - 1
           /\ \A i \in 1..Len(xTodo) - 1 : xTodo'[i] = xTodo[i + 1]
           /\ Listed(xTodo, p)
           /\ \A x : Listed(xTodo', x) <=> Listed(xTodo, x) /\ x # p
<1>1. /\ xPhase = ph /\ xTodo # <<>> /\ p = Head(xTodo) /\ xTodo' = Tail(xTodo)
      /\ xTodo \in Seq(Id) /\ Distinct(xTodo)
  BY DEF Extension!At, PackageType
<1>2. /\ xTodo' \in Seq(Id) /\ Len(xTodo') = Len(xTodo) - 1
      /\ \A i \in 1..Len(xTodo)-1 : xTodo'[i] = xTodo[i+1]
      /\ p = xTodo[1] /\ Listed(xTodo, p)
  BY <1>1, TailLists
<1>3. Distinct(xTodo') /\ \A x : Listed(xTodo', x) <=> Listed(xTodo, x) /\ x # p
  BY <1>1, DropHead
<1>4. Len(xTodo) \in Nat /\ 1 \in 1..Len(xTodo)
  BY <1>1, <1>2, LenProperties DEF Listed
<1> QED
  BY <1>1, <1>2, <1>3, <1>4

LEMMA DiscoverStep == PackageInv /\ Extension!Discover => PackageInv'
<1> SUFFICES ASSUME PackageInv, Extension!Discover PROVE PackageInv'
  OBVIOUS
<1>0. /\ PackageType /\ PackagesType
      /\ \A p \in Id : xState[p] = "absent"
      /\ xRefused = {} /\ Len(xOrder) = 0 /\ xPhase' = "load"
      /\ xTodo' = Extension!DependencyOrder
      /\ UNCHANGED <<xFound, xDepend, xState, xRefused, xOrder>>
  BY DEF PackageInv, PackageType, Discovering, Extension!Discover
<1> DEFINE o == Extension!DependencyOrder
<1> HIDE DEF o
<1>1. OrderWell(o) /\ F \in SUBSET Id
  BY <1>0, OrderIsWell, FoundIs DEF o
<1>2. o \in Seq(F) /\ o \in Seq(Id) /\ Distinct(o) /\ Len(o) \in Nat
  <2>1. o \in Seq(F) /\ Distinct(o)
    BY <1>1 DEF OrderWell
  <2>2. Len(o) \in Nat /\ o \in [1..Len(o) -> F]
    BY <2>1, LenProperties
  <2>3. o \in [1..Len(o) -> Id]
    BY <1>1, <2>2
  <2>4. o \in Seq(Id)
    BY <2>2, <2>3
  <2> QED
    BY <2>1, <2>2, <2>4
<1>3. xTodo' = o
  BY <1>0 DEF o
<1>4. PackageType'
  BY <1>0, <1>2, <1>3 DEF PackageType, PackagesType
<1>5. \A x : ~Listed(xOrder, x)
  BY <1>0 DEF Listed
<1>6. NeedsFirst' /\ OnlyLoaded' /\ RefusalsMeant'
  BY <1>0, <1>5 DEF NeedsFirst, OnlyLoaded, RefusalsMeant, Listed
<1>7. ASSUME NEW i \in 1..Len(o), NEW j \in 1..Len(o), o[j] \in xDepend[o[i]], ~Looped(o[i])
      PROVE  j < i
  <2>1. o[j] \in Needs(o[i])
    BY <1>2, <1>7, ElementOfSeq DEF Needs
  <2>2. PICK m \in 1..i-1 : o[m] = o[j]
    BY <1>1, <1>7, <2>1 DEF OrderWell
  <2>3. m \in 1..Len(o) /\ m < i
    BY <1>2
  <2>4. m = j
    BY <1>2, <2>2, <2>3 DEF Distinct
  <2> QED
    BY <2>3, <2>4
<1>9. TodoInOrder'
  <2>1. \A i, j \in 1..Len(o) : o[j] \in xDepend[o[i]] /\ ~Looped(o[i]) => j < i
    BY <1>7
  <2>2. \A i, j \in 1..Len(xTodo') : xTodo'[j] \in xDepend'[xTodo'[i]] /\ ~Looped(xTodo'[i]) => j < i
    BY <1>0, <1>3, <2>1
  <2>3. TodoInOrder' <=> \A i, j \in 1..Len(xTodo') : xTodo'[j] \in xDepend'[xTodo'[i]] /\ ~Looped(xTodo'[i]) => j < i
    <3>1. xDepend' = xDepend
      BY <1>0
    <3> QED
      BY <3>1 DEF TodoInOrder, Looped, Extension!Depends
  <2> QED
    BY <2>2, <2>3
<1>11. Loading'
  BY <1>0, <1>3, <1>5, <1>9 DEF Loading, Listed
<1>10. Discovering' /\ Enabling' /\ Disabling' /\ Unloading'
  BY <1>0 DEF Discovering, Enabling, Disabling, Unloading
<1> QED
  BY <1>4, <1>6, <1>10, <1>11 DEF PackageInv

\* The loop of load_all passes p: the rest is not touched.
LEMMA LoadPasses ==
    ASSUME PackageInv, NEW p \in Id, Extension!At("load", p), UNCHANGED xDepend, xPhase' = xPhase,
           \A q \in Id \ {p} : xState'[q] = xState[q]
    PROVE  /\ xState[p] = "absent"
           /\ TodoInOrder'
           /\ \A q \in Id : Listed(xTodo', q) => xState'[q] = "absent"
           /\ \A q \in Id : Unmet(q) => Unmet(q)'
           /\ \A d \in xDepend[p] : Listed(xTodo, d) => Looped(p)
<1>1. PackageType /\ xPhase = "load" /\ p = xTodo[1] /\ Listed(xTodo, p)
  BY TodoStep DEF PackageInv
<1>2. /\ Len(xTodo) \in Nat /\ 1 \in 1..Len(xTodo)
      /\ Len(xTodo') = Len(xTodo) - 1
      /\ \A i \in 1..Len(xTodo) - 1 : xTodo'[i] = xTodo[i + 1]
      /\ \A x : Listed(xTodo', x) <=> Listed(xTodo, x) /\ x # p
  BY <1>1, TodoStep
<1>3. /\ \A i, j \in 1..Len(xTodo) :
            xTodo[j] \in xDepend[xTodo[i]] /\ ~Looped(xTodo[i]) => j < i
      /\ \A q \in Id : Listed(xTodo, q) => xState[q] = "absent"
  BY <1>1 DEF PackageInv, Loading, TodoInOrder
<1>4. \A q, r : (Extension!Depends(q, r)' <=> Extension!Depends(q, r)) /\ (Looped(q)' <=> Looped(q))
  BY SameNeeds
<1>5. TodoInOrder'
  <2>1. ASSUME NEW i \in 1..Len(xTodo'), NEW j \in 1..Len(xTodo'), NEW u, NEW v,
               u = xTodo'[i], v = xTodo'[j], v \in xDepend[u], ~Looped(u)
        PROVE  j < i
    <3>1. /\ i + 1 \in 1..Len(xTodo) /\ j + 1 \in 1..Len(xTodo)
          /\ u = xTodo[i + 1] /\ v = xTodo[j + 1]
      BY <1>2, <2>1
    <3>2. j + 1 < i + 1
      BY <1>3, <2>1, <3>1
    <3> QED
      BY <1>2, <3>2
  <2>2. \A i, j \in 1..Len(xTodo') : xTodo'[j] \in xDepend[xTodo'[i]] /\ ~Looped(xTodo'[i]) => j < i
    BY <2>1
  <2>3. TodoInOrder' <=> \A i, j \in 1..Len(xTodo') : xTodo'[j] \in xDepend[xTodo'[i]] /\ ~Looped(xTodo'[i]) => j < i
    BY DEF TodoInOrder, Looped, Extension!Depends
  <2> QED
    BY <2>2, <2>3
<1>6. \A q \in Id : Listed(xTodo', q) => xState'[q] = "absent"
  BY <1>2, <1>3
<1>7. ASSUME NEW q \in Id, Unmet(q) PROVE Unmet(q)'
  <2>1. CASE Looped(q)
    BY <1>4, <2>1 DEF Unmet
  <2>2. CASE ~Looped(q)
    <3>1. PICK r \in Id : (r = q \/ Extension!Depends(q, r)) /\ xState[r] = "absent" /\ ~Listed(xTodo, r)
      BY <1>1, <1>7, <2>2 DEF Unmet
    <3>2. r # p
      BY <1>1, <3>1
    <3>3. xState'[r] = "absent" /\ ~Listed(xTodo', r)
      BY <1>2, <3>1, <3>2
    <3>4. r = q \/ Extension!Depends(q, r)'
      BY <1>4, <3>1
    <3> QED
      BY <3>3, <3>4 DEF Unmet
  <2> QED
    BY <2>1, <2>2
<1>8. ASSUME NEW d \in xDepend[p], Listed(xTodo, d) PROVE Looped(p)
  <2>1. PICK j \in 1..Len(xTodo) : xTodo[j] = d
    BY <1>8 DEF Listed
  <2>2. xTodo[j] \in xDepend[xTodo[1]]
    BY <1>1, <2>1
  <2>3. ~(j < 1)
    BY <1>2, <2>1
  <2> QED
    BY <1>1, <1>2, <1>3, <2>1, <2>2, <2>3
<1> QED
  BY <1>1, <1>3, <1>5, <1>6, <1>7, <1>8
\* An id that is passed without being loaded.
LEMMA UnloadedPasses ==
    ASSUME PackageInv, NEW p \in Id, Extension!At("load", p),
           UNCHANGED <<xFound, xDepend, xOrder, xPhase>>,
           xState' \in [Id -> {"absent", "loaded", "enabled", "disabled", "errored", "unloaded"}],
           \A q \in Id \ {p} : xState'[q] = xState[q],
           xState'[p] \in {"absent", "errored"},
           xRefused' \in SUBSET Id, \A q \in xRefused' : q \in xRefused \/ Unmet(q)'
    PROVE  PackageInv'
<1>1. /\ PackageType /\ PackagesType /\ NeedsFirst /\ xPhase = "load"
      /\ \A q \in Id : xState[q] \in {"absent", "loaded", "errored"}
      /\ \A q \in Id : Listed(xOrder, q) <=> xState[q] = "loaded"
  BY TodoStep DEF PackageInv, Loading, PackageType
<1>2. xTodo' \in Seq(Id) /\ Distinct(xTodo')
  BY <1>1, TodoStep
<1>3. /\ xState[p] = "absent" /\ TodoInOrder'
      /\ \A q \in Id : Listed(xTodo', q) => xState'[q] = "absent"
      /\ \A q \in Id : Unmet(q) => Unmet(q)'
  BY LoadPasses
<1>4. PackageType'
  BY <1>1, <1>2 DEF PackageType, PackagesType
<1>5. \A q : Listed(xOrder', q) <=> Listed(xOrder, q)
  BY DEF Listed
<1>6. NeedsFirst'
  <2>1. ASSUME NEW d \in Id, xState[d] = "errored" PROVE xState'[d] = "errored"
    BY <1>3, <2>1
  <2>2. \A i \in 1..Len(xOrder) : \A d \in xDepend[xOrder[i]] : d \in Id
    BY <1>1, ElementOfSeq DEF PackageType, PackagesType
  <2> QED
    BY <1>1, <1>5, <2>1, <2>2 DEF NeedsFirst
<1>7. \A q \in Id : Listed(xOrder', q) <=> xState'[q] = "loaded"
  BY <1>1, <1>3, <1>5
<1>8. \A q \in Id : xState'[q] \in {"absent", "loaded", "errored"}
  BY <1>1
<1>9. OnlyLoaded' /\ Loading'
  BY <1>3, <1>7, <1>8 DEF OnlyLoaded, Loading
<1>10. RefusalsMeant'
  <2>1. \A q \in xRefused : q \in Id /\ Unmet(q)
    BY <1>1 DEF PackageInv, PackageType, RefusalsMeant
  <2>2. \A q \in xRefused' : Unmet(q)'
    BY <1>3, <2>1
  <2> QED
    BY <2>2 DEF RefusalsMeant
<1>11. Discovering' /\ Enabling' /\ Disabling' /\ Unloading'
  BY <1>1 DEF Discovering, Enabling, Disabling, Unloading
<1> QED
  BY <1>4, <1>6, <1>9, <1>10, <1>11 DEF PackageInv

LEMMA RefuseStep == ASSUME PackageInv, NEW p \in Id, Extension!Refuse(p) PROVE PackageInv'
<1>1. /\ Extension!At("load", p) /\ xState' = [xState EXCEPT ![p] = "errored"]
      /\ xRefused' = xRefused \cup {p} /\ UNCHANGED <<xFound, xDepend, xOrder, xPhase>>
  BY DEF Extension!Refuse
<1>2. PackageType /\ xState \in [Id -> {"absent", "loaded", "enabled", "disabled", "errored", "unloaded"}]
  BY DEF PackageInv, PackageType
<1>3. /\ xState' \in [Id -> {"absent", "loaded", "enabled", "disabled", "errored", "unloaded"}]
      /\ \A q \in Id \ {p} : xState'[q] = xState[q]
      /\ xState'[p] = "errored"
  BY <1>1, <1>2
<1>4. PICK d \in xDepend[p] : xState[d] = "absent"
  BY DEF Extension!Refuse, Extension!Missing
<1>5. d \in Id /\ Extension!Depends(p, d) /\ xPhase = "load"
  BY <1>1, <1>2, <1>4, DependsOnce, TodoStep DEF PackageType, PackagesType
<1>6. Unmet(p)
  <2>1. CASE Listed(xTodo, d)
    BY <1>1, <1>3, <1>4, <2>1, LoadPasses DEF Unmet
  <2>2. CASE ~Listed(xTodo, d)
    BY <1>4, <1>5, <2>2 DEF Unmet
  <2> QED
    BY <2>1, <2>2
<1>7. Unmet(p)'
  BY <1>1, <1>3, <1>6, LoadPasses
<1>8. xRefused' \in SUBSET Id /\ \A q \in xRefused' : q \in xRefused \/ Unmet(q)'
  BY <1>1, <1>2, <1>7 DEF PackageType
<1> QED
  BY <1>1, <1>3, <1>8, UnloadedPasses

LEMMA ImportFailsStep == ASSUME PackageInv, NEW p \in Id, Extension!ImportFails(p) PROVE PackageInv'
<1>1. Extension!At("load", p) /\ UNCHANGED <<xFound, xDepend, xState, xRefused, xOrder, xPhase>>
  BY DEF Extension!ImportFails
<1>2. PackageType
  BY DEF PackageInv
<1>3. /\ xState' \in [Id -> {"absent", "loaded", "enabled", "disabled", "errored", "unloaded"}]
      /\ \A q \in Id \ {p} : xState'[q] = xState[q]
      /\ xRefused' \in SUBSET Id /\ \A q \in xRefused' : q \in xRefused
  BY <1>1, <1>2 DEF PackageType
<1>4. xState'[p] = "absent"
  BY <1>1, <1>3, LoadPasses
<1> QED
  BY <1>1, <1>3, <1>4, UnloadedPasses

LEMMA LoadStep == ASSUME PackageInv, NEW p \in Id, Extension!Load(p) PROVE PackageInv'
<1>1. /\ Extension!At("load", p) /\ UNCHANGED <<xFound, xDepend, xRefused, xPhase>>
      /\ \/ xState' = [xState EXCEPT ![p] = "loaded"] /\ xOrder' = Append(xOrder, p)
         \/ xState' = [xState EXCEPT ![p] = "errored"] /\ xOrder' = xOrder
  BY DEF Extension!Load
<1>2. PackageType /\ xState \in [Id -> {"absent", "loaded", "enabled", "disabled", "errored", "unloaded"}]
  BY DEF PackageInv, PackageType
<1>3. /\ xState' \in [Id -> {"absent", "loaded", "enabled", "disabled", "errored", "unloaded"}]
      /\ \A q \in Id \ {p} : xState'[q] = xState[q]
      /\ xRefused' \in SUBSET Id /\ \A q \in xRefused' : q \in xRefused
  BY <1>1, <1>2 DEF PackageType
<1>4. CASE xState' = [xState EXCEPT ![p] = "errored"] /\ xOrder' = xOrder
  <2>1. xState'[p] = "errored"
    BY <1>2, <1>4
  <2> QED
    BY <1>1, <1>3, <1>4, <2>1, UnloadedPasses
<1>5. CASE xState' = [xState EXCEPT ![p] = "loaded"] /\ xOrder' = Append(xOrder, p)
  <2>1. /\ xPhase = "load" /\ PackagesType /\ NeedsFirst
        /\ \A q \in Id : xState[q] \in {"absent", "loaded", "errored"}
        /\ \A q \in Id : Listed(xOrder, q) <=> xState[q] = "loaded"
    BY <1>1, <1>2, TodoStep DEF PackageInv, Loading, PackageType
  <2>2. xTodo' \in Seq(Id) /\ Distinct(xTodo')
    BY <1>1, <1>2, TodoStep
  <2>3. /\ xState[p] = "absent" /\ TodoInOrder'
        /\ \A q \in Id : Listed(xTodo', q) => xState'[q] = "absent"
        /\ \A q \in Id : Unmet(q) => Unmet(q)'
    BY <1>1, <1>3, LoadPasses
  <2>4. xState'[p] = "loaded" /\ xOrder \in Seq(Id) /\ Distinct(xOrder) /\ ~Listed(xOrder, p)
    BY <1>2, <1>5, <2>1, <2>3 DEF PackageType
  <2>5. /\ xOrder' \in Seq(Id) /\ Distinct(xOrder') /\ Len(xOrder') = Len(xOrder) + 1
        /\ \A q : Listed(xOrder', q) <=> Listed(xOrder, q) \/ q = p
    BY <1>5, <2>4, AppendKey
  <2>6. /\ \A i \in 1..Len(xOrder) : xOrder'[i] = xOrder[i]
        /\ xOrder'[Len(xOrder) + 1] = p /\ Len(xOrder) \in Nat
    BY <1>5, <2>4, AppendLists, LenProperties
  <2>7. PackageType'
    BY <1>1, <1>2, <1>3, <2>2, <2>5 DEF PackageType, PackagesType
  <2>8. ASSUME NEW i \in 1..Len(xOrder'), NEW d \in xDepend[xOrder'[i]]
        PROVE  \/ \E j \in 1..i-1 : xOrder'[j] = d
               \/ ~Listed(xOrder', d) /\ xState'[d] = "errored"
    <3>1. CASE i \in 1..Len(xOrder)
      <4>1. xOrder'[i] = xOrder[i] /\ d \in xDepend[xOrder[i]]
        BY <2>6, <2>8, <3>1
      <4>2. d \in Id
        BY <2>1, <2>4, <3>1, <4>1, ElementOfSeq DEF PackagesType
      <4>3. CASE \E j \in 1..i-1 : xOrder[j] = d
        BY <2>6, <3>1, <4>3
      <4>4. CASE ~Listed(xOrder, d) /\ xState[d] = "errored"
        BY <1>3, <2>3, <2>5, <4>2, <4>4
      <4> QED
        BY <2>1, <3>1, <4>1, <4>3, <4>4 DEF NeedsFirst
    <3>2. CASE i = Len(xOrder) + 1
      <4>1. d \in xDepend[p] /\ d \in Id
        BY <2>1, <2>6, <2>8, <3>2 DEF PackagesType
      <4>2. xState[d] # "absent"
        BY <4>1 DEF Extension!Load, Extension!Missing
      <4>3. d # p
        BY <2>3, <4>2
      <4>4. CASE xState[d] = "loaded"
        <5>1. PICK j \in 1..Len(xOrder) : xOrder[j] = d
          BY <2>1, <4>1, <4>4 DEF Listed
        <5>2. j \in 1..i-1 /\ xOrder'[j] = d
          BY <2>6, <3>2, <5>1
        <5> QED
          BY <5>2
      <4>5. CASE xState[d] = "errored"
        BY <1>3, <2>1, <2>5, <4>1, <4>3, <4>5
      <4> QED
        BY <2>1, <4>1, <4>2, <4>4, <4>5
    <3> QED
      BY <2>5, <2>6, <3>1, <3>2
  <2>9. NeedsFirst'
    BY <1>1, <2>8 DEF NeedsFirst
  <2>10. \A q \in Id : Listed(xOrder', q) <=> xState'[q] = "loaded"
    BY <1>3, <2>1, <2>4, <2>5
  <2>11. \A q \in Id : xState'[q] \in {"absent", "loaded", "errored"}
    BY <1>3, <2>1, <2>4
  <2>12. OnlyLoaded' /\ Loading'
    BY <2>3, <2>10, <2>11 DEF OnlyLoaded, Loading
  <2>13. RefusalsMeant'
    <3>1. \A q \in xRefused : q \in Id /\ Unmet(q)
      BY <1>2 DEF PackageInv, PackageType, RefusalsMeant
    <3> QED
      BY <1>3, <2>3, <3>1 DEF RefusalsMeant
  <2>14. Discovering' /\ Enabling' /\ Disabling' /\ Unloading'
    BY <1>1, <2>1 DEF Discovering, Enabling, Disabling, Unloading
  <2> QED
    BY <2>7, <2>9, <2>12, <2>13, <2>14 DEF PackageInv
<1> QED
  BY <1>1, <1>4, <1>5
LEMMA LoadedStep == PackageInv /\ Extension!Loaded => PackageInv'
<1> SUFFICES ASSUME PackageInv, Extension!Loaded PROVE PackageInv'
  OBVIOUS
<1>1. /\ xPhase = "load" /\ xPhase' = "enable" /\ xTodo' = xOrder
      /\ UNCHANGED <<xFound, xDepend, xState, xRefused, xOrder>>
  BY DEF Extension!Loaded
<1>2. /\ PackageType /\ NeedsFirst /\ OnlyLoaded /\ RefusalsMeant
      /\ \A q \in Id : Listed(xOrder, q) <=> xState[q] = "loaded"
  BY <1>1 DEF PackageInv, Loading
<1>3. PackageType' /\ NeedsFirst' /\ OnlyLoaded'
  BY <1>1, <1>2 DEF PackageType, PackagesType, NeedsFirst, OnlyLoaded
<1>4. Len(xOrder) \in Nat /\ \A i \in 1..Len(xOrder) : xOrder[i] \in Id /\ Listed(xOrder, xOrder[i])
  BY <1>2, LenProperties DEF PackageType, Listed
<1>5. Enabling'
  BY <1>1, <1>2, <1>4 DEF Enabling
<1>6. \A p : Unmet(p) => Unmet(p)'
  BY <1>1, SameNeeds DEF Unmet
<1>7. RefusalsMeant'
  BY <1>1, <1>2, <1>6 DEF RefusalsMeant
<1>8. Discovering' /\ Loading' /\ Disabling' /\ Unloading'
  BY <1>1 DEF Discovering, Loading, Disabling, Unloading
<1> QED
  BY <1>3, <1>5, <1>7, <1>8 DEF PackageInv

\* A later loop comes to p, which was loaded.
LEMMA LaterPasses ==
    ASSUME PackageInv, NEW p \in Id, Listed(xOrder, p), NEW ph \in {"enable", "disable", "unload"},
           Extension!At(ph, p), UNCHANGED <<xFound, xDepend, xRefused, xOrder, xPhase>>,
           xState' \in [Id -> {"absent", "loaded", "enabled", "disabled", "errored", "unloaded"}],
           \A q \in Id \ {p} : xState'[q] = xState[q],
           xState'[p] # "absent"
    PROVE  PackageType' /\ NeedsFirst' /\ OnlyLoaded' /\ RefusalsMeant' /\ Discovering' /\ Loading'
<1>1. /\ PackageType /\ PackagesType /\ NeedsFirst /\ OnlyLoaded /\ RefusalsMeant
      /\ xPhase = ph /\ xTodo' \in Seq(Id) /\ Distinct(xTodo')
  BY TodoStep DEF PackageInv, PackageType
<1>2. PackageType'
  BY <1>1 DEF PackageType, PackagesType
<1>3. \A q : Listed(xOrder', q) <=> Listed(xOrder, q)
  BY DEF Listed
<1>4. NeedsFirst'
  <2>1. \A i \in 1..Len(xOrder) : \A d \in xDepend[xOrder[i]] : d \in Id
    BY <1>1, ElementOfSeq DEF PackageType, PackagesType
  <2>2. \A d \in Id : ~Listed(xOrder, d) => xState'[d] = xState[d]
    OBVIOUS
  <2> QED
    BY <1>1, <1>3, <2>1, <2>2 DEF NeedsFirst
<1>5. OnlyLoaded'
  BY <1>1, <1>3 DEF OnlyLoaded
<1>6. xState[p] # "absent"
  BY <1>1 DEF OnlyLoaded
<1>7. \A q, r : (Extension!Depends(q, r)' <=> Extension!Depends(q, r)) /\ (Looped(q)' <=> Looped(q))
  BY SameNeeds
<1>8. ASSUME NEW q, Unmet(q) PROVE Unmet(q)'
  BY <1>1, <1>6, <1>7, <1>8 DEF Unmet
<1>9. RefusalsMeant'
  BY <1>1, <1>8 DEF RefusalsMeant
<1>10. Discovering' /\ Loading'
  BY <1>1 DEF Discovering, Loading
<1> QED
  BY <1>2, <1>4, <1>5, <1>9, <1>10

LEMMA EnableStep == ASSUME PackageInv, NEW p \in Id, Extension!Enable(p) PROVE PackageInv'
<1>1. /\ Extension!At("enable", p) /\ UNCHANGED <<xFound, xDepend, xRefused, xOrder, xPhase>>
  BY DEF Extension!Enable
<1>2. PackageType /\ xState \in [Id -> {"absent", "loaded", "enabled", "disabled", "errored", "unloaded"}]
  BY DEF PackageInv, PackageType
<1>3. PICK s \in {"enabled", "errored"} : xState' = [xState EXCEPT ![p] = s]
  BY DEF Extension!Enable
<1>4. /\ xState' \in [Id -> {"absent", "loaded", "enabled", "disabled", "errored", "unloaded"}]
      /\ \A q \in Id \ {p} : xState'[q] = xState[q]
      /\ xState'[p] \in {"enabled", "errored"}
  BY <1>2, <1>3
<1>5. /\ xPhase = "enable" /\ Len(xTodo) \in Nat /\ 1 \in 1..Len(xTodo) /\ p = xTodo[1]
      /\ Len(xTodo') = Len(xTodo) - 1
      /\ \A i \in 1..Len(xTodo) - 1 : xTodo'[i] = xTodo[i + 1]
  BY <1>1, <1>2, TodoStep
<1> DEFINE k == Len(xOrder) - Len(xTodo)
<1>6. /\ Len(xTodo) <= Len(xOrder) /\ Len(xOrder) \in Nat
      /\ \A i \in 1..Len(xTodo) : xTodo[i] = xOrder[k + i]
      /\ \A i \in 1..Len(xOrder) : xOrder[i] \in Id /\
            IF i <= k THEN xState[xOrder[i]] \in {"enabled", "errored"} ELSE xState[xOrder[i]] = "loaded"
  BY <1>2, <1>5, LenProperties DEF PackageInv, Enabling, PackageType
<1>7. k \in Nat /\ k + 1 \in 1..Len(xOrder) /\ p = xOrder[k + 1] /\ Len(xOrder) - Len(xTodo') = k + 1
  BY <1>5, <1>6
<1> HIDE DEF k
<1>8. Listed(xOrder, p)
  BY <1>7 DEF Listed
<1>9. /\ PackageType' /\ NeedsFirst' /\ OnlyLoaded' /\ RefusalsMeant'
      /\ Discovering' /\ Loading'
  BY <1>1, <1>4, <1>8, LaterPasses
<1>10. \A i \in 1..Len(xOrder) : i # k + 1 => xOrder[i] # p
  BY <1>2, <1>7 DEF PackageType, Distinct
<1>11. ASSUME NEW i \in 1..Len(xOrder)
       PROVE  IF i <= k + 1 THEN xState'[xOrder[i]] \in {"enabled", "errored"}
                            ELSE xState'[xOrder[i]] = "loaded"
  <2>1. CASE i = k + 1
    BY <1>4, <1>7, <2>1
  <2>2. CASE i # k + 1
    <3>1. xState'[xOrder[i]] = xState[xOrder[i]]
      BY <1>4, <1>6, <1>10, <2>2
    <3>2. i <= k + 1 <=> i <= k
      BY <1>7, <2>2
    <3> QED
      BY <1>6, <3>1, <3>2
  <2> QED
    BY <2>1, <2>2
<1>12. \A i \in 1..Len(xTodo') : xTodo'[i] = xOrder[k + 1 + i]
  BY <1>5, <1>6, <1>7
<1>13. Enabling'
  BY <1>1, <1>5, <1>6, <1>7, <1>11, <1>12 DEF Enabling
<1>14. Disabling' /\ Unloading'
  BY <1>1, <1>5 DEF Disabling, Unloading
<1> QED
  BY <1>9, <1>13, <1>14 DEF PackageInv

LEMMA ReverseLists ==
    ASSUME NEW s \in Seq(Id), Distinct(s), NEW t, t = Extension!Reverse(s)
    PROVE  /\ t \in Seq(Id) /\ Len(t) = Len(s) /\ Len(s) \in Nat /\ Distinct(t)
           /\ \A i \in 1..Len(s) : t[i] = s[Len(s) + 1 - i]
           /\ \A x : Listed(t, x) => Listed(s, x)
<1> DEFINE n == Len(s)
<1>1. n \in Nat /\ \A i \in 1..n : s[i] \in Id
  BY LenProperties
<1>2. \A i \in 1..n : (n - i) + 1 \in 1..n /\ (n - i) + 1 = n + 1 - i
  BY <1>1
<1>3. t = [i \in 1..n |-> s[(n - i) + 1]]
  BY DEF Extension!Reverse
<1> HIDE DEF n
<1>4. t \in [1..n -> Id] /\ \A i \in 1..n : t[i] = s[n + 1 - i]
  BY <1>1, <1>2, <1>3
<1>5. t \in Seq(Id) /\ Len(t) = n
  BY <1>1, <1>4
<1>6. ASSUME NEW i \in 1..n, NEW j \in 1..n, t[i] = t[j] PROVE i = j
  <2>0. n + 1 - i \in 1..n /\ n + 1 - j \in 1..n /\ s[n + 1 - i] = s[n + 1 - j]
    BY <1>2, <1>4, <1>6
  <2>1. n + 1 - i = n + 1 - j
    BY <2>0 DEF Distinct, n
  <2> QED
    BY <1>1, <2>1
<1>7. ASSUME NEW i \in 1..n PROVE Listed(s, t[i])
  BY <1>2, <1>4 DEF Listed, n
<1> QED
  BY <1>1, <1>4, <1>5, <1>6, <1>7 DEF Distinct, Listed, n

\* From one loop to the next after all are loaded.
LEMMA NextLoop ==
    ASSUME PackageInv, xPhase' \in {"disable", "unload"}, xPhase # "load",
           UNCHANGED <<xFound, xDepend, xState, xRefused, xOrder>>,
           xTodo' = Extension!Reverse(xOrder)
    PROVE  PackageType' /\ NeedsFirst' /\ OnlyLoaded' /\ RefusalsMeant' /\ Discovering' /\ Loading'
<1>1. PackageType /\ PackagesType /\ NeedsFirst /\ OnlyLoaded /\ RefusalsMeant
  BY DEF PackageInv, PackageType
<1>2. xOrder \in Seq(Id) /\ Distinct(xOrder)
  BY <1>1 DEF PackageType
<1>3. xTodo' \in Seq(Id) /\ Distinct(xTodo')
  BY <1>2, ReverseLists
<1>4. PackageType' /\ NeedsFirst' /\ OnlyLoaded'
  BY <1>1, <1>3 DEF PackageType, PackagesType, NeedsFirst, OnlyLoaded
<1>5. \A p : Unmet(p) => Unmet(p)'
  BY SameNeeds DEF Unmet
<1>6. RefusalsMeant'
  BY <1>1, <1>5 DEF RefusalsMeant
<1>7. Discovering' /\ Loading'
  BY DEF Discovering, Loading
<1> QED
  BY <1>4, <1>6, <1>7

LEMMA StopStep == PackageInv /\ Extension!Stop => PackageInv'
<1> SUFFICES ASSUME PackageInv, Extension!Stop PROVE PackageInv'
  OBVIOUS
<1>1. /\ xPhase = "enable" /\ xTodo = <<>> /\ xPhase' = "disable"
      /\ xTodo' = Extension!Reverse(xOrder)
      /\ UNCHANGED <<xFound, xDepend, xState, xRefused, xOrder>>
  BY DEF Extension!Stop
<1>2. xOrder \in Seq(Id) /\ Distinct(xOrder)
  BY DEF PackageInv, PackageType
<1>3. /\ PackageType' /\ NeedsFirst' /\ OnlyLoaded' /\ RefusalsMeant'
      /\ Discovering' /\ Loading'
  BY <1>1, NextLoop
<1>4. /\ Len(xTodo') = Len(xOrder) /\ Len(xOrder) \in Nat
      /\ \A i \in 1..Len(xOrder) : xTodo'[i] = xOrder[Len(xOrder) + 1 - i]
  BY <1>1, <1>2, ReverseLists
<1>5. \A i \in 1..Len(xOrder) : xState[xOrder[i]] \in {"enabled", "errored"}
  <2>1. Len(xTodo) = 0
    BY <1>1, NoneListed
  <2>2. \A i \in 1..Len(xOrder) : i <= Len(xOrder) - 0
    BY <1>4
  <2> QED
    BY <1>1, <2>1, <2>2 DEF PackageInv, Enabling
<1>6. Disabling'
  BY <1>1, <1>4, <1>5 DEF Disabling
<1>7. Enabling' /\ Unloading'
  BY <1>1 DEF Enabling, Unloading
<1> QED
  BY <1>3, <1>6, <1>7 DEF PackageInv

LEMMA DisabledStep == PackageInv /\ Extension!Disabled => PackageInv'
<1> SUFFICES ASSUME PackageInv, Extension!Disabled PROVE PackageInv'
  OBVIOUS
<1>1. /\ xPhase = "disable" /\ xTodo = <<>> /\ xPhase' = "unload"
      /\ xTodo' = Extension!Reverse(xOrder)
      /\ UNCHANGED <<xFound, xDepend, xState, xRefused, xOrder>>
  BY DEF Extension!Disabled
<1>2. xOrder \in Seq(Id) /\ Distinct(xOrder)
  BY DEF PackageInv, PackageType
<1>3. /\ PackageType' /\ NeedsFirst' /\ OnlyLoaded' /\ RefusalsMeant'
      /\ Discovering' /\ Loading'
  BY <1>1, NextLoop
<1>4. \A x : Listed(xTodo', x) => Listed(xOrder, x)
  BY <1>1, <1>2, ReverseLists
<1>5. \A i \in 1..Len(xOrder) : xState[xOrder[i]] # "enabled"
  <2>1. Len(xTodo) = 0
    BY <1>1, NoneListed
  <2>2. \A i \in 1..Len(xOrder) : ~(i <= 0)
    OBVIOUS
  <2> QED
    BY <1>1, <2>1, <2>2 DEF PackageInv, Disabling
<1>6. \A p \in Id : xState[p] # "enabled"
  BY <1>5 DEF PackageInv, OnlyLoaded, Listed
<1>7. Unloading'
  BY <1>1, <1>4, <1>6 DEF Unloading, Listed
<1>8. Enabling' /\ Disabling'
  BY <1>1 DEF Enabling, Disabling
<1> QED
  BY <1>3, <1>7, <1>8 DEF PackageInv

LEMMA DisableStep == ASSUME PackageInv, NEW p \in Id, Extension!Disable(p) PROVE PackageInv'
<1>1. /\ Extension!At("disable", p) /\ UNCHANGED <<xFound, xDepend, xRefused, xOrder, xPhase>>
  BY DEF Extension!Disable
<1>2. PackageType /\ xState \in [Id -> {"absent", "loaded", "enabled", "disabled", "errored", "unloaded"}]
  BY DEF PackageInv, PackageType
<1>3. /\ xPhase = "disable" /\ Len(xTodo) \in Nat /\ 1 \in 1..Len(xTodo) /\ p = xTodo[1]
      /\ Len(xTodo') = Len(xTodo) - 1
      /\ \A i \in 1..Len(xTodo) - 1 : xTodo'[i] = xTodo[i + 1]
  BY <1>1, <1>2, TodoStep
<1> DEFINE k == Len(xTodo)
<1>4. /\ k <= Len(xOrder) /\ Len(xOrder) \in Nat
      /\ \A i \in 1..k : xTodo[i] = xOrder[k + 1 - i]
      /\ \A i \in 1..Len(xOrder) : xOrder[i] \in Id /\
            IF i <= k THEN xState[xOrder[i]] \in {"enabled", "errored"}
                      ELSE xState[xOrder[i]] \in {"disabled", "errored"}
  BY <1>2, <1>3, LenProperties DEF PackageInv, Disabling, PackageType
<1> HIDE DEF k
<1>5. k \in Nat /\ k \in 1..Len(xOrder) /\ p = xOrder[k] /\ Len(xTodo') = k - 1
  BY <1>3, <1>4 DEF k
<1>6. Listed(xOrder, p)
  BY <1>5 DEF Listed
<1>7. xState[p] \in {"enabled", "errored"}
  BY <1>4, <1>5
<1>8. /\ xState' \in [Id -> {"absent", "loaded", "enabled", "disabled", "errored", "unloaded"}]
      /\ \A q \in Id \ {p} : xState'[q] = xState[q]
      /\ xState'[p] \in {"disabled", "errored"}
  <2>1. CASE xState[p] = "enabled"
    <3>1. PICK s \in {"disabled", "errored"} : xState' = [xState EXCEPT ![p] = s]
      BY <2>1 DEF Extension!Disable
    <3> QED
      BY <1>2, <3>1
  <2>2. CASE xState[p] # "enabled"
    <3>1. xState' = xState
      BY <2>2 DEF Extension!Disable
    <3> QED
      BY <1>2, <1>7, <2>2, <3>1
  <2> QED
    BY <2>1, <2>2
<1>9. /\ PackageType' /\ NeedsFirst' /\ OnlyLoaded' /\ RefusalsMeant'
      /\ Discovering' /\ Loading'
  BY <1>1, <1>6, <1>8, LaterPasses
<1>10. \A i \in 1..Len(xOrder) : i # k => xOrder[i] # p
  BY <1>2, <1>5 DEF PackageType, Distinct
<1>11. ASSUME NEW i \in 1..Len(xOrder)
       PROVE  IF i <= k - 1 THEN xState'[xOrder[i]] \in {"enabled", "errored"}
                            ELSE xState'[xOrder[i]] \in {"disabled", "errored"}
  <2>1. CASE i = k
    BY <1>5, <1>8, <2>1
  <2>2. CASE i # k
    <3>1. xState'[xOrder[i]] = xState[xOrder[i]]
      BY <1>4, <1>8, <1>10, <2>2
    <3>2. i <= k - 1 <=> i <= k
      BY <1>5, <2>2
    <3> QED
      BY <1>4, <3>1, <3>2
  <2> QED
    BY <2>1, <2>2
<1>12. \A i \in 1..k - 1 : xTodo'[i] = xOrder[(k - 1) + 1 - i]
  <2> SUFFICES ASSUME NEW i \in 1..k - 1 PROVE xTodo'[i] = xOrder[(k - 1) + 1 - i]
    OBVIOUS
  <2>1. i + 1 \in 1..k /\ k + 1 - (i + 1) = (k - 1) + 1 - i
    BY <1>5
  <2>2. xTodo'[i] = xTodo[i + 1]
    BY <1>3 DEF k
  <2>3. xTodo[i + 1] = xOrder[k + 1 - (i + 1)]
    BY <1>4, <2>1
  <2> QED
    BY <2>1, <2>2, <2>3
<1>13. Disabling'
  BY <1>1, <1>4, <1>5, <1>11, <1>12 DEF Disabling
<1>14. Enabling' /\ Unloading'
  BY <1>1, <1>3 DEF Enabling, Unloading
<1> QED
  BY <1>9, <1>13, <1>14 DEF PackageInv

LEMMA UnloadStep == ASSUME PackageInv, NEW p \in Id, Extension!Unload(p) PROVE PackageInv'
<1>1. /\ Extension!At("unload", p) /\ UNCHANGED <<xFound, xDepend, xRefused, xOrder, xPhase>>
      /\ (xState' = [xState EXCEPT ![p] = "unloaded"] \/ xState' = xState)
  BY DEF Extension!Unload
<1>2. PackageType /\ xState \in [Id -> {"absent", "loaded", "enabled", "disabled", "errored", "unloaded"}]
  BY DEF PackageInv, PackageType
<1>3. /\ xPhase = "unload" /\ Listed(xTodo, p)
      /\ \A x : Listed(xTodo', x) <=> Listed(xTodo, x) /\ x # p
  BY <1>1, <1>2, TodoStep
<1>4. Listed(xOrder, p) /\ \A q \in Id : xState[q] # "enabled"
  BY <1>3 DEF PackageInv, Unloading
<1>5. xState[p] # "absent"
  BY <1>4 DEF PackageInv, OnlyLoaded
<1>6. /\ xState' \in [Id -> {"absent", "loaded", "enabled", "disabled", "errored", "unloaded"}]
      /\ \A q \in Id \ {p} : xState'[q] = xState[q]
      /\ xState'[p] # "absent" /\ xState'[p] # "enabled"
  BY <1>1, <1>2, <1>4, <1>5
<1>7. /\ PackageType' /\ NeedsFirst' /\ OnlyLoaded' /\ RefusalsMeant'
      /\ Discovering' /\ Loading'
  BY <1>1, <1>4, <1>6, LaterPasses
<1>8. \A q : Listed(xOrder', q) <=> Listed(xOrder, q)
  BY <1>1 DEF Listed
<1>9. \A q \in Id : xState'[q] # "enabled"
  BY <1>4, <1>6
<1>10. Unloading'
  BY <1>3, <1>8, <1>9 DEF PackageInv, Unloading
<1>11. Enabling' /\ Disabling'
  BY <1>1, <1>3 DEF Enabling, Disabling
<1> QED
  BY <1>7, <1>10, <1>11 DEF PackageInv

LEMMA PackageNext == PackageInv /\ [Extension!Next]_PackageVars => PackageInv'
<1> SUFFICES ASSUME PackageInv, [Extension!Next]_PackageVars PROVE PackageInv'
  OBVIOUS
<1>1. CASE UNCHANGED PackageVars
  BY <1>1, PackageStays
<1>2. CASE Extension!Discover \/ Extension!Loaded \/ Extension!Stop \/ Extension!Disabled
  BY <1>2, DiscoverStep, LoadedStep, StopStep, DisabledStep
<1>3. ASSUME NEW p \in Id,
             \/ Extension!Refuse(p) \/ Extension!ImportFails(p) \/ Extension!Load(p)
             \/ Extension!Enable(p) \/ Extension!Disable(p) \/ Extension!Unload(p)
      PROVE  PackageInv'
  BY <1>3, RefuseStep, ImportFailsStep, LoadStep, EnableStep, DisableStep, UnloadStep
<1> QED
  BY <1>1, <1>2, <1>3 DEF Extension!Next

LEMMA PackagesKept == PackageInv => Extension!DependenciesKept
<1> SUFFICES ASSUME PackageInv PROVE Extension!DependenciesKept
  OBVIOUS
<1>0. PackageType /\ NeedsFirst /\ OnlyLoaded /\ Discovering /\ Loading /\ Enabling /\ Disabling /\ Unloading
  BY DEF PackageInv
<1>1. Len(xOrder) \in Nat /\ Len(xTodo) \in Nat
  BY <1>0, LenProperties DEF PackageType
<1>2. ASSUME NEW p \in Id, xState[p] = "enabled", NEW d \in xDepend[p]
      PROVE  xState[d] \in {"enabled", "errored"}
  <2>1. PICK i \in 1..Len(xOrder) : xOrder[i] = p
    BY <1>0, <1>2 DEF OnlyLoaded, Listed
  <2>2. CASE \E j \in 1..i-1 : xOrder[j] = d
    <3>1. PICK j \in 1..i-1 : xOrder[j] = d
      BY <2>2
    <3>2. j \in 1..Len(xOrder) /\ j < i
      BY <1>1
    <3>3. CASE xPhase = "enable"
      BY <1>0, <1>1, <1>2, <2>1, <3>1, <3>2, <3>3 DEF Enabling
    <3>4. CASE xPhase = "disable"
      BY <1>0, <1>1, <1>2, <2>1, <3>1, <3>2, <3>4 DEF Disabling
    <3>5. xPhase \in {"enable", "disable"}
      BY <1>0, <1>2 DEF PackageType, Discovering, Loading, Unloading
    <3> QED
      BY <3>3, <3>4, <3>5
  <2>3. CASE xState[d] = "errored"
    BY <2>3
  <2> QED
    BY <1>0, <1>2, <2>1, <2>2, <2>3 DEF NeedsFirst
<1>3. ASSUME NEW p \in xRefused PROVE Extension!Excused(p)
  BY <1>3 DEF PackageInv, RefusalsMeant, Unmet, Looped, Extension!Excused
<1> QED
  BY <1>2, <1>3 DEF Extension!DependenciesKept

\* Dependencies are enabled first and disabled last, and nothing is refused without an
\* excuse, whatever the packages need and in whatever order they are found.
THEOREM PackagesInOrder == Extension!Spec => []DependenciesKept
<1>1. Extension!Spec => []PackageInv
  BY PackageInit, PackageNext, PTL DEF Extension!Spec, PackageVars, Extension!vars
<1>2. PackageInv => DependenciesKept
  BY PackagesKept DEF DependenciesKept
<1> QED
  BY <1>1, <1>2, PTL
===============================================================================

------------------------------- MODULE MCRuntime -------------------------------
(***************************************************************************)
(* What the server runs on, for TLC: the two schedulers, the ring of       *)
(* shared memory, the processes of the watchdog, and plugins and mods.     *)
(* They share nothing, so a behaviour follows one of them, chosen at the   *)
(* start, and leaves the others in an initial state.                       *)
(***************************************************************************)
EXTENDS PluginScheduler, RingMessages, TLC

CONSTANTS Delay,    \* delays and periods of the server's scheduler
          m1, m2, m3,  \* messages of the ring
          None, MaxMissed, MaxLaunches, MaxCrashes,  \* of Watchdog
          Id, Directories                            \* of Extensions

VARIABLES part,                         \* what is followed
          rBuf, rWrite, rRead, rOut, rStored, rTotal, rCopied, rLast,
          rQueue, rPlaces,              \* the variables of ShmRing
          sFresh, sIds, sCancelled, sDelay, sPeriod, sElapsed, sTasks,
          sPosition, sRemaining, sRunning, sInTick, sClock, sRan,
          sNested,                      \* the variables of TickScheduler
          wRun, wSocket, wPartner, wMissed, wWaiting, wDue, wParent,
          wSilence, wLaunches, wCrashes, \* the variables of Watchdog
          xFound, xDepend, xState, xRefused, xOrder, xPhase,
          xTodo                         \* the variables of Extensions

Server == INSTANCE TickScheduler WITH
    fresh <- sFresh, ids <- sIds, cancelled <- sCancelled,
    delay <- sDelay, period <- sPeriod, elapsed <- sElapsed, tasks <- sTasks,
    position <- sPosition, remaining <- sRemaining, running <- sRunning,
    inTick <- sInTick, clock <- sClock, ran <- sRan,
    nested <- sNested

ASSUME ServerAssumption == Server!TickSchedulerAssumption

serverVars == <<sFresh, sIds, sCancelled, sDelay, sPeriod, sElapsed, sTasks,
                sPosition, sRemaining, sRunning, sInTick, sClock, sRan,
                sNested>>

Shm == INSTANCE ShmRing WITH
    buf <- rBuf, write_pos <- rWrite, read_pos <- rRead, out <- rOut,
    stored <- rStored, total <- rTotal, copied <- rCopied, last <- rLast,
    queue <- rQueue, places <- rPlaces

ringVars == <<rBuf, rWrite, rRead, rOut, rStored, rTotal, rCopied, rLast, rQueue, rPlaces>>

\* Process ids are the model values that are task ids in another part: one set of
\* permutations serves both.
Dogs == INSTANCE Watchdog WITH
    Proc <- Task, run <- wRun, socket <- wSocket, partner <- wPartner, missed <- wMissed,
    waiting <- wWaiting, due <- wDue, parent <- wParent,
    silence <- wSilence, launches <- wLaunches, crashes <- wCrashes

ASSUME DogsAssumption == Dogs!WatchdogAssumption

dogsVars == <<wRun, wSocket, wPartner, wMissed, wWaiting, wDue, wParent,
              wSilence, wLaunches, wCrashes>>

Extension == INSTANCE Extensions WITH
    discovered <- xFound, depend <- xDepend, state <- xState, refused <- xRefused,
    loadOrder <- xOrder, phase <- xPhase, todo <- xTodo

extensionVars == <<xFound, xDepend, xState, xRefused, xOrder, xPhase, xTodo>>

ASSUME PackageAssumption == Extension!ExtensionsAssumption

AllInit ==
    /\ Init /\ Server!Init /\ Shm!Init /\ Dogs!Init /\ Extension!Init
    /\ \/ part = "extensions" /\ xFound # <<>>
       \/ /\ part \in {"plugins", "server", "ring", "watchdog"}
          /\ xFound = <<>> /\ xDepend = [p \in Id |-> {}]

AllNext ==
    /\ UNCHANGED part
    /\ \/ part = "plugins" /\ Next /\ UNCHANGED <<serverVars, ringVars, dogsVars, extensionVars>>
       \/ part = "server" /\ Server!Next /\ UNCHANGED <<vars, ringVars, dogsVars, extensionVars>>
       \/ part = "ring" /\ Shm!Next /\ UNCHANGED <<vars, serverVars, dogsVars, extensionVars>>
       \/ part = "watchdog" /\ Dogs!Next /\ UNCHANGED <<vars, serverVars, ringVars, extensionVars>>
       \/ part = "extensions" /\ Extension!Next /\ UNCHANGED <<vars, serverVars, ringVars, dogsVars>>

AllSpec == AllInit /\ [][AllNext]_<<vars, serverVars, ringVars, dogsVars, extensionVars, part>>

\* Ids and plugins are never compared by order.
Symmetry == Permutations(Task) \cup Permutations(Plugin)

\* Packages out of the order of their ids, one that is not there, and an empty
\* directory.
DirectoriesMC == {<<>>, <<3, 1, 2>>, <<2, 3>>}

SizeMC == (m1 :> 4) @@ (m2 :> 1) @@ (m3 :> 6)

-------------------------------------------------------------------------------
\* The server's scheduler runs every task in exactly the tick it is due, as
\* long as none has been scheduled during a tick (TickScheduler.OnTime).
ServerOnTime == Server!OnTime

\* ShmRing.ImplementsChannel: messages arrive whole, once and in order.
RingImplementsChannel == Shm!ImplementsChannel

\* Watchdog.PromptStays: no process is killed that has sent its heartbeats.
PromptStays == Dogs!PromptStays

\* Extensions.DependenciesKept: dependencies are enabled first and disabled last.
DependenciesKept == part = "extensions" => Extension!DependenciesKept
===============================================================================

--------------------------------- MODULE Watchdog --------------------------------
(***************************************************************************)
(* watchdog/process_manager.py: processes of one server directory that     *)
(* watch each other by heartbeats over UDP and start each other.  Every    *)
(* process is main.py with the same server.properties: it starts its       *)
(* watchdog, loads the world and then wants the server's TCP port; one     *)
(* that does not get it stops and exits.                                   *)
(*                                                                         *)
(* The unit of time is the heartbeat_interval of one second.  In each, a   *)
(* process whose event loop runs sends a heartbeat and looks at its        *)
(* partner, in either order; one whose loop is held up does not.  Process  *)
(* ids are not used again while a watchdog knows them.  The operating      *)
(* system's part (sockets, signals, zombies) is external.                  *)
(***************************************************************************)
EXTENDS Naturals

CONSTANTS Proc,        \* process ids
          None,        \* no process, no socket
          MaxMissed,   \* watchdog-max-missed-heartbeats
          MaxLaunches, \* bound: processes the operator starts
          MaxCrashes   \* bound

Port == {"health", "partner"}    \* watchdog-health-port and the next one

\* What the constants must be; the suite that instantiates this module assumes it.
WatchdogAssumption == None \notin Proc \cup Port /\ MaxMissed \in Nat

VARIABLES run,      \* run[p]: what p is doing
          socket,   \* socket[p]: the UDP port p listens on
          partner,  \* partner[p]: WatchdogManager.partner_pid
          missed,   \* missed[p]: missed_heartbeats
          waiting,  \* processes whose monitor is inside restart_partner
          due,      \* due[p]: the tasks of p whose second is over
          parent,   \* parent[p]: who has started p
          silence,  \* history: seconds since a heartbeat of p was sent, or p started,
                    \* up to MaxMissed
          launches, crashes

dogVars == <<partner, missed, waiting, due>>
faultVars == <<launches, crashes>>
vars == <<run, socket, parent, silence, dogVars, faultVars>>

Up == {p \in Proc : run[p] \in {"boot", "load", "serve"}}

\* The processes whose watchdog has been started.
Watching == {p \in Proc : run[p] \in {"load", "serve"}}

\* os.kill(pid, 0): a zombie still has its pid.
Alive == {p \in Proc : run[p] \notin {"off", "killed"}}

Other(port) == IF port = "health" THEN "partner" ELSE "health"

\* Mutant: the process on the other port keeps the port it was told to send to.
TargetAsConfigured(p) == "partner"

\* Where p sends: the other port, and the health port if it got neither.
Target(p) == IF socket[p] = None THEN "health" ELSE Other(socket[p])

Init ==
    /\ run = [p \in Proc |-> "off"]
    /\ socket = [p \in Proc |-> None]
    /\ partner = [p \in Proc |-> None]
    /\ missed = [p \in Proc |-> 0]
    /\ waiting = {}
    /\ due = [p \in Proc |-> {}]
    /\ parent = [p \in Proc |-> None]
    /\ silence = [p \in Proc |-> 0]
    /\ launches = 0 /\ crashes = 0

-------------------------------------------------------------------------------
(* Processes. *)

\* A pid that no process has, and that no watchdog remembers.
FreePid(q) ==
    /\ run[q] \in {"off", "killed"}
    /\ \A r \in Up : partner[r] # q

\* The operator starts main.py.
Launch(q) ==
    /\ launches < MaxLaunches
    /\ launches' = launches + 1
    /\ FreePid(q)
    /\ run' = [run EXCEPT ![q] = "boot"]
    /\ parent' = [parent EXCEPT ![q] = None]
    /\ silence' = [silence EXCEPT ![q] = 0]
    /\ UNCHANGED <<socket, dogVars, crashes>>

\* watchdog_manager.start(): the first of the two ports that is free.  The first
\* heartbeat is due at once, the monitor sleeps first.
StartWatchdog(p) ==
    LET open == {o \in Port : \A q \in Up : socket[q] # o}
    IN
    /\ run[p] = "boot"
    /\ run' = [run EXCEPT ![p] = "load"]
    /\ socket' = [socket EXCEPT ![p] = IF "health" \in open THEN "health"
                                       ELSE IF "partner" \in open THEN "partner"
                                       ELSE None]
    /\ partner' = [partner EXCEPT ![p] = None]
    /\ missed' = [missed EXCEPT ![p] = 0]
    /\ due' = [due EXCEPT ![p] = {"beat"}]
    /\ UNCHANGED <<waiting, parent, silence, faultVars>>

\* The world is loaded, and nobody has the server's port.
Serve(p) ==
    /\ run[p] = "load"
    /\ \A q \in Proc : run[q] # "serve"
    /\ run' = [run EXCEPT ![p] = "serve"]
    /\ UNCHANGED <<socket, parent, silence, dogVars, faultVars>>

\* p ends: it stays a zombie until its parent starts another process.  What p has
\* started is adopted and leaves nothing behind.
Ends(p) ==
    /\ run' = [q \in Proc |->
                 IF q = p THEN IF parent[p] \in Up \ {p} THEN "zombie" ELSE "off"
                 ELSE IF run[q] = "zombie" /\ parent[q] = p THEN "off"
                 ELSE run[q]]
    /\ socket' = [socket EXCEPT ![p] = None]
    /\ parent' = [q \in Proc |-> IF parent[q] = p THEN None ELSE parent[q]]
    /\ due' = [due EXCEPT ![p] = {}]
    /\ waiting' = waiting \ {p}
    /\ partner' = [partner EXCEPT ![p] = None]
    /\ missed' = [missed EXCEPT ![p] = 0]
    /\ silence' = [silence EXCEPT ![p] = 0]

\* The server's port is taken: start() raises, stop() ends the watchdog.
GiveUp(p) ==
    /\ run[p] = "load"
    /\ \E q \in Proc : run[q] = "serve"
    /\ Ends(p)
    /\ UNCHANGED faultVars

Crash(p) ==
    /\ crashes < MaxCrashes
    /\ crashes' = crashes + 1
    /\ p \in Up
    /\ Ends(p)
    /\ UNCHANGED launches

-------------------------------------------------------------------------------
(* Heartbeats. *)

\* A second goes by.  What a loop has not come to stays due, once.
Second ==
    /\ due' = [p \in Proc |-> IF p \in Watching THEN {"beat", "watch"} ELSE {}]
    /\ silence' = [p \in Proc |-> IF p \notin Up THEN 0
                               ELSE IF silence[p] < MaxMissed THEN silence[p] + 1
                               ELSE MaxMissed]
    /\ UNCHANGED <<run, socket, parent, partner, missed, waiting, faultVars>>

\* send_heartbeat and, at whoever listens on that port, handle_heartbeat: a partner
\* is remembered for good.  The receiver's event loop comes to the datagrams that are
\* there before it comes to its timers, so they are handled as they are sent.
Sends(p) ==
    LET hears(q) == q \in Watching /\ socket[q] = Target(p)
    IN
    /\ missed' = [q \in Proc |-> IF hears(q) THEN 0 ELSE missed[q]]
    /\ partner' = [q \in Proc |-> IF hears(q) /\ partner[q] = None THEN p ELSE partner[q]]
    /\ silence' = [silence EXCEPT ![p] = 0]
    /\ UNCHANGED <<run, socket, parent, waiting, faultVars>>

\* _send_heartbeat_loop
Beat(p) ==
    /\ p \in Watching
    /\ "beat" \in due[p]
    /\ due' = [due EXCEPT ![p] = @ \ {"beat"}]
    /\ Sends(p)

\* The game loop sends one more every 20 ticks.
BeatOfGameLoop(p) ==
    /\ run[p] = "serve"
    /\ UNCHANGED due
    /\ Sends(p)

Due(p) ==
    /\ p \in Watching \ waiting
    /\ "watch" \in due[p]

Overdue(p) ==
    \/ partner[p] # None /\ partner[p] \notin Alive
    \/ missed[p] + 1 > MaxMissed

\* monitor_partner of a partner that gives no reason to restart it
Wait(p) ==
    /\ Due(p)
    /\ ~Overdue(p)
    /\ missed' = [missed EXCEPT ![p] = @ + 1]
    /\ due' = [due EXCEPT ![p] = @ \ {"watch"}]
    /\ UNCHANGED <<run, socket, parent, partner, waiting, silence, faultVars>>

\* ... and of one that is dead or has been silent for too long: restart_partner up to
\* its first await kills it, reaps dead children and starts a new process.
Restart(p, q) ==
    LET old == partner[p]
        dies(r) == r = old /\ r \in Up
    IN
    /\ Due(p)
    /\ Overdue(p)
    /\ FreePid(q) /\ q # p
    /\ run' = [r \in Proc |-> IF r = q THEN "boot"
                              ELSE IF dies(r) THEN "killed"
                              ELSE IF run[r] = "zombie" /\ parent[r] \in {p, old} THEN "off"
                              ELSE run[r]]
    /\ socket' = [r \in Proc |-> IF dies(r) THEN None ELSE socket[r]]
    /\ parent' = [r \in Proc |-> IF r = q THEN p
                                 ELSE IF parent[r] = old THEN None ELSE parent[r]]
    /\ due' = [r \in Proc |-> IF r = p THEN due[p] \ {"watch"}
                              ELSE IF dies(r) THEN {} ELSE due[r]]
    /\ silence' = [r \in Proc |-> IF r = q \/ dies(r) THEN 0 ELSE silence[r]]
    /\ partner' = [r \in Proc |-> IF r = p THEN q ELSE IF dies(r) THEN None ELSE partner[r]]
    /\ missed' = [r \in Proc |-> IF r = p \/ dies(r) THEN 0 ELSE missed[r]]
    /\ waiting' = (waiting \cup {p}) \ {old}
    /\ UNCHANGED faultVars

\* A second later the counter is 0 as it was left, which counts as healthy.
Return(p) ==
    /\ p \in Watching \cap waiting
    /\ "watch" \in due[p]
    /\ waiting' = waiting \ {p}
    /\ missed' = [missed EXCEPT ![p] = 0]
    /\ due' = [due EXCEPT ![p] = @ \ {"watch"}]
    /\ run' = [q \in Proc |-> IF run[q] = "zombie" /\ parent[q] = p THEN "off" ELSE run[q]]
    /\ UNCHANGED <<socket, parent, partner, silence, faultVars>>

Next ==
    \/ Second
    \/ \E p \in Proc :
        \/ Launch(p) \/ StartWatchdog(p) \/ Serve(p) \/ GiveUp(p) \/ Crash(p)
        \/ Beat(p) \/ BeatOfGameLoop(p) \/ Wait(p) \/ Return(p)
        \/ \E q \in Proc : Restart(p, q)

Spec == Init /\ [][Next]_vars

-------------------------------------------------------------------------------
\* No watchdog kills a process that is not silent: what is killed for missed
\* heartbeats has sent none for MaxMissed seconds, whatever is started, crashes or
\* gives up meanwhile, and however long the killer itself was held up.  A process
\* that found both ports taken is left out: nobody it knows hears it.
PromptStays ==
    [][\A p \in Watching, q \in Up :
          /\ partner[p] = q /\ partner'[p] # q
          /\ run'[q] = "killed"
          /\ socket[p] # None
          /\ run[q] = "boot" \/ socket[q] # None
          => silence[q] >= MaxMissed]_vars
===============================================================================

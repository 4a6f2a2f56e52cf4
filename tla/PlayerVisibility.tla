--------------------------- MODULE PlayerVisibility ---------------------------
(***************************************************************************)
(* What the clients are told of each other's players (handlers/play/       *)
(* join.py, players.py and server._handle_player_leave).  Every connection *)
(* has a task that joins, plays and leaves.  A join tells of players in    *)
(* three rounds and a leave in one, each over the list of online players   *)
(* taken when the round starts.  A task goes on until it has written to a  *)
(* client that does not read: then drain() suspends it and others run.     *)
(* A reconnecting player has a new connection and a new entity id.         *)
(***************************************************************************)
EXTENDS Integers, Sequences, FiniteSets, SequencesExt

CONSTANTS Conn,   \* connections with a player
          Slow,   \* those whose client may stop reading for a while
          Kicked, \* those that may be disconnected
          Nobody, \* no task runs
          Old     \* those with a version_handler: they are not told of entities

\* What the constants must be; the suite that instantiates this module assumes it.
VisibilityAssumption == IsFiniteSet(Conn) /\ Nobody \notin Conn

VARIABLES task,      \* what the connection's task does
          alive,     \* conn.alive
          todo,      \* packets of the round that are still to be written
          runner,    \* the task that runs, or Nobody
          tracked,   \* conn.tracked_players
          listed,    \* at the client: players in its list ...
          shown,     \* ... and players it shows
          unlisted,  \* history: spawned at a client that has them not in its list
          missed     \* history: players who left while the client's join told of players

server == <<task, alive, todo, runner, tracked>>
client == <<listed, shown>>
history == <<unlisted, missed>>
vars == <<server, client, history>>

Init ==
    /\ task = [c \in Conn |-> "away"]
    /\ alive = [c \in Conn |-> FALSE]
    /\ todo = [c \in Conn |-> <<>>]
    /\ runner = Nobody
    /\ tracked = [c \in Conn |-> {}]
    /\ listed = [c \in Conn |-> {}]
    /\ shown = [c \in Conn |-> {}]
    /\ unlisted = [c \in Conn |-> {}]
    /\ missed = [c \in Conn |-> {}]

Joining(c) == task[c] \in {"loading", "tell", "list", "spawn"}
InPlay(c) == Joining(c) \/ task[c] = "playing"

\* get_online_players(): in the state PLAY, so even before the chunks are sent.
Online == {c \in Conn : InPlay(c) /\ alive[c]}

-------------------------------------------------------------------------------
(* The rounds, as sequences of packets [what, to, of]. *)

Packet(w, t, c) == [what |-> w, to |-> t, of |-> c]
Each(S, Packets(_)) == FlattenSeq([i \in 1..Len(SetToSeq(S)) |-> Packets(SetToSeq(S)[i])])

\* build_player_info_update(conn) to all, and that of all others to conn.
TellAll(c) == Each(Online, LAMBDA o : <<Packet("info", o, c)>>)
ListAll(c) == Each(Online \ {c}, LAMBDA o : <<Packet("info", c, o)>>)

\* send_player_spawn(): two packets, then tracked_players.
Spawn(o, c) == <<Packet("spawn", o, c), Packet("track", o, c)>>
SpawnAll(c) == Each(Online \ {c}, LAMBDA o : Spawn(c, o) \o Spawn(o, c))

SyncVisibility(c) == SpawnAll(c)

LeaveAll(c) == Each(Online \ {c}, LAMBDA o : <<Packet("forget", o, c), Packet("remove", o, c)>>)

-------------------------------------------------------------------------------
(* The tasks. *)

\* The login is over: the connection is in the state PLAY, its chunks are being
\* prepared.
Enter(c) ==
    /\ task[c] = "away" /\ runner = Nobody
    /\ task' = [task EXCEPT ![c] = "loading"]
    /\ alive' = [alive EXCEPT ![c] = TRUE]
    /\ UNCHANGED <<todo, runner, tracked, client, history>>

Runs(c) == runner \in {c, Nobody}
Goes(c) == Runs(c) /\ runner' = c
Rests(c) == Runs(c) /\ runner' = Nobody

Round(c, from, to, packets) ==
    /\ task[c] = from
    /\ todo[c] = <<>>
    /\ IF to = "playing" THEN Rests(c) ELSE Goes(c)
    /\ task' = [task EXCEPT ![c] = to]
    /\ todo' = [todo EXCEPT ![c] = packets]
    /\ UNCHANGED <<alive, tracked, client, history>>

Join(c) ==
    \/ Round(c, "loading", "tell", TellAll(c))
    \/ Round(c, "tell", "list", ListAll(c))
    \/ Round(c, "list", "spawn", SyncVisibility(c))
    \/ Round(c, "spawn", "playing", <<>>)

\* disconnect(): the keep-alive times out or the player is kicked.
Lose(c) ==
    /\ c \in Kicked /\ InPlay(c) /\ alive[c] /\ runner = Nobody
    /\ alive' = [alive EXCEPT ![c] = FALSE]
    /\ UNCHANGED <<task, todo, runner, tracked, client, history>>

\* The connection's reading loop ends; the join, which it awaits, is over by then.
Leave(c) ==
    /\ task[c] = "playing"
    /\ Goes(c)
    /\ task' = [task EXCEPT ![c] = "leaving"]
    /\ alive' = [alive EXCEPT ![c] = FALSE]
    /\ todo' = [todo EXCEPT ![c] = LeaveAll(c)]
    /\ missed' = [o \in Conn |-> IF task[o] = "spawn" THEN missed[o] \cup {c} ELSE missed[o]]
    /\ UNCHANGED <<tracked, client, unlisted>>

\* The connection is over; what its client saw goes with it.
Gone(c) ==
    /\ task[c] = "leaving"
    /\ todo[c] = <<>>
    /\ Rests(c)
    /\ task' = [task EXCEPT ![c] = "gone"]
    /\ tracked' = [tracked EXCEPT ![c] = {}]
    /\ listed' = [listed EXCEPT ![c] = {}]
    /\ shown' = [shown EXCEPT ![c] = {}]
    /\ unlisted' = [unlisted EXCEPT ![c] = {}]
    /\ missed' = [missed EXCEPT ![c] = {}]
    /\ UNCHANGED <<alive, todo>>

-------------------------------------------------------------------------------
(* The next packet of c's task: what is written, and the client it is for.
   Nothing is written to a connection that is not alive. *)

Turn(c, w) == todo[c] # <<>> /\ Head(todo[c]).what = w

Pop(c, n) == todo' = [todo EXCEPT ![c] = SubSeq(@, n + 1, Len(@))]

\* A packet is written to o, and drain() awaited.
Written(c, o) == IF alive[o] /\ o \in Slow THEN Goes(c) \/ Rests(c) ELSE Goes(c)

SendInfo(c) ==
    /\ Turn(c, "info")
    /\ Written(c, Head(todo[c]).to)
    /\ LET o == Head(todo[c]).to
       IN  listed' = [listed EXCEPT ![o] = IF alive[o] THEN @ \cup {Head(todo[c]).of} ELSE @]
    /\ Pop(c, 1)
    /\ UNCHANGED <<task, alive, tracked, shown, history>>

\* Spawn Entity and its metadata.  A client that has not been told of the player
\* in a Player Info Update drops it.
SendSpawn(c) ==
    /\ Turn(c, "spawn")
    /\ LET o == Head(todo[c]).to
           n == Head(todo[c]).of
       IN  IF o \in Old \/ n \in tracked[o]
           THEN Goes(c) /\ Pop(c, 2) /\ UNCHANGED <<shown, unlisted>>
           ELSE /\ Written(c, o)
                /\ Pop(c, 1)
                /\ shown' = [shown EXCEPT ![o] = IF alive[o] /\ n \in listed[o] THEN @ \cup {n} ELSE @]
                /\ unlisted' = [unlisted EXCEPT ![o] = IF alive[o] /\ n \notin listed[o]
                                                       THEN @ \cup {n} ELSE @]
    /\ UNCHANGED <<task, alive, tracked, listed, missed>>

Track(c) ==
    /\ Turn(c, "track")
    /\ Goes(c)
    /\ tracked' = [tracked EXCEPT ![Head(todo[c]).to] = @ \cup {Head(todo[c]).of}]
    /\ Pop(c, 1)
    /\ UNCHANGED <<task, alive, client, history>>

\* tracked_players.discard() and Player Info Remove.
SendForget(c) ==
    /\ Turn(c, "forget")
    /\ Written(c, Head(todo[c]).to)
    /\ LET o == Head(todo[c]).to
       IN  /\ tracked' = [tracked EXCEPT ![o] = @ \ {c}]
           /\ listed' = [listed EXCEPT ![o] = IF alive[o] THEN @ \ {c} ELSE @]
    /\ Pop(c, 1)
    /\ UNCHANGED <<task, alive, shown, history>>

\* Mutant: the entity of a player who left is not removed.
ForgetOnly(c) ==
    /\ Turn(c, "remove")
    /\ Written(c, Head(todo[c]).to)
    /\ Pop(c, 1)
    /\ UNCHANGED <<task, alive, tracked, client, history>>

SendRemove(c) ==
    /\ Turn(c, "remove")
    /\ Written(c, Head(todo[c]).to)
    /\ LET o == Head(todo[c]).to
       IN  shown' = [shown EXCEPT ![o] = IF alive[o] THEN @ \ {c} ELSE @]
    /\ Pop(c, 1)
    /\ UNCHANGED <<task, alive, tracked, listed, history>>

-------------------------------------------------------------------------------
Done == \A c \in Conn : task[c] = "gone"

Next ==
    \/ \E c \in Conn : Enter(c) \/ Join(c) \/ Lose(c) \/ Leave(c) \/ Gone(c)
    \/ \E c \in Conn : SendInfo(c) \/ SendSpawn(c) \/ Track(c) \/ SendForget(c) \/ SendRemove(c)
    \/ Done /\ UNCHANGED vars

Spec == Init /\ [][Next]_vars

-------------------------------------------------------------------------------
(* Properties *)

Quiet == \A c \in Conn : task[c] \in {"away", "playing", "gone"}
Players == {c \in Online : task[c] = "playing"}

TypeOK ==
    /\ task \in [Conn -> {"away", "loading", "tell", "list", "spawn", "playing", "leaving", "gone"}]
    /\ alive \in [Conn -> BOOLEAN]
    /\ todo \in [Conn -> Seq([what : {"info", "spawn", "track", "forget", "remove"}, to : Conn, of : Conn])]
    /\ {tracked, listed, shown, unlisted, missed} \subseteq [Conn -> SUBSET Conn]

\* sync_player_visibility (players.py:110-119) and _handle_player_leave
\* (server.py:772-790): when nobody is joining or leaving, any two players are spawned
\* at each other, whichever joined first and however their joins overlapped, and nobody
\* who left is shown by a client or tracked for it.  Left out are a player spawned at a
\* client before its list had them, and one who left while the client's own join was
\* going through its list of players.
SeenAreOnline ==
    Quiet => \A o \in Players :
        /\ o \notin Old => \A c \in Players \ {o} :
              c \in tracked[o] /\ (c \in shown[o] \/ c \in unlisted[o])
        /\ \A c \in Conn : task[c] = "gone" /\ c \notin missed[o] =>
              c \notin shown[o] \cup tracked[o]

\* "Must be sent after Player Info Update" (players.py:97).
ListedFirst == \A o \in Conn : unlisted[o] = {}
===============================================================================

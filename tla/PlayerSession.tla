----------------------------- MODULE PlayerSession -----------------------------
(***************************************************************************)
(* A player's session and the player's file: the login and configuration   *)
(* handlers, handlers/play/join.py (send_join_game), and the places of     *)
(* network/server.py that write a player's file: autosave, the end of a    *)
(* connection, and stop().                                                 *)
(*                                                                         *)
(* The server is one asyncio loop, so a step is the code between two       *)
(* awaits.  What a player has is two numbers, each the count of its        *)
(* changes so far: one for position, health and experience, one for the    *)
(* inventory.  0 is what a new player has.                                 *)
(***************************************************************************)
EXTENDS Integers, FiniteSets

CONSTANTS Conn,        \* connections
          Player,      \* names, and so offline UUIDs
          Nobody,      \* conn.username before the login
          NoFile,      \* the player's file does not exist
          NoItems,     \* inventory_obj is None; no "inventory" in the file
          MaxChanges,  \* bound: changes of a player's state
          MaxFaults,   \* bound: saves that fail
          MaxCrashes   \* bound: crashes

ASSUME SessionAssumption ==
    /\ IsFiniteSet(Player)
    /\ NoItems \notin Nat
    /\ Nobody \notin Player
    /\ MaxChanges \in Nat /\ MaxFaults \in Nat /\ MaxCrashes \in Nat
    /\ NoFile \notin [stats : Nat, items : Nat \cup {NoItems}]

VARIABLES running,  \* MinecraftServer.running
          phase,    \* phase[c]: how far the session of connection c is
          alive,    \* conn.alive
          player,   \* player[c]: who logged in
          stats,    \* stats[c]: position, health, experience in memory
          items,    \* items[c]: inventory in memory
          loaded,   \* loaded[c]: player_state, a local of send_join_game
          file,     \* file[p]: the player's JSON file
          known,    \* history: what p last had in a session that was joined
          spoilt,   \* history: players saved while they joined, or here twice
          faults, crashes

session == <<phase, alive, player, stats, items, loaded>>
limits == <<faults, crashes>>
vars == <<running, session, file, known, spoilt, limits>>

Phases == {"off", "joining", "restoring", "playing"}
Changes == 0..MaxChanges
Saved == [stats : Changes, items : Changes \cup {NoItems}]

\* Sessions in state PLAY: the state is set before send_join_game starts.
InPlay(c) == phase[c] # "off"

Joining == {c \in Conn : phase[c] \in {"joining", "restoring"}}

TypeOK ==
    /\ running \in BOOLEAN
    /\ phase \in [Conn -> Phases]
    /\ alive \in [Conn -> BOOLEAN]
    /\ player \in [Conn -> Player \cup {Nobody}]
    /\ stats \in [Conn -> Changes]
    /\ items \in [Conn -> Changes \cup {NoItems}]
    /\ loaded \in [Conn -> Saved \cup {NoFile}]
    /\ file \in [Player -> Saved \cup {NoFile}]
    /\ known \in [Player -> [stats : Changes, items : Changes]]
    /\ spoilt \subseteq Player
    /\ faults \in 0..MaxFaults
    /\ crashes \in 0..MaxCrashes
    /\ \A c \in Conn : phase[c] = "off" <=> player[c] = Nobody
    /\ \A c \in Conn : phase[c] \in {"restoring", "playing"} => items[c] # NoItems

Init ==
    /\ running = TRUE
    /\ phase = [c \in Conn |-> "off"]
    /\ alive = [c \in Conn |-> FALSE]
    /\ player = [c \in Conn |-> Nobody]
    /\ stats = [c \in Conn |-> 0]
    /\ items = [c \in Conn |-> NoItems]
    /\ loaded = [c \in Conn |-> NoFile]
    /\ file = [p \in Player |-> NoFile]
    /\ known = [p \in Player |-> [stats |-> 0, items |-> 0]]
    /\ spoilt = {}
    /\ faults = 0
    /\ crashes = 0

-------------------------------------------------------------------------------
(* Joining.                                                                *)

\* A new Connection is logged in and put into state PLAY, by
\* _handle_login_start before 1.20.2 and by _handle_finish_configuration from
\* there on.  Its fields have the values of Connection.__init__.
Login(c, p) ==
    /\ running
    /\ phase[c] = "off"
    /\ phase' = [phase EXCEPT ![c] = "joining"]
    /\ alive' = [alive EXCEPT ![c] = TRUE]
    /\ player' = [player EXCEPT ![c] = p]
    /\ spoilt' = IF \E d \in Conn : InPlay(d) /\ player[d] = p
                 THEN spoilt \cup {p} ELSE spoilt
    /\ UNCHANGED <<running, stats, items, loaded, file, known, limits>>

\* What load_player_data and PlayerInventory make of a file's inventory.
ItemsOf(f) == IF f = NoFile \/ f.items = NoItems THEN 0 ELSE f.items

\* send_join_game after its chunks are sent: load_player_data, the inventory,
\* and then the await of _send_spawn_position.
LoadFile(c) ==
    /\ phase[c] = "joining"
    /\ loaded' = [loaded EXCEPT ![c] = file[player[c]]]
    /\ items' = [items EXCEPT ![c] = ItemsOf(file[player[c]])]
    /\ phase' = [phase EXCEPT ![c] = "restoring"]
    /\ UNCHANGED <<running, alive, player, stats, file, known, spoilt, limits>>

\* Mutant: the block after _send_spawn_position is skipped.
RestoreNothing(c) ==
    /\ phase[c] = "restoring"
    /\ loaded' = [loaded EXCEPT ![c] = NoFile]
    /\ phase' = [phase EXCEPT ![c] = "playing"]
    /\ UNCHANGED <<running, stats, alive, player, items, file, known, spoilt, limits>>

\* The rest of send_join_game: the other fields come from player_state, if
\* there was one, and otherwise stay.
Restore(c) ==
    /\ phase[c] = "restoring"
    /\ loaded' = [loaded EXCEPT ![c] = NoFile]
    /\ stats' = [stats EXCEPT ![c] = IF loaded[c] = NoFile THEN @ ELSE loaded[c].stats]
    /\ phase' = [phase EXCEPT ![c] = "playing"]
    /\ known' = [known EXCEPT ![player[c]] = [stats |-> stats'[c], items |-> items[c]]]
    /\ UNCHANGED <<running, alive, player, items, file, spoilt, limits>>

-------------------------------------------------------------------------------
(* Playing.                                                                *)

\* The game loop hurts, feeds or rewards a connection in state PLAY, or its
\* own packets move it: a handler that was awaiting does so even when the
\* connection is broken by then.
ChangeStats(c) ==
    /\ InPlay(c)
    /\ stats[c] < MaxChanges
    /\ stats' = [stats EXCEPT ![c] = @ + 1]
    /\ known' = IF phase[c] = "playing"
                THEN [known EXCEPT ![player[c]].stats = stats[c] + 1]
                ELSE known
    /\ UNCHANGED <<running, phase, alive, player, items, loaded, file, spoilt, limits>>

\* An item is picked up, used or moved: only once inventory_obj is there.
ChangeItems(c) ==
    /\ InPlay(c)
    /\ items[c] \in 0..MaxChanges-1
    /\ items' = [items EXCEPT ![c] = @ + 1]
    /\ known' = IF phase[c] = "playing"
                THEN [known EXCEPT ![player[c]].items = items[c] + 1]
                ELSE known
    /\ UNCHANGED <<running, phase, alive, player, stats, loaded, file, spoilt, limits>>

\* send_packet meets a broken connection, or somebody calls disconnect().
Vanish(c) ==
    /\ InPlay(c)
    /\ alive[c]
    /\ alive' = [alive EXCEPT ![c] = FALSE]
    /\ UNCHANGED <<running, phase, player, stats, items, loaded, file, known, spoilt, limits>>

-------------------------------------------------------------------------------
(* Saving.                                                                 *)

\* save_player_state's dictionary: without an inventory it has no such key.
Dump(c) == [stats |-> stats[c], items |-> items[c]]

\* What a player gets back from the file.
OnDisk(p) == [stats |-> IF file[p] = NoFile THEN 0 ELSE file[p].stats,
              items |-> ItemsOf(file[p])]

Online(c) == InPlay(c) /\ alive[c]

\* save_all_player_states: every live connection in state PLAY, one after the
\* other; of two with the same name the later one in the list stays.  A save
\* that fails is logged and leaves the file as it was.
SaveAll ==
    \E last \in [Player -> Conn], failed \in SUBSET Player :
        LET saved(p) == p \notin failed /\ Online(last[p]) /\ player[last[p]] = p
        IN  /\ faults + Cardinality(failed) <= MaxFaults
            /\ faults' = faults + Cardinality(failed)
            /\ \A p \in Player \ failed :
                   (\E c \in Conn : Online(c) /\ player[c] = p) => saved(p)
            /\ file' = [p \in Player |-> IF saved(p) THEN Dump(last[p]) ELSE file[p]]
            /\ spoilt' = spoilt \cup {player[c] : c \in Joining}

\* The game loop's autosave.
Autosave ==
    /\ running
    /\ \E c \in Conn : Online(c)
    /\ SaveAll
    /\ UNCHANGED <<running, session, known, crashes>>

\* stop(), by the signal handler, by main() when start() has ended, or by both:
\* running is cleared and the players are saved before the first await.  The
\* sessions end after that, each with a save of its own.
Stop ==
    /\ SaveAll
    /\ running' = FALSE
    /\ UNCHANGED <<session, known, crashes>>

\* The Connection is taken off the list and forgotten; the next one to use
\* its place starts with the values of Connection.__init__.
Discard(c) ==
    /\ phase' = [phase EXCEPT ![c] = "off"]
    /\ alive' = [alive EXCEPT ![c] = FALSE]
    /\ player' = [player EXCEPT ![c] = Nobody]
    /\ stats' = [stats EXCEPT ![c] = 0]
    /\ items' = [items EXCEPT ![c] = NoItems]
    /\ loaded' = [loaded EXCEPT ![c] = NoFile]

\* Mutant: the last save is left to the autosave.
LeaveUnsaved(c) ==
    /\ phase[c] = "playing"
    /\ Discard(c)
    /\ UNCHANGED <<running, file, known, spoilt, limits>>

\* The finally block of _handle_client after the read loop has ended.
Leave(c) ==
    /\ phase[c] = "playing"
    /\ Discard(c)
    /\ file' = [file EXCEPT ![player[c]] = Dump(c)]
    /\ UNCHANGED <<running, known, spoilt, limits>>

\* The same with a save that fails: what the session had is gone.
LeaveFails(c) ==
    /\ phase[c] = "playing"
    /\ faults < MaxFaults
    /\ faults' = faults + 1
    /\ Discard(c)
    /\ known' = [known EXCEPT ![player[c]] = OnDisk(player[c])]
    /\ UNCHANGED <<running, file, spoilt, crashes>>

\* The same block when send_join_game has raised (a chunk that cannot be
\* prepared, a field of the file that is no number).
JoinFails(c) ==
    /\ c \in Joining
    /\ Discard(c)
    /\ file' = [file EXCEPT ![player[c]] = Dump(c)]
    /\ spoilt' = spoilt \cup {player[c]}
    /\ UNCHANGED <<running, known, limits>>

-------------------------------------------------------------------------------
\* The process is started again after stop() ...
Restart ==
    /\ ~running
    /\ \A c \in Conn : ~InPlay(c)
    /\ running' = TRUE
    /\ UNCHANGED <<session, file, known, spoilt, limits>>

\* ... or after a crash, which forgets what was not saved.
Crash ==
    /\ crashes < MaxCrashes
    /\ crashes' = crashes + 1
    /\ running' = TRUE
    /\ phase' = [c \in Conn |-> "off"]
    /\ alive' = [c \in Conn |-> FALSE]
    /\ player' = [c \in Conn |-> Nobody]
    /\ stats' = [c \in Conn |-> 0]
    /\ items' = [c \in Conn |-> NoItems]
    /\ loaded' = [c \in Conn |-> NoFile]
    /\ known' = [p \in Player |-> OnDisk(p)]
    /\ UNCHANGED <<file, spoilt, faults>>

Next ==
    \/ \E c \in Conn, p \in Player : Login(c, p)
    \/ \E c \in Conn :
          \/ LoadFile(c) \/ Restore(c) \/ ChangeStats(c) \/ ChangeItems(c)
          \/ Vanish(c) \/ Leave(c) \/ LeaveFails(c) \/ JoinFails(c)
    \/ Autosave \/ Stop \/ Restart \/ Crash

Spec == Init /\ [][Next]_vars

-------------------------------------------------------------------------------
(* Properties.                                                             *)

\* Once nobody plays under a name any more, its file gives back exactly what
\* the last session had that was joined: whatever autosaves, broken
\* connections, failed saves, restarts and crashes came in between, and
\* whatever other players did.  It holds for the players whose joins no save
\* fell into and who were never here twice; ProgressIsKept is about the rest.
Remembered ==
    \A p \in Player \ spoilt :
        (\A c \in Conn : InPlay(c) => player[c] # p) => OnDisk(p) = known[p]

\* What a save changes of a player's file, it moves forward.
Forward(p) ==
    file[p] # NoFile =>
        /\ file'[p] # NoFile
        /\ file'[p].stats >= file[p].stats
        /\ ItemsOf(file'[p]) >= ItemsOf(file[p])

\* For the same players no save, of whatever connection, takes progress back.
SavesMoveForward == [][\A p \in Player \ spoilt' : Forward(p)]_vars

\* The promise of README.md, for every player: position, health and the other
\* fields are kept in the player's JSON file.  The code does not keep it: a
\* connection is saved from the moment it is in state PLAY, and has a new
\* player's fields until send_join_game has loaded the file.
ProgressIsKept == [][\A p \in Player : Forward(p)]_vars
===============================================================================

---------------------------- MODULE EntityTracking ----------------------------
(***************************************************************************)
(* Which items, orbs and mobs a client shows (server._tick_entity_sync,    *)
(* handlers/play/entities.py, EntityManager).  Three kinds of task tell    *)
(* the clients: the game loop every ten ticks, the handler that creates an *)
(* entity, and the join of a player.  A task goes on until it has written  *)
(* to a client that does not read: then drain() suspends it and others     *)
(* run.  What they share is tracked_entities of each connection.           *)
(***************************************************************************)
EXTENDS Naturals, Sequences, FiniteSets, SequencesExt

CONSTANTS Entity,
          Known,    \* entities with a type in ENTITY_TYPE_IDS, and orbs
          Conn,     \* players
          Slow,     \* those whose client may stop reading for a while
          Loop, Nobody,
          MaxMoves  \* bound: changes of what is within the tracking range

\* What the constants must be; the suite that instantiates this module assumes it.
TrackingAssumption ==
    /\ IsFiniteSet(Conn) /\ IsFiniteSet(Entity)
    /\ Loop \notin Conn \cup Entity
    /\ Conn \cap Entity = {}

VARIABLES entities,    \* ids in EntityManager.entities
          fresh,       \* entities that have not been created
          removed_ids,
          near,        \* pairs of a player and an entity within the tracking range
          online,      \* players in the state PLAY
          joined,      \* those whose join has told them of the entities
          tracked,     \* conn.tracked_entities
          shown,       \* at the client: the entities it shows
          jobs,        \* what every task is still to do
          syncing,     \* the loop is between removed ids and the end of the pass
          runner,      \* the task that runs, or Nobody
          moves,
          calm,        \* history: no other task ran since the last pass started
          late         \* history: tracked when the client had been told to remove it

world == <<entities, fresh, removed_ids, near, moves>>
people == <<online, joined>>
vars == <<world, people, tracked, shown, jobs, syncing, runner, calm, late>>

Task == {Loop} \cup Conn \cup Entity

Init ==
    /\ entities = {} /\ fresh = Entity
    /\ removed_ids = {}
    /\ near = Conn \X Entity
    /\ online = {} /\ joined = {}
    /\ tracked = [c \in Conn |-> {}]
    /\ shown = [c \in Conn |-> {}]
    /\ jobs = [t \in Task |-> <<>>]
    /\ syncing = FALSE
    /\ runner = Nobody
    /\ moves = 0
    /\ calm = FALSE
    /\ late = [c \in Conn |-> {}]

-------------------------------------------------------------------------------
Job(w, c, e) == [what |-> w, to |-> c, of |-> e]
Jobs(S, Make(_)) == FlattenSeq([i \in 1..Len(SetToSeq(S)) |-> Make(SetToSeq(S)[i])])

\* A step of task t, which goes on, or is over or suspended.
Runs(t) == runner \in {t, Nobody}
Goes(t) == Runs(t) /\ runner' = t
Rests(t) == Runs(t) /\ runner' = Nobody
Written(t, c) == IF c \in Slow THEN Goes(t) \/ Rests(t) ELSE Goes(t)

Turn(t, w) == jobs[t] # <<>> /\ Head(jobs[t]).what = w
Put(t, more) == jobs' = [jobs EXCEPT ![t] = more \o Tail(@)]
Disturbs(t) == calm' = (calm /\ t = Loop)

\* The entities a client is told to show, and those it is told to remove.
Show(c, e) == shown' = [shown EXCEPT ![c] = IF e \in Known THEN @ \cup {e} ELSE @]
Hide(c, S) == shown' = [shown EXCEPT ![c] = @ \ S]

-------------------------------------------------------------------------------
(* The world. *)

Move ==
    /\ runner = Nobody /\ moves < MaxMoves
    /\ \E pair \in Conn \X Entity :
           near' = IF pair \in near THEN near \ {pair} ELSE near \cup {pair}
    /\ moves' = moves + 1
    /\ calm' = FALSE
    /\ UNCHANGED <<entities, fresh, removed_ids, people, tracked, shown, jobs, syncing, runner, late>>

\* The game loop ticks the entities, and one of them is too old or picked up.
Expire(e) ==
    /\ runner = Nobody /\ ~syncing
    /\ e \in entities
    /\ entities' = entities \ {e}
    /\ removed_ids' = removed_ids \cup {e}
    /\ calm' = FALSE
    /\ UNCHANGED <<fresh, near, moves, people, tracked, shown, jobs, syncing, runner, late>>

\* A handler creates an entity and broadcast_entity_spawn() starts.
Create(e) ==
    /\ e \in fresh /\ jobs[e] = <<>>
    /\ Goes(e)
    /\ fresh' = fresh \ {e}
    /\ entities' = entities \cup {e}
    /\ jobs' = [jobs EXCEPT ![e] = Jobs(online, LAMBDA c : <<Job("spawn", c, e)>>)
                                     \o <<Job("end", e, e)>>]
    /\ calm' = FALSE
    /\ UNCHANGED <<removed_ids, near, moves, people, tracked, shown, syncing, late>>

Enter(c) ==
    /\ runner = Nobody
    /\ c \notin online
    /\ online' = online \cup {c}
    /\ calm' = FALSE
    /\ UNCHANGED <<world, joined, tracked, shown, jobs, syncing, runner, late>>

\* _send_visible_entities_to_player() starts.
StartVisible(c) ==
    /\ c \in online \ joined
    /\ Goes(c)
    /\ joined' = joined \cup {c}
    /\ jobs' = [jobs EXCEPT ![c] = Jobs(entities, LAMBDA e : <<Job("spawn", c, e)>>)
                                     \o <<Job("end", c, c)>>]
    /\ calm' = FALSE
    /\ UNCHANGED <<world, online, tracked, shown, syncing, late>>

\* _tick_entity_sync() starts: the removed ids are told to everyone.
StartSync ==
    /\ ~syncing /\ online # {}
    /\ Goes(Loop)
    /\ syncing' = TRUE
    /\ removed_ids' = {}
    /\ jobs' = [jobs EXCEPT ![Loop] =
           (IF removed_ids = {} THEN <<>> ELSE Jobs(online, LAMBDA c : <<Job("drop", c, removed_ids)>>))
               \o <<Job("pass", Loop, Loop)>>]
    /\ calm' = \A t \in Task : jobs[t] = <<>>
    /\ UNCHANGED <<entities, fresh, near, moves, people, tracked, shown, late>>

-------------------------------------------------------------------------------
(* The jobs. *)

\* broadcast_entity_remove() for one player.
Drop(t) ==
    /\ Turn(t, "drop")
    /\ LET c == Head(jobs[t]).to
           S == Head(jobs[t]).of
       IN  /\ tracked' = [tracked EXCEPT ![c] = @ \ S]
           /\ Hide(c, S)
           /\ Written(t, c)
    /\ Put(t, <<>>)
    /\ Disturbs(t)
    /\ UNCHANGED <<world, people, syncing, late>>

\* The pass over all players, with the entities that live when it starts.
Pass ==
    /\ Turn(Loop, "pass")
    /\ Goes(Loop)
    /\ Put(Loop, Jobs(online, LAMBDA c : <<Job("stale", c, entities)>>
                                  \o Jobs(entities, LAMBDA e : <<Job("see", c, e)>>))
                     \o <<Job("end", Loop, Loop)>>)
    /\ UNCHANGED <<world, people, tracked, shown, syncing, calm, late>>

\* Mutant: entities that are tracked and gone are not looked for.
StaleKept ==
    /\ Turn(Loop, "stale")
    /\ Put(Loop, <<>>)
    /\ Goes(Loop)
    /\ UNCHANGED <<world, people, tracked, shown, syncing, calm, late>>

Stale ==
    /\ Turn(Loop, "stale")
    /\ LET c == Head(jobs[Loop]).to
           S == tracked[c] \ Head(jobs[Loop]).of
       IN  /\ tracked' = [tracked EXCEPT ![c] = @ \ S]
           /\ Hide(c, S)
           /\ IF S = {} THEN Goes(Loop) ELSE Written(Loop, c)
    /\ Put(Loop, <<>>)
    /\ UNCHANGED <<world, people, syncing, calm, late>>

\* One player and one entity of the pass: removed when too far, spawned when not
\* tracked, moved otherwise.
See ==
    /\ Turn(Loop, "see")
    /\ LET c == Head(jobs[Loop]).to
           e == Head(jobs[Loop]).of
       IN  CASE <<c, e>> \notin near ->
                    /\ tracked' = [tracked EXCEPT ![c] = @ \ {e}]
                    /\ IF e \in tracked[c] THEN Hide(c, {e}) /\ Written(Loop, c)
                                           ELSE UNCHANGED shown /\ Goes(Loop)
                    /\ Put(Loop, <<>>)
             [] <<c, e>> \in near /\ e \notin tracked[c] ->
                    /\ Show(c, e)
                    /\ Written(Loop, c)
                    /\ Put(Loop, <<Job("track", c, e)>>)
                    /\ UNCHANGED tracked
             [] OTHER ->
                    /\ Put(Loop, <<>>)
                    /\ Goes(Loop)
                    /\ UNCHANGED <<tracked, shown>>
    /\ UNCHANGED <<world, people, syncing, calm, late>>

\* A player and an entity of a creation or a join: nobody looks whether it is
\* tracked, or still there.
SendSpawn(t) ==
    /\ Turn(t, "spawn")
    /\ LET c == Head(jobs[t]).to
           e == Head(jobs[t]).of
       IN  IF <<c, e>> \in near
           THEN /\ Show(c, e)
                /\ Written(t, c)
                /\ Put(t, <<Job("track", c, e)>>)
           ELSE Put(t, <<>>) /\ Goes(t) /\ UNCHANGED shown
    /\ Disturbs(t)
    /\ UNCHANGED <<world, people, tracked, syncing, late>>

\* tracked_entities.add(), after the packet.
Track(t) ==
    /\ Turn(t, "track")
    /\ LET c == Head(jobs[t]).to
           e == Head(jobs[t]).of
       IN  /\ tracked' = [tracked EXCEPT ![c] = @ \cup {e}]
           /\ late' = [late EXCEPT ![c] = IF e \in shown[c] THEN @ ELSE @ \cup {e}]
    /\ Goes(t)
    /\ Put(t, <<>>)
    /\ Disturbs(t)
    /\ UNCHANGED <<world, people, shown, syncing>>

End(t) ==
    /\ Turn(t, "end")
    /\ Rests(t)
    /\ Put(t, <<>>)
    /\ syncing' = (syncing /\ t # Loop)
    /\ Disturbs(t)
    /\ UNCHANGED <<world, people, tracked, shown, late>>

-------------------------------------------------------------------------------
Next ==
    \/ Move \/ StartSync \/ Pass \/ Stale \/ See
    \/ \E e \in Entity : Create(e) \/ Expire(e)
    \/ \E c \in Conn : Enter(c) \/ StartVisible(c)
    \/ \E t \in Task : Drop(t) \/ SendSpawn(t) \/ Track(t) \/ End(t)

Spec == Init /\ [][Next]_vars

-------------------------------------------------------------------------------
(* Properties *)

\* _tick_entity_sync (server.py:1094-1144): after a pass of the game loop that no
\* other task disturbed, every client shows exactly the entities that live within
\* its range, whatever races of creations, joins and removals went before; except
\* entities of unknown type, and those recorded as shown after it had removed them.
ClientsInSync ==
    calm /\ ~syncing =>
        \A c \in online :
            LET due == {e \in entities \cap Known : <<c, e>> \in near}
            IN  shown[c] \subseteq due /\ due \ late[c] \subseteq shown[c]
===============================================================================

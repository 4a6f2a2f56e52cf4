------------------------------ MODULE ChunkStream ------------------------------
(***************************************************************************)
(* handlers/play/chunks.py: the chunks one client is sent after its join.  *)
(* Two tasks write the connection's loaded_chunks around awaits: the one   *)
(* that follows the player (_stream_chunks_around_player) and the one that *)
(* brings the outer chunks of the spawn point (_send_deferred_chunks).     *)
(***************************************************************************)
EXTENDS Integers, FiniteSets

CONSTANTS Chunk,      \* chunk coordinates
          View,       \* View[c]: the chunks within view distance of c
          Spawn,      \* the chunk of the spawn point
          Immediate,  \* the chunks send_join_game sends itself
          MaxMoves,   \* bound: moves of the player
          MaxFaults   \* bound: jobs that raise an exception

ASSUME StreamAssumption ==
    /\ View \in [Chunk -> SUBSET Chunk]
    /\ Spawn \in Chunk /\ Immediate \subseteq View[Spawn]
    /\ MaxMoves \in Nat /\ MaxFaults \in Nat

Deferred == View[Spawn] \ Immediate

VARIABLES at,         \* the chunk the player is in
          unscheduled, \* TRUE after the server moved the player: no position packet yet
          center,     \* chunk_center
          loaded,     \* loaded_chunks
          shown,      \* history: the chunks sent to the client and not taken back
          stream,     \* where the streaming task is, "idle" when there is none
          gone,       \* chunks it still has to unload
          wanted,     \* its missing_coords
          unsent,     \* those not sent yet
          late,       \* where the task of the deferred chunks is
          lateUnsent, \* the chunks it has not sent yet
          apart,      \* history: the two tasks were never at work together
          moves,      \* moves so far
          failed,     \* history: a job has failed, and no new centre came after it
          faults      \* failures so far

player == <<at, unscheduled, moves>>
task == <<stream, gone, wanted, unsent>>
deferral == <<late, lateUnsent, apart>>
failure == <<failed, faults>>
vars == <<player, center, loaded, shown, task, deferral, failure>>

TypeOK ==
    /\ at \in Chunk /\ center \in Chunk
    /\ unscheduled \in BOOLEAN
    /\ loaded \subseteq Chunk /\ shown \subseteq Chunk
    /\ stream \in {"idle", "check", "center", "unload", "generate", "send"}
    /\ gone \subseteq Chunk \ View[center]
    /\ unsent \subseteq wanted /\ wanted \subseteq View[center]
    /\ late \in {"generate", "send", "done"}
    /\ lateUnsent \subseteq Deferred
    /\ apart \in BOOLEAN
    /\ moves \in 0..MaxMoves
    /\ failed \in BOOLEAN /\ faults \in 0..MaxFaults
    /\ stream # "unload" => gone = {}
    /\ stream \notin {"generate", "send"} => wanted = {}
    /\ late = "done" => lateUnsent = {}

\* The join is over: the player stands where its file says.
Init ==
    /\ at \in Chunk
    /\ unscheduled = TRUE
    /\ center = Spawn
    /\ loaded = Immediate /\ shown = Immediate
    /\ stream = "idle" /\ gone = {} /\ wanted = {} /\ unsent = {}
    /\ late = IF Deferred = {} THEN "done" ELSE "generate"
    /\ lateUnsent = Deferred
    /\ apart = TRUE
    /\ moves = 0
    /\ failed = FALSE /\ faults = 0

-------------------------------------------------------------------------------
(* The player.                                                             *)

\* _schedule_chunk_stream_update: one task at a time.
Scheduled(s) == IF s = "idle" THEN "check" ELSE s

\* A position packet has been handled.
PositionPacket(c) ==
    /\ at' = c
    /\ unscheduled' = FALSE
    /\ stream' = Scheduled(stream)
    /\ UNCHANGED <<center, loaded, shown, gone, wanted, unsent, deferral, failure>>

Move(c) ==
    /\ moves < MaxMoves /\ moves' = moves + 1
    /\ PositionPacket(c)

\* The client answers the position it was given.
Confirm ==
    /\ unscheduled
    /\ PositionPacket(at)
    /\ UNCHANGED moves

\* _handle_respawn moves the player and schedules nothing.
Respawn(c) ==
    /\ moves < MaxMoves /\ moves' = moves + 1
    /\ at' = c
    /\ unscheduled' = TRUE
    /\ UNCHANGED <<center, loaded, shown, task, deferral, failure>>

-------------------------------------------------------------------------------
(* _stream_chunks_around_player, from one await to the next.               *)

\* The player is where the task has been: the task ends.
StreamEnd ==
    /\ stream = "check"
    /\ center = at
    /\ stream' = "idle"
    /\ UNCHANGED <<player, center, loaded, shown, gone, wanted, unsent, deferral, failure>>

\* A new centre, sent to the client with an await.
Recenter ==
    /\ stream = "check"
    /\ center # at
    /\ center' = at
    /\ stream' = "center"
    /\ apart' = (apart /\ late = "done")
    /\ failed' = FALSE
    /\ UNCHANGED <<player, loaded, shown, gone, wanted, unsent, late, lateUnsent, faults>>

\* missing_coords: nothing more to do for this centre, or a job for a worker thread.
Missing(have) ==
    /\ wanted' = View[center] \ have
    /\ unsent' = wanted'
    /\ stream' = IF wanted' = {} THEN "check" ELSE "generate"

\* Mutant: chunks out of view are forgotten, not taken back.
StartUnloadForgets ==
    /\ stream = "center"
    /\ loaded' = loaded \cap View[center]
    /\ Missing(loaded)
    /\ UNCHANGED <<player, center, shown, gone, deferral, failure>>

\* _unload_distant_chunks lists what is out of view.
StartUnload ==
    /\ stream = "center"
    /\ IF loaded \subseteq View[center]
       THEN Missing(loaded) /\ UNCHANGED gone
       ELSE /\ gone' = loaded \ View[center]
            /\ stream' = "unload"
            /\ UNCHANGED <<wanted, unsent>>
    /\ UNCHANGED <<player, center, loaded, shown, deferral, failure>>

UnloadOne(c) ==
    /\ stream = "unload"
    /\ c \in gone
    /\ gone' = gone \ {c}
    /\ shown' = shown \ {c}
    /\ UNCHANGED <<player, center, loaded, stream, wanted, unsent, deferral, failure>>

\* intersection_update, on loaded_chunks as it is now.
EndUnload ==
    /\ stream = "unload"
    /\ gone = {}
    /\ loaded' = loaded \cap View[center]
    /\ Missing(loaded')
    /\ UNCHANGED <<player, center, shown, gone, deferral, failure>>

\* The worker thread raised: the task ends, with the new centre set already.
\* Later moves within that chunk ask for nothing.
StreamFails ==
    /\ stream = "generate"
    /\ faults < MaxFaults /\ faults' = faults + 1
    /\ stream' = "idle"
    /\ wanted' = {} /\ unsent' = {}
    /\ failed' = TRUE
    /\ UNCHANGED <<player, center, loaded, shown, gone, deferral>>

Generated ==
    /\ stream = "generate"
    /\ stream' = "send"
    /\ UNCHANGED <<player, center, loaded, shown, gone, wanted, unsent, deferral, failure>>

SendOne(c) ==
    /\ stream = "send"
    /\ c \in unsent
    /\ unsent' = unsent \ {c}
    /\ shown' = shown \cup {c}
    /\ UNCHANGED <<player, center, loaded, stream, gone, wanted, deferral, failure>>

\* Mutant: the task ends without a second look at where the player is.
EndSendAtOnce ==
    /\ stream = "send"
    /\ unsent = {}
    /\ loaded' = loaded \cup wanted
    /\ wanted' = {}
    /\ stream' = "idle"
    /\ UNCHANGED <<player, center, shown, gone, unsent, deferral, failure>>

\* The chunks are remembered as loaded, and the loop looks again.
EndSend ==
    /\ stream = "send"
    /\ unsent = {}
    /\ loaded' = loaded \cup wanted
    /\ wanted' = {}
    /\ stream' = "check"
    /\ UNCHANGED <<player, center, shown, gone, unsent, deferral, failure>>

-------------------------------------------------------------------------------
(* _send_deferred_chunks.                                                  *)

LateGenerated ==
    /\ late = "generate"
    /\ late' = "send"
    /\ UNCHANGED <<player, center, loaded, shown, task, lateUnsent, apart, failure>>

\* The worker thread raised: nobody sends these chunks for the spawn point.
LateFails ==
    /\ late = "generate"
    /\ faults < MaxFaults /\ faults' = faults + 1
    /\ late' = "done"
    /\ lateUnsent' = {}
    /\ failed' = TRUE
    /\ UNCHANGED <<player, center, loaded, shown, task, apart>>

LateSendOne(c) ==
    /\ late = "send"
    /\ c \in lateUnsent
    /\ lateUnsent' = lateUnsent \ {c}
    /\ shown' = shown \cup {c}
    /\ UNCHANGED <<player, center, loaded, task, late, apart, failure>>

\* Mutant: the deferred chunks are sent but not remembered.
LateForgets ==
    /\ late = "send"
    /\ lateUnsent = {}
    /\ late' = "done"
    /\ UNCHANGED <<player, center, loaded, shown, task, lateUnsent, apart, failure>>

LateEnd ==
    /\ late = "send"
    /\ lateUnsent = {}
    /\ loaded' = loaded \cup Deferred
    /\ late' = "done"
    /\ UNCHANGED <<player, center, shown, task, lateUnsent, apart, failure>>

-------------------------------------------------------------------------------
StreamStep ==
    \/ StreamEnd \/ Recenter \/ StartUnload \/ EndUnload \/ Generated \/ EndSend
    \/ \E c \in Chunk : UnloadOne(c) \/ SendOne(c)

LateStep == LateGenerated \/ LateEnd \/ \E c \in Chunk : LateSendOne(c)

Next ==
    \/ \E c \in Chunk : Move(c) \/ Respawn(c)
    \/ Confirm \/ StreamStep \/ LateStep
    \/ StreamFails \/ LateFails

Spec == Init /\ [][Next]_vars

\* The event loop runs every task, sends end, and a client answers a position.
Fairness == WF_vars(StreamStep) /\ WF_vars(LateStep) /\ WF_vars(Confirm)

FairSpec == Spec /\ Fairness

-------------------------------------------------------------------------------
(* Properties.                                                             *)

Quiet == stream = "idle" /\ late = "done"

\* No move is overlooked: when no task runs, the last one ended where the
\* player is, although moves that come while it runs start no other.  Only a
\* task that failed ends elsewhere.
NoMoveMissed == stream = "idle" /\ ~unscheduled /\ ~failed => center = at

\* When all is sent, every chunk in view is taken for loaded.  A job that fails
\* leaves a hole, which lasts no longer than until the player is followed to
\* another chunk.
ViewIsLoaded == Quiet /\ ~failed => View[center] \subseteq loaded

\* When all is sent, the client has every chunk in view, except for what a
\* failed job has left out, and the server knows of every chunk the client
\* holds, failed jobs or not, so that it can take it back.  This fails once the
\* streaming task has been at work beside the deferred one: each goes by the
\* loaded_chunks of before its awaits.
ClientInSync ==
    apart /\ Quiet => (failed \/ View[center] \subseteq shown) /\ shown \subseteq loaded

\* A player that stops moving has its surroundings in the end, whatever failed
\* before it last entered another chunk.
SurroundingsArrive == <>[](apart /\ ~failed => View[at] \subseteq shown)
===============================================================================

------------------------------- MODULE ChunkEdits ------------------------------
(***************************************************************************)
(* Chunks on their way to the clients while players change them.  A worker *)
(* thread runs generate_chunk_results (network/server.py) for a player and *)
(* the event loop sends the results when it is done; set_world_block       *)
(* (world/editing.py) and the broadcast of the change run on the event     *)
(* loop meanwhile.  The content of a chunk is the set of edits in it: {}   *)
(* is the terrain as generated, the same every time.                       *)
(***************************************************************************)
EXTENDS FiniteSets, Integers

CONSTANTS Player,      \* connections, one job each at a time
          Chunk,       \* chunks
          Edit,        \* block changes, each of a block of its own
          NoChunk,     \* no chunk: not stored, or not sent
          MaxRequests  \* bound: jobs of one player

\* What the constants must be; the suite that instantiates this module assumes it.
EditsAssumption ==
    /\ NoChunk \notin Chunk
    /\ \A S \in SUBSET Edit : S # NoChunk
    /\ MaxRequests \in Nat

Content == SUBSET Edit
Maybe == {NoChunk} \cup Content

VARIABLES stored,    \* stored[c]: what WorldStorage has
          shown,     \* shown[p][c]: what the client of p has
          phase,     \* phase[p]: where the job of p is
          coords,    \* coords[p]: its chunk_coords
          result,    \* result[p][c]: its results
          requests,  \* requests[p]: jobs so far
          place,     \* place[e]: the chunk of e, NoChunk while e is not done
          editing,   \* the edit between its load and its save, and what it loaded
          untold,    \* untold[e]: the players the broadcast of e has still to reach
          shared,    \* history: chunks two jobs were at work on at the same time
          outrun     \* history: <<p, c>> if c changed after the job of p had read it

job == <<phase, coords, result, requests>>
history == <<shared, outrun>>
vars == <<stored, shown, job, place, editing, untold, history>>

TypeOK ==
    /\ stored \in [Chunk -> Maybe]
    /\ shown \in [Player -> [Chunk -> Maybe]]
    /\ phase \in [Player -> {"idle", "load", "generate", "send"}]
    /\ coords \in [Player -> SUBSET Chunk]
    /\ result \in [Player -> [Chunk -> Maybe]]
    /\ requests \in [Player -> 0..MaxRequests]
    /\ place \in [Edit -> Chunk \cup {NoChunk}]
    /\ editing \in {<<>>} \cup Edit \X Chunk \X Content
    /\ untold \in [Edit -> SUBSET Player]
    /\ shared \subseteq Chunk /\ outrun \subseteq Player \X Chunk
    /\ \A p \in Player, c \in Chunk :
          phase[p] = "send" /\ c \in coords[p] => result[p][c] # NoChunk

Init ==
    /\ stored = [c \in Chunk |-> NoChunk]
    /\ shown = [p \in Player |-> [c \in Chunk |-> NoChunk]]
    /\ phase = [p \in Player |-> "idle"]
    /\ coords = [p \in Player |-> {}]
    /\ result = [p \in Player |-> [c \in Chunk |-> NoChunk]]
    /\ requests = [p \in Player |-> 0]
    /\ place = [e \in Edit |-> NoChunk]
    /\ editing = <<>>
    /\ untold = [e \in Edit |-> {}]
    /\ shared = {} /\ outrun = {}

-------------------------------------------------------------------------------
(* A job of a worker thread.                                               *)

Request(p, S) ==
    /\ phase[p] = "idle" /\ editing = <<>>
    /\ requests[p] < MaxRequests
    /\ S # {} /\ \A c \in S : shown[p][c] = NoChunk
    /\ phase' = [phase EXCEPT ![p] = "load"]
    /\ coords' = [coords EXCEPT ![p] = S]
    /\ requests' = [requests EXCEPT ![p] = @ + 1]
    /\ shared' = shared \cup (S \cap UNION {coords[q] : q \in Player})
    /\ outrun' = outrun \ ({p} \X S)
    /\ UNCHANGED <<stored, shown, result, place, editing, untold>>

\* load_generated_chunk_with_biomes for every coordinate, before anything is generated.
Load(p) ==
    /\ phase[p] = "load"
    /\ result' = [result EXCEPT ![p] = [c \in Chunk |-> IF c \in coords[p] THEN stored[c] ELSE NoChunk]]
    /\ phase' = [phase EXCEPT ![p] = "generate"]
    /\ UNCHANGED <<stored, shown, coords, requests, place, editing, untold, history>>

\* The Python generator looks once more (_generate_or_load_chunk_result).
LoadAgain(p, c) ==
    /\ phase[p] = "generate"
    /\ c \in coords[p] /\ result[p][c] = NoChunk /\ stored[c] # NoChunk
    /\ result' = [result EXCEPT ![p][c] = stored[c]]
    /\ UNCHANGED <<stored, shown, phase, coords, requests, place, editing, untold, history>>

\* Mutant: what was loaded is saved like what was generated.
SaveLoaded(p, c) ==
    /\ phase[p] = "generate"
    /\ c \in coords[p]
    /\ LET content == IF result[p][c] = NoChunk THEN {} ELSE result[p][c]
       IN  /\ stored' = [stored EXCEPT ![c] = content]
           /\ result' = [result EXCEPT ![p][c] = content]
    /\ UNCHANGED <<shown, phase, coords, requests, place, editing, untold, history>>

\* A chunk that was not found is generated and saved.
SaveGenerated(p, c) ==
    /\ phase[p] = "generate"
    /\ c \in coords[p] /\ result[p][c] = NoChunk
    /\ stored' = [stored EXCEPT ![c] = {}]
    /\ result' = [result EXCEPT ![p][c] = {}]
    /\ UNCHANGED <<shown, phase, coords, requests, place, editing, untold, history>>

\* The event loop gets the results.
HandOver(p) ==
    /\ phase[p] = "generate"
    /\ \A c \in coords[p] : result[p][c] # NoChunk
    /\ phase' = [phase EXCEPT ![p] = "send"]
    /\ UNCHANGED <<stored, shown, coords, result, requests, place, editing, untold, history>>

\* It sends them one by one.
Send(p, c) ==
    /\ phase[p] = "send" /\ editing = <<>>
    /\ c \in coords[p]
    /\ shown' = [shown EXCEPT ![p][c] = result[p][c]]
    /\ coords' = [coords EXCEPT ![p] = @ \ {c}]
    /\ UNCHANGED <<stored, phase, result, requests, place, editing, untold, history>>

EndJob(p) ==
    /\ phase[p] = "send" /\ coords[p] = {}
    /\ phase' = [phase EXCEPT ![p] = "idle"]
    /\ UNCHANGED <<stored, shown, coords, result, requests, place, editing, untold, history>>

\* _unload_distant_chunks, by the same task that waits for the job.
Unload(p, c) ==
    /\ phase[p] = "idle" /\ editing = <<>>
    /\ shown[p][c] # NoChunk
    /\ shown' = [shown EXCEPT ![p][c] = NoChunk]
    /\ UNCHANGED <<stored, job, place, editing, untold, history>>

-------------------------------------------------------------------------------
(* A player changes a block of a chunk it has.                             *)

\* set_world_block loads the chunk, or generates it ...
EditLoad(p, c, e) ==
    /\ editing = <<>>
    /\ place[e] = NoChunk
    /\ shown[p][c] # NoChunk
    /\ editing' = <<e, c, IF stored[c] = NoChunk THEN {} ELSE stored[c]>>
    /\ UNCHANGED <<stored, shown, job, place, untold, history>>

\* Mutant: the change is not broadcast.
EditSaveSilently ==
    /\ editing # <<>>
    /\ LET e == editing[1] c == editing[2]
       IN  /\ stored' = [stored EXCEPT ![c] = editing[3] \cup {e}]
           /\ place' = [place EXCEPT ![e] = c]
    /\ editing' = <<>>
    /\ UNCHANGED <<shown, job, untold, history>>

\* Players whose job may have read the chunk and not sent it yet.
Reading(c) == {q \in Player : c \in coords[q] /\ phase[q] # "load"}

\* ... and saves it changed; the event loop does nothing else in between.
EditSave ==
    /\ editing # <<>>
    /\ LET e == editing[1] c == editing[2]
       IN  /\ stored' = [stored EXCEPT ![c] = editing[3] \cup {e}]
           /\ place' = [place EXCEPT ![e] = c]
           /\ untold' = [untold EXCEPT ![e] = Player]
           /\ outrun' = outrun \cup {<<q, c>> : q \in Reading(c)}
    /\ editing' = <<>>
    /\ UNCHANGED <<shown, job, shared>>

\* _broadcast_block_change sends it to one player after the other.  A client
\* ignores a change of a chunk it does not have.
Tell(q, e) ==
    /\ editing = <<>>
    /\ q \in untold[e]
    /\ untold' = [untold EXCEPT ![e] = @ \ {q}]
    /\ LET c == place[e]
       IN  shown' = IF shown[q][c] = NoChunk THEN shown
                    ELSE [shown EXCEPT ![q][c] = @ \cup {e}]
    /\ UNCHANGED <<stored, job, place, editing, history>>

-------------------------------------------------------------------------------
Next ==
    \/ \E p \in Player :
          \/ \E S \in SUBSET Chunk : Request(p, S)
          \/ Load(p) \/ HandOver(p) \/ EndJob(p)
          \/ \E c \in Chunk : \/ LoadAgain(p, c) \/ SaveGenerated(p, c)
                              \/ Send(p, c) \/ Unload(p, c)
                              \/ \E e \in Edit : EditLoad(p, c, e)
          \/ \E e \in Edit : Tell(p, e)
    \/ EditSave

Spec == Init /\ [][Next]_vars

-------------------------------------------------------------------------------
(* Properties.                                                             *)

\* A change of a block stays in the world, whatever chunks are generated and
\* saved meanwhile; except where two jobs generate the same chunk, because the
\* slower one saves the bare terrain over what was built in it.
EditsSurvive ==
    \A e \in Edit : place[e] \notin shared \cup {NoChunk} =>
        stored[place[e]] # NoChunk /\ e \in stored[place[e]]

\* When all is sent and told, every client shows the chunks it has as they are;
\* except a chunk that changed after the job had read it: that change was told
\* to the client before it had the chunk.
ViewIsCurrent ==
    (\A p \in Player : phase[p] = "idle") /\ editing = <<>> /\ (\A e \in Edit : untold[e] = {})
        => \A p \in Player, c \in Chunk :
              shown[p][c] = NoChunk \/ c \in shared \/ <<p, c>> \in outrun
                \/ shown[p][c] = stored[c]
===============================================================================

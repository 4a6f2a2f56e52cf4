-------------------------------- MODULE MCChunks --------------------------------
(***************************************************************************)
(* Chunks for TLC: their streaming to a client that moves along a row of   *)
(* chunks and sees one chunk far, and chunks on their way to two clients   *)
(* while a block is changed.  A behaviour follows one of the two, chosen   *)
(* at the start, and leaves the other in its initial state.                *)
(***************************************************************************)
EXTENDS ChunkStream

CONSTANTS LastChunk,                               \* the end of the row
          Player, Area, Edit, NoChunk, MaxRequests \* constants of ChunkEdits

Row == 0..LastChunk
RowView == [c \in Row |-> {d \in Row : d - c \in {-1, 0, 1}}]
Nearest == {Spawn}

VARIABLES part,                                         \* what is followed
          eStored, eShown, ePhase, eCoords, eResult, eRequests,
          ePlace, eEditing, eUntold, eShared, eOutrun   \* variables of ChunkEdits

Edits == INSTANCE ChunkEdits WITH
    Chunk <- Area,
    stored <- eStored, shown <- eShown, phase <- ePhase, coords <- eCoords,
    result <- eResult, requests <- eRequests, place <- ePlace,
    editing <- eEditing, untold <- eUntold, shared <- eShared, outrun <- eOutrun

ASSUME AreaAssumption == Edits!EditsAssumption

editVars == <<eStored, eShown, ePhase, eCoords, eResult, eRequests,
              ePlace, eEditing, eUntold, eShared, eOutrun>>

ChunksInit == Init /\ Edits!Init /\ (part # "stream" => at = Spawn)

ChunksNext ==
    \/ part = "stream" /\ Next /\ UNCHANGED <<editVars, part>>
    \/ part = "edits" /\ Edits!Next /\ UNCHANGED <<vars, part>>

StartInit == part \in {"stream", "edits"} /\ ChunksInit
ChunksSpec == StartInit /\ [][ChunksNext]_<<vars, editVars, part>> /\ Fairness

-------------------------------------------------------------------------------
\* ChunkEdits.EditsSurvive: no block change is lost to a chunk being generated.
ChunkEditsSurvive == Edits!EditsSurvive
\* ChunkEdits.ViewIsCurrent: clients show the chunks they have as they are.
ChunkViewIsCurrent == Edits!ViewIsCurrent
===============================================================================

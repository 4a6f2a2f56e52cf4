----------------------------- MODULE World_proofs ------------------------------
(***************************************************************************)
(* Proofs about ChunkStream for every map of chunks, view and spawn point, *)
(* about ChunkEdits for any players, chunks and block changes, about       *)
(* Fluids for every world of any size and every speed, and about Redstone  *)
(* for every circuit on any cells.                                         *)
(*                                                                         *)
(* The server's own bookkeeping is right in every case: no move is missed  *)
(* and the chunks in view are taken for loaded (Covered).  That the client *)
(* holds just the chunks the server believes it does needs the two tasks   *)
(* to work one after the other (Agrees).  Of the fluids it is shown that   *)
(* each part of a tick leaves no block unattended (Goes), then that the    *)
(* fold over pending_flows does not (Work), then that no step does         *)
(* (FlowInv).  Of the redstone the same: what each component, piston and   *)
(* fold of a tick does to the table, the world and the updates (InStep),   *)
(* then what players and broadcasts do in between (RedInv).  The signal of *)
(* the wires is a wave of DataTheorems through what they are connected to. *)
(***************************************************************************)
EXTENDS MCWorld, DataTheorems, TLAPS

\* What is missing from the view is what the task is about to bring; before
\* the first recentring it may also be what the deferred task brings.  A failed
\* job breaks this until the next recentring.
Covered ==
    /\ stream \in {"idle", "check"} /\ ~failed =>
          \/ View[center] \subseteq loaded
          \/ late # "done" /\ center = Spawn /\ Immediate \subseteq loaded
    /\ stream \in {"generate", "send"} => View[center] \subseteq loaded \cup wanted

StreamInv == TypeOK /\ NoMoveMissed /\ Covered

LEMMA InitInv == Init => StreamInv
<1> SUFFICES ASSUME Init PROVE StreamInv
  OBVIOUS
<1> USE StreamAssumption DEF Init
<1>1. TypeOK
  <2>1. Spawn \in Chunk /\ View[Spawn] \subseteq Chunk /\ Immediate \subseteq View[Spawn]
    OBVIOUS
  <2>2. 0 \in 0..MaxMoves /\ 0 \in 0..MaxFaults
    OBVIOUS
  <2>3. late \in {"generate", "send", "done"} /\ (late = "done" => lateUnsent = {})
    OBVIOUS
  <2> QED
    BY <2>1, <2>2, <2>3 DEF TypeOK, Deferred
<1>2. NoMoveMissed /\ Covered
  BY DEF NoMoveMissed, Covered, Deferred
<1> QED
  BY <1>1, <1>2 DEF StreamInv

LEMMA PlayerInv ==
    ASSUME StreamInv, NEW c \in Chunk, Move(c) \/ Respawn(c) \/ Confirm
    PROVE  StreamInv'
<1> USE StreamAssumption
<1>1. CASE Move(c)
  <2>1. stream' = IF stream = "idle" THEN "check" ELSE stream
    BY <1>1 DEF Move, PositionPacket, Scheduled
  <2>2. TypeOK'
    <3>1. moves' \in 0..MaxMoves
      BY <1>1 DEF Move, StreamInv, TypeOK
    <3>2. at' \in Chunk /\ unscheduled' \in BOOLEAN
      BY <1>1 DEF Move, PositionPacket
    <3>3. stream' \in {"idle", "check", "center", "unload", "generate", "send"}
      BY <2>1 DEF StreamInv, TypeOK
    <3>4. UNCHANGED <<center, loaded, shown, gone, wanted, unsent, late, lateUnsent, apart,
                     failed, faults>>
      BY <1>1 DEF Move, PositionPacket, deferral, failure
    <3> QED
      BY <2>1, <3>1, <3>2, <3>3, <3>4 DEF StreamInv, TypeOK
  <2>3. NoMoveMissed' /\ Covered'
    BY <1>1, <2>1 DEF Move, PositionPacket, StreamInv, NoMoveMissed, Covered, deferral,
                      failure
  <2> QED
    BY <2>2, <2>3 DEF StreamInv
<1>2. CASE Respawn(c)
  BY <1>2 DEF Respawn, StreamInv, TypeOK, NoMoveMissed, Covered, task, deferral, failure
<1>3. CASE Confirm
  BY <1>3 DEF Confirm, PositionPacket, Scheduled, StreamInv, TypeOK, NoMoveMissed, Covered,
              deferral, failure
<1> QED
  BY <1>1, <1>2, <1>3

LEMMA StreamStepInv == StreamInv /\ StreamStep => StreamInv'
<1> SUFFICES ASSUME StreamInv, StreamStep PROVE StreamInv'
  OBVIOUS
<1> USE StreamAssumption DEF StreamInv, TypeOK, NoMoveMissed, Covered, player, deferral, failure
<1>1. CASE StreamEnd
  BY <1>1 DEF StreamEnd
<1>2. CASE Recenter
  BY <1>2 DEF Recenter
<1>3. CASE StartUnload
  BY <1>3 DEF StartUnload, Missing
<1>4. CASE EndUnload
  BY <1>4 DEF EndUnload, Missing
<1>5. CASE Generated
  BY <1>5 DEF Generated
<1>6. CASE EndSend
  BY <1>6 DEF EndSend
<1>7. ASSUME NEW c \in Chunk, UnloadOne(c) PROVE StreamInv'
  BY <1>7 DEF UnloadOne
<1>8. ASSUME NEW c \in Chunk, SendOne(c) PROVE StreamInv'
  BY <1>8 DEF SendOne
<1> QED
  BY <1>1, <1>2, <1>3, <1>4, <1>5, <1>6, <1>7, <1>8 DEF StreamStep

LEMMA LateStepInv == StreamInv /\ LateStep => StreamInv'
<1> SUFFICES ASSUME StreamInv, LateStep PROVE StreamInv'
  OBVIOUS
<1> USE StreamAssumption DEF StreamInv, TypeOK, NoMoveMissed, Covered, Deferred, player, task,
           failure
<1>1. CASE LateGenerated
  BY <1>1 DEF LateGenerated
<1>2. CASE LateEnd
  BY <1>2 DEF LateEnd
<1>3. ASSUME NEW c \in Chunk, LateSendOne(c) PROVE StreamInv'
  BY <1>3 DEF LateSendOne
<1> QED
  BY <1>1, <1>2, <1>3 DEF LateStep

LEMMA FailureInv == StreamInv /\ (StreamFails \/ LateFails) => StreamInv'
<1> SUFFICES ASSUME StreamInv, StreamFails \/ LateFails PROVE StreamInv'
  OBVIOUS
<1> USE StreamAssumption DEF StreamInv, TypeOK, NoMoveMissed, Covered, player, task, deferral
<1>1. CASE StreamFails
  BY <1>1 DEF StreamFails
<1>2. CASE LateFails
  BY <1>2 DEF LateFails
<1> QED
  BY <1>1, <1>2

LEMMA NextInv == StreamInv /\ [Next]_vars => StreamInv'
<1>1. StreamInv /\ UNCHANGED vars => StreamInv'
  BY DEF StreamInv, TypeOK, NoMoveMissed, Covered, vars, player, task, deferral, failure
<1>2. ASSUME StreamInv, Confirm PROVE StreamInv'
  BY <1>2, PlayerInv DEF StreamInv, TypeOK
<1> QED
  BY <1>1, <1>2, PlayerInv, StreamStepInv, LateStepInv, FailureInv DEF Next

LEMMA Invariant == Spec => []StreamInv
BY InitInv, NextInv, PTL DEF Spec

\* The sets of chunks keep their relations to the centre and the view.
THEOREM TypeCorrect == Spec => []TypeOK
<1>1. StreamInv => TypeOK
  BY DEF StreamInv
<1> QED
  BY Invariant, <1>1, PTL

\* No move is overlooked.
THEOREM EveryMoveFollowed == Spec => []NoMoveMissed
<1>1. StreamInv => NoMoveMissed
  BY DEF StreamInv
<1> QED
  BY Invariant, <1>1, PTL

\* When all is sent, every chunk in view is taken for loaded, unless a job has
\* failed since the last recentring.
THEOREM ViewLoaded == Spec => []ViewIsLoaded
<1>1. StreamInv => ViewIsLoaded
  BY DEF StreamInv, Covered, ViewIsLoaded, Quiet
<1> QED
  BY Invariant, <1>1, PTL

-------------------------------------------------------------------------------
(* The two tasks one after the other.                                      *)

\* While the deferred task is at work, the client differs from loaded_chunks by
\* what that has sent; then by what the streaming task is part-way through
\* taking back or sending.
Agrees ==
    /\ late # "done" =>
          /\ stream \in {"idle", "check"} /\ center = Spawn /\ ~failed
          /\ loaded = Immediate /\ shown = Immediate \cup (Deferred \ lateUnsent)
    /\ late = "done" =>
          /\ stream \in {"idle", "check", "center", "generate"} => shown = loaded
          /\ stream = "unload" =>
                gone \subseteq loaded /\ shown = (loaded \cap View[center]) \cup gone
          /\ stream = "send" => shown = loaded \cup (wanted \ unsent)
          /\ stream = "generate" => unsent = wanted
    /\ late = "generate" => lateUnsent = Deferred

AgreeInv == StreamInv /\ (apart => Agrees)

LEMMA AgreeInit == Init => Agrees
BY StreamAssumption DEF Init, Agrees, Deferred

LEMMA AgreeNext ==
    ASSUME StreamInv, Agrees, apart', [Next]_vars
    PROVE  Agrees'
<1> USE StreamAssumption DEF Agrees
<1>1. ASSUME NEW c \in Chunk, Move(c) PROVE Agrees'
  BY <1>1 DEF Move, PositionPacket, Scheduled, deferral, failure, StreamInv, TypeOK
<1>2. ASSUME NEW c \in Chunk, Respawn(c) PROVE Agrees'
  BY <1>2 DEF Respawn, task, deferral, failure
<1>3. CASE Confirm
  BY <1>3 DEF Confirm, PositionPacket, Scheduled, deferral, failure, StreamInv, TypeOK
<1>4. CASE StreamEnd
  BY <1>4 DEF StreamEnd, deferral, failure
<1>5. CASE Recenter
  <2>1. late = "done"
    BY <1>5, Zenon DEF Recenter
  <2> QED
    BY <1>5, <2>1 DEF Recenter
<1>6. CASE StartUnload
  BY <1>6 DEF StartUnload, Missing, deferral, failure, StreamInv, TypeOK
<1>7. CASE EndUnload
  BY <1>7 DEF EndUnload, Missing, deferral, failure, StreamInv, TypeOK
<1>8. CASE Generated
  BY <1>8 DEF Generated, deferral, failure
<1>9. CASE EndSend
  BY <1>9 DEF EndSend, deferral, failure
<1>10. ASSUME NEW c \in Chunk, UnloadOne(c) PROVE Agrees'
  BY <1>10 DEF UnloadOne, deferral, failure, StreamInv, TypeOK
<1>11. ASSUME NEW c \in Chunk, SendOne(c) PROVE Agrees'
  BY <1>11 DEF SendOne, deferral, failure, StreamInv, TypeOK
<1>12. CASE LateStep
  <2>1. CASE LateGenerated
    BY <2>1 DEF LateGenerated, player, task, failure
  <2>2. CASE LateEnd
    BY <2>2 DEF LateEnd, Deferred, player, task, failure
  <2>3. ASSUME NEW c \in Chunk, LateSendOne(c) PROVE Agrees'
    BY <2>3 DEF LateSendOne, StreamInv, TypeOK, Deferred, player, task, failure
  <2> QED
    BY <1>12, <2>1, <2>2, <2>3 DEF LateStep
<1>13. CASE UNCHANGED vars
  BY <1>13 DEF vars, task, deferral, failure
<1>14. CASE StreamFails
  BY <1>14 DEF StreamFails, deferral, StreamInv, TypeOK
<1>15. CASE LateFails
  BY <1>15 DEF LateFails, Deferred, player, task
<1> QED
  BY <1>1, <1>2, <1>3, <1>4, <1>5, <1>6, <1>7, <1>8, <1>9, <1>10, <1>11, <1>12, <1>13,
     <1>14, <1>15
  DEF Next, StreamStep

\* Tasks that have worked together once are never taken for apart again.
LEMMA ApartBefore == [Next]_vars /\ apart' => apart
BY DEF Next, vars, deferral, Move, PositionPacket, Respawn, Confirm, StreamStep, StreamEnd,
       Recenter, StartUnload, EndUnload, Generated, EndSend, UnloadOne, SendOne, LateStep,
       LateGenerated, LateEnd, LateSendOne, StreamFails, LateFails

LEMMA AgreeImplies == AgreeInv => ClientInSync
BY DEF AgreeInv, Agrees, StreamInv, Covered, ClientInSync, Quiet

\* As long as the two tasks have not worked together, the client has every chunk
\* in view when all is sent, save what a failed job has left out, and none the
\* server does not know of.
THEOREM ClientHoldsView == Spec => []ClientInSync
<1>1. Init => AgreeInv
  BY AgreeInit, InitInv DEF AgreeInv
<1>2. AgreeInv /\ [Next]_vars => AgreeInv'
  BY AgreeNext, NextInv, ApartBefore DEF AgreeInv
<1> QED
  BY <1>1, <1>2, AgreeImplies, PTL DEF Spec

-------------------------------------------------------------------------------
(* ChunkEdits: block changes survive the generation of chunks, and clients *)
(* see the chunks they have as they are.                                   *)

LEMMA AreaFacts ==
    /\ NoChunk \notin Area /\ MaxRequests \in Nat
    /\ \A x \in Edits!Content : x # NoChunk
    /\ Edits!Maybe = {NoChunk} \cup Edits!Content
BY AreaAssumption DEF Edits!EditsAssumption, Edits!Maybe, Edits!Content

\* A job has results only once it has read its chunks.
Read(p) == ePhase[p] \in {"generate", "send"}

\* Jobs at work on the same chunk are noticed, and an idle player has none.
Apart == \A p, q \in Player, c \in Area :
    /\ ePhase[p] = "idle" => eCoords[p] = {}
    /\ p # q /\ c \in eCoords[p] /\ c \in eCoords[q] => c \in eShared

\* What is shown, read or changed is stored.
InStore ==
    /\ \A p \in Player, c \in Area :
          eShown[p][c] # NoChunk \/ eResult[p][c] # NoChunk => eStored[c] # NoChunk
    /\ \A e \in Edit : ePlace[e] # NoChunk => eStored[ePlace[e]] # NoChunk

\* What a job has not found is not there, as long as it is alone.
NotYet == \A p \in Player, c \in Area :
    ePhase[p] = "generate" /\ c \in eCoords[p] /\ eResult[p][c] = NoChunk /\ c \notin eShared
    => eStored[c] = NoChunk

\* The chunk that is being changed is the one that is stored.
EditsStored == eEditing # <<>> =>
    /\ ePlace[eEditing[1]] = NoChunk
    /\ eStored[eEditing[2]] # NoChunk
    /\ eEditing[2] \notin eShared => eStored[eEditing[2]] = eEditing[3]

\* The changes of c that p is still to be told.
Untold(p, c) == {e \in Edit : ePlace[e] = c /\ p \in eUntold[e]}

\* What a client shows lacks what it is still to be told, and no more; what a job
\* has read is what is stored.
Current == \A p \in Player, c \in Area : c \notin eShared /\ <<p, c>> \notin eOutrun =>
    /\ eShown[p][c] # NoChunk => eStored[c] = eShown[p][c] \cup Untold(p, c)
    /\ Read(p) /\ c \in eCoords[p] /\ eResult[p][c] # NoChunk => eResult[p][c] = eStored[c]

EditInv ==
    /\ Edits!TypeOK /\ Apart /\ InStore /\ NotYet /\ EditsStored
    /\ ChunkEditsSurvive /\ Current

\* The types of the functions, and what the change in hand is made of.
LEMMA EditTypes ==
    ASSUME Edits!TypeOK
    PROVE  /\ eStored \in [Area -> Edits!Maybe]
           /\ eShown \in [Player -> [Area -> Edits!Maybe]]
           /\ ePhase \in [Player -> {"idle", "load", "generate", "send"}]
           /\ eCoords \in [Player -> SUBSET Area]
           /\ eResult \in [Player -> [Area -> Edits!Maybe]]
           /\ ePlace \in [Edit -> Area \cup {NoChunk}]
           /\ eUntold \in [Edit -> SUBSET Player]
           /\ eEditing # <<>> => /\ eEditing[1] \in Edit /\ eEditing[2] \in Area
                                 /\ eEditing[3] \in Edits!Content
BY DEF Edits!TypeOK

\* Steps that leave the chunks, the changes and what clients show alone.
LEMMA EditsSurviveIf ==
    ASSUME ChunkEditsSurvive, eShared \subseteq eShared', UNCHANGED <<eStored, ePlace>>
    PROVE  ChunkEditsSurvive'
BY DEF ChunkEditsSurvive, Edits!EditsSurvive

LEMMA EditsInit == Edits!Init => EditInv
<1> SUFFICES ASSUME Edits!Init PROVE EditInv
  OBVIOUS
<1>1. Edits!TypeOK
  BY AreaFacts DEF Edits!Init, Edits!TypeOK, Edits!Maybe, Edits!Content
<1>2. Apart /\ InStore /\ NotYet /\ EditsStored
  BY DEF Edits!Init, Apart, InStore, NotYet, EditsStored
<1>3. ChunkEditsSurvive
  BY DEF Edits!Init, ChunkEditsSurvive, Edits!EditsSurvive
<1>4. Current
  BY DEF Edits!Init, Current, Read
<1> QED
  BY <1>1, <1>2, <1>3, <1>4 DEF EditInv

LEMMA RequestKeeps ==
    \A p \in Player, S \in SUBSET Area : EditInv /\ Edits!Request(p, S) => EditInv'
<1> SUFFICES ASSUME NEW p \in Player, NEW S \in SUBSET Area, EditInv, Edits!Request(p, S)
             PROVE  EditInv'
  OBVIOUS
<1>1. Edits!TypeOK
  BY DEF EditInv
<1>2. /\ ePhase[p] = "idle" /\ eEditing = <<>> /\ \A c \in S : eShown[p][c] = NoChunk
      /\ ePhase' = [ePhase EXCEPT ![p] = "load"]
      /\ eCoords' = [eCoords EXCEPT ![p] = S]
      /\ eShared' = eShared \cup (S \cap UNION {eCoords[q] : q \in Player})
      /\ eOutrun' = eOutrun \ ({p} \X S)
      /\ UNCHANGED <<eStored, eShown, eResult, ePlace, eEditing, eUntold>>
  BY DEF Edits!Request
<1>3. /\ ePhase'[p] = "load" /\ eCoords'[p] = S
      /\ \A q \in Player : q # p => ePhase'[q] = ePhase[q] /\ eCoords'[q] = eCoords[q]
  BY <1>1, <1>2, EditTypes
<1>4. /\ eShared \subseteq eShared'
      /\ \A q \in Player, c \in Area : c \in S /\ c \in eCoords[q] => c \in eShared'
      /\ \A q \in Player, c \in Area : <<q, c>> \notin eOutrun' =>
            <<q, c>> \notin eOutrun \/ (q = p /\ c \in S)
  BY <1>2
<1>5. Edits!TypeOK'
  <2>1. eRequests' \in [Player -> 0..MaxRequests]
    BY <1>1, AreaFacts DEF Edits!Request, Edits!TypeOK
  <2>2. /\ eCoords' \in [Player -> SUBSET Area]
        /\ ePhase' \in [Player -> {"idle", "load", "generate", "send"}]
        /\ eShared' \subseteq Area /\ eOutrun' \subseteq Player \X Area
    BY <1>1, <1>2 DEF Edits!TypeOK
  <2> QED
    BY <1>1, <1>2, <1>3, <2>1, <2>2 DEF Edits!TypeOK
<1>6. Apart'
  BY <1>3, <1>4 DEF EditInv, Apart
<1>7. InStore' /\ EditsStored'
  BY <1>2 DEF EditInv, InStore, EditsStored
<1>8. NotYet'
  BY <1>2, <1>3, <1>4 DEF EditInv, NotYet
<1>9. ChunkEditsSurvive'
  BY <1>2, <1>4, EditsSurviveIf DEF EditInv
<1>10. Current'
  <2> SUFFICES ASSUME NEW q \in Player, NEW c \in Area, c \notin eShared', <<q, c>> \notin eOutrun'
               PROVE  /\ eShown[q][c] # NoChunk => eStored[c] = eShown[q][c] \cup Untold(q, c)
                      /\ Read(q)' /\ c \in eCoords'[q] /\ eResult[q][c] # NoChunk
                         => eResult[q][c] = eStored[c]
    BY <1>2 DEF Current, Untold
  <2>1. CASE q = p
    BY <1>2, <1>3, <1>4, <2>1 DEF EditInv, Current, Read
  <2>2. CASE q # p
    BY <1>2, <1>3, <1>4, <2>2 DEF EditInv, Current, Read
  <2> QED
    BY <2>1, <2>2
<1> QED
  BY <1>5, <1>6, <1>7, <1>8, <1>9, <1>10 DEF EditInv

LEMMA LoadKeeps == \A p \in Player : EditInv /\ Edits!Load(p) => EditInv'
<1> SUFFICES ASSUME NEW p \in Player, EditInv, Edits!Load(p) PROVE EditInv'
  OBVIOUS
<1>1. Edits!TypeOK
  BY DEF EditInv
<1> DEFINE found == [c \in Area |-> IF c \in eCoords[p] THEN eStored[c] ELSE NoChunk]
<1>2. /\ ePhase[p] = "load"
      /\ eResult' = [eResult EXCEPT ![p] = found]
      /\ ePhase' = [ePhase EXCEPT ![p] = "generate"]
      /\ UNCHANGED <<eStored, eShown, eCoords, eRequests, ePlace, eEditing, eUntold,
                     eShared, eOutrun>>
  BY DEF Edits!Load, Edits!history
<1>3. /\ ePhase'[p] = "generate"
      /\ \A c \in Area : eResult'[p][c] = IF c \in eCoords[p] THEN eStored[c] ELSE NoChunk
      /\ \A q \in Player : q # p => ePhase'[q] = ePhase[q] /\ eResult'[q] = eResult[q]
  BY <1>1, <1>2, EditTypes
<1>4. Edits!TypeOK'
  <2>1. found \in [Area -> Edits!Maybe]
    BY <1>1, EditTypes DEF Edits!Maybe
  <2>2. /\ eResult' \in [Player -> [Area -> Edits!Maybe]]
        /\ ePhase' \in [Player -> {"idle", "load", "generate", "send"}]
    BY <1>1, <1>2, <2>1, EditTypes
  <2> QED
    BY <1>1, <1>2, <1>3, <2>2 DEF Edits!TypeOK
<1>5. Apart' /\ InStore'
  BY <1>2, <1>3 DEF EditInv, Apart, InStore
<1>6. NotYet' /\ EditsStored'
  BY <1>2, <1>3 DEF EditInv, NotYet, EditsStored
<1>7. ChunkEditsSurvive'
  BY <1>2, EditsSurviveIf DEF EditInv
<1>8. Current'
  BY <1>2, <1>3 DEF EditInv, Current, Read, Untold
<1> QED
  BY <1>4, <1>5, <1>6, <1>7, <1>8 DEF EditInv

LEMMA LoadAgainKeeps ==
    \A p \in Player, c \in Area : EditInv /\ Edits!LoadAgain(p, c) => EditInv'
<1> SUFFICES ASSUME NEW p \in Player, NEW c \in Area, EditInv, Edits!LoadAgain(p, c)
             PROVE  EditInv'
  OBVIOUS
<1>1. Edits!TypeOK
  BY DEF EditInv
<1>2. /\ ePhase[p] = "generate" /\ eStored[c] # NoChunk
      /\ eResult' = [eResult EXCEPT ![p][c] = eStored[c]]
      /\ UNCHANGED <<eStored, eShown, ePhase, eCoords, eRequests, ePlace, eEditing, eUntold,
                     eShared, eOutrun>>
  BY DEF Edits!LoadAgain, Edits!history
<1>3. \A q \in Player, d \in Area :
         eResult'[q][d] = IF q = p /\ d = c THEN eStored[c] ELSE eResult[q][d]
  BY <1>1, <1>2, EditTypes
<1>4. Edits!TypeOK'
  <2>1. eResult' \in [Player -> [Area -> Edits!Maybe]]
    BY <1>1, <1>2, EditTypes
  <2> QED
    BY <1>1, <1>2, <1>3, <2>1 DEF Edits!TypeOK
<1>5. Apart' /\ InStore'
  BY <1>2, <1>3 DEF EditInv, Apart, InStore
<1>6. NotYet' /\ EditsStored'
  BY <1>2, <1>3 DEF EditInv, NotYet, EditsStored
<1>7. ChunkEditsSurvive'
  BY <1>2, EditsSurviveIf DEF EditInv
<1>8. Current'
  BY <1>2, <1>3 DEF EditInv, Current, Read, Untold
<1> QED
  BY <1>4, <1>5, <1>6, <1>7, <1>8 DEF EditInv

\* A job that is alone saves what is generated where nothing was.
LEMMA SaveGeneratedKeeps ==
    \A p \in Player, c \in Area : EditInv /\ Edits!SaveGenerated(p, c) => EditInv'
<1> SUFFICES ASSUME NEW p \in Player, NEW c \in Area, EditInv, Edits!SaveGenerated(p, c)
             PROVE  EditInv'
  OBVIOUS
<1>1. Edits!TypeOK /\ {} \in Edits!Content /\ {} # NoChunk
  BY AreaFacts DEF EditInv, Edits!Content
<1>2. /\ ePhase[p] = "generate" /\ c \in eCoords[p] /\ eResult[p][c] = NoChunk
      /\ eStored' = [eStored EXCEPT ![c] = {}]
      /\ eResult' = [eResult EXCEPT ![p][c] = {}]
      /\ UNCHANGED <<eShown, ePhase, eCoords, eRequests, ePlace, eEditing, eUntold,
                     eShared, eOutrun>>
  BY DEF Edits!SaveGenerated, Edits!history
<1>3. /\ \A d \in Area : eStored'[d] = IF d = c THEN {} ELSE eStored[d]
      /\ \A q \in Player, d \in Area :
            eResult'[q][d] = IF q = p /\ d = c THEN {} ELSE eResult[q][d]
  BY <1>1, <1>2, EditTypes
<1>4. c \notin eShared => eStored[c] = NoChunk
  BY <1>2 DEF EditInv, NotYet
<1>5. c \notin eShared => \A q \in Player : eShown[q][c] = NoChunk /\ eResult[q][c] = NoChunk
  BY <1>4 DEF EditInv, InStore
<1>6. c \notin eShared => \A e \in Edit : ePlace[e] # c
  BY <1>4, AreaFacts DEF EditInv, InStore
<1>7. Edits!TypeOK'
  <2>1. eResult' \in [Player -> [Area -> Edits!Maybe]] /\ eStored' \in [Area -> Edits!Maybe]
    BY <1>1, <1>2, EditTypes DEF Edits!Maybe
  <2> QED
    BY <1>1, <1>2, <1>3, <2>1 DEF Edits!TypeOK
<1>8. Apart'
  BY <1>2 DEF EditInv, Apart
<1>9. InStore'
  BY <1>1, <1>2, <1>3, EditTypes DEF EditInv, InStore
<1>10. NotYet'
  <2> SUFFICES ASSUME NEW q \in Player, NEW d \in Area, ePhase[q] = "generate", d \in eCoords[q],
                      eResult'[q][d] = NoChunk, d \notin eShared
               PROVE  eStored'[d] = NoChunk
    BY <1>2 DEF NotYet
  <2>1. CASE d # c
    BY <1>3, <2>1 DEF EditInv, NotYet
  <2>2. CASE d = c
    BY <1>1, <1>2, <1>3, <2>2 DEF EditInv, Apart
  <2> QED
    BY <2>1, <2>2
<1>11. EditsStored'
  BY <1>1, <1>2, <1>3, <1>4, EditTypes DEF EditInv, EditsStored
<1>12. ChunkEditsSurvive'
  BY <1>1, <1>2, <1>3, <1>6, EditTypes
  DEF EditInv, ChunkEditsSurvive, Edits!EditsSurvive
<1>13. Current'
  <2> SUFFICES ASSUME NEW q \in Player, NEW d \in Area, d \notin eShared, <<q, d>> \notin eOutrun
               PROVE  /\ eShown[q][d] # NoChunk => eStored'[d] = eShown[q][d] \cup Untold(q, d)
                      /\ Read(q) /\ d \in eCoords[q] /\ eResult'[q][d] # NoChunk
                         => eResult'[q][d] = eStored'[d]
    BY <1>2 DEF Current, Untold, Read
  <2>1. CASE d # c
    BY <1>3, <2>1 DEF EditInv, Current
  <2>2. CASE d = c
    BY <1>3, <1>5, <2>2
  <2> QED
    BY <2>1, <2>2
<1> QED
  BY <1>7, <1>8, <1>9, <1>10, <1>11, <1>12, <1>13 DEF EditInv

LEMMA HandOverKeeps == \A p \in Player : EditInv /\ Edits!HandOver(p) => EditInv'
<1> SUFFICES ASSUME NEW p \in Player, EditInv, Edits!HandOver(p) PROVE EditInv'
  OBVIOUS
<1>1. Edits!TypeOK
  BY DEF EditInv
<1>2. /\ ePhase[p] = "generate" /\ \A c \in eCoords[p] : eResult[p][c] # NoChunk
      /\ ePhase' = [ePhase EXCEPT ![p] = "send"]
      /\ UNCHANGED <<eStored, eShown, eCoords, eResult, eRequests, ePlace, eEditing, eUntold,
                     eShared, eOutrun>>
  BY DEF Edits!HandOver, Edits!history
<1>3. ePhase'[p] = "send" /\ \A q \in Player : q # p => ePhase'[q] = ePhase[q]
  BY <1>1, <1>2, EditTypes
<1>4. Edits!TypeOK'
  <2>1. ePhase' \in [Player -> {"idle", "load", "generate", "send"}]
    BY <1>1, <1>2, EditTypes
  <2> QED
    BY <1>1, <1>2, <1>3, <2>1 DEF Edits!TypeOK
<1>5. Apart' /\ InStore'
  BY <1>2, <1>3 DEF EditInv, Apart, InStore
<1>6. NotYet' /\ EditsStored'
  BY <1>2, <1>3 DEF EditInv, NotYet, EditsStored
<1>7. ChunkEditsSurvive'
  BY <1>2, EditsSurviveIf DEF EditInv
<1>8. Current'
  BY <1>2, <1>3 DEF EditInv, Current, Read, Untold
<1> QED
  BY <1>4, <1>5, <1>6, <1>7, <1>8 DEF EditInv

LEMMA EndJobKeeps == \A p \in Player : EditInv /\ Edits!EndJob(p) => EditInv'
<1> SUFFICES ASSUME NEW p \in Player, EditInv, Edits!EndJob(p) PROVE EditInv'
  OBVIOUS
<1>1. Edits!TypeOK
  BY DEF EditInv
<1>2. /\ eCoords[p] = {}
      /\ ePhase' = [ePhase EXCEPT ![p] = "idle"]
      /\ UNCHANGED <<eStored, eShown, eCoords, eResult, eRequests, ePlace, eEditing, eUntold,
                     eShared, eOutrun>>
  BY DEF Edits!EndJob, Edits!history
<1>3. ePhase'[p] = "idle" /\ \A q \in Player : q # p => ePhase'[q] = ePhase[q]
  BY <1>1, <1>2, EditTypes
<1>4. Edits!TypeOK'
  <2>1. ePhase' \in [Player -> {"idle", "load", "generate", "send"}]
    BY <1>1, <1>2, EditTypes
  <2> QED
    BY <1>1, <1>2, <1>3, <2>1 DEF Edits!TypeOK
<1>5. Apart' /\ InStore'
  BY <1>2, <1>3 DEF EditInv, Apart, InStore
<1>6. NotYet' /\ EditsStored'
  BY <1>2, <1>3 DEF EditInv, NotYet, EditsStored
<1>7. ChunkEditsSurvive'
  BY <1>2, EditsSurviveIf DEF EditInv
<1>8. Current'
  BY <1>2, <1>3 DEF EditInv, Current, Read, Untold
<1> QED
  BY <1>4, <1>5, <1>6, <1>7, <1>8 DEF EditInv

\* A chunk that is shown is stored: the job has it from there or has put it there.
LEMMA SendKeeps == \A p \in Player, c \in Area : EditInv /\ Edits!Send(p, c) => EditInv'
<1> SUFFICES ASSUME NEW p \in Player, NEW c \in Area, EditInv, Edits!Send(p, c) PROVE EditInv'
  OBVIOUS
<1>1. Edits!TypeOK
  BY DEF EditInv
<1>2. /\ ePhase[p] = "send" /\ c \in eCoords[p]
      /\ eShown' = [eShown EXCEPT ![p][c] = eResult[p][c]]
      /\ eCoords' = [eCoords EXCEPT ![p] = @ \ {c}]
      /\ UNCHANGED <<eStored, ePhase, eResult, eRequests, ePlace, eEditing, eUntold,
                     eShared, eOutrun>>
  BY DEF Edits!Send, Edits!history
<1>3. /\ \A q \in Player, d \in Area :
            eShown'[q][d] = IF q = p /\ d = c THEN eResult[p][c] ELSE eShown[q][d]
      /\ \A q \in Player : eCoords'[q] = IF q = p THEN eCoords[p] \ {c} ELSE eCoords[q]
  BY <1>1, <1>2, EditTypes
<1>4. Edits!TypeOK'
  <2>1. /\ eShown' \in [Player -> [Area -> Edits!Maybe]]
        /\ eCoords' \in [Player -> SUBSET Area]
    BY <1>1, <1>2, EditTypes
  <2> QED
    BY <1>1, <1>2, <1>3, <2>1 DEF Edits!TypeOK
<1>5. Apart' /\ InStore'
  BY <1>2, <1>3 DEF EditInv, Apart, InStore
<1>6. NotYet' /\ EditsStored'
  BY <1>2, <1>3 DEF EditInv, NotYet, EditsStored
<1>7. ChunkEditsSurvive'
  BY <1>2, EditsSurviveIf DEF EditInv
<1>8. Current'
  <2> SUFFICES ASSUME NEW q \in Player, NEW d \in Area, d \notin eShared, <<q, d>> \notin eOutrun
               PROVE  /\ eShown'[q][d] # NoChunk => eStored[d] = eShown'[q][d] \cup Untold(q, d)
                      /\ Read(q) /\ d \in eCoords'[q] /\ eResult[q][d] # NoChunk
                         => eResult[q][d] = eStored[d]
    BY <1>2 DEF Current, Untold, Read
  <2>1. CASE ~(q = p /\ d = c)
    BY <1>3, <2>1 DEF EditInv, Current
  <2>2. CASE q = p /\ d = c
    <3>1. eResult[p][c] # NoChunk
      BY <1>1, <1>2 DEF Edits!TypeOK
    <3>2. eResult[p][c] = eStored[c]
      BY <1>2, <2>2, <3>1 DEF EditInv, Current, Read
    <3>3. Untold(p, c) \subseteq eStored[c]
      BY <2>2, AreaFacts DEF EditInv, ChunkEditsSurvive, Edits!EditsSurvive, Untold
    <3> QED
      BY <1>2, <1>3, <2>2, <3>2, <3>3
  <2> QED
    BY <2>1, <2>2
<1> QED
  BY <1>4, <1>5, <1>6, <1>7, <1>8 DEF EditInv

LEMMA UnloadKeeps == \A p \in Player, c \in Area : EditInv /\ Edits!Unload(p, c) => EditInv'
<1> SUFFICES ASSUME NEW p \in Player, NEW c \in Area, EditInv, Edits!Unload(p, c) PROVE EditInv'
  OBVIOUS
<1>1. Edits!TypeOK
  BY DEF EditInv
<1>2. /\ eShown' = [eShown EXCEPT ![p][c] = NoChunk]
      /\ UNCHANGED <<eStored, ePhase, eCoords, eResult, eRequests, ePlace, eEditing, eUntold,
                     eShared, eOutrun>>
  BY DEF Edits!Unload, Edits!history, Edits!job
<1>3. \A q \in Player, d \in Area :
            eShown'[q][d] = IF q = p /\ d = c THEN NoChunk ELSE eShown[q][d]
  BY <1>1, <1>2, EditTypes
<1>4. Edits!TypeOK'
  <2>1. eShown' \in [Player -> [Area -> Edits!Maybe]]
    BY <1>1, <1>2, EditTypes DEF Edits!Maybe
  <2> QED
    BY <1>1, <1>2, <2>1 DEF Edits!TypeOK
<1>5. Apart' /\ InStore'
  BY <1>2, <1>3 DEF EditInv, Apart, InStore
<1>6. NotYet' /\ EditsStored'
  BY <1>2 DEF EditInv, NotYet, EditsStored
<1>7. ChunkEditsSurvive'
  BY <1>2, EditsSurviveIf DEF EditInv
<1>8. Current'
  BY <1>2, <1>3 DEF EditInv, Current, Read, Untold
<1> QED
  BY <1>4, <1>5, <1>6, <1>7, <1>8 DEF EditInv

LEMMA EditLoadKeeps ==
    \A p \in Player, c \in Area, e \in Edit : EditInv /\ Edits!EditLoad(p, c, e) => EditInv'
<1> SUFFICES ASSUME NEW p \in Player, NEW c \in Area, NEW e \in Edit, EditInv,
                    Edits!EditLoad(p, c, e)
             PROVE  EditInv'
  OBVIOUS
<1>1. Edits!TypeOK
  BY DEF EditInv
<1>2. eStored[c] # NoChunk
  BY DEF EditInv, InStore, Edits!EditLoad
<1>3. /\ ePlace[e] = NoChunk /\ eEditing' = <<e, c, eStored[c]>>
      /\ UNCHANGED <<eStored, eShown, ePhase, eCoords, eResult, eRequests, ePlace, eUntold,
                     eShared, eOutrun>>
  BY <1>2 DEF Edits!EditLoad, Edits!history, Edits!job
<1>4. eStored[c] \in Edits!Content
  BY <1>1, <1>2, EditTypes, AreaFacts
<1>5. Edits!TypeOK'
  <2>1. eEditing' \in Edit \X Area \X Edits!Content
    BY <1>3, <1>4
  <2> QED
    BY <1>1, <1>3, <2>1 DEF Edits!TypeOK
<1>6. Apart' /\ InStore' /\ NotYet'
  BY <1>3 DEF EditInv, Apart, InStore, NotYet
<1>7. EditsStored'
  BY <1>2, <1>3 DEF EditsStored
<1>8. ChunkEditsSurvive'
  BY <1>3, EditsSurviveIf DEF EditInv
<1>9. Current'
  BY <1>3 DEF EditInv, Current, Read, Untold
<1> QED
  BY <1>5, <1>6, <1>7, <1>8, <1>9 DEF EditInv

LEMMA EditSaveKeeps == EditInv /\ Edits!EditSave => EditInv'
<1> SUFFICES ASSUME EditInv, Edits!EditSave PROVE EditInv'
  OBVIOUS
<1> DEFINE e == eEditing[1]
           c == eEditing[2]
           content == eEditing[3] \cup {e}
<1>1. Edits!TypeOK
  BY DEF EditInv
<1>2. /\ eEditing # <<>> /\ eEditing' = <<>>
      /\ eStored' = [eStored EXCEPT ![c] = content]
      /\ ePlace' = [ePlace EXCEPT ![e] = c]
      /\ eUntold' = [eUntold EXCEPT ![e] = Player]
      /\ eOutrun' = eOutrun \cup {<<q, c>> : q \in Edits!Reading(c)}
      /\ UNCHANGED <<eShown, ePhase, eCoords, eResult, eRequests, eShared>>
  BY DEF Edits!EditSave, Edits!job
<1>3. /\ e \in Edit /\ c \in Area /\ content \in Edits!Content /\ content # NoChunk
      /\ ePlace[e] = NoChunk /\ c # NoChunk
      /\ eStored[c] # NoChunk
      /\ c \notin eShared => content = eStored[c] \cup {e}
  BY <1>1, <1>2, EditTypes, AreaFacts DEF EditInv, EditsStored, Edits!Content
<1> HIDE DEF e, c, content
<1>4. /\ \A d \in Area : eStored'[d] = IF d = c THEN content ELSE eStored[d]
      /\ \A f \in Edit : /\ ePlace'[f] = IF f = e THEN c ELSE ePlace[f]
                         /\ eUntold'[f] = IF f = e THEN Player ELSE eUntold[f]
  BY <1>1, <1>2, <1>3, EditTypes
<1>5. Edits!TypeOK'
  <2>1. /\ eStored' \in [Area -> Edits!Maybe]
        /\ ePlace' \in [Edit -> Area \cup {NoChunk}]
        /\ eUntold' \in [Edit -> SUBSET Player]
    BY <1>1, <1>2, <1>3, EditTypes DEF Edits!Maybe
  <2>2. eOutrun' \subseteq Player \X Area
    BY <1>1, <1>2, <1>3 DEF Edits!TypeOK, Edits!Reading
  <2> QED
    BY <1>1, <1>2, <2>1, <2>2 DEF Edits!TypeOK
<1>6. Apart'
  BY <1>2 DEF EditInv, Apart
<1>7. InStore'
  BY <1>1, <1>2, <1>3, <1>4, EditTypes DEF EditInv, InStore
<1>8. NotYet'
  BY <1>2, <1>3, <1>4 DEF EditInv, NotYet
<1>9. EditsStored'
  BY <1>2 DEF EditsStored
<1>10. ChunkEditsSurvive'
  <2> SUFFICES ASSUME NEW f \in Edit, ePlace'[f] \notin eShared \cup {NoChunk}
               PROVE  eStored'[ePlace'[f]] # NoChunk /\ f \in eStored'[ePlace'[f]]
    BY <1>2 DEF ChunkEditsSurvive, Edits!EditsSurvive
  <2>1. CASE f = e
    BY <1>3, <1>4, <2>1 DEF content
  <2>2. CASE f # e
    <3>1. ePlace'[f] = ePlace[f] /\ ePlace[f] \in Area
      BY <1>1, <1>4, <2>2, EditTypes
    <3>2. eStored[ePlace[f]] # NoChunk /\ f \in eStored[ePlace[f]]
      BY <3>1 DEF EditInv, ChunkEditsSurvive, Edits!EditsSurvive
    <3> QED
      BY <1>3, <1>4, <3>1, <3>2
  <2> QED
    BY <2>1, <2>2
<1>11. Current'
  <2> SUFFICES ASSUME NEW q \in Player, NEW d \in Area, d \notin eShared, <<q, d>> \notin eOutrun'
               PROVE  /\ eShown[q][d] # NoChunk => eStored'[d] = eShown[q][d] \cup Untold(q, d)'
                      /\ Read(q) /\ d \in eCoords[q] /\ eResult[q][d] # NoChunk
                         => eResult[q][d] = eStored'[d]
    BY <1>2 DEF Current, Read
  <2>1. <<q, d>> \notin eOutrun
    BY <1>2
  <2>2. CASE d # c
    <3>1. Untold(q, d)' = Untold(q, d)
      BY <1>3, <1>4, <2>2, AreaFacts DEF Untold
    <3> QED
      BY <1>4, <2>1, <2>2, <3>1 DEF EditInv, Current
  <2>3. CASE d = c
    <3>1. Untold(q, d)' = Untold(q, d) \cup {e}
      BY <1>3, <1>4, <2>3 DEF Untold
    <3>2. ~(Read(q) /\ d \in eCoords[q])
      BY <1>2, <2>3 DEF Edits!Reading, Read
    <3>3. eStored'[d] = eStored[d] \cup {e}
      BY <1>3, <1>4, <2>3
    <3>4. eShown[q][d] # NoChunk => eStored[d] = eShown[q][d] \cup Untold(q, d)
      BY <2>1 DEF EditInv, Current
    <3> QED
      BY <3>1, <3>2, <3>3, <3>4
  <2> QED
    BY <2>2, <2>3
<1> QED
  BY <1>5, <1>6, <1>7, <1>8, <1>9, <1>10, <1>11 DEF EditInv

LEMMA TellKeeps == \A p \in Player, e \in Edit : EditInv /\ Edits!Tell(p, e) => EditInv'
<1> SUFFICES ASSUME NEW p \in Player, NEW e \in Edit, EditInv, Edits!Tell(p, e) PROVE EditInv'
  OBVIOUS
<1> DEFINE c == ePlace[e]
<1>1. Edits!TypeOK
  BY DEF EditInv
<1>2. /\ eUntold' = [eUntold EXCEPT ![e] = @ \ {p}]
      /\ eShown' = IF eShown[p][c] = NoChunk THEN eShown
                   ELSE [eShown EXCEPT ![p][c] = @ \cup {e}]
      /\ UNCHANGED <<eStored, ePhase, eCoords, eResult, eRequests, ePlace, eEditing,
                     eShared, eOutrun>>
  BY DEF Edits!Tell, Edits!history, Edits!job
<1> HIDE DEF c
<1>3. /\ \A f \in Edit : eUntold'[f] = IF f = e THEN eUntold[e] \ {p} ELSE eUntold[f]
      /\ \A q \in Player, d \in Area :
            eShown'[q][d] = IF q = p /\ d = c /\ eShown[p][c] # NoChunk
                            THEN eShown[p][c] \cup {e} ELSE eShown[q][d]
  BY <1>1, <1>2, EditTypes
<1>4. \A d \in Area : eShown[p][d] # NoChunk => eShown[p][d] \cup {e} \in Edits!Content
  BY <1>1, EditTypes, AreaFacts DEF Edits!Content
<1>5. /\ eShown' \in [Player -> [Area -> Edits!Maybe]]
      /\ eUntold' \in [Edit -> SUBSET Player]
  <2>1. eUntold' \in [Edit -> SUBSET Player]
    BY <1>1, <1>2, EditTypes
  <2>2. CASE eShown[p][c] # NoChunk /\ c \in Area
    BY <1>1, <1>2, <1>4, <2>2, EditTypes, AreaFacts
  <2>3. CASE c \notin Area \/ eShown[p][c] = NoChunk
    BY <1>1, <1>2, <2>3, EditTypes
  <2> QED
    BY <2>1, <2>2, <2>3
<1>6. Edits!TypeOK'
  BY <1>1, <1>2, <1>5 DEF Edits!TypeOK
<1>7. Apart' /\ NotYet' /\ EditsStored'
  BY <1>2 DEF EditInv, Apart, NotYet, EditsStored
<1>8. InStore'
  BY <1>2, <1>3 DEF EditInv, InStore
<1>9. ChunkEditsSurvive'
  BY <1>2, EditsSurviveIf DEF EditInv
<1>10. Current'
  <2> SUFFICES ASSUME NEW q \in Player, NEW d \in Area, d \notin eShared, <<q, d>> \notin eOutrun
               PROVE  /\ eShown'[q][d] # NoChunk => eStored[d] = eShown'[q][d] \cup Untold(q, d)'
                      /\ Read(q) /\ d \in eCoords[q] /\ eResult[q][d] # NoChunk
                         => eResult[q][d] = eStored[d]
    BY <1>2 DEF Current, Read
  <2>1. /\ eShown[q][d] # NoChunk => eStored[d] = eShown[q][d] \cup Untold(q, d)
        /\ Read(q) /\ d \in eCoords[q] /\ eResult[q][d] # NoChunk => eResult[q][d] = eStored[d]
    BY DEF EditInv, Current
  <2>2. CASE ~(q = p /\ d = c)
    <3>1. Untold(q, d)' = Untold(q, d)
      BY <1>2, <1>3, <2>2 DEF Untold, c
    <3> QED
      BY <1>3, <2>1, <2>2, <3>1
  <2>3. CASE q = p /\ d = c
    <3>1. Untold(q, d)' = Untold(q, d) \ {e}
      BY <1>2, <1>3, <2>3 DEF Untold
    <3>2. e \in eStored[d]
      BY <2>3, AreaFacts DEF EditInv, ChunkEditsSurvive, Edits!EditsSurvive, c
    <3>3. eShown'[q][d] = IF eShown[q][d] = NoChunk THEN NoChunk ELSE eShown[q][d] \cup {e}
      BY <1>3, <2>3
    <3> QED
      BY <2>1, <3>1, <3>2, <3>3
  <2> QED
    BY <2>2, <2>3
<1> QED
  BY <1>6, <1>7, <1>8, <1>9, <1>10 DEF EditInv

LEMMA EditsNext == EditInv /\ [Edits!Next]_(Edits!vars) => EditInv'
<1> SUFFICES ASSUME EditInv, [Edits!Next]_(Edits!vars) PROVE EditInv'
  OBVIOUS
<1>1. CASE UNCHANGED Edits!vars
  <2>1. UNCHANGED <<eStored, eShown, ePhase, eCoords, eResult, eRequests, ePlace, eEditing,
                    eUntold, eShared, eOutrun>>
    BY <1>1 DEF Edits!vars, Edits!job, Edits!history
  <2>2. Edits!TypeOK' /\ Apart' /\ InStore' /\ NotYet' /\ EditsStored'
    BY <2>1 DEF EditInv, Edits!TypeOK, Apart, InStore, NotYet, EditsStored
  <2>3. ChunkEditsSurvive'
    BY <2>1, EditsSurviveIf DEF EditInv
  <2>4. Current'
    BY <2>1 DEF EditInv, Current, Read, Untold
  <2> QED
    BY <2>2, <2>3, <2>4 DEF EditInv
<1> QED
  BY <1>1, RequestKeeps, LoadKeeps, LoadAgainKeeps, SaveGeneratedKeeps, HandOverKeeps,
     EndJobKeeps, SendKeeps, UnloadKeeps, EditLoadKeeps, EditSaveKeeps, TellKeeps
  DEF Edits!Next

LEMMA EditInvariant == Edits!Spec => []EditInv
BY EditsInit, EditsNext, PTL DEF Edits!Spec

\* No block change is lost to a chunk that is generated, but where two jobs were at
\* work on the same chunk.
THEOREM NoEditLost == Edits!Spec => []ChunkEditsSurvive
<1>1. EditInv => ChunkEditsSurvive
  BY DEF EditInv
<1> QED
  BY EditInvariant, <1>1, PTL

\* When all is sent and told, clients show the chunks they have as they are stored,
\* but for the two races the property names.
THEOREM ViewsCurrent == Edits!Spec => []ChunkViewIsCurrent
<1>1. EditInv => ChunkViewIsCurrent
  <2> SUFFICES ASSUME EditInv, \A e \in Edit : eUntold[e] = {},
                      NEW p \in Player, NEW c \in Area,
                      eShown[p][c] # NoChunk, c \notin eShared, <<p, c>> \notin eOutrun
               PROVE  eShown[p][c] = eStored[c]
    BY DEF ChunkViewIsCurrent, Edits!ViewIsCurrent
  <2>1. Untold(p, c) = {}
    BY DEF Untold
  <2>2. eStored[c] = eShown[p][c] \cup Untold(p, c)
    BY DEF EditInv, Current
  <2> QED
    BY <2>1, <2>2
<1> QED
  BY EditInvariant, <1>1, PTL

-------------------------------------------------------------------------------
(* Fluids: what flows is looked at again, clients are told, sources stay.  *)

Spot == Int \X Int \X Int

\* The record of a tick.
FlowWork == [block : [Cells -> Flow!Blocks], later : Seq(Cells \X (Nat \ {0})),
             changed : SUBSET Cells, processed : SUBSET Cells, silent : SUBSET Spot]

LEMMA CardinalityIs == \A S : Flow!Cardinality(S) = Cardinality(S)
BY DEF Flow!Cardinality, Cardinality

LEMMA FlowFacts ==
    /\ Cells \subseteq Spot
    /\ Worlds \subseteq [Cells -> Flow!Blocks] /\ Diggable \subseteq Cells
    /\ Kinds \subseteq Flow!Fluid \cup {"stone"}
    /\ Reach \in [Flow!Fluid -> 1..7] /\ Speed \in [Flow!Fluid -> Nat \ {0}]
    /\ MaxEdits \in Nat
BY FlowAssumption DEF Flow!FluidsAssumption, Spot, Flow!Falling

\* Blocks are records of a kind and a level; only fluids have levels from 0.
LEMMA BlockFacts ==
    /\ \A b \in Flow!Blocks : b.level \in -1..8 /\ b = [kind |-> b.kind, level |-> b.level]
    /\ \A b \in Flow!Blocks : Flow!IsFluid(b) => b.level \in 0..8
    /\ \A b \in Flow!Blocks : ~Flow!IsFluid(b) => b.level = -1
    /\ \A k \in {"air", "stone", "cobblestone", "obsidian"} :
          Flow!Solid(k) \in Flow!Blocks /\ ~Flow!IsFluid(Flow!Solid(k)) /\ Flow!Solid(k).kind = k
             /\ Flow!Solid(k).level = -1
    /\ \A f \in Flow!Fluid, n \in 0..8 :
          /\ Flow!FlowingOf(f, n) \in Flow!Blocks /\ Flow!IsFluid(Flow!FlowingOf(f, n))
          /\ Flow!FlowingOf(f, n).kind = f /\ Flow!FlowingOf(f, n).level = n
    /\ Flow!Air \in Flow!Blocks /\ ~Flow!IsFluid(Flow!Air) /\ Flow!Air.kind = "air"
    /\ Flow!WaterSource \in Flow!Blocks /\ Flow!IsFluid(Flow!WaterSource)
    /\ Flow!WaterSource.level = 0 /\ Flow!WaterSource.kind = "water"
    /\ \A k \in Flow!Made : k \notin Flow!Fluid /\ k # "air"
BY DEF Flow!Blocks, Flow!IsFluid, Flow!Solid, Flow!FlowingOf, Flow!Fluid, Flow!Falling, Flow!Air,
       Flow!WaterSource, Flow!Made

\* A neighbour is another cell, and neighbours are neighbours of each other.
LEMMA Neighbours ==
    ASSUME NEW c \in Spot, NEW d \in Spot
    PROVE  /\ \A x, y, z \in -1..1 : Flow!Shift(c, x, y, z) \in Spot
           /\ Flow!Below(c) \in Spot /\ Flow!Above(c) \in Spot
           /\ Flow!Below(c) # c /\ Flow!Above(c) # c
           /\ Flow!Shift(c, 1, 0, 0) # c /\ Flow!Shift(c, -1, 0, 0) # c
           /\ Flow!Shift(c, 0, 0, 1) # c /\ Flow!Shift(c, 0, 0, -1) # c
           /\ Flow!Around(c) \subseteq Cells /\ c \notin Flow!Around(c)
           /\ Flow!Beside(c) \subseteq Flow!Around(c)
           /\ c \in Cells /\ d \in Flow!Around(c) => c \in Flow!Around(d)
<1>1. PICK a, b, e \in Int : c = <<a, b, e>>
  BY DEF Spot
<1>2. PICK i, j, k \in Int : d = <<i, j, k>>
  BY DEF Spot
<1>3. \A x, y, z \in -1..1 : Flow!Shift(c, x, y, z) = <<a + x, b + y, e + z>>
  BY <1>1 DEF Flow!Shift
<1>4. \A x, y, z \in -1..1 : Flow!Shift(d, x, y, z) = <<i + x, j + y, k + z>>
  BY <1>2 DEF Flow!Shift
<1>5. {1, 0, -1} \subseteq -1..1
  OBVIOUS
<1>6. \A x, y, z \in -1..1 : Flow!Shift(c, x, y, z) \in Spot
  BY <1>3 DEF Spot
<1>7. c \in Cells /\ d \in Flow!Around(c) => c \in Flow!Around(d)
  <2> SUFFICES ASSUME c \in Cells, d \in Flow!Around(c) PROVE c \in Flow!Around(d)
    OBVIOUS
  <2>1. d \in {<<a + 1, b, e>>, <<a - 1, b, e>>, <<a, b, e + 1>>, <<a, b, e - 1>>,
               <<a, b + 1, e>>, <<a, b - 1, e>>}
    BY <1>3, <1>5 DEF Flow!Around, Flow!Beside, Flow!Above, Flow!Below
  <2>2. c \in {<<i + 1, j, k>>, <<i - 1, j, k>>, <<i, j, k + 1>>, <<i, j, k - 1>>,
               <<i, j + 1, k>>, <<i, j - 1, k>>}
    BY <1>1, <1>2, <2>1
  <2>3. /\ Flow!Shift(d, 1, 0, 0) = <<i + 1, j, k>> /\ Flow!Shift(d, -1, 0, 0) = <<i - 1, j, k>>
        /\ Flow!Shift(d, 0, 0, 1) = <<i, j, k + 1>> /\ Flow!Shift(d, 0, 0, -1) = <<i, j, k - 1>>
        /\ Flow!Above(d) = <<i, j + 1, k>> /\ Flow!Below(d) = <<i, j - 1, k>>
    BY <1>4, <1>5 DEF Flow!Above, Flow!Below
  <2> QED
    BY <2>2, <2>3 DEF Flow!Around, Flow!Beside
<1>8. /\ Flow!Below(c) = <<a, b - 1, e>> /\ Flow!Above(c) = <<a, b + 1, e>>
      /\ Flow!Shift(c, 1, 0, 0) = <<a + 1, b, e>> /\ Flow!Shift(c, -1, 0, 0) = <<a - 1, b, e>>
      /\ Flow!Shift(c, 0, 0, 1) = <<a, b, e + 1>> /\ Flow!Shift(c, 0, 0, -1) = <<a, b, e - 1>>
  BY <1>3, <1>5 DEF Flow!Above, Flow!Below
<1>9. /\ Flow!Below(c) # c /\ Flow!Above(c) # c
      /\ Flow!Shift(c, 1, 0, 0) # c /\ Flow!Shift(c, -1, 0, 0) # c
      /\ Flow!Shift(c, 0, 0, 1) # c /\ Flow!Shift(c, 0, 0, -1) # c
  BY <1>1, <1>8
<1>10. Flow!Below(c) \in Spot /\ Flow!Above(c) \in Spot
  BY <1>8 DEF Spot
<1> QED
  BY <1>6, <1>7, <1>9, <1>10 DEF Flow!Around, Flow!Beside

\* The cells that are looked at in later ticks.
LaterOf(w) == {w.later[i][1] : i \in 1..Len(w.later)}

LEMMA PutIs ==
    ASSUME NEW w \in FlowWork, NEW c \in Cells, NEW b \in Flow!Blocks
    PROVE  /\ Flow!Put(w, c, b) \in FlowWork
           /\ Flow!Put(w, c, b).block = [w.block EXCEPT ![c] = b]
           /\ Flow!Put(w, c, b).later = w.later
           /\ Flow!Put(w, c, b).changed = w.changed \cup {c}
           /\ Flow!Put(w, c, b).processed = w.processed
           /\ Flow!Put(w, c, b).silent = w.silent
BY DEF Flow!Put, FlowWork

LEMMA ScheduleIs ==
    ASSUME NEW w \in FlowWork, NEW c \in Cells, NEW f \in Flow!Fluid
    PROVE  LET u == Flow!Schedule(w, c, f) IN
           /\ u \in FlowWork /\ LaterOf(u) = LaterOf(w) \cup {c}
           /\ u.block = w.block /\ u.changed = w.changed /\ u.processed = w.processed
           /\ u.silent = w.silent
<1> DEFINE u == Flow!Schedule(w, c, f)
<1>1. Speed[f] \in Nat \ {0}
  BY FlowFacts
<1>2. w.later \in Seq(Cells \X (Nat \ {0}))
  BY DEF FlowWork
<1>3. <<c, Speed[f]>> \in Cells \X (Nat \ {0}) /\ <<c, Speed[f]>>[1] = c
  BY <1>1
<1>4. u.later = Append(w.later, <<c, Speed[f]>>)
  BY DEF FlowWork, Flow!Schedule
<1>5. /\ u.block = w.block /\ u.changed = w.changed /\ u.processed = w.processed
      /\ u.silent = w.silent
  BY DEF FlowWork, Flow!Schedule
<1>6. u.later \in Seq(Cells \X (Nat \ {0}))
  BY <1>2, <1>3, <1>4, AppendProperties
<1>7. u \in FlowWork
  BY <1>6 DEF FlowWork, Flow!Schedule
<1>8. /\ Len(w.later) \in Nat /\ Len(u.later) = Len(w.later) + 1
      /\ u.later[Len(w.later) + 1] = <<c, Speed[f]>>
      /\ \A i \in 1..Len(w.later) : u.later[i] = w.later[i]
  BY <1>2, <1>3, <1>4, AppendProperties, LenProperties
<1> HIDE DEF u
<1>9. LaterOf(u) = LaterOf(w) \cup {c}
  <2>1. \A i \in 1..Len(w.later) + 1 : i \in 1..Len(w.later) \/ i = Len(w.later) + 1
    BY <1>8
  <2>2. \A i \in 1..Len(w.later) : i \in 1..Len(w.later) + 1
    BY <1>8
  <2>3. Len(w.later) + 1 \in 1..Len(w.later) + 1
    BY <1>8
  <2>4. ASSUME NEW x \in LaterOf(u) PROVE x \in LaterOf(w) \cup {c}
    <3>1. PICK i \in 1..Len(w.later) + 1 : x = u.later[i][1]
      BY <1>8, <2>4 DEF LaterOf
    <3> QED
      BY <1>3, <1>8, <2>1, <3>1 DEF LaterOf
  <2>5. ASSUME NEW x \in LaterOf(w) PROVE x \in LaterOf(u)
    <3>1. PICK i \in 1..Len(w.later) : x = w.later[i][1]
      BY <2>5 DEF LaterOf
    <3> QED
      BY <1>8, <2>2, <3>1 DEF LaterOf
  <2>6. c \in LaterOf(u)
    BY <1>3, <1>8, <2>3 DEF LaterOf
  <2> QED
    BY <2>4, <2>5, <2>6
<1> QED
  BY <1>5, <1>7, <1>9 DEF u

LEMMA SilentIs ==
    ASSUME NEW w \in FlowWork, NEW S \in SUBSET Spot
    PROVE  LET u == Flow!Silent(w, S) IN
           /\ u \in FlowWork /\ u.silent = w.silent \cup S
           /\ u.block = w.block /\ u.later = w.later /\ u.changed = w.changed
           /\ u.processed = w.processed
BY DEF Flow!Silent, FlowWork

\* What should dry up and nobody is going to look at.
Unattended(w) == Flow!Unfed(w.block) \ (LaterOf(w) \cup w.silent)

\* Beside c are two sources, or what reactions have left of them since the world was a.
Pair(a, b, c) == {s \in Flow!Beside(c) :
    b[s] = Flow!WaterSource \/ (b[s] # a[s] /\ b[s].kind \in Flow!Made)}

\* From world a to world b the flow takes no source away but by reactions, and makes
\* one only beside two.
Kept(a, b) == \A c \in Cells :
    /\ a[c].kind \in Flow!Made => b[c] = a[c]
    /\ a[c].level = 0 => b[c] = a[c] \/ b[c].kind \in Flow!Made
    /\ b[c].level = 0 /\ b[c] # a[c] =>
          b[c] = Flow!WaterSource /\ Cardinality(Pair(a, b, c)) >= 2

\* A part of a tick leads from w to u: what it leaves unattended was so before.
Goes(w, u) ==
    /\ u \in FlowWork /\ u.processed = w.processed
    /\ Unattended(u) \subseteq Unattended(w)
    /\ w.changed \subseteq u.changed
    /\ \A c \in Cells \ u.changed : u.block[c] = w.block[c]
    /\ Kept(w.block, u.block)

LEMMA Growing ==
    ASSUME NEW c \in Cells, NEW S, NEW T, S \subseteq T, T \subseteq Flow!Beside(c),
           Cardinality(S) >= 2
    PROVE  Cardinality(T) >= 2
<1> DEFINE F == {Flow!Shift(c, 1, 0, 0), Flow!Shift(c, -1, 0, 0),
                 Flow!Shift(c, 0, 0, 1), Flow!Shift(c, 0, 0, -1)}
<1>1. IsFiniteSet(F)
  <2> DEFINE One == {} \cup {Flow!Shift(c, 1, 0, 0)}
             Two == One \cup {Flow!Shift(c, -1, 0, 0)}
             Three == Two \cup {Flow!Shift(c, 0, 0, 1)}
  <2>1. IsFiniteSet(One)
    BY FS_EmptySet, FS_AddElement
  <2>2. IsFiniteSet(Two)
    BY <2>1, FS_AddElement
  <2>3. IsFiniteSet(Three)
    BY <2>2, FS_AddElement
  <2>4. F = Three \cup {Flow!Shift(c, 0, 0, -1)}
    OBVIOUS
  <2> HIDE DEF Three, F
  <2> QED
    BY <2>3, <2>4, FS_AddElement
<1>2. T \subseteq F
  BY DEF Flow!Beside
<1> HIDE DEF F
<1>3. IsFiniteSet(T)
  BY <1>1, <1>2, FS_Subset
<1>4. IsFiniteSet(S) /\ Cardinality(S) <= Cardinality(T)
  BY <1>3, FS_Subset
<1>5. Cardinality(S) \in Nat /\ Cardinality(T) \in Nat
  BY <1>3, <1>4, FS_CardinalityType
<1> QED
  BY <1>4, <1>5

LEMMA KeptSelf == \A a : Kept(a, a)
BY DEF Kept

LEMMA KeptTwice ==
    ASSUME NEW a, NEW b, NEW e, Kept(a, b), Kept(b, e)
    PROVE  Kept(a, e)
<1> SUFFICES ASSUME NEW c \in Cells
             PROVE  /\ a[c].kind \in Flow!Made => e[c] = a[c]
                    /\ a[c].level = 0 => e[c] = a[c] \/ e[c].kind \in Flow!Made
                    /\ e[c].level = 0 /\ e[c] # a[c] =>
                          e[c] = Flow!WaterSource /\ Cardinality(Pair(a, e, c)) >= 2
  BY DEF Kept
<1>1. a[c].kind \in Flow!Made => e[c] = a[c]
  BY DEF Kept
<1>2. a[c].level = 0 => e[c] = a[c] \/ e[c].kind \in Flow!Made
  BY DEF Kept
<1>3. Flow!WaterSource.level = 0 /\ Flow!WaterSource.kind \notin Flow!Made
  BY BlockFacts DEF Flow!Fluid
<1>4. Flow!Beside(c) \subseteq Cells
  BY DEF Flow!Beside
<1>5. Pair(a, b, c) \subseteq Pair(a, e, c)
  <2> SUFFICES ASSUME NEW s \in Cells,
                      b[s] = Flow!WaterSource \/ (b[s] # a[s] /\ b[s].kind \in Flow!Made)
               PROVE  e[s] = Flow!WaterSource \/ (e[s] # a[s] /\ e[s].kind \in Flow!Made)
    BY <1>4 DEF Pair
  <2>1. CASE b[s] = Flow!WaterSource
    <3>1. e[s] = b[s] \/ e[s].kind \in Flow!Made
      BY <1>3, <2>1 DEF Kept
    <3>2. e[s].kind \in Flow!Made => e[s] # a[s]
      BY <1>3, <2>1 DEF Kept
    <3> QED
      BY <2>1, <3>1, <3>2
  <2>2. CASE b[s] # a[s] /\ b[s].kind \in Flow!Made
    BY <2>2 DEF Kept
  <2> QED
    BY <2>1, <2>2
<1>6. Pair(b, e, c) \subseteq Pair(a, e, c)
  <2> SUFFICES ASSUME NEW s \in Cells, e[s] # b[s], e[s].kind \in Flow!Made, e[s] = a[s]
               PROVE  FALSE
    BY <1>4 DEF Pair
  <2> QED
    BY DEF Kept
<1>7. ASSUME e[c].level = 0, e[c] # a[c]
      PROVE  e[c] = Flow!WaterSource /\ Cardinality(Pair(a, e, c)) >= 2
  <2>1. Pair(a, e, c) \subseteq Flow!Beside(c)
    BY DEF Pair
  <2>2. CASE e[c] = b[c]
    <3>1. e[c] = Flow!WaterSource /\ Cardinality(Pair(a, b, c)) >= 2
      BY <1>7, <2>2 DEF Kept
    <3> QED
      BY <1>5, <2>1, <3>1, Growing
  <2>3. CASE e[c] # b[c]
    <3>1. e[c] = Flow!WaterSource /\ Cardinality(Pair(b, e, c)) >= 2
      BY <1>7, <2>3 DEF Kept
    <3> QED
      BY <1>6, <2>1, <3>1, Growing
  <2> QED
    BY <2>2, <2>3
<1> QED
  BY <1>1, <1>2, <1>7

LEMMA GoesSelf == \A w \in FlowWork : Goes(w, w)
BY KeptSelf DEF Goes

LEMMA GoesTwice ==
    ASSUME NEW w, NEW u, NEW v, Goes(w, u), Goes(u, v)
    PROVE  Goes(w, v)
<1>1. Kept(w.block, v.block)
  BY KeptTwice DEF Goes
<1> QED
  BY <1>1 DEF Goes

\* A cell that has changed disturbs its neighbours and no others.
LEMMA Disturbed ==
    ASSUME NEW a \in [Cells -> Flow!Blocks], NEW d \in Cells, NEW x,
           NEW y \in Flow!Unfed([a EXCEPT ![d] = x]), y # d, y \notin Flow!Around(d)
    PROVE  y \in Flow!Unfed(a)
<1> DEFINE b == [a EXCEPT ![d] = x]
<1>1. y \in Cells /\ y \in Spot /\ d \in Spot
  BY FlowFacts DEF Flow!Unfed
<1>2. d \notin Flow!Around(y) /\ Flow!Around(y) \subseteq Cells
  BY <1>1, Neighbours
<1>3. b[y] = a[y] /\ \A s \in Flow!Around(y) : b[s] = a[s]
  BY <1>1, <1>2
<1> HIDE DEF b
<1>4. Flow!Fed(a, y) => Flow!Fed(b, y)
  BY <1>3 DEF Flow!Fed
<1>5. y \in Flow!Unfed(b)
  BY DEF b
<1> QED
  BY <1>1, <1>3, <1>4, <1>5 DEF Flow!Unfed

\* One change of the tick, with what is scheduled or put down for it.
Changes(w, u, d, b) ==
    /\ u.block = [w.block EXCEPT ![d] = b]
    /\ u.changed = w.changed \cup {d} /\ u.processed = w.processed
    /\ LaterOf(w) \subseteq LaterOf(u) /\ w.silent \subseteq u.silent
    /\ \A y \in Flow!Around(d) : Flow!IsFluid(w.block[y]) => y \in LaterOf(u) \cup u.silent
    /\ Flow!IsFluid(b) => d \in LaterOf(u)

LEMMA ChangeGoes ==
    ASSUME NEW w \in FlowWork, NEW u \in FlowWork, NEW d \in Cells, NEW b \in Flow!Blocks,
           Changes(w, u, d, b),
           w.block[d].kind \notin Flow!Made,
           w.block[d].level = 0 => b.kind \in Flow!Made,
           b.level = 0 => b = Flow!WaterSource
                          /\ Cardinality(Flow!SourcesBeside(w.block, d)) >= 2
    PROVE  Goes(w, u) /\ \A x \in Cells : x # d => u.block[x] = w.block[x]
<1>1. w.block \in [Cells -> Flow!Blocks] /\ d \in Spot
  BY FlowFacts DEF FlowWork
<1>2. u.block[d] = b /\ \A x \in Cells : x # d => u.block[x] = w.block[x]
  BY <1>1 DEF Changes
<1>3. Flow!Around(d) \subseteq Cells /\ d \notin Flow!Around(d)
      /\ Flow!Beside(d) \subseteq Flow!Around(d)
  BY <1>1, Neighbours
<1>4. Unattended(u) \subseteq Unattended(w)
  <2> SUFFICES ASSUME NEW y \in Flow!Unfed(u.block), y \notin LaterOf(u) \cup u.silent
               PROVE  y \in Unattended(w)
    BY DEF Unattended
  <2>1. y \in Cells /\ Flow!IsFluid(u.block[y])
    BY DEF Flow!Unfed
  <2>2. y # d
    BY <1>2, <2>1 DEF Changes
  <2>3. y \notin Flow!Around(d)
    BY <1>2, <2>1, <2>2 DEF Changes
  <2>4. y \in Flow!Unfed(w.block)
    BY <1>1, <2>2, <2>3, Disturbed DEF Changes
  <2> QED
    BY <2>4 DEF Unattended, Changes
<1>5. Kept(w.block, u.block)
  <2> SUFFICES ASSUME NEW x \in Cells
               PROVE  /\ w.block[x].kind \in Flow!Made => u.block[x] = w.block[x]
                      /\ w.block[x].level = 0 =>
                            u.block[x] = w.block[x] \/ u.block[x].kind \in Flow!Made
                      /\ u.block[x].level = 0 /\ u.block[x] # w.block[x] =>
                            /\ u.block[x] = Flow!WaterSource
                            /\ Cardinality(Pair(w.block, u.block, x)) >= 2
    BY DEF Kept
  <2>1. CASE x # d
    BY <1>2, <2>1
  <2>2. CASE x = d
    <3>1. Flow!SourcesBeside(w.block, d) \subseteq Pair(w.block, u.block, d)
      BY <1>2, <1>3 DEF Flow!SourcesBeside, Pair
    <3>2. Pair(w.block, u.block, d) \subseteq Flow!Beside(d)
      BY DEF Pair
    <3>3. b.level = 0 => Cardinality(Pair(w.block, u.block, d)) >= 2
      BY <3>1, <3>2, Growing
    <3> QED
      BY <1>2, <2>2, <3>3
  <2> QED
    BY <2>1, <2>2
<1> QED
  BY <1>2, <1>4, <1>5 DEF Goes, Changes

\* Around a cell only cells of the world are put down as silent.
LEMMA SilentAround ==
    ASSUME NEW d \in Cells
    PROVE  /\ Flow!Around(d) \in SUBSET Spot
           /\ {Flow!Above(d), Flow!Below(d)} \in SUBSET Spot
           /\ d \in Spot
BY FlowFacts, Neighbours

LEMMA ArriveGoes ==
    ASSUME NEW w \in FlowWork, NEW d \in Cells, NEW b \in Flow!Blocks, Flow!IsFluid(b),
           w.block[d].kind \notin Flow!Made, w.block[d].level # 0,
           b.level = 0 => b = Flow!WaterSource
                          /\ Cardinality(Flow!SourcesBeside(w.block, d)) >= 2
    PROVE  /\ Goes(w, Flow!Arrive(w, d, b))
           /\ \A x \in Cells : x # d => Flow!Arrive(w, d, b).block[x] = w.block[x]
<1> DEFINE p == Flow!Put(w, d, b)
           q == Flow!Schedule(p, d, b.kind)
           u == Flow!Silent(q, Flow!Around(d))
<1>1. /\ p \in FlowWork /\ p.block = [w.block EXCEPT ![d] = b] /\ p.later = w.later
      /\ p.changed = w.changed \cup {d} /\ p.processed = w.processed /\ p.silent = w.silent
  BY PutIs
<1>2. b.kind \in Flow!Fluid
  BY DEF Flow!IsFluid
<1> HIDE DEF p
<1>3. /\ q \in FlowWork /\ LaterOf(q) = LaterOf(p) \cup {d} /\ q.block = p.block
      /\ q.changed = p.changed /\ q.processed = p.processed /\ q.silent = p.silent
  BY <1>1, <1>2, ScheduleIs
<1> HIDE DEF q
<1>4. /\ u \in FlowWork /\ u.silent = q.silent \cup Flow!Around(d) /\ u.block = q.block
      /\ u.later = q.later /\ u.changed = q.changed /\ u.processed = q.processed
  BY <1>3, SilentAround, SilentIs
<1> HIDE DEF u
<1>5. LaterOf(p) = LaterOf(w) /\ LaterOf(u) = LaterOf(q)
  BY <1>1, <1>4 DEF LaterOf
<1>6. Changes(w, u, d, b)
  BY <1>1, <1>3, <1>4, <1>5 DEF Changes
<1>7. Goes(w, u) /\ \A x \in Cells : x # d => u.block[x] = w.block[x]
  BY <1>4, <1>6, ChangeGoes
<1>8. u = Flow!Arrive(w, d, b)
  BY DEF u, q, p, Flow!Arrive
<1> QED
  BY <1>7, <1>8

LEMMA ReactGoes ==
    ASSUME NEW w \in FlowWork, NEW d \in Cells, NEW b \in Flow!Blocks,
           Flow!IsFluid(w.block[d])
    PROVE  /\ Goes(w, Flow!React(w, d, b))
           /\ \A x \in Cells : x # d => Flow!React(w, d, b).block[x] = w.block[x]
<1> DEFINE level == IF b.kind = "water" THEN w.block[d].level ELSE b.level
           made == IF level = 0 THEN "obsidian"
                   ELSE IF b.kind = "water" THEN "cobblestone" ELSE "stone"
           s == Flow!Solid(made)
           p == Flow!Put(w, d, s)
           u == Flow!Silent(p, Flow!Around(d))
<1>1. made \in Flow!Made
  BY DEF Flow!Made
<1>2. s \in Flow!Blocks /\ ~Flow!IsFluid(s) /\ s.kind \in Flow!Made /\ s.level = -1
  <2> HIDE DEF made
  <2>1. made \in {"air", "stone", "cobblestone", "obsidian"}
    BY <1>1 DEF Flow!Made
  <2> QED
    BY <1>1, <2>1, BlockFacts
<1> HIDE DEF s
<1>3. /\ p \in FlowWork /\ p.block = [w.block EXCEPT ![d] = s] /\ p.later = w.later
      /\ p.changed = w.changed \cup {d} /\ p.processed = w.processed /\ p.silent = w.silent
  BY <1>2, PutIs
<1> HIDE DEF p
<1>4. /\ u \in FlowWork /\ u.silent = p.silent \cup Flow!Around(d) /\ u.block = p.block
      /\ u.later = p.later /\ u.changed = p.changed /\ u.processed = p.processed
  BY <1>3, SilentAround, SilentIs
<1> HIDE DEF u
<1>5. LaterOf(u) = LaterOf(w)
  BY <1>3, <1>4 DEF LaterOf
<1>6. Changes(w, u, d, s)
  BY <1>2, <1>3, <1>4, <1>5 DEF Changes
<1>7. w.block[d].kind \notin Flow!Made
  BY BlockFacts DEF Flow!IsFluid
<1>8. Goes(w, u) /\ \A x \in Cells : x # d => u.block[x] = w.block[x]
  BY <1>2, <1>4, <1>6, <1>7, ChangeGoes
<1>9. u = Flow!React(w, d, b)
  BY DEF u, p, s, Flow!React
<1> QED
  BY <1>8, <1>9

LEMMA FlowDownGoes ==
    ASSUME NEW w \in FlowWork, NEW c \in Cells, NEW b \in Flow!Blocks, Flow!IsFluid(b)
    PROVE  /\ Goes(w, Flow!FlowDown(w, c, b))
           /\ Flow!FlowDown(w, c, b).block[c] = w.block[c]
<1> DEFINE d == Flow!Below(c)
<1>1. d # c
  BY FlowFacts, Neighbours
<1> HIDE DEF d
<1>2. w.block \in [Cells -> Flow!Blocks]
  BY DEF FlowWork
<1>3. CASE d \notin Cells
  BY <1>3, GoesSelf DEF Flow!FlowDown, Flow!Loaded, d
<1>4. CASE d \in Cells /\ Flow!Opposite(b, w.block[d])
  <2>1. Flow!FlowDown(w, c, b) = Flow!React(w, d, b)
    BY <1>4 DEF Flow!FlowDown, Flow!Loaded, d
  <2>2. Flow!IsFluid(w.block[d])
    BY <1>4 DEF Flow!Opposite
  <2> QED
    BY <1>1, <1>4, <2>1, <2>2, ReactGoes
<1>5. CASE d \in Cells /\ ~Flow!Opposite(b, w.block[d]) /\ w.block[d] = Flow!Air
  <2> DEFINE f == Flow!FlowingOf(b.kind, 8)
  <2>1. Flow!FlowDown(w, c, b) = Flow!Arrive(w, d, f)
    BY <1>5 DEF Flow!FlowDown, Flow!Loaded, Flow!Falling, d
  <2>2. f \in Flow!Blocks /\ Flow!IsFluid(f) /\ f.level = 8
    BY BlockFacts DEF Flow!IsFluid
  <2>3. w.block[d].kind \notin Flow!Made /\ w.block[d].level # 0
    BY <1>5, BlockFacts
  <2> HIDE DEF f
  <2> QED
    BY <1>1, <1>5, <2>1, <2>2, <2>3, ArriveGoes
<1>6. CASE d \in Cells /\ ~Flow!Opposite(b, w.block[d]) /\ w.block[d] # Flow!Air
  BY <1>6, GoesSelf DEF Flow!FlowDown, Flow!Loaded, d
<1> QED
  BY <1>3, <1>4, <1>5, <1>6

LEMMA FlowSideGoes ==
    ASSUME NEW w \in FlowWork, NEW d, NEW b \in Flow!Blocks, Flow!IsFluid(b),
           b.level \in {0, 8} \/ b.level < Reach[b.kind]
    PROVE  /\ Goes(w, Flow!FlowSide(b, w, d))
           /\ \A x \in Cells : x # d => Flow!FlowSide(b, w, d).block[x] = w.block[x]
<1> DEFINE level == IF b.level \in {0, Flow!Falling} THEN 1 ELSE b.level + 1
           there == w.block[d]
           u == Flow!FlowSide(b, w, d)
<1>1. level \in 1..8
  <2>1. b.kind \in Flow!Fluid /\ b.level \in 0..8
    BY BlockFacts DEF Flow!IsFluid
  <2>2. Reach[b.kind] \in 1..7
    BY <2>1, FlowFacts
  <2> QED
    BY <2>1, <2>2 DEF Flow!Falling
<1>2. w.block \in [Cells -> Flow!Blocks]
  BY DEF FlowWork
<1>3. CASE d \notin Cells
  BY <1>3, GoesSelf DEF Flow!FlowSide, Flow!Loaded
<1>4. CASE d \in Cells /\ Flow!Opposite(b, there)
  <2>1. u = Flow!React(w, d, b)
    BY <1>4 DEF Flow!FlowSide, Flow!Loaded
  <2>2. Flow!IsFluid(w.block[d])
    BY <1>4 DEF Flow!Opposite
  <2> QED
    BY <1>4, <2>1, <2>2, ReactGoes
<1>5. CASE /\ d \in Cells /\ ~Flow!Opposite(b, there)
           /\ there = Flow!Air \/ (Flow!IsFluid(there) /\ there.level > level)
  <2> DEFINE forms == b.kind = "water" /\ Flow!CanFormInfiniteSource(w.block, d)
             f == IF forms THEN Flow!WaterSource ELSE Flow!FlowingOf(b.kind, level)
  <2>1. u = Flow!Arrive(w, d, f)
    BY <1>5 DEF Flow!FlowSide, Flow!Loaded
  <2>2. f \in Flow!Blocks /\ Flow!IsFluid(f) /\ (f.level = 0 => forms)
    <3> HIDE DEF level, forms
    <3>1. b.kind \in Flow!Fluid /\ level \in 0..8 /\ level # 0
      BY <1>1 DEF Flow!IsFluid
    <3> QED
      BY <3>1, BlockFacts
  <2>3. w.block[d].kind \notin Flow!Made
    BY <1>5, BlockFacts DEF Flow!IsFluid
  <2>4. w.block[d].level # 0
    <3> HIDE DEF level
    <3>1. w.block[d] \in Flow!Blocks
      BY <1>2, <1>5
    <3>2. w.block[d].level \in -1..8
      BY <3>1, BlockFacts
    <3>3. w.block[d] = Flow!Air => w.block[d].level = -1
      BY BlockFacts
    <3> QED
      BY <1>1, <1>5, <3>2, <3>3
  <2>5. f.level = 0 => f = Flow!WaterSource /\ Cardinality(Flow!SourcesBeside(w.block, d)) >= 2
    <3>1. forms => Cardinality(Flow!SourcesBeside(w.block, d)) >= 2
      BY CardinalityIs DEF Flow!CanFormInfiniteSource
    <3>2. f.level = 0 => forms
      BY <2>2
    <3> HIDE DEF level, forms
    <3>3. forms => f = Flow!WaterSource
      OBVIOUS
    <3> HIDE DEF f
    <3> QED
      BY <3>1, <3>2, <3>3
  <2> HIDE DEF f
  <2> QED
    BY <1>5, <2>1, <2>2, <2>3, <2>4, <2>5, ArriveGoes
<1>6. CASE /\ d \in Cells /\ ~Flow!Opposite(b, there)
           /\ ~(there = Flow!Air \/ (Flow!IsFluid(there) /\ there.level > level))
  BY <1>6, GoesSelf DEF Flow!FlowSide, Flow!Loaded
<1> QED
  BY <1>3, <1>4, <1>5, <1>6

LEMMA FlowSidesGoes ==
    ASSUME NEW w \in FlowWork, NEW c \in Cells, NEW b \in Flow!Blocks, Flow!IsFluid(b)
    PROVE  /\ Goes(w, Flow!FlowSides(w, c, b))
           /\ Flow!FlowSides(w, c, b).block[c] = w.block[c]
<1>1. CASE b.level \in {0, Flow!Falling} \/ b.level < Reach[b.kind]
  <2> DEFINE w1 == Flow!FlowSide(b, w, Flow!Shift(c, 1, 0, 0))
             w2 == Flow!FlowSide(b, w1, Flow!Shift(c, -1, 0, 0))
             w3 == Flow!FlowSide(b, w2, Flow!Shift(c, 0, 0, 1))
             w4 == Flow!FlowSide(b, w3, Flow!Shift(c, 0, 0, -1))
  <2>0. b.level \in {0, 8} \/ b.level < Reach[b.kind]
    BY <1>1 DEF Flow!Falling
  <2>1. /\ Flow!Shift(c, 1, 0, 0) # c /\ Flow!Shift(c, -1, 0, 0) # c
        /\ Flow!Shift(c, 0, 0, 1) # c /\ Flow!Shift(c, 0, 0, -1) # c
    BY FlowFacts, Neighbours
  <2>2. Flow!FlowSides(w, c, b) = w4
    BY <1>1 DEF Flow!FlowSides
  <2>3. Goes(w, w1) /\ w1.block[c] = w.block[c]
    BY <2>0, <2>1, FlowSideGoes
  <2> HIDE DEF w1
  <2>4. Goes(w1, w2) /\ w2.block[c] = w1.block[c]
    BY <2>0, <2>1, <2>3, FlowSideGoes DEF Goes
  <2> HIDE DEF w2
  <2>5. Goes(w2, w3) /\ w3.block[c] = w2.block[c]
    BY <2>0, <2>1, <2>4, FlowSideGoes DEF Goes
  <2> HIDE DEF w3
  <2>6. Goes(w3, w4) /\ w4.block[c] = w3.block[c]
    BY <2>0, <2>1, <2>5, FlowSideGoes DEF Goes
  <2> HIDE DEF w4
  <2>7. Goes(w, w2)
    BY <2>3, <2>4, GoesTwice
  <2>8. Goes(w, w3)
    BY <2>5, <2>7, GoesTwice
  <2>9. Goes(w, w4)
    BY <2>6, <2>8, GoesTwice
  <2> QED
    BY <2>2, <2>3, <2>4, <2>5, <2>6, <2>9
<1>2. CASE ~(b.level \in {0, Flow!Falling} \/ b.level < Reach[b.kind])
  BY <1>2, GoesSelf DEF Flow!FlowSides
<1> QED
  BY <1>1, <1>2

\* The flowing blocks beside or around a change are looked at again.
LEMMA RecheckIs ==
    ASSUME NEW w \in FlowWork, NEW d
    PROVE  LET u == Flow!Recheck(w, d) IN
           /\ u \in FlowWork /\ LaterOf(w) \subseteq LaterOf(u)
           /\ d \in Cells /\ Flow!IsFluid(w.block[d]) => d \in LaterOf(u)
           /\ u.block = w.block /\ u.changed = w.changed /\ u.processed = w.processed
           /\ u.silent = w.silent
<1>1. CASE d \in Cells /\ Flow!IsFluid(w.block[d])
  <2>1. Flow!Recheck(w, d) = Flow!Schedule(w, d, w.block[d].kind)
    BY <1>1 DEF Flow!Recheck, Flow!Loaded
  <2>2. w.block[d].kind \in Flow!Fluid
    BY <1>1 DEF Flow!IsFluid
  <2> QED
    BY <1>1, <2>1, <2>2, ScheduleIs
<1>2. CASE ~(d \in Cells /\ Flow!IsFluid(w.block[d]))
  BY <1>2 DEF Flow!Recheck, Flow!Loaded
<1> QED
  BY <1>1, <1>2

\* u comes from w by looking again at the cells of S.
Rechecked(w, u, S) ==
    /\ u \in FlowWork /\ LaterOf(w) \subseteq LaterOf(u)
    /\ \A d \in S \cap Cells : Flow!IsFluid(w.block[d]) => d \in LaterOf(u)
    /\ u.block = w.block /\ u.changed = w.changed /\ u.processed = w.processed
    /\ u.silent = w.silent

LEMMA RecheckMore ==
    ASSUME NEW w, NEW u, NEW S, Rechecked(w, u, S), NEW d
    PROVE  Rechecked(w, Flow!Recheck(u, d), S \cup {d})
<1>1. u \in FlowWork
  BY DEF Rechecked
<1> DEFINE v == Flow!Recheck(u, d)
<1>2. /\ v \in FlowWork /\ LaterOf(u) \subseteq LaterOf(v)
      /\ d \in Cells /\ Flow!IsFluid(u.block[d]) => d \in LaterOf(v)
      /\ v.block = u.block /\ v.changed = u.changed /\ v.processed = u.processed
      /\ v.silent = u.silent
  BY <1>1, RecheckIs
<1> HIDE DEF v
<1>3. Rechecked(w, v, S \cup {d})
  BY <1>2 DEF Rechecked
<1> QED
  BY <1>3 DEF v

LEMMA RecheckSides ==
    ASSUME NEW w \in FlowWork, NEW c \in Cells
    PROVE  /\ Rechecked(w, Flow!RecheckSides(w, c), Flow!Beside(c))
           /\ Rechecked(w, Flow!RecheckAll(w, c), Flow!Around(c))
<1> DEFINE a1 == Flow!Shift(c, 1, 0, 0)
           a2 == Flow!Shift(c, -1, 0, 0)
           a3 == Flow!Shift(c, 0, 0, 1)
           a4 == Flow!Shift(c, 0, 0, -1)
           up == Flow!Above(c)
           down == Flow!Below(c)
           w1 == Flow!Recheck(w, a1)
           w2 == Flow!Recheck(w1, a2)
           w3 == Flow!Recheck(w2, a3)
           w4 == Flow!Recheck(w3, a4)
           v3 == Flow!Recheck(w2, up)
           v4 == Flow!Recheck(v3, down)
           v5 == Flow!Recheck(v4, a3)
           v6 == Flow!Recheck(v5, a4)
<1>1. Flow!RecheckSides(w, c) = w4
  BY DEF Flow!RecheckSides
<1>2. Flow!RecheckAll(w, c) = v6
  BY DEF Flow!RecheckAll
<1>3. Flow!Beside(c) = {a1, a2, a3, a4} \cap Cells
  BY DEF Flow!Beside
<1>4. Flow!Around(c) = {a1, a2, up, down, a3, a4} \cap Cells
  BY DEF Flow!Around, Flow!Beside
<1> HIDE DEF a1, a2, a3, a4, up, down
<1>5. Rechecked(w, w, {})
  BY DEF Rechecked
<1>6. Rechecked(w, w1, {} \cup {a1})
  BY <1>5, RecheckMore
<1> HIDE DEF w1
<1>7. Rechecked(w, w2, {} \cup {a1} \cup {a2})
  BY <1>6, RecheckMore
<1> HIDE DEF w2
<1>8. Rechecked(w, w3, {} \cup {a1} \cup {a2} \cup {a3})
  BY <1>7, RecheckMore
<1> HIDE DEF w3
<1>9. Rechecked(w, w4, {} \cup {a1} \cup {a2} \cup {a3} \cup {a4})
  BY <1>8, RecheckMore
<1>10. Rechecked(w, v3, {} \cup {a1} \cup {a2} \cup {up})
  BY <1>7, RecheckMore
<1> HIDE DEF v3
<1>11. Rechecked(w, v4, {} \cup {a1} \cup {a2} \cup {up} \cup {down})
  BY <1>10, RecheckMore
<1> HIDE DEF v4
<1>12. Rechecked(w, v5, {} \cup {a1} \cup {a2} \cup {up} \cup {down} \cup {a3})
  BY <1>11, RecheckMore
<1> HIDE DEF v5
<1>13. Rechecked(w, v6, {} \cup {a1} \cup {a2} \cup {up} \cup {down} \cup {a3} \cup {a4})
  BY <1>12, RecheckMore
<1> HIDE DEF w4, v6
<1>14. Rechecked(w, w4, Flow!Beside(c))
  BY <1>3, <1>9 DEF Rechecked
<1>15. Rechecked(w, v6, Flow!Around(c))
  BY <1>4, <1>13 DEF Rechecked
<1> QED
  BY <1>1, <1>2, <1>14, <1>15

\* What is left of a cell that was looked at is fed, a source, or no fluid.
LEMMA DryUpGoes ==
    ASSUME NEW w \in FlowWork, NEW c \in Cells, Flow!IsFluid(w.block[c])
    PROVE  LET u == Flow!DryUp(w, c, w.block[c]) IN
           Goes(w, u) /\ c \notin Flow!Unfed(u.block)
<1> DEFINE b == w.block[c]
           u == Flow!DryUp(w, c, b)
<1>1. w.block \in [Cells -> Flow!Blocks] /\ [w.block EXCEPT ![c] = b] = w.block
  BY DEF FlowWork
<1>2. CASE b.level = 0 \/ Flow!Fed(w.block, c)
  <2>1. u = w
    BY <1>1, <1>2 DEF Flow!DryUp
  <2>2. c \notin Flow!Unfed(w.block)
    BY <1>2 DEF Flow!Unfed
  <2> QED
    BY <2>1, <2>2, GoesSelf
<1>3. CASE ~(b.level = 0 \/ Flow!Fed(w.block, c))
  <2> DEFINE p == Flow!Put(w, c, Flow!Air)
             q == Flow!RecheckSides(p, c)
             v == Flow!Silent(q, {Flow!Above(c), Flow!Below(c)})
  <2>1. u = v
    BY <1>1, <1>3 DEF Flow!DryUp
  <2>2. /\ p \in FlowWork /\ p.block = [w.block EXCEPT ![c] = Flow!Air] /\ p.later = w.later
        /\ p.changed = w.changed \cup {c} /\ p.processed = w.processed /\ p.silent = w.silent
    BY BlockFacts, PutIs
  <2> HIDE DEF p
  <2>3. Rechecked(p, q, Flow!Beside(c))
    BY <2>2, RecheckSides
  <2> HIDE DEF q
  <2>4. q \in FlowWork
    BY <2>3 DEF Rechecked
  <2>5. /\ v \in FlowWork /\ v.silent = q.silent \cup {Flow!Above(c), Flow!Below(c)}
        /\ v.block = q.block /\ v.later = q.later /\ v.changed = q.changed
        /\ v.processed = q.processed
    BY <2>4, SilentAround, SilentIs
  <2> HIDE DEF v
  <2>6. LaterOf(p) = LaterOf(w) /\ LaterOf(v) = LaterOf(q)
    BY <2>2, <2>5 DEF LaterOf
  <2>7. ASSUME NEW y \in Flow!Around(c), Flow!IsFluid(w.block[y])
        PROVE  y \in LaterOf(v) \cup v.silent
    <3>1. y \in Cells /\ y # c
      BY FlowFacts, Neighbours
    <3>2. Flow!IsFluid(p.block[y])
      BY <1>1, <2>2, <2>7, <3>1
    <3>3. y \in Flow!Beside(c) \/ y \in {Flow!Above(c), Flow!Below(c)}
      BY DEF Flow!Around
    <3> QED
      BY <2>3, <2>5, <2>6, <3>1, <3>2, <3>3 DEF Rechecked
  <2>8. ~Flow!IsFluid(Flow!Air) /\ Flow!Air \in Flow!Blocks /\ Flow!Air.level = -1
    BY BlockFacts DEF Flow!Air
  <2>9. Changes(w, v, c, Flow!Air)
    BY <2>2, <2>3, <2>5, <2>6, <2>7, <2>8 DEF Changes, Rechecked
  <2>10. w.block[c].kind \notin Flow!Made
    BY BlockFacts DEF Flow!IsFluid
  <2>11. Goes(w, v)
    BY <1>3, <2>5, <2>8, <2>9, <2>10, ChangeGoes
  <2>12. c \notin Flow!Unfed(v.block)
    BY <1>1, <2>8, <2>9 DEF Flow!Unfed, Changes
  <2> QED
    BY <2>1, <2>11, <2>12
<1> QED
  BY <1>2, <1>3

LEMMA ProcessGoes ==
    ASSUME NEW w \in FlowWork, NEW c \in Cells, Flow!IsFluid(w.block[c])
    PROVE  LET u == Flow!ProcessFlow(w, c) IN
           Goes(w, u) /\ c \notin Flow!Unfed(u.block)
<1> DEFINE b == w.block[c]
           x == Flow!FlowDown(w, c, b)
           y == Flow!FlowSides(x, c, b)
           u == Flow!DryUp(y, c, b)
<1>1. b \in Flow!Blocks
  BY DEF FlowWork
<1>2. Goes(w, x) /\ x.block[c] = b
  BY <1>1, FlowDownGoes
<1> HIDE DEF x
<1>3. Goes(x, y) /\ y.block[c] = b
  BY <1>1, <1>2, FlowSidesGoes DEF Goes
<1> HIDE DEF y
<1>4. Goes(y, u) /\ c \notin Flow!Unfed(u.block)
  BY <1>3, DryUpGoes DEF Goes
<1>5. u = Flow!ProcessFlow(w, c)
  BY DEF u, y, x, Flow!ProcessFlow
<1>6. Goes(w, y)
  BY <1>2, <1>3, GoesTwice
<1> HIDE DEF u
<1>7. Goes(w, u)
  BY <1>4, <1>6, GoesTwice
<1> QED
  BY <1>4, <1>5, <1>7

-------------------------------------------------------------------------------
(* A tick takes the entries of pending_flows one after the other.           *)

Entry == Cells \X (Nat \ {0})

\* What a tick has made of the world a, of which n was unattended: nothing that was
\* looked at is unattended.
Work(a, n) == {w \in FlowWork :
    /\ Unattended(w) \subseteq n /\ Unattended(w) \cap w.processed = {}
    /\ \A c \in Cells \ w.changed : w.block[c] = a[c]
    /\ Kept(a, w.block)}

LEMMA VisitWorks ==
    ASSUME NEW a, NEW n, NEW w \in Work(a, n), NEW x \in Entry
    PROVE  LET u == Flow!Visit(w, x) IN
           u \in Work(a, n) /\ Unattended(u) \subseteq Unattended(w) \ {x[1]}
<1> DEFINE c == x[1]
           due == x[2] - 1
           u == Flow!Visit(w, x)
<1>1. c \in Cells /\ due \in Nat /\ w \in FlowWork
  BY DEF Entry, Work
<1>2. CASE due > 0
  <2>1. u = [w EXCEPT !.later = Append(@, <<c, due>>)]
    BY <1>2 DEF Flow!Visit
  <2>2. w.later \in Seq(Entry) /\ <<c, due>> \in Entry
    BY <1>1, <1>2 DEF FlowWork, Entry
  <2>3. /\ u.block = w.block /\ u.changed = w.changed /\ u.processed = w.processed
        /\ u.silent = w.silent /\ u.later = Append(w.later, <<c, due>>)
    BY <1>1, <2>1 DEF FlowWork
  <2>4. u.later \in Seq(Entry)
    BY <2>2, <2>3, AppendProperties
  <2>5. u \in FlowWork
    BY <1>1, <2>1, <2>3, <2>4 DEF FlowWork, Entry
  <2> HIDE DEF u, due
  <2>6. LaterOf(w) \subseteq LaterOf(u) /\ c \in LaterOf(u)
    <3>1. /\ Len(w.later) \in Nat /\ Len(u.later) = Len(w.later) + 1
          /\ u.later[Len(w.later) + 1] = <<c, due>>
          /\ \A i \in 1..Len(w.later) : u.later[i] = w.later[i]
      BY <2>2, <2>3, AppendProperties, LenProperties
    <3>2. Len(w.later) + 1 \in 1..Len(u.later)
      BY <3>1
    <3>3. \A i \in 1..Len(w.later) : i \in 1..Len(u.later)
      BY <3>1
    <3>4. c \in LaterOf(u)
      BY <3>1, <3>2 DEF LaterOf
    <3> QED
      BY <3>1, <3>3, <3>4 DEF LaterOf
  <2>7. Unattended(u) \subseteq Unattended(w) \ {c}
    BY <2>3, <2>6 DEF Unattended
  <2>8. u \in Work(a, n)
    BY <2>3, <2>5, <2>7 DEF Work
  <2> QED
    BY <2>7, <2>8 DEF u
<1>3. CASE ~(due > 0) /\ c \in w.processed
  <2>1. u = w
    BY <1>3 DEF Flow!Visit
  <2> QED
    BY <1>3, <2>1 DEF Work
<1>4. CASE ~(due > 0) /\ c \notin w.processed
  <2> DEFINE v == [w EXCEPT !.processed = @ \cup {c}]
  <2>1. /\ v \in FlowWork /\ v.block = w.block /\ v.later = w.later /\ v.changed = w.changed
        /\ v.processed = w.processed \cup {c} /\ v.silent = w.silent
    BY <1>1 DEF FlowWork
  <2>2. u = IF Flow!IsFluid(w.block[c]) THEN Flow!ProcessFlow(v, c) ELSE v
    BY <1>4 DEF Flow!Visit
  <2> HIDE DEF u, v, due
  <2>3. Unattended(v) = Unattended(w)
    BY <2>1 DEF Unattended, LaterOf
  <2>4. Goes(v, u) /\ c \notin Flow!Unfed(u.block)
    <3>1. CASE Flow!IsFluid(w.block[c])
      BY <1>1, <2>1, <2>2, <3>1, ProcessGoes
    <3>2. CASE ~Flow!IsFluid(w.block[c])
      <4>1. c \notin Flow!Unfed(v.block)
        BY <2>1, <3>2 DEF Flow!Unfed
      <4> QED
        BY <2>1, <2>2, <3>2, <4>1, GoesSelf
    <3> QED
      BY <3>1, <3>2
  <2>5. Unattended(u) \subseteq Unattended(w) \ {c}
    BY <2>3, <2>4 DEF Goes, Unattended
  <2>6. Kept(a, u.block)
    BY <2>1, <2>4, KeptTwice DEF Goes, Work
  <2>7. /\ u \in FlowWork /\ u.processed = w.processed \cup {c} /\ w.changed \subseteq u.changed
        /\ \A d \in Cells \ u.changed : u.block[d] = w.block[d]
    BY <2>1, <2>4 DEF Goes
  <2>8. u \in Work(a, n)
    BY <2>5, <2>6, <2>7 DEF Work
  <2> QED
    BY <2>5, <2>8 DEF u
<1> QED
  BY <1>2, <1>3, <1>4

IsTick(g, b, q) ==
    g = [s \in SUBSET DOMAIN q |->
            IF s = {} THEN b ELSE Flow!Visit(g[s \ {Max(s)}], q[Max(s)])]
TickAll(b, q) == (CHOOSE g : IsTick(g, b, q))[DOMAIN q]

LEMMA TickIs == \A b, q : Flow!FoldLeft(Flow!Visit, b, q) = TickAll(b, q)
BY DEF Flow!FoldLeft, Flow!MapThenFoldSet, Flow!Max, Max, TickAll, IsTick

\* After the tick nothing is unattended but what was neither due nor scheduled before.
LEMMA TickWorks ==
    ASSUME NEW a, NEW n, NEW b \in Work(a, n), NEW q \in Seq(Entry)
    PROVE  LET w == Flow!FoldLeft(Flow!Visit, b, q) IN
           w \in Work(a, n) /\ \A i \in 1..Len(q) : q[i][1] \notin Unattended(w)
<1> DEFINE R == Work(a, n)
           m == Len(q)
           st == [k \in 1..m |-> [r \in R |-> Flow!Visit(r, q[k])]]
<1>1. m \in Nat /\ DOMAIN q = 1..m /\ \A k \in 1..m : q[k] \in Entry
  OBVIOUS
<1>2. ASSUME NEW k \in 1..m, NEW r \in R
      PROVE  Flow!Visit(r, q[k]) \in R /\ Unattended(Flow!Visit(r, q[k])) \subseteq Unattended(r) \ {q[k][1]}
  BY <1>1, VisitWorks
<1>3. st \in [1..m -> [R -> R]]
  BY <1>2
<1>4. \A k \in 1..m : \A r \in R : st[k][r] = Flow!Visit(r, q[k])
  OBVIOUS
<1>5. b \in R
  OBVIOUS
<1> HIDE DEF R, st
<1>6. PICK g : IsFold(g, R, b, m, st)
  <2> HIDE DEF m
  <2> QED
    BY <1>1, <1>3, <1>5, FoldTableExists
<1>7. \A s \in SUBSET (1..m) : s # {} => Max(s) \in 1..m /\ g[s \ {Max(s)}] \in R
  <2> SUFFICES ASSUME NEW s \in SUBSET (1..m), s # {} PROVE Max(s) \in 1..m /\ g[s \ {Max(s)}] \in R
    OBVIOUS
  <2>1. Max(s) \in s
    BY <1>1, MaxIs
  <2> QED
    BY <1>6, <2>1 DEF IsFold
<1>8. \A s \in SUBSET (1..m) : g[s] = IF s = {} THEN b ELSE Flow!Visit(g[s \ {Max(s)}], q[Max(s)])
  BY <1>4, <1>6, <1>7 DEF IsFold
<1>9. IsTick(g, b, q)
  BY <1>1, <1>6, <1>8 DEF IsTick, IsFold
<1> DEFINE h == CHOOSE f : IsTick(f, b, q)
<1>10. IsTick(h, b, q)
  BY <1>9
<1> HIDE DEF h
<1>11. \A s \in SUBSET (1..m) : h[s] = IF s = {} THEN b ELSE Flow!Visit(h[s \ {Max(s)}], q[Max(s)])
  BY <1>1, <1>10 DEF IsTick
<1> DEFINE RK == [k \in 0..m |-> {w \in R : \A i \in 1..k : q[i][1] \notin Unattended(w)}]
<1>12. h[{}] \in RK[0]
  <2>1. 0 \in 0..m /\ \A i : i \notin 1..0
    BY <1>1
  <2> QED
    BY <1>5, <1>11, <2>1
<1>13. ASSUME NEW k \in 1..m, h[1..(k-1)] \in RK[k-1] PROVE h[1..k] \in RK[k]
  <2>1. /\ 1..k \in SUBSET (1..m) /\ 1..k # {} /\ Max(1..k) = k /\ (1..k) \ {k} = 1..(k-1)
        /\ k - 1 \in 0..m /\ k \in 0..m
    BY <1>1, FoldPrefix
  <2> DEFINE r == h[1..(k-1)]
  <2>2. r \in R /\ \A i \in 1..(k-1) : q[i][1] \notin Unattended(r)
    BY <1>13, <2>1
  <2>3. h[1..k] = Flow!Visit(r, q[k])
    BY <1>11, <2>1
  <2> HIDE DEF r
  <2>4. h[1..k] \in R /\ Unattended(h[1..k]) \subseteq Unattended(r) \ {q[k][1]}
    BY <1>2, <2>2, <2>3
  <2>5. \A i \in 1..k : i \in 1..(k-1) \/ i = k
    OBVIOUS
  <2>6. \A i \in 1..k : q[i][1] \notin Unattended(h[1..k])
    BY <2>2, <2>4, <2>5
  <2> QED
    BY <2>1, <2>4, <2>6
<1>14. h[1..m] \in RK[m]
  <2> HIDE DEF RK, m
  <2> QED
    BY <1>1, <1>12, <1>13, FoldReaches
<1>15. h[1..m] = TickAll(b, q)
  BY <1>1 DEF TickAll, h
<1>16. h[1..m] \in R /\ \A i \in 1..m : q[i][1] \notin Unattended(h[1..m])
  <2>1. m \in 0..m
    BY <1>1
  <2> QED
    BY <1>14, <2>1
<1> QED
  BY <1>15, <1>16, TickIs DEF R

-------------------------------------------------------------------------------
(* The invariant of the fluids.                                             *)

FlowType ==
    /\ fBlock \in [Cells -> Flow!Blocks]
    /\ fPending \in Seq(Entry)
    /\ fTelling \in [Cells -> Flow!Blocks]
    /\ fToTell \subseteq Cells
    /\ fEdit \in {Flow!Nowhere} \cup Cells \X Flow!Blocks
    /\ fSeen \in [Cells -> Flow!Blocks]
    /\ fEdits \in Nat
    /\ fCrossed \subseteq Cells /\ fUnnoticed \subseteq Cells

Editing(c) == fEdit # Flow!Nowhere /\ fEdit[1] = c

\* Who will look at the neighbours of what was dug.
Digging == IF fEdit = Flow!Nowhere \/ fEdit[2] # Flow!Air THEN {} ELSE Flow!Around(fEdit[1])

FlowInv ==
    /\ FlowType
    /\ Flow!Unfed(fBlock) \subseteq Flow!Pending \cup fUnnoticed \cup Digging
    /\ \A c \in Cells \ fCrossed :
          fBlock[c] = IF Editing(c) THEN fEdit[2]
                      ELSE IF c \in fToTell THEN fTelling[c] ELSE fSeen[c]
    /\ \A c \in fToTell : Editing(c) => c \in fCrossed

LEMMA FlowStart == Flow!Init => FlowInv
<1> SUFFICES ASSUME Flow!Init PROVE FlowInv
  OBVIOUS
<1>1. fBlock \in [Cells -> Flow!Blocks] /\ Flow!Air \in Flow!Blocks
  BY FlowFacts, BlockFacts DEF Flow!Init
<1>2. fPending \in Seq(Entry) /\ fEdits \in Nat
  BY DEF Flow!Init
<1>3. fTelling \in [Cells -> Flow!Blocks] /\ fSeen = fBlock /\ fUnnoticed = Flow!Unfed(fBlock)
      /\ fToTell = {} /\ fCrossed = {} /\ fEdit = Flow!Nowhere
  BY <1>1 DEF Flow!Init
<1>4. fUnnoticed \subseteq Cells
  BY <1>3 DEF Flow!Unfed
<1>5. FlowType
  BY <1>1, <1>2, <1>3, <1>4 DEF FlowType
<1> QED
  BY <1>1, <1>3, <1>5 DEF FlowInv, Editing

LEMMA FlowTicks == FlowInv /\ Flow!Tick => FlowInv' /\ Kept(fBlock, fBlock')
<1> SUFFICES ASSUME FlowInv, Flow!Tick PROVE FlowInv' /\ Kept(fBlock, fBlock')
  OBVIOUS
<1> DEFINE b == Flow!Before
           n == fUnnoticed \cup Digging \cup Flow!Pending
           w == Flow!FoldLeft(Flow!Visit, b, fPending)
<1>1. FlowType /\ fPending \in Seq(Entry) /\ fToTell = {}
  BY DEF FlowInv, FlowType, Flow!Tick, Flow!CanTick
<1>2. b \in Work(fBlock, n)
  <2>1. b \in FlowWork
    BY <1>1 DEF FlowType, FlowWork, Flow!Before
  <2>2. b.block = fBlock /\ b.processed = {}
    BY DEF Flow!Before
  <2>3. Unattended(b) \subseteq n
    BY <2>2 DEF FlowInv, Unattended
  <2> QED
    BY <2>1, <2>2, <2>3, KeptSelf DEF Work
<1> HIDE DEF b, n
<1>3. w \in Work(fBlock, n) /\ \A i \in 1..Len(fPending) : fPending[i][1] \notin Unattended(w)
  BY <1>1, <1>2, TickWorks
<1>4. /\ fBlock' = w.block /\ fPending' = w.later
      /\ fTelling' = [c \in Cells |-> IF c \in w.changed THEN w.block[c] ELSE Flow!Air]
      /\ fToTell' = w.changed
      /\ fCrossed' = fCrossed \cup {c \in w.changed : fEdit # Flow!Nowhere /\ fEdit[1] = c}
      /\ fUnnoticed' = (fUnnoticed \cup w.silent) \cap Flow!Unfed(w.block)
      /\ fEdit' = fEdit /\ fSeen' = fSeen /\ fEdits' = fEdits
  BY DEF Flow!Tick, b
<1> HIDE DEF w
<1>5. w \in FlowWork /\ Kept(fBlock, w.block)
      /\ \A c \in Cells \ w.changed : w.block[c] = fBlock[c]
  BY <1>3 DEF Work
<1>6. Unattended(w) \subseteq fUnnoticed \cup Digging
  BY <1>3 DEF Work, n, Flow!Pending
<1>7. Flow!Unfed(fBlock') \subseteq Flow!Pending' \cup fUnnoticed' \cup Digging'
  <2>1. Flow!Pending' = LaterOf(w) /\ Digging' = Digging
    BY <1>4 DEF Flow!Pending, LaterOf, Digging
  <2> QED
    BY <1>4, <1>6, <2>1 DEF Unattended
<1>8. FlowType'
  <2>1. Flow!Air \in Flow!Blocks
    BY BlockFacts
  <2>2. w.block \in [Cells -> Flow!Blocks] /\ w.changed \subseteq Cells /\ w.later \in Seq(Entry)
    BY <1>5 DEF FlowWork, Entry
  <2>3. fTelling' \in [Cells -> Flow!Blocks]
    BY <1>4, <2>1, <2>2
  <2>4. Flow!Unfed(w.block) \subseteq Cells
    BY DEF Flow!Unfed
  <2> QED
    BY <1>1, <1>4, <2>2, <2>3, <2>4 DEF FlowType
<1>9. \A c \in Cells : Editing(c)' <=> Editing(c)
  BY <1>4 DEF Editing
<1>10. \A c \in Cells \ fCrossed' :
          fBlock'[c] = IF Editing(c)' THEN fEdit'[2]
                       ELSE IF c \in fToTell' THEN fTelling'[c] ELSE fSeen'[c]
  <2> SUFFICES ASSUME NEW c \in Cells \ fCrossed'
               PROVE  fBlock'[c] = IF Editing(c)' THEN fEdit'[2]
                                   ELSE IF c \in fToTell' THEN fTelling'[c] ELSE fSeen'[c]
    OBVIOUS
  <2>1. c \notin fCrossed /\ (c \in w.changed => ~Editing(c))
    BY <1>4 DEF Editing
  <2>2. fBlock[c] = IF Editing(c) THEN fEdit[2] ELSE fSeen[c]
    BY <1>1, <2>1 DEF FlowInv
  <2> QED
    BY <1>4, <1>5, <1>9, <2>1, <2>2
<1>11. \A c \in fToTell' : Editing(c)' => c \in fCrossed'
  BY <1>4 DEF Editing
<1> QED
  BY <1>4, <1>5, <1>7, <1>8, <1>10, <1>11 DEF FlowInv

LEMMA FlowTells == ASSUME NEW c \in Cells PROVE FlowInv /\ Flow!Tell(c) => FlowInv'
<1> SUFFICES ASSUME FlowInv, Flow!Tell(c) PROVE FlowInv'
  OBVIOUS
<1>1. /\ c \in fToTell /\ fSeen' = [fSeen EXCEPT ![c] = fTelling[c]] /\ fToTell' = fToTell \ {c}
      /\ fTelling' = [fTelling EXCEPT ![c] = Flow!Air]
      /\ fBlock' = fBlock /\ fPending' = fPending /\ fEdit' = fEdit /\ fEdits' = fEdits
      /\ fCrossed' = fCrossed /\ fUnnoticed' = fUnnoticed
  BY DEF Flow!Tell
<1>2. FlowType'
  BY <1>1, BlockFacts DEF FlowInv, FlowType
<1>3. Flow!Pending' = Flow!Pending /\ Digging' = Digging /\ \A d : Editing(d)' <=> Editing(d)
  BY <1>1 DEF Flow!Pending, Digging, Editing
<1>4. \A d \in Cells : d # c => fSeen'[d] = fSeen[d] /\ fTelling'[d] = fTelling[d]
  BY <1>1 DEF FlowInv, FlowType
<1>5. fSeen'[c] = fTelling[c]
  BY <1>1 DEF FlowInv, FlowType
<1>6. \A d \in Cells \ fCrossed' :
          fBlock'[d] = IF Editing(d)' THEN fEdit'[2]
                       ELSE IF d \in fToTell' THEN fTelling'[d] ELSE fSeen'[d]
  BY <1>1, <1>3, <1>4, <1>5 DEF FlowInv
<1> QED
  BY <1>1, <1>2, <1>3, <1>6 DEF FlowInv

\* Digging leaves neighbours of the cell unfed, placing feeds them.
LEMMA FlowChanges ==
    ASSUME NEW c \in Cells, NEW b \in Flow!Blocks,
           b = Flow!Air \/ (fBlock[c] = Flow!Air /\ (b.level = 0 \/ ~Flow!IsFluid(b)))
    PROVE  FlowInv /\ Flow!Change(c, b) => FlowInv'
<1> SUFFICES ASSUME FlowInv, Flow!Change(c, b) PROVE FlowInv'
  OBVIOUS
<1>1. /\ fEdit = Flow!Nowhere /\ fBlock' = [fBlock EXCEPT ![c] = b] /\ fEdit' = <<c, b>>
      /\ fEdits' = fEdits + 1 /\ fCrossed' = fCrossed \cup ({c} \cap fToTell)
      /\ fUnnoticed' = fUnnoticed \cap Flow!Unfed(fBlock')
      /\ fPending' = fPending /\ fTelling' = fTelling /\ fToTell' = fToTell /\ fSeen' = fSeen
  BY DEF Flow!Change
<1>2. FlowType /\ fBlock \in [Cells -> Flow!Blocks] /\ c \in Spot
  BY FlowFacts DEF FlowInv, FlowType
<1>3. fEdit' # Flow!Nowhere /\ fEdit'[1] = c /\ fEdit'[2] = b
  BY <1>1 DEF Flow!Nowhere
<1>4. FlowType'
  <2>1. fBlock' \in [Cells -> Flow!Blocks] /\ fEdit' \in Cells \X Flow!Blocks
    BY <1>1, <1>2
  <2> QED
    BY <1>1, <1>2, <2>1 DEF FlowType
<1>5. fBlock'[c] = b /\ \A d \in Cells : d # c => fBlock'[d] = fBlock[d]
  BY <1>1, <1>2
<1>6. Flow!Pending' = Flow!Pending /\ Digging = {}
  BY <1>1 DEF Flow!Pending, Digging
<1>7. ASSUME NEW y \in Flow!Unfed(fBlock'), y \notin Digging' PROVE y \in Flow!Unfed(fBlock)
  <2>1. y \in Cells /\ Flow!IsFluid(fBlock'[y]) /\ fBlock'[y].level # 0
        /\ ~Flow!Fed(fBlock', y)
    BY DEF Flow!Unfed
  <2>2. y # c
    BY <1>5, <2>1, BlockFacts
  <2>3. CASE b = Flow!Air
    <3>1. Digging' = Flow!Around(c)
      BY <1>3, <2>3 DEF Digging
    <3> QED
      BY <1>1, <1>2, <1>7, <2>2, <3>1, Disturbed
  <2>4. CASE fBlock[c] = Flow!Air
    <3>1. ~Flow!Fed(fBlock, y)
      <4> SUFFICES ASSUME NEW s \in Flow!Around(y), fBlock[s].kind = fBlock[y].kind,
                          \/ fBlock[s].level < fBlock[y].level
                          \/ s = Flow!Above(y) /\ fBlock[s].level >= Flow!Falling
                   PROVE  FALSE
        BY DEF Flow!Fed
      <4>1. s \in Cells
        BY <2>1, FlowFacts, Neighbours
      <4>2. fBlock'[y] = fBlock[y]
        BY <1>5, <2>1, <2>2
      <4>3. s # c
        BY <2>1, <2>4, <4>2, BlockFacts DEF Flow!IsFluid
      <4>4. fBlock'[s] = fBlock[s]
        BY <1>5, <4>1, <4>3
      <4> QED
        BY <2>1, <4>2, <4>4 DEF Flow!Fed
    <3> QED
      BY <1>5, <2>1, <2>2, <3>1 DEF Flow!Unfed
  <2> QED
    BY <2>3, <2>4
<1>8. Flow!Unfed(fBlock') \subseteq Flow!Pending' \cup fUnnoticed' \cup Digging'
  BY <1>1, <1>6, <1>7 DEF FlowInv
<1>9. \A d : Editing(d)' <=> d = c
  BY <1>3 DEF Editing
<1>10. \A d : ~Editing(d)
  BY <1>1 DEF Editing
<1>11. \A d \in Cells \ fCrossed' :
          fBlock'[d] = IF Editing(d)' THEN fEdit'[2]
                       ELSE IF d \in fToTell' THEN fTelling'[d] ELSE fSeen'[d]
  BY <1>1, <1>3, <1>5, <1>9, <1>10 DEF FlowInv
<1>12. \A d \in fToTell' : Editing(d)' => d \in fCrossed'
  BY <1>1, <1>9
<1> QED
  BY <1>4, <1>8, <1>11, <1>12 DEF FlowInv

LEMMA FlowFinishes == FlowInv /\ Flow!FinishEdit => FlowInv'
<1> SUFFICES ASSUME FlowInv, Flow!FinishEdit PROVE FlowInv'
  OBVIOUS
<1> DEFINE c == fEdit[1]
           b == fEdit[2]
           w == [Flow!Before EXCEPT !.later = fPending]
           v == Flow!RecheckAll(w, c)
           u == CASE b = Flow!Air      -> v
                  [] Flow!IsFluid(b)   -> Flow!Schedule(w, c, b.kind)
                  [] OTHER             -> w
<1>1. /\ fEdit # Flow!Nowhere /\ fPending' = u.later /\ fSeen' = [fSeen EXCEPT ![c] = b]
      /\ fEdit' = Flow!Nowhere /\ fBlock' = fBlock /\ fTelling' = fTelling
      /\ fToTell' = fToTell /\ fEdits' = fEdits /\ fCrossed' = fCrossed
      /\ fUnnoticed' = fUnnoticed
  BY DEF Flow!FinishEdit
<1>2. FlowType /\ c \in Cells /\ b \in Flow!Blocks
  BY <1>1 DEF FlowInv, FlowType
<1>3. w \in FlowWork /\ w.block = fBlock /\ w.later = fPending
  BY <1>2 DEF FlowType, FlowWork, Flow!Before, Entry
<1>4. LaterOf(w) = Flow!Pending
  BY <1>3 DEF LaterOf, Flow!Pending
<1> HIDE DEF w
<1>5. /\ u \in FlowWork /\ LaterOf(w) \subseteq LaterOf(u)
      /\ b = Flow!Air => \A d \in Flow!Around(c) : Flow!IsFluid(fBlock[d]) => d \in LaterOf(u)
  <2>1. CASE b = Flow!Air
    <3>1. Rechecked(w, v, Flow!Around(c))
      BY <1>2, <1>3, RecheckSides
    <3>2. Flow!Around(c) \subseteq Cells
      BY <1>2, FlowFacts, Neighbours
    <3>3. u = v
      BY <2>1, BlockFacts
    <3> HIDE DEF u, c, b
    <3> QED
      BY <1>3, <3>1, <3>2, <3>3 DEF Rechecked
  <2>2. CASE b # Flow!Air /\ Flow!IsFluid(b)
    <3>1. u = Flow!Schedule(w, c, b.kind)
      BY <2>2
    <3>2. b.kind \in Flow!Fluid
      BY <2>2 DEF Flow!IsFluid
    <3> HIDE DEF u, c, b
    <3> QED
      BY <1>2, <1>3, <2>2, <3>1, <3>2, ScheduleIs
  <2>3. CASE b # Flow!Air /\ ~Flow!IsFluid(b)
    <3>1. u = w
      BY <2>3
    <3> HIDE DEF u, c, b
    <3> QED
      BY <1>3, <2>3, <3>1
  <2> QED
    BY <2>1, <2>2, <2>3
<1>6. Flow!Pending' = LaterOf(u) /\ Digging' = {}
  BY <1>1 DEF LaterOf, Flow!Pending, Digging
<1> HIDE DEF u
<1>7. Flow!Unfed(fBlock') \subseteq Flow!Pending' \cup fUnnoticed' \cup Digging'
  <2> SUFFICES ASSUME NEW y \in Flow!Unfed(fBlock), y \notin fUnnoticed PROVE y \in LaterOf(u)
    BY <1>1, <1>6
  <2>1. y \in Flow!Pending \cup Digging /\ Flow!IsFluid(fBlock[y])
    BY DEF FlowInv, Flow!Unfed
  <2>2. y \in Digging => b = Flow!Air /\ y \in Flow!Around(c)
    BY DEF Digging
  <2> HIDE DEF b, c
  <2> QED
    BY <1>4, <1>5, <2>1, <2>2
<1>8. FlowType'
  <2>1. u.later \in Seq(Entry)
    BY <1>5 DEF FlowWork, Entry
  <2> QED
    BY <1>1, <1>2, <2>1 DEF FlowType
<1>9. \A d : ~Editing(d)'
  BY <1>1 DEF Editing
<1>10. \A d : Editing(d) <=> d = c
  BY <1>1 DEF Editing
<1>11. fSeen'[c] = b /\ \A d \in Cells : d # c => fSeen'[d] = fSeen[d]
  BY <1>1, <1>2 DEF FlowType
<1> HIDE DEF b, c
<1>12. fEdit[2] = b
  BY DEF b
<1>13. \A d \in Cells \ fCrossed' :
          fBlock'[d] = IF Editing(d)' THEN fEdit'[2]
                       ELSE IF d \in fToTell' THEN fTelling'[d] ELSE fSeen'[d]
  BY <1>1, <1>9, <1>10, <1>11, <1>12 DEF FlowInv
<1> QED
  BY <1>7, <1>8, <1>9, <1>13 DEF FlowInv

\* What the flow does to the blocks.
Flowed == fEdits' = fEdits => Kept(fBlock, fBlock')

LEMMA FlowSteps == FlowInv /\ [Flow!Next]_(Flow!vars) => FlowInv' /\ Flowed
<1> SUFFICES ASSUME FlowInv, [Flow!Next]_(Flow!vars) PROVE FlowInv' /\ Flowed
  OBVIOUS
<1>1. fEdits \in Nat
  BY DEF FlowInv, FlowType
<1>2. CASE UNCHANGED Flow!vars
  <2>1. UNCHANGED <<fBlock, fPending, fTelling, fToTell, fEdit, fSeen, fEdits, fCrossed, fUnnoticed>>
    BY <1>2 DEF Flow!vars
  <2> QED
    BY <2>1, KeptSelf DEF FlowInv, FlowType, Flow!Pending, Digging, Editing, Flowed
<1>3. CASE Flow!Tick
  BY <1>3, FlowTicks DEF Flowed
<1>4. ASSUME NEW c \in Cells, Flow!Tell(c) PROVE FlowInv' /\ Flowed
  BY <1>4, FlowTells, KeptSelf DEF Flowed, Flow!Tell
<1>5. ASSUME NEW c \in Diggable, Flow!Dig(c) PROVE FlowInv' /\ Flowed
  <2>1. Flow!Change(c, Flow!Air) /\ c \in Cells /\ Flow!Air \in Flow!Blocks
    BY <1>5, FlowFacts, BlockFacts DEF Flow!Dig
  <2>2. fEdits' # fEdits
    BY <1>1, <2>1 DEF Flow!Change
  <2> QED
    BY <2>1, <2>2, FlowChanges DEF Flowed
<1>6. ASSUME NEW c \in Diggable, NEW k \in Kinds, Flow!Place(c, k) PROVE FlowInv' /\ Flowed
  <2> DEFINE b == IF k \in Flow!Fluid THEN Flow!FlowingOf(k, 0) ELSE Flow!Solid(k)
  <2>1. Flow!Change(c, b) /\ c \in Cells /\ fBlock[c] = Flow!Air
    BY <1>6, FlowFacts DEF Flow!Place
  <2>2. b \in Flow!Blocks /\ (b.level = 0 \/ ~Flow!IsFluid(b))
    <3>1. k \in Flow!Fluid \/ k = "stone"
      BY FlowFacts
    <3> QED
      BY <3>1, BlockFacts
  <2> HIDE DEF b
  <2>3. fEdits' # fEdits
    BY <1>1, <2>1 DEF Flow!Change
  <2> QED
    BY <2>1, <2>2, <2>3, FlowChanges DEF Flowed
<1>7. CASE Flow!FinishEdit
  BY <1>7, FlowFinishes, KeptSelf DEF Flowed, Flow!FinishEdit
<1> QED
  BY <1>2, <1>3, <1>4, <1>5, <1>6, <1>7 DEF Flow!Next

LEMMA FlowAlways == Flow!Spec => []FlowInv
BY FlowStart, FlowSteps, PTL DEF Flow!Spec

\* A flowing block that nothing feeds is going to be looked at, next to the changes the
\* property names excepted: for every world, every speed and any number of edits.
THEOREM FlowIsAttended == Flow!Spec => []UnfedFluidIsPending
<1>1. FlowInv => UnfedFluidIsPending
  BY DEF FlowInv, UnfedFluidIsPending, Flow!UnfedIsPending, Digging
<1> QED
  BY <1>1, FlowAlways, PTL

\* Clients see the fluids as they are once all is told, but for cells that changed again
\* while an update of them was under way.
THEOREM FlowIsTold == Flow!Spec => []FluidsToldAsTheyAre
<1>1. FlowInv => FluidsToldAsTheyAre
  BY DEF FlowInv, FluidsToldAsTheyAre, Flow!ToldAsItIs, Editing
<1> QED
  BY <1>1, FlowAlways, PTL

\* A tick takes no source away but by a reaction, and makes one only beside two sources.
THEOREM SourcesAreKept == Flow!Spec => FluidSourcesStay
<1> DEFINE Stays == \A c \in Cells :
               fEdits' = fEdits /\ fBlock'[c] # fBlock[c] =>
                   /\ fBlock[c].level = 0 => fBlock'[c].kind \in Flow!Made
                   /\ fBlock'[c].level = 0 =>
                         /\ fBlock'[c].kind = "water"
                         /\ Flow!Cardinality({s \in Flow!Beside(c) : fBlock'[s] = Flow!WaterSource
                               \/ (fBlock'[s] # fBlock[s] /\ fBlock'[s].kind \in Flow!Made)}) >= 2
<1>1. Flowed => Stays
  BY BlockFacts, CardinalityIs DEF Flowed, Kept, Pair
<1>2. FlowInv /\ [Flow!Next]_(Flow!vars) => [Stays]_(Flow!vars)
  BY <1>1, FlowSteps
<1>3. FluidSourcesStay <=> [][Stays]_(Flow!vars)
  BY DEF FluidSourcesStay, Flow!SourcesStay
<1> HIDE DEF Stays
<1> QED
  BY <1>2, <1>3, FlowAlways, PTL DEF Flow!Spec

-------------------------------------------------------------------------------
(* Redstone: the table follows the world, clients are told, blocks stay.    *)

LEMMA RedFacts ==
    /\ RedCells \subseteq Spot /\ IsFiniteSet(RedCells)
    /\ Layouts \subseteq [RedCells -> Red!Blocks]
    /\ Handy \subseteq RedCells /\ Pieces \subseteq Red!Blocks
    /\ PushLimit \in Nat
<1>1. Red!IsFiniteSet(RedCells) => IsFiniteSet(RedCells)
  BY DEF Red!IsFiniteSet, IsFiniteSet
<1> QED
  BY <1>1, RedAssumption DEF Red!RedstoneAssumption, Spot

\* A list of anything.
IsList(s) == \E n \in Nat : s = [i \in 1..n |-> s[i]]

LEMMA ListIs ==
    ASSUME NEW s, IsList(s)
    PROVE  /\ Len(s) \in Nat /\ DOMAIN s = 1..Len(s) /\ s = [i \in 1..Len(s) |-> s[i]]
           /\ s \in Seq({s[i] : i \in 1..Len(s)})
<1>1. PICK n \in Nat : s = [i \in 1..n |-> s[i]]
  BY DEF IsList
<1> DEFINE S == {s[i] : i \in 1..n}
<1>2. s \in [1..n -> S]
  <2> HIDE DEF S
  <2>1. \A i \in 1..n : s[i] \in S
    BY DEF S
  <2> QED
    BY <1>1, <2>1
<1> HIDE DEF S
<1>3. s \in Seq(S) /\ Len(s) = n
  BY <1>2, SeqDef
<1> QED
  BY <1>1, <1>3 DEF S

LEMMA ListAppend ==
    ASSUME NEW s, IsList(s), NEW x
    PROVE  /\ IsList(Append(s, x)) /\ Len(Append(s, x)) = Len(s) + 1
           /\ Append(s, x)[Len(s) + 1] = x /\ \A i \in 1..Len(s) : Append(s, x)[i] = s[i]
<1> DEFINE S == {s[i] : i \in 1..Len(s)} \cup {x}
           t == Append(s, x)
<1>1. Len(s) \in Nat /\ s \in Seq(S)
  <2>1. Len(s) \in Nat /\ s = [i \in 1..Len(s) |-> s[i]]
    BY ListIs
  <2>2. s \in [1..Len(s) -> S]
    <3>1. \A i \in 1..Len(s) : s[i] \in S
      OBVIOUS
    <3> HIDE DEF S
    <3> QED
      BY <2>1, <3>1
  <2> HIDE DEF S
  <2> QED
    BY <2>1, <2>2, SeqDef
<1>2. x \in S
  OBVIOUS
<1> HIDE DEF S
<1>3. /\ t \in Seq(S) /\ Len(t) = Len(s) + 1 /\ t[Len(s) + 1] = x
      /\ \A i \in 1..Len(s) : t[i] = s[i]
  BY <1>1, <1>2, AppendProperties
<1> HIDE DEF t
<1>4. t = [i \in 1..Len(t) |-> t[i]] /\ Len(t) \in Nat
  BY <1>3, LenProperties
<1>5. IsList(t)
  BY <1>4 DEF IsList
<1> QED
  BY <1>3, <1>5 DEF t

-------------------------------------------------------------------------------
(* The engine's record.  What matters for what is proved are the kinds, the *)
(* facings and that power is a signal.                                      *)

RedKind == Red!Component

Signal == 0..15

\* What stands for a block, and what the table has for it.
Solid(b) == b.facing \in Red!Offsets
KindOf(b) == IF b.kind \in RedKind THEN b.kind ELSE "none"
Listable(k) ==
    \/ k = Red!None
    \/ /\ k = [kind |-> k.kind, facing |-> k.facing, on |-> k.on, setting |-> k.setting,
               power |-> k.power, timer |-> k.timer, toggles |-> k.toggles, age |-> k.age,
               dirty |-> k.dirty]
       /\ k.kind \in RedKind /\ k.facing \in Red!Offsets /\ k.power \in Signal

Shape(e) ==
    /\ e = [world |-> e.world, comps |-> e.comps, order |-> e.order, level |-> e.level,
            strong |-> e.strong, sched |-> e.sched, updates |-> e.updates, gone |-> e.gone,
            odd |-> e.odd]
    /\ e.world = [c \in RedCells |-> e.world[c]] /\ \A c \in RedCells : Solid(e.world[c])
    /\ e.comps = [c \in RedCells |-> e.comps[c]] /\ \A c \in RedCells : Listable(e.comps[c])
    /\ e.order \in Seq(RedCells) /\ Distinct(e.order)
    /\ \A c \in RedCells : Listed(e.order, c) <=> e.comps[c].kind # "none"
    /\ e.level \in [RedCells -> Signal]
    /\ IsList(e.sched) /\ IsList(e.updates)

\* Nothing but the insides of the components and their power changes.
Same(e, u) ==
    /\ Shape(u) /\ u.world = e.world /\ u.order = e.order /\ u.updates = e.updates
    /\ u.gone = e.gone /\ u.odd = e.odd
    /\ \A c \in RedCells : u.comps[c].kind = e.comps[c].kind

LEMMA SameSelf == \A e : Shape(e) => Same(e, e)
BY DEF Same

LEMMA SameTwice ==
    ASSUME NEW e, NEW u, NEW v, Same(e, u), Same(u, v)
    PROVE  Same(e, v)
BY DEF Same

\* The component of a cell is changed, and stays of its kind.
LEMMA SetCompIs ==
    ASSUME NEW e, Shape(e), NEW c \in RedCells, NEW k, Listable(k), k.kind = e.comps[c].kind
    PROVE  LET u == Red!SetComp(e, c, k) IN
           Same(e, u) /\ u.comps = [e.comps EXCEPT ![c] = k]
<1> DEFINE u == Red!SetComp(e, c, k)
<1>1. /\ u = [e EXCEPT !.comps = [e.comps EXCEPT ![c] = k]]
  BY DEF Red!SetComp
<1>2. /\ u = [world |-> u.world, comps |-> u.comps, order |-> u.order, level |-> u.level,
            strong |-> u.strong, sched |-> u.sched, updates |-> u.updates, gone |-> u.gone,
            odd |-> u.odd]
      /\ u.comps = [e.comps EXCEPT ![c] = k] /\ u.level = e.level
      /\ u.world = e.world /\ u.order = e.order /\ u.sched = e.sched /\ u.updates = e.updates
      /\ u.gone = e.gone /\ u.odd = e.odd
  BY <1>1 DEF Shape
<1> HIDE DEF u
<1>3. /\ u.comps = [d \in RedCells |-> u.comps[d]]
      /\ \A d \in RedCells : Listable(u.comps[d]) /\ u.comps[d].kind = e.comps[d].kind
  BY <1>2 DEF Shape
<1>4. Shape(u)
  BY <1>2, <1>3 DEF Shape
<1> QED
  BY <1>2, <1>3, <1>4 DEF Same, u

LEMMA PartIs ==
    ASSUME NEW k, Listable(k), k.kind # "none"
    PROVE  /\ \A x : Listable([k EXCEPT !.on = x]) /\ [k EXCEPT !.on = x].kind = k.kind
           /\ \A x : Listable([k EXCEPT !.timer = x]) /\ [k EXCEPT !.timer = x].kind = k.kind
           /\ \A x : Listable([k EXCEPT !.age = x]) /\ [k EXCEPT !.age = x].kind = k.kind
           /\ \A x : Listable([k EXCEPT !.dirty = x]) /\ [k EXCEPT !.dirty = x].kind = k.kind
           /\ \A x \in Signal : Listable([k EXCEPT !.power = x]) /\ [k EXCEPT !.power = x].kind = k.kind
           /\ \A x : Listable([k EXCEPT !.toggles = x]) /\ [k EXCEPT !.toggles = x].kind = k.kind
           /\ \A x : Listable([k EXCEPT !.setting = x]) /\ [k EXCEPT !.setting = x].kind = k.kind
           /\ \A x : Listable(Red!Switched(k, x)) /\ Red!Switched(k, x).kind = k.kind
<1>1. Red!None.kind = "none"
  BY DEF Red!None
<1>2. \A x : Listable([k EXCEPT !.on = x]) /\ [k EXCEPT !.on = x].kind = k.kind
  BY <1>1 DEF Listable
<1>3. \A j, y : Listable(j) /\ j.kind # "none" =>
          Listable([j EXCEPT !.dirty = y]) /\ [j EXCEPT !.dirty = y].kind = j.kind
  BY <1>1 DEF Listable
<1>4. \A x : Listable(Red!Switched(k, x)) /\ Red!Switched(k, x).kind = k.kind
  <2> TAKE x
  <2> DEFINE j == [k EXCEPT !.on = x]
  <2>1. Listable(j) /\ j.kind = k.kind
    BY <1>2
  <2>2. PICK y : Red!Switched(k, x) = [j EXCEPT !.dirty = y]
    BY DEF Red!Switched
  <2> HIDE DEF j
  <2> QED
    BY <1>3, <2>1, <2>2
<1> QED
  BY <1>1, <1>4 DEF Listable

-------------------------------------------------------------------------------
(* Power is a signal: 15 at most.                                            *)

LEMMA HighestIs ==
    ASSUME NEW S \in SUBSET Int, NEW m \in S, \A n \in S : m >= n
    PROVE  Red!Highest(S) = m
<1>1. \A k \in S : (\A n \in S : k >= n) => k = m
  OBVIOUS
<1> QED
  BY <1>1 DEF Red!Highest

LEMMA HighestSignal ==
    ASSUME NEW S \in SUBSET Signal
    PROVE  /\ Red!Highest(S) \in Signal
           /\ S # {} => Red!Highest(S) \in S /\ \A n \in S : Red!Highest(S) >= n
<1>1. CASE S = {}
  BY <1>1 DEF Red!Highest, Signal
<1>2. CASE S # {}
  <2> DEFINE T == {n + 1 : n \in S}
  <2>1. T \in SUBSET (1..16) /\ T # {}
    BY <1>2 DEF Signal
  <2>2. Max(T) \in T /\ \A k \in T : k <= Max(T)
    <3> HIDE DEF T
    <3> QED
      BY <2>1, MaxIs
  <2>3. PICK m \in S : Max(T) = m + 1
    BY <2>2
  <2>4. \A n \in S : m >= n /\ m \in Int /\ n \in Int
    <3>1. \A n \in S : n + 1 <= m + 1
      BY <2>2, <2>3
    <3> QED
      BY <3>1 DEF Signal
  <2>5. S \in SUBSET Int
    BY <2>4
  <2>6. Red!Highest(S) = m
    BY <2>4, <2>5, HighestIs
  <2> QED
    BY <1>2, <2>4, <2>6
<1> QED
  BY <1>1, <1>2

LEMMA PowerIsSignal ==
    ASSUME NEW e, Shape(e), NEW c
    PROVE  /\ \A q : Red!Known(e, q) => Red!Gives(e, q, c) \in Signal
           /\ Red!StrongAt(e, c) \in Signal
           /\ \A q : Red!Input(e, q, c) \in Signal
           /\ Red!Seed(e, c) \in Signal
<1>1. ASSUME NEW d, NEW q, Red!Known(e, q) PROVE Red!Gives(e, q, d) \in Signal
  <2>1. q \in RedCells /\ e.comps[q].kind # "none"
    BY <1>1 DEF Red!Known, Red!KindAt
  <2>2. e.comps[q].power \in Signal
    <3>1. Listable(e.comps[q]) /\ Red!None.kind = "none"
      BY <2>1 DEF Shape, Red!None
    <3> QED
      BY <2>1, <3>1 DEF Listable
  <2>3. Red!Gives(e, q, d) \in {0, 15, e.comps[q].power}
    BY DEF Red!Gives
  <2> QED
    BY <2>2, <2>3 DEF Signal
<1>2. \A d : \A q \in Red!Near(e, d) : Red!Known(e, q)
  BY DEF Red!Near
<1>3. ASSUME NEW d PROVE Red!StrongAt(e, d) \in Signal
  <2> DEFINE N == {n \in Red!Near(e, d) : e.comps[n].kind \in Red!Sources \cup {"repeater", "comparator"}}
             S == {Red!Gives(e, q, d) : q \in N}
  <2>1. \A q \in N : Red!Gives(e, q, d) \in Signal
    BY <1>1, <1>2
  <2> HIDE DEF N
  <2>2. S \in SUBSET Signal
    BY <2>1
  <2> HIDE DEF S
  <2>3. Red!Highest(S) \in Signal
    BY <2>2, HighestSignal
  <2> QED
    BY <2>3 DEF Red!StrongAt, S, N
<1>4. ASSUME NEW q PROVE Red!Input(e, q, c) \in Signal
  <2> DEFINE S == {Red!StrongAt(e, q)} \cup (IF q \in RedCells THEN {e.level[q]} ELSE {})
                     \cup (IF Red!Known(e, q) THEN {Red!Gives(e, q, c)} ELSE {})
  <2>1. q \in RedCells => e.level[q] \in Signal
    BY DEF Shape
  <2>2. S \in SUBSET Signal
    BY <1>1, <1>3, <2>1
  <2> HIDE DEF S
  <2>3. Red!Highest(S) \in Signal
    BY <2>2, HighestSignal
  <2> QED
    BY <2>3 DEF Red!Input, S
<1>5. Red!Seed(e, c) \in Signal
  <2> DEFINE P == {Red!Plus(c, d) : d \in Red!Six}
             S == {Red!StrongAt(e, c)} \cup
                  {IF Red!Known(e, q) THEN Red!Gives(e, q, c) ELSE Red!StrongAt(e, q) : q \in P}
  <2>1. S \in SUBSET Signal
    <3> HIDE DEF P
    <3> QED
      BY <1>1, <1>3
  <2> HIDE DEF S
  <2>2. Red!Highest(S) \in Signal
    BY <2>1, HighestSignal
  <2> QED
    BY <2>2 DEF Red!Seed, S, P
<1> QED
  BY <1>1, <1>3, <1>4, <1>5

-------------------------------------------------------------------------------
(* What components do in their turn.                                        *)

LEMMA LevelsIs ==
    ASSUME NEW e, Shape(e), NEW x
    PROVE  /\ x \in [RedCells -> Signal] => Same(e, [e EXCEPT !.level = x])
           /\ Same(e, [e EXCEPT !.strong = x])
           /\ IsList(x) => Same(e, [e EXCEPT !.sched = x])
BY DEF Same, Shape

LEMMA TimerSame ==
    ASSUME NEW e, Shape(e), NEW c \in RedCells, e.comps[c].kind # "none"
    PROVE  Same(e, Red!RunTimer(e, c))
<1> DEFINE k == e.comps[c]
           j == Red!Switched(k, FALSE)
<1>1. Listable(k)
  BY DEF Shape
<1>2. Listable(j) /\ j.kind = k.kind /\ j.kind # "none"
  BY <1>1, PartIs
<1> HIDE DEF j
<1>3. Listable([j EXCEPT !.timer = 0]) /\ [j EXCEPT !.timer = 0].kind = k.kind
  BY <1>2, PartIs
<1>4. Listable([k EXCEPT !.timer = @ - 1]) /\ [k EXCEPT !.timer = @ - 1].kind = k.kind
  BY <1>1, PartIs
<1>5. Same(e, Red!SetComp(e, c, [j EXCEPT !.timer = 0]))
  BY <1>3, SetCompIs
<1>6. Same(e, Red!SetComp(e, c, [k EXCEPT !.timer = @ - 1]))
  BY <1>4, SetCompIs
<1> QED
  BY <1>5, <1>6, SameSelf DEF Red!RunTimer, j

LEMMA TorchSame ==
    ASSUME NEW e, Shape(e), NEW c \in RedCells, e.comps[c].kind # "none"
    PROVE  Same(e, Red!UpdateTorch(e, c))
<1> DEFINE k == e.comps[c]
           lit == ~Red!PoweredBut(Red!SetComp(e, c, [k EXCEPT !.on = FALSE]),
                                  Red!Minus(c, k.facing), {c})
           fresh == k.age > Window
           toggles == IF fresh THEN 1 ELSE k.toggles + 1
           age == IF k.age > Window THEN k.age ELSE k.age + 1
           off == Red!Switched(k, FALSE)
           k1 == [off EXCEPT !.timer = @ - 1, !.age = age]
           k2 == [k EXCEPT !.age = age]
           k3 == [off EXCEPT !.timer = Burnout, !.toggles = 0, !.age = age]
           k4 == [Red!Switched(k, lit) EXCEPT !.toggles = toggles,
                                              !.age = IF fresh THEN 1 ELSE age]
<1>1. Red!UpdateTorch(e, c) \in {Red!SetComp(e, c, k1), Red!SetComp(e, c, k2),
                                 Red!SetComp(e, c, k3), Red!SetComp(e, c, k4)}
  BY DEF Red!UpdateTorch
<1>2. Listable(k) /\ k.kind # "none"
  BY DEF Shape
<1> HIDE DEF k, lit, fresh, toggles, age
<1>3. \A x : Listable(Red!Switched(k, x)) /\ Red!Switched(k, x).kind = k.kind
  BY <1>2, PartIs
<1> HIDE DEF off
<1>4. Listable(off) /\ off.kind = k.kind
  BY <1>3 DEF off
<1>5. Listable(k1) /\ k1.kind = k.kind
  <2>1. Listable([off EXCEPT !.timer = @ - 1]) /\ [off EXCEPT !.timer = @ - 1].kind = k.kind
    BY <1>2, <1>4, PartIs
  <2> QED
    BY <1>2, <2>1, PartIs
<1>6. Listable(k2) /\ k2.kind = k.kind
  BY <1>2, PartIs
<1>7. Listable(k3) /\ k3.kind = k.kind
  <2> DEFINE a == [off EXCEPT !.timer = Burnout]
             b == [a EXCEPT !.toggles = 0]
  <2>1. Listable(a) /\ a.kind = k.kind
    BY <1>2, <1>4, PartIs
  <2>2. k3 = [b EXCEPT !.age = age]
    OBVIOUS
  <2> HIDE DEF a
  <2>3. Listable(b) /\ b.kind = k.kind
    BY <1>2, <2>1, PartIs
  <2> HIDE DEF b, k3
  <2> QED
    BY <1>2, <2>2, <2>3, PartIs
<1>8. Listable(k4) /\ k4.kind = k.kind
  <2> DEFINE a == Red!Switched(k, lit)
             b == [a EXCEPT !.toggles = toggles]
  <2>1. Listable(a) /\ a.kind = k.kind
    BY <1>3
  <2>2. k4 = [b EXCEPT !.age = IF fresh THEN 1 ELSE age]
    OBVIOUS
  <2> HIDE DEF a
  <2>3. Listable(b) /\ b.kind = k.kind
    BY <1>2, <2>1, PartIs
  <2> HIDE DEF b, k4
  <2> QED
    BY <1>2, <2>2, <2>3, PartIs
<1> HIDE DEF k1, k2, k3, k4
<1>9. k.kind = e.comps[c].kind
  BY DEF k
<1>10. ASSUME NEW j, Listable(j), j.kind = k.kind PROVE Same(e, Red!SetComp(e, c, j))
  BY <1>9, <1>10, SetCompIs
<1> QED
  BY <1>1, <1>5, <1>6, <1>7, <1>8, <1>10

LEMMA RepeaterSame ==
    ASSUME NEW e, Shape(e), NEW c \in RedCells
    PROVE  Same(e, Red!UpdateRepeater(e, c))
<1> DEFINE k == e.comps[c]
           back == Red!Minus(c, k.facing)
           on == Red!Input(e, back, c) > 0 \/ Red!Powered(e, back)
           t == Append(e.sched, <<k.setting, c, on>>)
<1>1. IsList(t)
  BY ListAppend DEF Shape
<1>2. Red!UpdateRepeater(e, c) \in {e, [e EXCEPT !.sched = t]}
  <2>1. [e EXCEPT !.sched = Append(@, <<k.setting, c, on>>)] = [e EXCEPT !.sched = t]
    BY DEF Shape
  <2> QED
    BY <2>1 DEF Red!UpdateRepeater
<1> HIDE DEF t
<1>3. Same(e, [e EXCEPT !.sched = t])
  BY <1>1, LevelsIs
<1> QED
  BY <1>2, <1>3, SameSelf

LEMMA ComparatorSame ==
    ASSUME NEW e, Shape(e), NEW c \in RedCells, e.comps[c].kind # "none"
    PROVE  Same(e, Red!UpdateComparator(e, c))
<1> DEFINE k == e.comps[c]
           back == Red!Minus(c, k.facing)
           given == Red!Input(e, back, c)
           rear == IF given = 0 /\ Red!Powered(e, back) THEN 15 ELSE given
           side == Red!Highest({Red!Input(e, Red!Plus(c, d), c) : d \in Red!SidesOf(k.facing)})
           power == IF k.setting = 1 THEN (IF rear >= side THEN rear ELSE 0)
                    ELSE (IF rear > side THEN rear - side ELSE 0)
           a == Red!Switched(k, power > 0)
           j == [a EXCEPT !.power = power, !.dirty = @ \/ k.power # power]
<1>1. Red!UpdateComparator(e, c) = Red!SetComp(e, c, j)
  BY DEF Red!UpdateComparator
<1>2. Listable(k) /\ k.kind # "none"
  BY DEF Shape
<1>9. power \in Signal
  <2>1. given \in Signal /\ \A d : Red!Input(e, Red!Plus(c, d), c) \in Signal
    BY PowerIsSignal
  <2>2. side \in Signal
    <3> DEFINE S == {Red!Input(e, Red!Plus(c, d), c) : d \in Red!SidesOf(k.facing)}
    <3>1. S \in SUBSET Signal
      BY <2>1
    <3> HIDE DEF S
    <3>2. Red!Highest(S) \in Signal
      BY <3>1, HighestSignal
    <3> QED
      BY <3>2 DEF S
  <2>3. rear \in Signal
    BY <2>1 DEF Signal
  <2> HIDE DEF rear, side
  <2> QED
    BY <2>2, <2>3 DEF Signal
<1> HIDE DEF k, power
<1>3. Listable(a) /\ a.kind = k.kind
  BY <1>2, PartIs
<1> HIDE DEF a
<1> DEFINE b == [a EXCEPT !.power = power]
<1>4. Listable(b) /\ b.kind = k.kind
  BY <1>2, <1>3, <1>9, PartIs
<1>5. \E x : j = [b EXCEPT !.dirty = x]
  OBVIOUS
<1> HIDE DEF b, j
<1>6. Listable(j) /\ j.kind = k.kind
  BY <1>2, <1>4, <1>5, PartIs
<1>7. k.kind = e.comps[c].kind
  BY DEF k
<1>8. Same(e, Red!SetComp(e, c, j))
  BY <1>6, <1>7, SetCompIs
<1> QED
  BY <1>1, <1>8

LEMMA FireSame ==
    ASSUME NEW e, Shape(e), NEW x
    PROVE  Same(e, Red!Fire(e, x))
<1> DEFINE c == x[2]
           t == Append(e.sched, <<x[1] - 1, c, x[3]>>)
           a == [e.comps[c] EXCEPT !.on = x[3]]
           j == [a EXCEPT !.dirty = TRUE]
<1>1. IsList(t)
  BY ListAppend DEF Shape
<1>2. [e EXCEPT !.sched = Append(@, <<x[1] - 1, c, x[3]>>)] = [e EXCEPT !.sched = t]
  BY DEF Shape
<1>3. [e.comps[c] EXCEPT !.on = x[3], !.dirty = TRUE] = j
  OBVIOUS
<1>4. Red!Fire(e, x) =
          IF x[1] > 1 THEN [e EXCEPT !.sched = t]
          ELSE IF Red!KindAt(e, c) # "repeater" THEN e ELSE Red!SetComp(e, c, j)
  BY <1>2, <1>3 DEF Red!Fire
<1> HIDE DEF t, j
<1>5. ASSUME Red!KindAt(e, c) = "repeater" PROVE Same(e, Red!SetComp(e, c, j))
  <2>1. c \in RedCells /\ e.comps[c].kind = "repeater" /\ Listable(e.comps[c])
    BY <1>5 DEF Red!KindAt, Shape
  <2>2. Listable(a) /\ a.kind = e.comps[c].kind
    BY <2>1, PartIs
  <2> HIDE DEF a
  <2>3. Listable(j) /\ j.kind = e.comps[c].kind
    BY <2>1, <2>2, PartIs DEF j
  <2> QED
    BY <2>1, <2>3, SetCompIs
<1>6. Same(e, [e EXCEPT !.sched = t])
  BY <1>1, LevelsIs
<1> QED
  BY <1>4, <1>5, <1>6, SameSelf

LEMMA CalculateSame ==
    ASSUME NEW e, Shape(e), NEW c
    PROVE  Same(e, Red!CalculateLevel(e, c))
<1> DEFINE S == {Red!StrongAt(e, c)} \cup {e.level[q] : q \in Red!Near(e, c)}
                                      \cup {Red!Gives(e, q, c) : q \in Red!Near(e, c)}
           x == [e.level EXCEPT ![c] = Red!Highest(S)]
           y == [e.strong EXCEPT ![c] = Red!StrongAt(e, c)]
<1>1. Red!CalculateLevel(e, c) = [[e EXCEPT !.level = x] EXCEPT !.strong = y]
  <2>1. Red!CalculateLevel(e, c) = [e EXCEPT !.level = [e.level EXCEPT ![c] = Red!Highest(S)],
                                             !.strong = [e.strong EXCEPT ![c] = Red!StrongAt(e, c)]]
    BY DEF Red!CalculateLevel, Shape
  <2> QED
    BY <2>1
<1>6. x \in [RedCells -> Signal]
  <2>1. e.level \in [RedCells -> Signal]
    BY DEF Shape
  <2>2. \A q \in Red!Near(e, c) : q \in RedCells
    BY DEF Red!Near, Red!Known, Red!KindAt
  <2>3. S \in SUBSET Signal
    <3>1. \A q \in Red!Near(e, c) : e.level[q] \in Signal
      BY <2>1, <2>2
    <3>2. \A q \in Red!Near(e, c) : Red!Gives(e, q, c) \in Signal
      BY PowerIsSignal DEF Red!Near
    <3>3. Red!StrongAt(e, c) \in Signal
      BY PowerIsSignal
    <3> QED
      BY <3>1, <3>2, <3>3
  <2> HIDE DEF S
  <2>4. Red!Highest(S) \in Signal
    BY <2>3, HighestSignal
  <2> QED
    BY <2>1, <2>4
<1> HIDE DEF S, x, y
<1> DEFINE u == [e EXCEPT !.level = x]
<1>2. Same(e, u)
  BY <1>6, LevelsIs
<1>3. Shape(u)
  BY <1>2 DEF Same
<1> HIDE DEF u
<1>4. Same(u, [u EXCEPT !.strong = y])
  BY <1>3, LevelsIs
<1>5. Same(e, [u EXCEPT !.strong = y])
  BY <1>2, <1>4, SameTwice
<1> QED
  BY <1>1, <1>5 DEF u

-------------------------------------------------------------------------------
(* Changes of blocks and of the table.                                      *)

LEMMA RedOperators ==
    /\ \A s : Red!ToSet(s) = ToSet(s)
    /\ \A s, i : Red!RemoveAt(s, i) = RemoveAt(s, i)
    /\ \A s : Red!IsInjective(s) = IsInjective(s)
    /\ \A S : Red!Cardinality(S) = Cardinality(S)
<1>1. \A s : Red!ToSet(s) = ToSet(s)
  BY DEF Red!ToSet, ToSet
<1>2. \A s, i : Red!RemoveAt(s, i) = RemoveAt(s, i)
  BY DEF Red!RemoveAt, RemoveAt
<1>3. \A s : Red!IsInjective(s) = IsInjective(s)
  BY DEF Red!IsInjective, IsInjective
<1>4. \A S : Red!Cardinality(S) = Cardinality(S)
  BY DEF Red!Cardinality, Cardinality
<1> QED
  BY <1>1, <1>2, <1>3, <1>4

LEMMA WithoutIs ==
    ASSUME NEW s \in Seq(RedCells), Distinct(s), NEW c
    PROVE  LET t == Red!Without(s, c) IN
           /\ t \in Seq(RedCells) /\ Distinct(t)
           /\ \A d : Listed(t, d) <=> Listed(s, d) /\ d # c
<1> DEFINE t == Red!Without(s, c)
<1>1. DOMAIN s = 1..Len(s)
  BY LenProperties
<1>2. CASE c \notin ToSet(s)
  <2>1. t = s
    BY <1>2, RedOperators DEF Red!Without
  <2>2. ~Listed(s, c)
    BY <1>1, <1>2 DEF Listed, ToSet
  <2> QED
    BY <2>1, <2>2
<1>3. CASE c \in ToSet(s)
  <2> DEFINE i == CHOOSE j \in 1..Len(s) : s[j] = c
  <2>1. i \in 1..Len(s) /\ s[i] = c
    BY <1>1, <1>3 DEF ToSet
  <2>2. t = RemoveAt(s, i)
    BY <1>3, RedOperators DEF Red!Without
  <2> HIDE DEF i, t
  <2>3. t \in Seq(RedCells) /\ Distinct(t) /\ \A d : Listed(t, d) <=> Listed(s, d) /\ d # c
    BY <2>1, <2>2, RemoveKey
  <2> QED
    BY <2>3 DEF t
<1> QED
  BY <1>2, <1>3

\* Components get other insides, but stay of their kinds.
LEMMA CompsSame ==
    ASSUME NEW e, Shape(e), NEW g, g = [q \in RedCells |-> g[q]],
           \A q \in RedCells : Listable(g[q]) /\ g[q].kind = e.comps[q].kind
    PROVE  Same(e, [e EXCEPT !.comps = g])
<1> DEFINE u == [e EXCEPT !.comps = g]
<1>1. /\ u = [world |-> u.world, comps |-> u.comps, order |-> u.order, level |-> u.level,
            strong |-> u.strong, sched |-> u.sched, updates |-> u.updates, gone |-> u.gone,
            odd |-> u.odd]
      /\ u.comps = g /\ u.level = e.level
      /\ u.world = e.world /\ u.order = e.order /\ u.sched = e.sched /\ u.updates = e.updates
      /\ u.gone = e.gone /\ u.odd = e.odd
  <2>1. e = [world |-> e.world, comps |-> e.comps, order |-> e.order, level |-> e.level,
             strong |-> e.strong, sched |-> e.sched, updates |-> e.updates, gone |-> e.gone,
             odd |-> e.odd]
    BY DEF Shape
  <2>2. u = [world |-> e.world, comps |-> g, order |-> e.order, level |-> e.level,
             strong |-> e.strong, sched |-> e.sched, updates |-> e.updates, gone |-> e.gone,
             odd |-> e.odd]
    BY <2>1
  <2> QED
    BY <2>2
<1> HIDE DEF u
<1>2. Shape(u)
  BY <1>1 DEF Shape
<1> QED
  BY <1>1, <1>2 DEF Same, u

LEMMA MarkDirtySame ==
    ASSUME NEW e, Shape(e), NEW c
    PROVE  Same(e, Red!MarkDirty(e, c))
<1> DEFINE near == {Red!Plus(c, d) : d \in Red!Six}
           far == {Red!Plus(n, d) : n \in near, d \in Red!Six}
           g == [q \in RedCells |->
                    IF q \in near \cup far /\ Red!Known(e, q) THEN [e.comps[q] EXCEPT !.dirty = TRUE]
                    ELSE e.comps[q]]
           u == [e EXCEPT !.comps = g]
<1>1. u = Red!MarkDirty(e, c)
  BY DEF Red!MarkDirty, Shape
<1>2. \A q \in RedCells : Listable(g[q]) /\ g[q].kind = e.comps[q].kind
  <2> SUFFICES ASSUME NEW q \in RedCells PROVE Listable(g[q]) /\ g[q].kind = e.comps[q].kind
    OBVIOUS
  <2>1. Listable(e.comps[q]) /\ (Red!Known(e, q) => e.comps[q].kind # "none")
    BY DEF Shape, Red!Known, Red!KindAt
  <2>2. g[q] \in {e.comps[q], [e.comps[q] EXCEPT !.dirty = TRUE]}
        /\ (g[q] # e.comps[q] => Red!Known(e, q))
    OBVIOUS
  <2> HIDE DEF g
  <2>3. CASE g[q] = e.comps[q]
    BY <2>1, <2>3
  <2>4. CASE g[q] # e.comps[q]
    <3> DEFINE k == e.comps[q]
    <3>1. g[q] = [k EXCEPT !.dirty = TRUE] /\ Listable(k) /\ k.kind # "none"
      BY <2>1, <2>2, <2>4
    <3> HIDE DEF k
    <3>2. Listable([k EXCEPT !.dirty = TRUE]) /\ [k EXCEPT !.dirty = TRUE].kind = k.kind
      BY <3>1, PartIs
    <3> QED
      BY <3>1, <3>2 DEF k
  <2> QED
    BY <2>3, <2>4
<1>3. g = [q \in RedCells |-> g[q]]
  OBVIOUS
<1> HIDE DEF g
<1>4. Same(e, u)
  BY <1>2, <1>3, CompsSame
<1> QED
  BY <1>1, <1>4

LEMMA NoticeSame ==
    ASSUME NEW e, Shape(e), NEW c
    PROVE  Same(e, Red!Notice(e, c))
<1> DEFINE woken(q) == [[[e.comps[q] EXCEPT !.on = TRUE] EXCEPT !.timer = 2] EXCEPT !.dirty = TRUE]
           g == [q \in RedCells |->
                    IF Red!KindAt(e, q) = "observer" /\ Red!PointsTo(e, q, c) /\ e.comps[q].timer = 0
                    THEN woken(q) ELSE e.comps[q]]
           u == [e EXCEPT !.comps = g]
<1>1. u = Red!Notice(e, c)
  BY DEF Red!Notice, Shape
<1>2. \A q \in RedCells : Listable(g[q]) /\ g[q].kind = e.comps[q].kind
  <2> SUFFICES ASSUME NEW q \in RedCells PROVE Listable(g[q]) /\ g[q].kind = e.comps[q].kind
    OBVIOUS
  <2> DEFINE k == e.comps[q]
             a == [k EXCEPT !.on = TRUE]
             b == [a EXCEPT !.timer = 2]
             j == [b EXCEPT !.dirty = TRUE]
  <2>1. Listable(k) /\ (Red!KindAt(e, q) = "observer" => k.kind # "none")
    BY DEF Shape, Red!KindAt
  <2>2. g[q] \in {k, j} /\ (g[q] # k => Red!KindAt(e, q) = "observer")
    OBVIOUS
  <2> HIDE DEF g, k, a, b, j
  <2>3. ASSUME k.kind # "none" PROVE Listable(j) /\ j.kind = k.kind
    <3>1. Listable(a) /\ a.kind = k.kind
      BY <2>1, <2>3, PartIs DEF a
    <3>2. Listable(b) /\ b.kind = k.kind
      BY <2>3, <3>1, PartIs DEF b
    <3> QED
      BY <2>3, <3>2, PartIs DEF j
  <2>4. k = e.comps[q]
    BY DEF k
  <2> QED
    BY <2>1, <2>2, <2>3, <2>4
<1>3. g = [q \in RedCells |-> g[q]]
  OBVIOUS
<1> HIDE DEF g
<1>4. Same(e, u)
  BY <1>2, <1>3, CompsSame
<1> QED
  BY <1>1, <1>4

\* The table is changed at c: there is a component of kind kd now, or none.
Relisted(e, u, c, kd) ==
    /\ Shape(u) /\ u.world = e.world /\ u.updates = e.updates /\ u.odd = e.odd
    /\ e.gone \subseteq u.gone
    /\ \A d \in RedCells : d # c => u.comps[d].kind = e.comps[d].kind
    /\ u.comps[c].kind = kd /\ (kd # e.comps[c].kind => c \in u.gone)

LEMMA UnregisterIs ==
    ASSUME NEW e, Shape(e), NEW c \in RedCells
    PROVE  Relisted(e, Red!Unregister(e, c), c, "none")
<1> DEFINE u == Red!Unregister(e, c)
           t == Red!Without(e.order, c)
<1>1. t \in Seq(RedCells) /\ Distinct(t) /\ \A d : Listed(t, d) <=> Listed(e.order, d) /\ d # c
  BY WithoutIs DEF Shape
<1>2. /\ u = [world |-> u.world, comps |-> u.comps, order |-> u.order, level |-> u.level,
            strong |-> u.strong, sched |-> u.sched, updates |-> u.updates, gone |-> u.gone,
            odd |-> u.odd]
      /\ u.comps = [e.comps EXCEPT ![c] = Red!None] /\ u.order = t
      /\ u.level = [e.level EXCEPT ![c] = 0]
      /\ u.world = e.world /\ u.sched = e.sched /\ u.updates = e.updates
      /\ u.gone = e.gone \cup {c} /\ u.odd = e.odd
  <2> DEFINE E == [world |-> e.world, comps |-> [e.comps EXCEPT ![c] = Red!None], order |-> t,
                   level |-> [e.level EXCEPT ![c] = 0], strong |-> [e.strong EXCEPT ![c] = 0],
                   sched |-> e.sched, updates |-> e.updates, gone |-> e.gone \cup {c},
                   odd |-> e.odd]
  <2>1. e = [world |-> e.world, comps |-> e.comps, order |-> e.order, level |-> e.level,
             strong |-> e.strong, sched |-> e.sched, updates |-> e.updates, gone |-> e.gone,
             odd |-> e.odd]
    BY DEF Shape
  <2>2. u = E
    <3> HIDE DEF t
    <3>1. u = [e EXCEPT !.comps = [@ EXCEPT ![c] = Red!None], !.order = t,
                        !.level = [@ EXCEPT ![c] = 0], !.strong = [@ EXCEPT ![c] = 0],
                        !.gone = @ \cup {c}]
      BY <2>1 DEF Red!Unregister, t
    <3> QED
      BY <2>1, <3>1
  <2> QED
    BY <2>2
<1> HIDE DEF u, t
<1>3. Red!None.kind = "none" /\ Listable(Red!None)
  BY DEF Red!None, Listable
<1>4. /\ u.comps = [d \in RedCells |-> u.comps[d]] /\ u.comps[c].kind = "none"
      /\ \A d \in RedCells : Listable(u.comps[d]) /\ (d # c => u.comps[d] = e.comps[d])
  BY <1>2, <1>3 DEF Shape
<1>6. u.level \in [RedCells -> Signal]
  BY <1>2 DEF Shape, Signal
<1>5. Shape(u)
  BY <1>1, <1>2, <1>4, <1>6 DEF Shape
<1> QED
  BY <1>2, <1>4, <1>5 DEF Relisted, u

LEMMA RegisterIs ==
    ASSUME NEW e, Shape(e), NEW c \in RedCells, NEW b, Solid(b), b.kind \in RedKind
    PROVE  Relisted(e, Red!Register(e, c, b), c, b.kind)
<1> DEFINE u == Red!Register(e, c, b)
           k == Red!Registered(b)
           t == IF Red!Known(e, c) THEN e.order ELSE Append(e.order, c)
<1>1. k.kind = b.kind /\ Listable(k) /\ k.kind # "none"
  <2>1. "none" \notin RedKind
    BY DEF RedKind, Red!Component, Red!Sources, Red!Pistons
  <2> QED
    BY <2>1 DEF Red!Registered, Listable, Solid, Signal
<1>2. t \in Seq(RedCells) /\ Distinct(t) /\ \A d : Listed(t, d) <=> Listed(e.order, d) \/ d = c
  <2>1. Red!Known(e, c) <=> Listed(e.order, c)
    BY DEF Shape, Red!Known, Red!KindAt
  <2>2. e.order \in Seq(RedCells) /\ Distinct(e.order)
    BY DEF Shape
  <2>3. CASE Listed(e.order, c)
    BY <2>1, <2>2, <2>3
  <2>4. CASE ~Listed(e.order, c)
    BY <2>1, <2>2, <2>4, AppendKey
  <2> QED
    BY <2>3, <2>4
<1>3. /\ u = [world |-> u.world, comps |-> u.comps, order |-> u.order, level |-> u.level,
            strong |-> u.strong, sched |-> u.sched, updates |-> u.updates, gone |-> u.gone,
            odd |-> u.odd]
      /\ u.comps = [e.comps EXCEPT ![c] = k] /\ u.order = t /\ u.level = e.level
      /\ u.world = e.world /\ u.sched = e.sched /\ u.updates = e.updates
      /\ u.gone = e.gone \cup {c} /\ u.odd = e.odd
  <2> DEFINE E == [world |-> e.world, comps |-> [e.comps EXCEPT ![c] = k], order |-> t,
                   level |-> e.level, strong |-> e.strong,
                   sched |-> e.sched, updates |-> e.updates, gone |-> e.gone \cup {c},
                   odd |-> e.odd]
  <2>1. e = [world |-> e.world, comps |-> e.comps, order |-> e.order, level |-> e.level,
             strong |-> e.strong, sched |-> e.sched, updates |-> e.updates, gone |-> e.gone,
             odd |-> e.odd]
    BY DEF Shape
  <2>2. u = E
    <3> HIDE DEF k
    <3>1. u = [e EXCEPT !.comps = [e.comps EXCEPT ![c] = k], !.order = t,
                        !.gone = @ \cup {c}]
      BY <2>1 DEF Red!Register, k
    <3> HIDE DEF t
    <3> QED
      BY <2>1, <3>1
  <2> QED
    BY <2>2
<1> HIDE DEF u, t, k
<1>4. /\ u.comps = [d \in RedCells |-> u.comps[d]] /\ u.comps[c].kind = b.kind
      /\ \A d \in RedCells : Listable(u.comps[d]) /\ (d # c => u.comps[d] = e.comps[d])
  BY <1>1, <1>3 DEF Shape
<1>5. Shape(u)
  BY <1>1, <1>2, <1>3, <1>4 DEF Shape
<1> QED
  BY <1>3, <1>4, <1>5 DEF Relisted, u

\* What stands in the table at c after it has been told of a change there.
After(kd, old, new) ==
    IF new.kind \in RedKind THEN new.kind
    ELSE IF old.kind \in RedKind THEN "none" ELSE kd

LEMMA ChangeIs ==
    ASSUME NEW e, Shape(e), NEW c \in RedCells, NEW old, NEW new, Solid(new)
    PROVE  Relisted(e, Red!OnBlockChange(e, c, old, new), c, After(e.comps[c].kind, old, new))
<1> DEFINE u == IF old.kind \in RedKind THEN Red!Unregister(e, c) ELSE e
           v == IF new.kind \in RedKind THEN Red!Register(u, c, new) ELSE u
           m == Red!MarkDirty(v, c)
           n == Red!Notice(m, c)
           ku == IF old.kind \in RedKind THEN "none" ELSE e.comps[c].kind
<1>1. Red!OnBlockChange(e, c, old, new) = n
  BY DEF Red!OnBlockChange, RedKind
<1>2. Relisted(e, u, c, ku)
  <2>1. Relisted(e, e, c, e.comps[c].kind)
    BY DEF Relisted
  <2> QED
    BY <2>1, UnregisterIs
<1> HIDE DEF u
<1>3. Relisted(e, v, c, After(e.comps[c].kind, old, new))
  <2>1. CASE new.kind \in RedKind
    <3>1. Relisted(u, v, c, new.kind)
      BY <1>2, <2>1, RegisterIs DEF Relisted
    <3>2. c \in v.gone
      BY <2>1, <3>1 DEF Relisted, Red!Register, Shape
    <3> QED
      BY <1>2, <2>1, <3>1, <3>2 DEF Relisted, After
  <2>2. CASE new.kind \notin RedKind
    BY <1>2, <2>2 DEF After
  <2> QED
    BY <2>1, <2>2
<1> HIDE DEF v
<1>4. Same(v, m)
  BY <1>3, MarkDirtySame DEF Relisted
<1> HIDE DEF m
<1>5. Same(m, n)
  BY <1>4, NoticeSame DEF Same
<1> HIDE DEF n
<1>6. Relisted(e, n, c, After(e.comps[c].kind, old, new))
  BY <1>3, <1>4, <1>5 DEF Relisted, Same
<1> QED
  BY <1>1, <1>6

\* The world is changed at c, and the change is put down for the clients.
Written(e, u, c, b) ==
    /\ Shape(u) /\ u.world = [e.world EXCEPT ![c] = b] /\ u.comps = e.comps
    /\ u.order = e.order /\ u.updates = Append(e.updates, <<c, b>>)
    /\ u.gone = e.gone /\ u.odd = e.odd

LEMMA WriteIs ==
    ASSUME NEW e, Shape(e), NEW c \in RedCells, NEW b, Solid(b)
    PROVE  Written(e, Red!PutBlock(e, c, b), c, b)
<1> DEFINE u == Red!PutBlock(e, c, b)
           t == Append(e.updates, <<c, b>>)
<1>1. IsList(t)
  BY ListAppend DEF Shape
<1>2. /\ u = [world |-> u.world, comps |-> u.comps, order |-> u.order, level |-> u.level,
            strong |-> u.strong, sched |-> u.sched, updates |-> u.updates, gone |-> u.gone,
            odd |-> u.odd]
      /\ u.world = [e.world EXCEPT ![c] = b] /\ u.comps = e.comps /\ u.order = e.order
      /\ u.sched = e.sched /\ u.updates = t /\ u.gone = e.gone /\ u.odd = e.odd
      /\ u.level = e.level
  BY DEF Red!PutBlock, Shape
<1> HIDE DEF u
<1>3. /\ u.world = [d \in RedCells |-> u.world[d]] /\ \A d \in RedCells : Solid(u.world[d])
  BY <1>2 DEF Shape
<1> HIDE DEF t
<1>4. Shape(u)
  BY <1>1, <1>2, <1>3 DEF Shape
<1> QED
  BY <1>2, <1>4 DEF Written, u, t

-------------------------------------------------------------------------------
(* A tick keeps the table with the world, puts every change down for the    *)
(* clients and takes no block away.  X: the cells a handler may be at; w:   *)
(* the world at the start of the tick.                                      *)

TableFits(X, e) == \A c \in RedCells \ (X \cup e.odd) : e.comps[c].kind = KindOf(e.world[c])

PutDown(w, e) ==
    /\ \A c \in RedCells : (\A i \in 1..Len(e.updates) : e.updates[i][1] # c) => e.world[c] = w[c]
    /\ \A i \in 1..Len(e.updates) :
          /\ e.updates[i][1] \in RedCells
          /\ (\A j \in (i+1)..Len(e.updates) : e.updates[j][1] # e.updates[i][1])
                => e.updates[i][2] = e.world[e.updates[i][1]]

Fleeting == {"air", "piston_head"}
Holding(w, kd) == {c \in RedCells : w[c].kind = kd}
Tallies(w, v) == \A kd : kd \notin Fleeting =>
    /\ Cardinality(Holding(v, kd)) <= Cardinality(Holding(w, kd))
    /\ kd # "tnt" => Cardinality(Holding(v, kd)) = Cardinality(Holding(w, kd))

InStep(X, w, e) ==
    /\ Shape(e) /\ TableFits(X, e) /\ PutDown(w, e)
    /\ X \cup e.odd = {} => Tallies(w, e.world)

LEMMA HoldingCounts == \A w, kd : IsFiniteSet(Holding(w, kd)) /\ Cardinality(Holding(w, kd)) \in Nat
<1> SUFFICES ASSUME NEW w, NEW kd
             PROVE  IsFiniteSet(Holding(w, kd)) /\ Cardinality(Holding(w, kd)) \in Nat
  OBVIOUS
<1>1. Holding(w, kd) \subseteq RedCells
  BY DEF Holding
<1> QED
  BY <1>1, RedFacts, FS_Subset, FS_CardinalityType

LEMMA TalliesSelf == \A w : Tallies(w, w)
BY HoldingCounts DEF Tallies

LEMMA TalliesTwice ==
    ASSUME NEW w, NEW v, NEW x, Tallies(w, v), Tallies(v, x)
    PROVE  Tallies(w, x)
<1> SUFFICES ASSUME NEW kd, kd \notin Fleeting
             PROVE  /\ Cardinality(Holding(x, kd)) <= Cardinality(Holding(w, kd))
                    /\ kd # "tnt" => Cardinality(Holding(x, kd)) = Cardinality(Holding(w, kd))
  BY DEF Tallies
<1>1. /\ Cardinality(Holding(x, kd)) <= Cardinality(Holding(v, kd))
      /\ kd # "tnt" => Cardinality(Holding(x, kd)) = Cardinality(Holding(v, kd))
      /\ Cardinality(Holding(v, kd)) <= Cardinality(Holding(w, kd))
      /\ kd # "tnt" => Cardinality(Holding(v, kd)) = Cardinality(Holding(w, kd))
  BY DEF Tallies
<1> QED
  BY <1>1, HoldingCounts

LEMMA InStepNext ==
    ASSUME NEW X, NEW w, NEW e, NEW u, InStep(X, w, e), Shape(u), TableFits(X, u), PutDown(w, u),
           e.odd \subseteq u.odd, X \cup u.odd = {} => Tallies(e.world, u.world)
    PROVE  InStep(X, w, u)
<1>1. ASSUME X \cup u.odd = {} PROVE Tallies(w, u.world)
  <2>1. X \cup e.odd = {}
    BY <1>1
  <2> QED
    BY <1>1, <2>1, TalliesTwice DEF InStep
<1> QED
  BY <1>1 DEF InStep

LEMMA InStepSame ==
    ASSUME NEW X, NEW w, NEW e, NEW u, InStep(X, w, e), Same(e, u)
    PROVE  InStep(X, w, u)
<1>1. TableFits(X, u) /\ PutDown(w, u)
  BY DEF InStep, Same, TableFits, PutDown
<1>2. Shape(u) /\ e.odd \subseteq u.odd /\ Tallies(e.world, u.world)
  BY TalliesSelf DEF Same
<1> QED
  BY <1>1, <1>2, InStepNext

LEMMA WrittenPutDown ==
    ASSUME NEW w, NEW e, NEW u, NEW c \in RedCells, NEW b, Shape(e), PutDown(w, e), Written(e, u, c, b)
    PROVE  PutDown(w, u)
<1> DEFINE n == Len(e.updates)
<1>1. IsList(e.updates) /\ n \in Nat
  BY ListIs DEF Shape
<1>2. /\ Len(u.updates) = n + 1 /\ u.updates[n + 1] = <<c, b>>
      /\ \A i \in 1..n : u.updates[i] = e.updates[i]
  BY <1>1, ListAppend DEF Written
<1>3. u.world = [e.world EXCEPT ![c] = b] /\ e.world = [d \in RedCells |-> e.world[d]]
  BY DEF Written, Shape
<1>4. u.world[c] = b /\ \A d \in RedCells : d # c => u.world[d] = e.world[d]
  BY <1>3
<1> HIDE DEF n
<1>5. ASSUME NEW d \in RedCells, \A i \in 1..Len(u.updates) : u.updates[i][1] # d
      PROVE  u.world[d] = w[d]
  <2>1. n + 1 \in 1..(n+1) /\ \A i \in 1..n : i \in 1..(n+1)
    BY <1>1
  <2>2. d # c /\ \A i \in 1..n : e.updates[i][1] # d
    BY <1>2, <1>5, <2>1
  <2> QED
    BY <1>4, <2>2 DEF PutDown, n
<1>6. ASSUME NEW i \in 1..Len(u.updates)
      PROVE  /\ u.updates[i][1] \in RedCells
             /\ (\A j \in (i+1)..Len(u.updates) : u.updates[j][1] # u.updates[i][1])
                  => u.updates[i][2] = u.world[u.updates[i][1]]
  <2>1. CASE i = n + 1
    BY <1>2, <1>4, <2>1
  <2>2. CASE i # n + 1
    <3>1. i \in 1..n
      BY <1>1, <1>2, <2>2
    <3>2. e.updates[i][1] \in RedCells /\ u.updates[i] = e.updates[i]
      BY <1>2, <3>1 DEF PutDown, n
    <3>3. ASSUME \A j \in (i+1)..(n+1) : u.updates[j][1] # u.updates[i][1]
          PROVE  u.updates[i][2] = u.world[u.updates[i][1]]
      <4>1. n + 1 \in (i+1)..(n+1) /\ \A j \in (i+1)..n : j \in (i+1)..(n+1) /\ j \in 1..n
        BY <1>1, <3>1
      <4>2. e.updates[i][1] # c /\ \A j \in (i+1)..n : e.updates[j][1] # e.updates[i][1]
        BY <1>2, <3>2, <3>3, <4>1
      <4>3. e.updates[i][2] = e.world[e.updates[i][1]]
        BY <3>1, <4>2 DEF PutDown, n
      <4> QED
        BY <1>4, <3>2, <4>2, <4>3
    <3> QED
      BY <1>2, <3>2, <3>3
  <2> QED
    BY <2>1, <2>2
<1> QED
  BY <1>5, <1>6 DEF PutDown

LEMMA RelistedPutDown ==
    ASSUME NEW w, NEW e, NEW u, NEW c, NEW kd, PutDown(w, e), Relisted(e, u, c, kd)
    PROVE  PutDown(w, u)
BY DEF PutDown, Relisted

\* One cell is written with a block of the same kind, or a head comes or goes.
LEMMA TalliesWrite ==
    ASSUME NEW w, w = [d \in RedCells |-> w[d]], NEW c \in RedCells, NEW b,
           b.kind = w[c].kind \/ (b.kind \in Fleeting /\ w[c].kind \in Fleeting)
    PROVE  Tallies(w, [w EXCEPT ![c] = b])
<1> DEFINE v == [w EXCEPT ![c] = b]
<1>1. v[c] = b /\ \A d \in RedCells : d # c => v[d] = w[d]
  OBVIOUS
<1> HIDE DEF v
<1>2. \A kd : kd \notin Fleeting => Holding(v, kd) = Holding(w, kd)
  BY <1>1 DEF Holding
<1> QED
  BY <1>2, HoldingCounts DEF Tallies, v

LEMMA TalliesBlast ==
    ASSUME NEW w, w = [d \in RedCells |-> w[d]], NEW c \in RedCells, w[c].kind = "tnt"
    PROVE  Tallies(w, [w EXCEPT ![c] = Red!Air])
<1> DEFINE v == [w EXCEPT ![c] = Red!Air]
<1>1. v[c].kind = "air" /\ \A d \in RedCells : d # c => v[d] = w[d]
  BY DEF Red!Air, Red!Plain, Red!Block
<1> HIDE DEF v
<1> SUFFICES ASSUME NEW kd, kd \notin Fleeting
             PROVE  /\ Cardinality(Holding(v, kd)) <= Cardinality(Holding(w, kd))
                    /\ kd # "tnt" => Cardinality(Holding(v, kd)) = Cardinality(Holding(w, kd))
  BY DEF Tallies, v
<1>2. CASE kd = "tnt"
  <2>1. Holding(v, kd) \subseteq Holding(w, kd)
    BY <1>1, <1>2 DEF Holding
  <2> QED
    BY <1>2, <2>1, HoldingCounts, FS_Subset
<1>3. CASE kd # "tnt"
  <2>1. kd # "air"
    BY DEF Fleeting
  <2>2. Holding(v, kd) = Holding(w, kd)
    BY <1>1, <1>3, <2>1 DEF Holding
  <2> QED
    BY <2>2, HoldingCounts
<1> QED
  BY <1>2, <1>3

\* A block goes from one cell to another that is empty.
LEMMA TalliesMove ==
    ASSUME NEW w, NEW v, NEW from \in RedCells, NEW to \in RedCells, from # to,
           w[to].kind = "air", v[to] = w[from], v[from].kind = "air",
           \A d \in RedCells : d \notin {from, to} => v[d] = w[d]
    PROVE  Tallies(w, v)
<1> SUFFICES ASSUME NEW kd, kd \notin Fleeting
             PROVE  Cardinality(Holding(v, kd)) = Cardinality(Holding(w, kd))
  BY HoldingCounts DEF Tallies
<1>1. kd # "air"
  BY DEF Fleeting
<1>2. CASE w[from].kind = kd
  <2> DEFINE S == Holding(w, kd) \ {from}
  <2>1. Holding(v, kd) = S \cup {to} /\ from \in Holding(w, kd) /\ to \notin S
    BY <1>1, <1>2 DEF Holding
  <2>2. IsFiniteSet(S) /\ Cardinality(S) = Cardinality(Holding(w, kd)) - 1
    BY <2>1, HoldingCounts, FS_RemoveElement
  <2> HIDE DEF S
  <2>3. Cardinality(S \cup {to}) = Cardinality(S) + 1
    BY <2>1, <2>2, FS_AddElement
  <2> QED
    BY <2>1, <2>2, <2>3, HoldingCounts
<1>3. CASE w[from].kind # kd
  <2>1. Holding(v, kd) = Holding(w, kd)
    BY <1>1, <1>3 DEF Holding
  <2> QED
    BY <2>1
<1> QED
  BY <1>2, <1>3

\* A cell is written and the table needs no change.
LEMMA WriteStep ==
    ASSUME NEW X, NEW w, NEW e, InStep(X, w, e), NEW c \in RedCells, NEW b, Solid(b),
           c \notin X \cup e.odd => KindOf(b) = e.comps[c].kind,
           X \cup e.odd = {} =>
              b.kind = e.world[c].kind \/ (b.kind \in Fleeting /\ e.world[c].kind \in Fleeting)
    PROVE  LET u == Red!PutBlock(e, c, b) IN InStep(X, w, u) /\ Written(e, u, c, b)
<1> DEFINE u == Red!PutBlock(e, c, b)
<1>1. Shape(e) /\ PutDown(w, e) /\ TableFits(X, e)
  BY DEF InStep
<1>2. Written(e, u, c, b)
  BY <1>1, WriteIs
<1> HIDE DEF u
<1>3. PutDown(w, u)
  BY <1>1, <1>2, WrittenPutDown
<1>4. /\ u.world = [e.world EXCEPT ![c] = b] /\ e.world = [d \in RedCells |-> e.world[d]]
      /\ u.comps = e.comps /\ u.odd = e.odd /\ Shape(u)
  BY <1>1, <1>2 DEF Written, Shape
<1>5. u.world[c] = b /\ \A d \in RedCells : d # c => u.world[d] = e.world[d]
  BY <1>4
<1>6. TableFits(X, u)
  BY <1>1, <1>4, <1>5 DEF TableFits
<1>7. X \cup u.odd = {} => Tallies(e.world, u.world)
  BY <1>4, TalliesWrite
<1> QED
  BY <1>2, <1>3, <1>4, <1>6, <1>7, InStepNext DEF u

\* The table is told of a change that is no change to it.
LEMMA RelistStep ==
    ASSUME NEW X, NEW w, NEW e, NEW u, InStep(X, w, e), NEW c \in RedCells, NEW kd,
           Relisted(e, u, c, kd), c \notin X \cup e.odd => kd = KindOf(e.world[c])
    PROVE  InStep(X, w, u)
<1>1. Shape(e) /\ PutDown(w, e) /\ TableFits(X, e)
  BY DEF InStep
<1>2. PutDown(w, u)
  BY <1>1, RelistedPutDown
<1>3. Shape(u) /\ u.world = e.world /\ u.odd = e.odd
  BY DEF Relisted
<1>4. TableFits(X, u)
  BY <1>1, <1>3 DEF TableFits, Relisted
<1>5. Tallies(e.world, u.world)
  BY <1>3, TalliesSelf
<1> QED
  BY <1>2, <1>3, <1>4, <1>5, InStepNext

-------------------------------------------------------------------------------
(* What each step of a tick does to the three.                              *)

LEMMA AirIs == Solid(Red!Air) /\ Red!Air.kind = "air" /\ KindOf(Red!Air) = "none"
               /\ "none" \notin RedKind /\ "air" \notin RedKind /\ "piston_head" \notin RedKind
BY DEF Solid, Red!Air, Red!Plain, Red!Block, Red!Offsets, KindOf, RedKind, Red!Component,
       Red!Sources, Red!Pistons

LEMMA ShowStep ==
    ASSUME NEW X, NEW w, NEW e, InStep(X, w, e), NEW c \in RedCells, e.comps[c].kind # "none"
    PROVE  InStep(X, w, Red!Show(e, c))
<1> DEFINE k == e.comps[c]
           b == Red!Block(k.kind, k.facing, k.kind # "wire" /\ k.on, k.setting)
           j == [k EXCEPT !.dirty = FALSE]
           u == Red!SetComp(e, c, j)
<1>1. Red!Show(e, c) \in {u, Red!PutBlock(u, c, b)}
  BY DEF Red!Show
<1>2. Shape(e) /\ Listable(k) /\ k.kind # "none"
  BY DEF InStep, Shape
<1>3. k.kind \in RedKind /\ k.facing \in Red!Offsets
  BY <1>2 DEF Listable, Red!None
<1>4. Solid(b) /\ b.kind = k.kind
  BY <1>3 DEF Solid, Red!Block
<1> HIDE DEF b
<1>5. k = e.comps[c]
  OBVIOUS
<1> HIDE DEF k
<1>6. Listable(j) /\ j.kind = e.comps[c].kind
  BY <1>2, <1>5, PartIs
<1> HIDE DEF j
<1>7. Same(e, u)
  BY <1>2, <1>6, SetCompIs
<1> HIDE DEF u
<1>8. InStep(X, w, u)
  BY <1>7, InStepSame
<1>9. u.comps[c].kind = k.kind /\ KindOf(b) = k.kind
  BY <1>3, <1>4, <1>5, <1>7 DEF Same, KindOf
<1>10. X \cup u.odd = {} => b.kind = u.world[c].kind
  <2>1. X \cup u.odd = {} => KindOf(u.world[c]) = k.kind
    BY <1>8, <1>9 DEF InStep, TableFits
  <2> QED
    BY <1>2, <1>4, <2>1 DEF KindOf
<1>11. InStep(X, w, Red!PutBlock(u, c, b))
  BY <1>4, <1>8, <1>9, <1>10, WriteStep
<1> QED
  BY <1>1, <1>8, <1>11

LEMMA ActivateStep ==
    ASSUME NEW X, NEW w, NEW e, InStep(X, w, e), NEW c \in RedCells,
           e.comps[c].kind \in {"lamp", "tnt"}
    PROVE  InStep(X, w, Red!Activate(e, c))
<1> DEFINE k == e.comps[c]
           on == Red!Powered(e, c)
           s == Red!Switched(k, on)
           x == IF on /\ k.kind = "tnt" THEN Fuse ELSE 0
           a1 == Red!SetComp(e, c, [s EXCEPT !.timer = x])
           a2 == Red!SetComp(e, c, [k EXCEPT !.timer = @ - 1])
           p == Red!PutBlock(e, c, Red!Air)
           a3 == Red!OnBlockChange(p, c, e.world[c], Red!Air)
<1>1. \/ Red!Activate(e, c) \in {e, a1, a2}
      \/ Red!Activate(e, c) = a3 /\ k.kind = "tnt"
  <2> HIDE DEF on
  <2> QED
    BY DEF Red!Activate, on
<1>2. Shape(e) /\ Listable(k) /\ k.kind # "none" /\ k = e.comps[c]
  BY DEF InStep, Shape
<1>3. InStep(X, w, a1)
  <2> HIDE DEF k, on, x
  <2>1. Listable(s) /\ s.kind = k.kind
    BY <1>2, PartIs
  <2> HIDE DEF s
  <2>2. Listable([s EXCEPT !.timer = x]) /\ [s EXCEPT !.timer = x].kind = e.comps[c].kind
    BY <1>2, <2>1, PartIs
  <2>3. Same(e, a1)
    BY <1>2, <2>2, SetCompIs
  <2> QED
    BY <2>3, InStepSame
<1>4. InStep(X, w, a2)
  <2> HIDE DEF k
  <2>1. Listable([k EXCEPT !.timer = @ - 1]) /\ [k EXCEPT !.timer = @ - 1].kind = e.comps[c].kind
    BY <1>2, PartIs
  <2>2. Same(e, a2)
    BY <1>2, <2>1, SetCompIs
  <2> QED
    BY <2>2, InStepSame
<1>5. ASSUME k.kind = "tnt" PROVE InStep(X, w, a3)
  <2> DEFINE old == e.world[c]
  <2>1. PutDown(w, e) /\ TableFits(X, e)
    BY DEF InStep
  <2>2. Written(e, p, c, Red!Air)
    BY <1>2, AirIs, WriteIs
  <2>3. p.comps[c].kind = "tnt" /\ Shape(p)
    BY <1>5, <2>2 DEF Written
  <2>4. Relisted(p, a3, c, After(p.comps[c].kind, old, Red!Air))
    <3> HIDE DEF p, old
    <3> QED
      BY <2>3, AirIs, ChangeIs DEF old
  <2>5. After(p.comps[c].kind, old, Red!Air) = IF old.kind \in RedKind THEN "none" ELSE "tnt"
    BY <2>3, AirIs DEF After
  <2>6. PutDown(w, a3)
    <3>1. PutDown(w, p)
      BY <1>2, <2>1, <2>2, AirIs, WrittenPutDown
    <3> QED
      BY <2>4, <3>1, RelistedPutDown
  <2>7. /\ a3.world = [e.world EXCEPT ![c] = Red!Air] /\ e.world = [d \in RedCells |-> e.world[d]]
        /\ a3.odd = e.odd /\ Shape(a3)
        /\ \A d \in RedCells : d # c => a3.comps[d].kind = e.comps[d].kind
        /\ a3.comps[c].kind = IF old.kind \in RedKind THEN "none" ELSE "tnt"
    <3>1. /\ p.world = [e.world EXCEPT ![c] = Red!Air] /\ p.comps = e.comps /\ p.odd = e.odd
      BY <2>2 DEF Written
    <3>2. e.world = [d \in RedCells |-> e.world[d]]
      BY <1>2 DEF Shape
    <3> HIDE DEF p, a3, old
    <3>3. /\ a3.world = p.world /\ a3.odd = p.odd /\ Shape(a3)
          /\ \A d \in RedCells : d # c => a3.comps[d].kind = p.comps[d].kind
          /\ a3.comps[c].kind = After(p.comps[c].kind, old, Red!Air)
      BY <2>4 DEF Relisted
    <3> QED
      BY <2>5, <3>1, <3>2, <3>3
  <2> HIDE DEF a3, p
  <2>8. c \notin X \cup e.odd => old.kind = "tnt" /\ "tnt" \in RedKind
    BY <1>5, <2>1 DEF TableFits, KindOf, RedKind, Red!Component
  <2>9. TableFits(X, a3)
    <3>1. a3.world[c] = Red!Air /\ \A d \in RedCells : d # c => a3.world[d] = e.world[d]
      BY <2>7
    <3> QED
      BY <2>1, <2>7, <2>8, <3>1, AirIs DEF TableFits
  <2>10. X \cup a3.odd = {} => Tallies(e.world, a3.world)
    BY <2>7, <2>8, TalliesBlast
  <2> QED
    BY <2>6, <2>7, <2>9, <2>10, InStepNext
<1> HIDE DEF a1, a2, a3, k
<1> QED
  BY <1>1, <1>3, <1>4, <1>5

\* A block goes from one cell to another.
LEMMA MoveIs ==
    ASSUME NEW e, Shape(e), NEW from \in RedCells, NEW to \in RedCells, NEW b, Solid(b)
    PROVE  LET u == Red!Move(e, from, to, b, Red!Air) IN
           /\ Shape(u) /\ u.odd = e.odd
           /\ \A w : PutDown(w, e) => PutDown(w, u)
           /\ \A d \in RedCells : d \notin {from, to} =>
                 u.world[d] = e.world[d] /\ u.comps[d].kind = e.comps[d].kind
           /\ \A d \in RedCells : d \notin u.gone =>
                 d \notin e.gone /\ u.comps[d].kind = e.comps[d].kind
           /\ from # to =>
                 /\ u.world[to] = b /\ u.world[from] = Red!Air
                 /\ u.comps[from].kind = After(e.comps[from].kind, b, Red!Air)
                 /\ u.comps[to].kind = After(e.comps[to].kind, Red!Air, b)
<1> DEFINE u1 == Red!PutBlock(e, to, b)
           u2 == Red!PutBlock(u1, from, Red!Air)
           u3 == Red!OnBlockChange(u2, from, b, Red!Air)
           u4 == Red!OnBlockChange(u3, to, Red!Air, b)
<1>1. Red!Move(e, from, to, b, Red!Air) = u4
  BY DEF Red!Move
<1>2. Written(e, u1, to, b)
  BY WriteIs
<1> HIDE DEF u1
<1>3. Written(u1, u2, from, Red!Air)
  <2>1. Shape(u1) /\ Solid(Red!Air)
    BY <1>2, AirIs DEF Written
  <2> QED
    BY <2>1, WriteIs
<1> HIDE DEF u2
<1>4. Relisted(u2, u3, from, After(u2.comps[from].kind, b, Red!Air))
  BY <1>3, ChangeIs, AirIs DEF Written
<1> HIDE DEF u3
<1>5. Relisted(u3, u4, to, After(u3.comps[to].kind, Red!Air, b))
  BY <1>4, ChangeIs DEF Relisted
<1> HIDE DEF u4
<1>6. \A w : PutDown(w, e) => PutDown(w, u4)
  <2>1. SUFFICES ASSUME NEW w, PutDown(w, e) PROVE PutDown(w, u4)
    OBVIOUS
  <2>2. PutDown(w, u1)
    BY <1>2, <2>1, WrittenPutDown
  <2>3. PutDown(w, u2)
    BY <1>2, <1>3, <2>2, WrittenPutDown DEF Written
  <2>4. PutDown(w, u3)
    BY <1>4, <2>3, RelistedPutDown
  <2> QED
    BY <1>5, <2>4, RelistedPutDown
<1>7. u4.world = [[e.world EXCEPT ![to] = b] EXCEPT ![from] = Red!Air]
      /\ e.world = [d \in RedCells |-> e.world[d]] /\ u4.odd = e.odd /\ Shape(u4)
      /\ u2.comps = e.comps /\ u2.gone = e.gone
  BY <1>2, <1>3, <1>4, <1>5 DEF Written, Relisted, Shape
<1>8. /\ \A d \in RedCells : d \notin {from, to} => u4.world[d] = e.world[d]
      /\ from # to => u4.world[to] = b /\ u4.world[from] = Red!Air
  BY <1>7
<1>9. /\ \A d \in RedCells : d # from => u3.comps[d].kind = e.comps[d].kind
      /\ u3.comps[from].kind = After(e.comps[from].kind, b, Red!Air)
      /\ \A d \in RedCells : d # to => u4.comps[d].kind = u3.comps[d].kind
      /\ u4.comps[to].kind = After(u3.comps[to].kind, Red!Air, b)
      /\ e.gone \subseteq u3.gone /\ u3.gone \subseteq u4.gone
      /\ u3.comps[from].kind # e.comps[from].kind => from \in u3.gone
      /\ u4.comps[to].kind # u3.comps[to].kind => to \in u4.gone
  BY <1>4, <1>5, <1>7 DEF Relisted
<1>10. \A d \in RedCells : d \notin u4.gone =>
          d \notin e.gone /\ u4.comps[d].kind = e.comps[d].kind
  <2>1. ASSUME NEW d \in RedCells, d \notin u4.gone
        PROVE  d \notin e.gone /\ u4.comps[d].kind = e.comps[d].kind
    <3>1. d \notin u3.gone /\ d \notin e.gone
      BY <1>9, <2>1
    <3>2. u3.comps[d].kind = e.comps[d].kind
      BY <1>9, <3>1
    <3>3. u4.comps[d].kind = u3.comps[d].kind
      BY <1>9, <2>1
    <3> QED
      BY <3>1, <3>2, <3>3
  <2> QED
    BY <2>1
<1>11. \A d \in RedCells : d \notin {from, to} => u4.comps[d].kind = e.comps[d].kind
  BY <1>9
<1>12. from # to => /\ u4.comps[from].kind = After(e.comps[from].kind, b, Red!Air)
                    /\ u4.comps[to].kind = After(e.comps[to].kind, Red!Air, b)
  BY <1>9
<1> QED
  BY <1>1, <1>6, <1>7, <1>8, <1>10, <1>11, <1>12

\* It is the block that was there, and the other cell is empty or given up.
LEMMA MoveStep ==
    ASSUME NEW X, NEW w, NEW e, InStep(X, w, e), NEW from \in RedCells, NEW to \in RedCells,
           to \in X \cup e.odd \/ (from # to /\ e.world[to] = Red!Air)
    PROVE  InStep(X, w, Red!Move(e, from, to, e.world[from], Red!Air))
<1> DEFINE b == e.world[from]
           u == Red!Move(e, from, to, b, Red!Air)
<1>1. Shape(e) /\ PutDown(w, e) /\ TableFits(X, e) /\ Solid(b)
  BY DEF InStep, Shape
<1>2. b = e.world[from]
  OBVIOUS
<1> HIDE DEF b
<1>3. /\ Shape(u) /\ u.odd = e.odd /\ PutDown(w, u)
      /\ \A d \in RedCells : d \notin {from, to} =>
            u.world[d] = e.world[d] /\ u.comps[d].kind = e.comps[d].kind
      /\ from # to =>
            /\ u.world[to] = b /\ u.world[from] = Red!Air
            /\ u.comps[from].kind = After(e.comps[from].kind, b, Red!Air)
            /\ u.comps[to].kind = After(e.comps[to].kind, Red!Air, b)
  BY <1>1, MoveIs
<1> HIDE DEF u
<1>4. TableFits(X, u)
  <2> SUFFICES ASSUME NEW d \in RedCells \ (X \cup e.odd)
               PROVE  u.comps[d].kind = KindOf(u.world[d])
    BY <1>3 DEF TableFits
  <2>1. e.comps[d].kind = KindOf(e.world[d])
    BY <1>1 DEF TableFits
  <2>2. CASE d \notin {from, to}
    BY <1>3, <2>1, <2>2
  <2>3. CASE d = to
    <3>1. from # to /\ e.world[to] = Red!Air
      BY <2>3
    <3>2. e.comps[to].kind = "none"
      BY <2>1, <2>3, <3>1, AirIs
    <3>3. After("none", Red!Air, b) = KindOf(b)
      BY AirIs DEF After, KindOf
    <3> QED
      BY <1>3, <2>3, <3>1, <3>2, <3>3
  <2>4. CASE d = from /\ from # to
    <3>1. After(KindOf(b), b, Red!Air) = "none"
      BY AirIs DEF After, KindOf
    <3>2. u.comps[from].kind = After(KindOf(b), b, Red!Air) /\ u.world[from] = Red!Air
      BY <1>2, <1>3, <2>1, <2>4
    <3> QED
      BY <2>4, <3>1, <3>2, AirIs
  <2> QED
    BY <2>2, <2>3, <2>4
<1>5. X \cup u.odd = {} => Tallies(e.world, u.world)
  <2>1. SUFFICES ASSUME X \cup u.odd = {} PROVE Tallies(e.world, u.world)
    OBVIOUS
  <2>2. from # to /\ e.world[to] = Red!Air
    BY <1>3, <2>1
  <2>3. e.world[to].kind = "air" /\ u.world[to] = e.world[from] /\ u.world[from].kind = "air"
    BY <1>2, <1>3, <2>2, AirIs
  <2> QED
    BY <1>3, <2>2, <2>3, TalliesMove
<1>6. InStep(X, w, u)
  BY <1>3, <1>4, <1>5, InStepNext
<1> QED
  BY <1>6 DEF u, b

\* The piston's own field and block.
LEMMA MovedStep ==
    ASSUME NEW X, NEW w, NEW e, InStep(X, w, e), NEW c \in RedCells, NEW k, Solid(k),
           k.kind \in Red!Pistons, c \notin e.gone => e.comps[c].kind = k.kind, NEW on
    PROVE  LET u == Red!Moved(e, c, k, on) IN
           InStep(X, w, u) /\ \A d \in RedCells : d \notin u.gone =>
                                d \notin e.gone /\ u.comps[d].kind = e.comps[d].kind
<1> DEFINE b == Red!Block(k.kind, k.facing, on, k.setting)
           v == [e EXCEPT !.odd = @ \cup {c}]
           j == [e.comps[c] EXCEPT !.on = on]
           s == Red!SetComp(e, c, j)
<1>1. Red!Moved(e, c, k, on) = Red!PutBlock(IF c \in e.gone THEN v ELSE s, c, b)
  BY DEF Red!Moved
<1>2. Solid(b) /\ b.kind = k.kind /\ KindOf(b) = k.kind /\ k.kind # "none"
  BY AirIs DEF Solid, Red!Block, KindOf, RedKind, Red!Component, Red!Pistons
<1> HIDE DEF b
<1>3. Shape(e) /\ PutDown(w, e) /\ TableFits(X, e)
  BY DEF InStep
<1>4. CASE c \in e.gone
  <2>1. /\ v = [world |-> v.world, comps |-> v.comps, order |-> v.order, level |-> v.level,
              strong |-> v.strong, sched |-> v.sched, updates |-> v.updates, gone |-> v.gone,
              odd |-> v.odd]
        /\ v.world = e.world /\ v.comps = e.comps /\ v.order = e.order /\ v.sched = e.sched
        /\ v.updates = e.updates /\ v.gone = e.gone /\ v.odd = e.odd \cup {c}
        /\ v.level = e.level
    <3>1. e = [world |-> e.world, comps |-> e.comps, order |-> e.order, level |-> e.level,
               strong |-> e.strong, sched |-> e.sched, updates |-> e.updates, gone |-> e.gone,
               odd |-> e.odd]
      BY <1>3 DEF Shape
    <3>2. v = [world |-> e.world, comps |-> e.comps, order |-> e.order, level |-> e.level,
               strong |-> e.strong, sched |-> e.sched, updates |-> e.updates, gone |-> e.gone,
               odd |-> e.odd \cup {c}]
      BY <3>1
    <3> QED
      BY <3>2
  <2> HIDE DEF v
  <2>2. Shape(v)
    BY <1>3, <2>1 DEF Shape
  <2>3. PutDown(w, v) /\ TableFits(X, v) /\ e.odd \subseteq v.odd /\ c \in v.odd
    BY <1>3, <2>1 DEF PutDown, TableFits
  <2>4. InStep(X, w, v)
    BY <2>2, <2>3, InStepNext
  <2>5. InStep(X, w, Red!PutBlock(v, c, b)) /\ Written(v, Red!PutBlock(v, c, b), c, b)
    BY <1>2, <2>3, <2>4, WriteStep
  <2> QED
    BY <1>1, <1>4, <2>1, <2>5 DEF Written
<1>5. CASE c \notin e.gone
  <2>1. Listable(e.comps[c]) /\ e.comps[c].kind = k.kind
    BY <1>3, <1>5 DEF Shape
  <2>2. Listable(j) /\ j.kind = e.comps[c].kind
    BY <1>2, <2>1, PartIs
  <2> HIDE DEF j
  <2>3. Same(e, s)
    BY <1>3, <2>2, SetCompIs
  <2> HIDE DEF s
  <2>4. InStep(X, w, s)
    BY <2>3, InStepSame
  <2>5. s.comps[c].kind = KindOf(b)
    BY <1>2, <2>1, <2>3 DEF Same
  <2>6. X \cup s.odd = {} => b.kind = s.world[c].kind
    <3>1. X \cup s.odd = {} => KindOf(s.world[c]) = k.kind
      BY <1>2, <2>4, <2>5 DEF InStep, TableFits
    <3> QED
      BY <1>2, <3>1 DEF KindOf
  <2>7. InStep(X, w, Red!PutBlock(s, c, b)) /\ Written(s, Red!PutBlock(s, c, b), c, b)
    BY <1>2, <2>4, <2>5, <2>6, WriteStep
  <2> QED
    BY <1>1, <1>5, <2>3, <2>7 DEF Written, Same
<1> QED
  BY <1>4, <1>5

-------------------------------------------------------------------------------
(* The passes of a tick are folds.  t says which: its step is RedStep(t).   *)

\* The x-th block that a piston at c pushes, of the n - 1 in world w, moves on.
Pushed(w, c, k, n, e, x) ==
    Red!Move(e, Red!Ahead(c, k, n - x), Red!Ahead(c, k, n - x + 1),
             w.world[Red!Ahead(c, k, n - x)], Red!Air)

RedStep(t, e, x) ==
    CASE t[1] = "fire"    -> Red!Fire(e, x)
      [] t[1] = "turn"    -> Red!Turn(e, t[2], x)
      [] t[1] = "levels"  -> IF Red!KindAt(e, x) \in {"none", "wire"} THEN e
                             ELSE Red!CalculateLevel(e, x)
      [] t[1] = "show"    -> IF Red!Known(e, x) THEN Red!Show(e, x) ELSE e
      [] t[1] = "piston"  -> Red!UpdatePiston(e, x)
      [] t[1] = "push"    -> Pushed(t[2], t[3], t[4], t[5], e, x)
      [] t[1] = "seed"    -> IF x \in DOMAIN t[2] /\ t[2][x] > 0 THEN Append(e, x) ELSE e

LEMMA StepIs ==
    /\ \A e, x : RedStep(<<"fire">>, e, x) = Red!Fire(e, x)
    /\ \A ks, e, x : RedStep(<<"turn", ks>>, e, x) = Red!Turn(e, ks, x)
    /\ \A e, x : RedStep(<<"levels">>, e, x) =
          IF Red!KindAt(e, x) \in {"none", "wire"} THEN e ELSE Red!CalculateLevel(e, x)
    /\ \A e, x : RedStep(<<"show">>, e, x) = IF Red!Known(e, x) THEN Red!Show(e, x) ELSE e
    /\ \A e, x : RedStep(<<"piston">>, e, x) = Red!UpdatePiston(e, x)
    /\ \A w, c, k, n, e, x : RedStep(<<"push", w, c, k, n>>, e, x) = Pushed(w, c, k, n, e, x)
BY DEF RedStep

IsRun(g, t, b, q, n) ==
    g = [s \in SUBSET (1..n) |-> IF s = {} THEN b ELSE RedStep(t, g[s \ {Max(s)}], q[Max(s)])]

LEMMA RunExists ==
    ASSUME NEW t, NEW b, NEW q, NEW n \in Nat
    PROVE  \E g : IsRun(g, t, b, q, n)
<1> DEFINE Bad == {m \in 0..n : ~ \E g : IsRun(g, t, b, q, m)}
<1>1. SUFFICES ASSUME Bad # {} PROVE FALSE
  <2>1. n \in 0..n
    OBVIOUS
  <2> QED
    BY <2>1
<1>2. PICK m \in Bad : \A j \in Bad : ~(j < m)
  <2>1. Bad \in SUBSET Nat
    OBVIOUS
  <2> HIDE DEF Bad
  <2> QED
    BY <1>1, <2>1, LeastNumber
<1>3. m # 0
  <2> SUFFICES ASSUME m = 0 PROVE FALSE
    OBVIOUS
  <2> DEFINE g == [s \in SUBSET (1..m) |-> b]
  <2>1. 1..m = {}
    OBVIOUS
  <2>2. \A s \in SUBSET (1..m) : s = {}
    BY <2>1
  <2>3. g = [s \in SUBSET (1..m) |-> IF s = {} THEN b ELSE RedStep(t, g[s \ {Max(s)}], q[Max(s)])]
    BY <2>2
  <2> HIDE DEF g
  <2>4. IsRun(g, t, b, q, m)
    BY <2>3 DEF IsRun
  <2> QED
    BY <1>2, <2>4
<1>4. m \in 0..n /\ m \in Nat /\ m - 1 \in 0..n /\ m - 1 \notin Bad
  <2>1. m \in 0..n /\ m \in Nat
    BY <1>2
  <2>2. m - 1 \in 0..n /\ m - 1 < m
    BY <1>3, <2>1
  <2> HIDE DEF Bad
  <2> QED
    BY <1>2, <2>1, <2>2
<1>5. PICK g : IsRun(g, t, b, q, m - 1)
  BY <1>4
<1> DEFINE D == 1..(m-1)
           next(f, s) == RedStep(t, f[s \ {Max(s)}], q[Max(s)])
           h == [s \in SUBSET (1..m) |-> IF s \in SUBSET D THEN g[s] ELSE next(g, s)]
<1>6. /\ D \subseteq 1..m /\ m \notin D
      /\ \A s \in SUBSET (1..m) : s \in SUBSET D \/ (m \in s /\ s # {} /\ s \ {m} \in SUBSET D)
  BY <1>4, <1>3
<1>7. \A s \in SUBSET D : g[s] = IF s = {} THEN b ELSE next(g, s)
  BY <1>5 DEF IsRun
<1> HIDE DEF next
<1>8. ASSUME NEW s \in SUBSET (1..m)
      PROVE  h[s] = IF s = {} THEN b ELSE next(h, s)
  <2>1. CASE s = {}
    BY <1>6, <1>7, <2>1
  <2>2. CASE s # {}
    <3>1. Max(s) \in s /\ \A k \in s : k <= Max(s)
      BY <1>4, <2>2, MaxIs
    <3>2. s \ {Max(s)} \in SUBSET D
      <4>1. CASE s \in SUBSET D
        BY <4>1
      <4>2. CASE s \notin SUBSET D
        <5>1. m \in s /\ s \ {m} \in SUBSET D
          BY <1>6, <4>2
        <5>2. m <= Max(s) /\ Max(s) \in 1..m
          BY <3>1, <5>1
        <5>3. Max(s) = m
          BY <1>4, <5>2
        <5> QED
          BY <5>1, <5>3
      <4> QED
        BY <4>1, <4>2
    <3>3. h[s \ {Max(s)}] = g[s \ {Max(s)}]
      BY <1>6, <3>2
    <3>4. next(h, s) = next(g, s)
      BY <3>3 DEF next
    <3>5. h[s] = next(g, s)
      BY <1>6, <1>7, <2>2
    <3> QED
      BY <2>2, <3>4, <3>5
  <2> QED
    BY <2>1, <2>2
<1>9. h = [s \in SUBSET (1..m) |-> h[s]]
  OBVIOUS
<1> HIDE DEF h
<1>10. h = [s \in SUBSET (1..m) |-> IF s = {} THEN b ELSE next(h, s)]
  BY <1>8, <1>9
<1>11. IsRun(h, t, b, q, m)
  BY <1>10 DEF IsRun, next
<1> QED
  BY <1>2, <1>11

\* a lists what each step comes to.
IsChain(a, t, b, q) == a[0] = b /\ \A k \in 1..Len(q) : a[k] = RedStep(t, a[k - 1], q[k])

LEMMA RunChain ==
    ASSUME NEW t, NEW b, NEW q, IsList(q), NEW h, IsRun(h, t, b, q, Len(q))
    PROVE  \E a : IsChain(a, t, b, q) /\ h[DOMAIN q] = a[Len(q)]
<1> DEFINE n == Len(q)
           a == [k \in 0..n |-> h[1..k]]
<1>1. n \in Nat /\ DOMAIN q = 1..n
  BY ListIs
<1>2. \A s \in SUBSET (1..n) :
         h[s] = IF s = {} THEN b ELSE RedStep(t, h[s \ {Max(s)}], q[Max(s)])
  BY DEF IsRun
<1> HIDE DEF n
<1>3. a[0] = b
  <2>1. 1..0 = {} /\ 0 \in 0..n
    BY <1>1
  <2> QED
    BY <1>2, <2>1
<1>4. ASSUME NEW k \in 1..n PROVE a[k] = RedStep(t, a[k - 1], q[k])
  <2>1. /\ 1..k \in SUBSET (1..n) /\ 1..k # {} /\ Max(1..k) = k /\ (1..k) \ {k} = 1..(k-1)
        /\ k - 1 \in 0..n /\ k \in 0..n
    BY <1>1, FoldPrefix
  <2>2. a[k] = h[1..k] /\ a[k - 1] = h[1..(k-1)]
    BY <2>1
  <2>3. h[1..k] = RedStep(t, h[(1..k) \ {Max(1..k)}], q[Max(1..k)])
    BY <1>2, <2>1
  <2> QED
    BY <2>1, <2>2, <2>3
<1>5. h[DOMAIN q] = a[n]
  <2>1. n \in 0..n
    BY <1>1
  <2> QED
    BY <1>1, <2>1
<1> QED
  BY <1>3, <1>4, <1>5 DEF IsChain, n

\* What holds at first and after every step holds in the end.
LEMMA ChainKeeps ==
    ASSUME NEW n \in Nat, NEW S, 0 \in S, \A k \in 1..n : k - 1 \in S => k \in S
    PROVE  \A k \in 0..n : k \in S
<1> DEFINE Bad == {k \in 0..n : k \notin S}
<1>1. SUFFICES ASSUME Bad # {} PROVE FALSE
  OBVIOUS
<1>2. PICK m \in Bad : \A j \in Bad : ~(j < m)
  <2>1. Bad \in SUBSET Nat
    OBVIOUS
  <2> HIDE DEF Bad
  <2> QED
    BY <1>1, <2>1, LeastNumber
<1>3. m \in 0..n /\ m \notin S /\ m # 0
  BY <1>2
<1>4. m \in 1..n /\ m - 1 \in 0..n /\ m - 1 < m
  BY <1>3
<1> QED
  BY <1>2, <1>3, <1>4

IsFire(g, b, q) ==
    g = [s \in SUBSET DOMAIN q |-> IF s = {} THEN b ELSE Red!Fire(g[s \ {Max(s)}], q[Max(s)])]
IsTurn(g, ks, b, q) ==
    g = [s \in SUBSET DOMAIN q |-> IF s = {} THEN b ELSE Red!Turn(g[s \ {Max(s)}], ks, q[Max(s)])]
IsLevels(g, b, q) ==
    g = [s \in SUBSET DOMAIN q |->
            IF s = {} THEN b
            ELSE IF Red!KindAt(g[s \ {Max(s)}], q[Max(s)]) \in {"none", "wire"}
                 THEN g[s \ {Max(s)}] ELSE Red!CalculateLevel(g[s \ {Max(s)}], q[Max(s)])]
IsShow(g, b, q) ==
    g = [s \in SUBSET DOMAIN q |->
            IF s = {} THEN b
            ELSE IF Red!Known(g[s \ {Max(s)}], q[Max(s)])
                 THEN Red!Show(g[s \ {Max(s)}], q[Max(s)]) ELSE g[s \ {Max(s)}]]
IsPistons(g, b, q) ==
    g = [s \in SUBSET DOMAIN q |->
            IF s = {} THEN b ELSE Red!UpdatePiston(g[s \ {Max(s)}], q[Max(s)])]
IsPush(g, w, c, k, n, q) ==
    g = [s \in SUBSET DOMAIN q |->
            IF s = {} THEN w
            ELSE Pushed(w, c, k, n, g[s \ {Max(s)}], q[Max(s)])]

LEMMA RunsAre ==
    ASSUME NEW b, NEW q, IsList(q), NEW g
    PROVE  /\ IsRun(g, <<"fire">>, b, q, Len(q)) <=> IsFire(g, b, q)
           /\ \A ks : IsRun(g, <<"turn", ks>>, b, q, Len(q)) <=> IsTurn(g, ks, b, q)
           /\ IsRun(g, <<"levels">>, b, q, Len(q)) <=> IsLevels(g, b, q)
           /\ IsRun(g, <<"show">>, b, q, Len(q)) <=> IsShow(g, b, q)
           /\ IsRun(g, <<"piston">>, b, q, Len(q)) <=> IsPistons(g, b, q)
           /\ \A c, k, n : IsRun(g, <<"push", b, c, k, n>>, b, q, Len(q)) <=> IsPush(g, b, c, k, n, q)
<1>1. DOMAIN q = 1..Len(q)
  BY ListIs
<1>2. IsRun(g, <<"fire">>, b, q, Len(q)) <=> IsFire(g, b, q)
  BY <1>1, StepIs DEF IsRun, IsFire
<1>3. ASSUME NEW ks PROVE IsRun(g, <<"turn", ks>>, b, q, Len(q)) <=> IsTurn(g, ks, b, q)
  <2> DEFINE t == <<"turn", ks>>
  <2>1. \A e, x : RedStep(t, e, x) = Red!Turn(e, ks, x)
    BY StepIs
  <2> HIDE DEF t
  <2>2. IsRun(g, t, b, q, Len(q)) <=> IsTurn(g, ks, b, q)
    BY <1>1, <2>1 DEF IsRun, IsTurn
  <2> QED
    BY <2>2 DEF t
<1>4. IsRun(g, <<"levels">>, b, q, Len(q)) <=> IsLevels(g, b, q)
  BY <1>1, StepIs DEF IsRun, IsLevels
<1>5. IsRun(g, <<"show">>, b, q, Len(q)) <=> IsShow(g, b, q)
  BY <1>1, StepIs DEF IsRun, IsShow
<1>6. IsRun(g, <<"piston">>, b, q, Len(q)) <=> IsPistons(g, b, q)
  BY <1>1, StepIs DEF IsRun, IsPistons
<1>7. ASSUME NEW c, NEW k, NEW n
      PROVE  IsRun(g, <<"push", b, c, k, n>>, b, q, Len(q)) <=> IsPush(g, b, c, k, n, q)
  <2> DEFINE t == <<"push", b, c, k, n>>
  <2>1. \A e, x : RedStep(t, e, x) = Pushed(b, c, k, n, e, x)
    BY StepIs
  <2> HIDE DEF t
  <2>2. IsRun(g, t, b, q, Len(q)) <=> IsPush(g, b, c, k, n, q)
    BY <1>1, <2>1 DEF IsRun, IsPush
  <2> QED
    BY <2>2 DEF t
<1> QED
  BY <1>2, <1>3, <1>4, <1>5, <1>6, <1>7

LEMMA FoldsAre ==
    /\ \A b, q : Red!FoldLeft(Red!Fire, b, q) = (CHOOSE g : IsFire(g, b, q))[DOMAIN q]
    /\ \A b, q : Red!FoldLeft(Red!UpdatePiston, b, q) = (CHOOSE g : IsPistons(g, b, q))[DOMAIN q]
<1>1. \A b, q : Red!FoldLeft(Red!Fire, b, q) = (CHOOSE g : IsFire(g, b, q))[DOMAIN q]
  BY DEF Red!FoldLeft, Red!MapThenFoldSet, Red!Max, Max, IsFire
<1>2. \A b, q : Red!FoldLeft(Red!UpdatePiston, b, q) = (CHOOSE g : IsPistons(g, b, q))[DOMAIN q]
  BY DEF Red!FoldLeft, Red!MapThenFoldSet, Red!Max, Max, IsPistons
<1> QED
  BY <1>1, <1>2

LEMMA PassesAre ==
    /\ \A e, ks : Red!Pass(e, ks) = (CHOOSE g : IsTurn(g, ks, e, e.order))[DOMAIN e.order]
    /\ \A e : Red!Levels(e) = (CHOOSE g : IsLevels(g, e, e.order))[DOMAIN e.order]
    /\ \A e : Red!ShowAll(e) = (CHOOSE g : IsShow(g, e, e.order))[DOMAIN e.order]
<1>1. \A e, ks : Red!Pass(e, ks) = (CHOOSE g : IsTurn(g, ks, e, e.order))[DOMAIN e.order]
  BY DEF Red!Pass, Red!FoldLeft, Red!MapThenFoldSet, Red!Max, Max, IsTurn
<1>2. \A e : Red!Levels(e) = (CHOOSE g : IsLevels(g, e, e.order))[DOMAIN e.order]
  BY DEF Red!Levels, Red!FoldLeft, Red!MapThenFoldSet, Red!Max, Max, IsLevels
<1>3. \A e : Red!ShowAll(e) = (CHOOSE g : IsShow(g, e, e.order))[DOMAIN e.order]
  BY DEF Red!ShowAll, Red!FoldLeft, Red!MapThenFoldSet, Red!Max, Max, IsShow
<1> QED
  BY <1>1, <1>2, <1>3

Gaps(e, c, k) ==
    {n \in 1..(PushLimit + 1) :
        /\ Red!BlockAt(e, Red!Ahead(c, k, n)) = Red!Air
        /\ \A i \in 1..(n - 1) : /\ Red!BlockAt(e, Red!Ahead(c, k, i)) # Red!Air
                                /\ Red!BlockAt(e, Red!Ahead(c, k, i)).kind \notin Red!Unpushable}
Pushing(n) == [i \in 1..(n - 1) |-> i]
PushAll(e, c, k, n) == (CHOOSE g : IsPush(g, e, c, k, n, Pushing(n)))[DOMAIN Pushing(n)]

LEMMA ExtendIs ==
    \A e, c, k : Red!Extend(e, c, k) =
        IF Gaps(e, c, k) = {} THEN e
        ELSE Red!Moved(Red!PutBlock(PushAll(e, c, k, CHOOSE g \in Gaps(e, c, k) : TRUE),
                                    Red!Ahead(c, k, 1),
                                    Red!Block("piston_head", k.facing, FALSE, 1)), c, k, TRUE)
BY DEF Red!Extend, Red!FoldLeft, Red!MapThenFoldSet, Red!Max, Max, Gaps, Pushing, PushAll, IsPush, Pushed

\* Each pass is the last of a chain of its steps.
LEMMA PassChains ==
    ASSUME NEW e, Shape(e)
    PROVE  /\ \A ks : \E a : IsChain(a, <<"turn", ks>>, e, e.order)
                             /\ Red!Pass(e, ks) = a[Len(e.order)]
           /\ \E a : IsChain(a, <<"levels">>, e, e.order) /\ Red!Levels(e) = a[Len(e.order)]
           /\ \E a : IsChain(a, <<"show">>, e, e.order) /\ Red!ShowAll(e) = a[Len(e.order)]
<1> DEFINE q == e.order
<1>1. IsList(q) /\ Len(q) \in Nat
  <2>1. e.order \in Seq(RedCells)
    BY DEF Shape
  <2>2. e.order = [i \in 1..Len(e.order) |-> e.order[i]] /\ Len(e.order) \in Nat
    BY <2>1, LenProperties
  <2> QED
    BY <2>2 DEF IsList
<1> HIDE DEF q
<1>2. ASSUME NEW ks
      PROVE  \E a : IsChain(a, <<"turn", ks>>, e, q)
                    /\ (CHOOSE g : IsTurn(g, ks, e, q))[DOMAIN q] = a[Len(q)]
  <2> DEFINE t == <<"turn", ks>>
             h == CHOOSE g : IsTurn(g, ks, e, q)
  <2>1. \A g : IsRun(g, t, e, q, Len(q)) <=> IsTurn(g, ks, e, q)
    BY <1>1, RunsAre
  <2> HIDE DEF t
  <2>2. \E g : IsRun(g, t, e, q, Len(q))
    BY <1>1, RunExists
  <2>3. IsTurn(h, ks, e, q)
    BY <2>1, <2>2
  <2> HIDE DEF h
  <2>4. IsRun(h, t, e, q, Len(q))
    BY <2>1, <2>3
  <2>5. \E a : IsChain(a, t, e, q) /\ h[DOMAIN q] = a[Len(q)]
    BY <1>1, <2>4, RunChain
  <2> QED
    BY <2>5 DEF h, t
<1>3. \E a : IsChain(a, <<"levels">>, e, q) /\ (CHOOSE g : IsLevels(g, e, q))[DOMAIN q] = a[Len(q)]
  <2> DEFINE t == <<"levels">>
             h == CHOOSE g : IsLevels(g, e, q)
  <2>1. \A g : IsRun(g, t, e, q, Len(q)) <=> IsLevels(g, e, q)
    BY <1>1, RunsAre
  <2> HIDE DEF t
  <2>2. \E g : IsRun(g, t, e, q, Len(q))
    BY <1>1, RunExists
  <2>3. IsLevels(h, e, q)
    BY <2>1, <2>2
  <2> HIDE DEF h
  <2>4. IsRun(h, t, e, q, Len(q))
    BY <2>1, <2>3
  <2>5. \E a : IsChain(a, t, e, q) /\ h[DOMAIN q] = a[Len(q)]
    BY <1>1, <2>4, RunChain
  <2> QED
    BY <2>5 DEF h, t
<1>4. \E a : IsChain(a, <<"show">>, e, q) /\ (CHOOSE g : IsShow(g, e, q))[DOMAIN q] = a[Len(q)]
  <2> DEFINE t == <<"show">>
             h == CHOOSE g : IsShow(g, e, q)
  <2>1. \A g : IsRun(g, t, e, q, Len(q)) <=> IsShow(g, e, q)
    BY <1>1, RunsAre
  <2> HIDE DEF t
  <2>2. \E g : IsRun(g, t, e, q, Len(q))
    BY <1>1, RunExists
  <2>3. IsShow(h, e, q)
    BY <2>1, <2>2
  <2> HIDE DEF h
  <2>4. IsRun(h, t, e, q, Len(q))
    BY <2>1, <2>3
  <2>5. \E a : IsChain(a, t, e, q) /\ h[DOMAIN q] = a[Len(q)]
    BY <1>1, <2>4, RunChain
  <2> QED
    BY <2>5 DEF h, t
<1> QED
  BY <1>2, <1>3, <1>4, PassesAre DEF q

LEMMA FoldChains ==
    ASSUME NEW b, NEW q, IsList(q)
    PROVE  /\ \E a : IsChain(a, <<"fire">>, b, q) /\ Red!FoldLeft(Red!Fire, b, q) = a[Len(q)]
           /\ \E a : IsChain(a, <<"piston">>, b, q)
                     /\ Red!FoldLeft(Red!UpdatePiston, b, q) = a[Len(q)]
           /\ \A c, k, n : \E a : IsChain(a, <<"push", b, c, k, n>>, b, q)
                     /\ (CHOOSE g : IsPush(g, b, c, k, n, q))[DOMAIN q] = a[Len(q)]
<1>1. Len(q) \in Nat
  BY ListIs
<1>2. \E a : IsChain(a, <<"fire">>, b, q) /\ (CHOOSE g : IsFire(g, b, q))[DOMAIN q] = a[Len(q)]
  <2> DEFINE t == <<"fire">>
             h == CHOOSE g : IsFire(g, b, q)
  <2>1. \A g : IsRun(g, t, b, q, Len(q)) <=> IsFire(g, b, q)
    BY RunsAre
  <2> HIDE DEF t
  <2>2. \E g : IsRun(g, t, b, q, Len(q))
    BY <1>1, RunExists
  <2>3. IsFire(h, b, q)
    BY <2>1, <2>2
  <2> HIDE DEF h
  <2>4. IsRun(h, t, b, q, Len(q))
    BY <2>1, <2>3
  <2>5. \E a : IsChain(a, t, b, q) /\ h[DOMAIN q] = a[Len(q)]
    BY <2>4, RunChain
  <2> QED
    BY <2>5 DEF h, t
<1>3. \E a : IsChain(a, <<"piston">>, b, q)
             /\ (CHOOSE g : IsPistons(g, b, q))[DOMAIN q] = a[Len(q)]
  <2> DEFINE t == <<"piston">>
             h == CHOOSE g : IsPistons(g, b, q)
  <2>1. \A g : IsRun(g, t, b, q, Len(q)) <=> IsPistons(g, b, q)
    BY RunsAre
  <2> HIDE DEF t
  <2>2. \E g : IsRun(g, t, b, q, Len(q))
    BY <1>1, RunExists
  <2>3. IsPistons(h, b, q)
    BY <2>1, <2>2
  <2> HIDE DEF h
  <2>4. IsRun(h, t, b, q, Len(q))
    BY <2>1, <2>3
  <2>5. \E a : IsChain(a, t, b, q) /\ h[DOMAIN q] = a[Len(q)]
    BY <2>4, RunChain
  <2> QED
    BY <2>5 DEF h, t
<1>4. ASSUME NEW c, NEW k, NEW n
      PROVE  \E a : IsChain(a, <<"push", b, c, k, n>>, b, q)
                    /\ (CHOOSE g : IsPush(g, b, c, k, n, q))[DOMAIN q] = a[Len(q)]
  <2> DEFINE t == <<"push", b, c, k, n>>
             h == CHOOSE g : IsPush(g, b, c, k, n, q)
  <2>1. \A g : IsRun(g, t, b, q, Len(q)) <=> IsPush(g, b, c, k, n, q)
    BY RunsAre
  <2> HIDE DEF t
  <2>2. \E g : IsRun(g, t, b, q, Len(q))
    BY <1>1, RunExists
  <2>3. IsPush(h, b, c, k, n, q)
    BY <2>1, <2>2
  <2> HIDE DEF h
  <2>4. IsRun(h, t, b, q, Len(q))
    BY <2>1, <2>3
  <2>5. \E a : IsChain(a, t, b, q) /\ h[DOMAIN q] = a[Len(q)]
    BY <2>4, RunChain
  <2> QED
    BY <2>5 DEF h, t
<1> QED
  BY <1>2, <1>3, <1>4, FoldsAre

-------------------------------------------------------------------------------
(* Pistons                                                                   *)

\* No cell of the table has changed its kind since e but those that are known to.
Since(e, u) == \A d \in RedCells : d \notin u.gone =>
                  d \notin e.gone /\ u.comps[d].kind = e.comps[d].kind

LEMMA SinceTwice == \A e, u, v : Since(e, u) /\ Since(u, v) => Since(e, v)
BY DEF Since

LEMMA SinceSame == \A e, u : Same(e, u) => Since(e, u)
BY DEF Since, Same

LEMMA MoveSince ==
    ASSUME NEW e, Shape(e), NEW from \in RedCells, NEW to \in RedCells, NEW b, Solid(b)
    PROVE  LET u == Red!Move(e, from, to, b, Red!Air) IN
           /\ Since(e, u)
           /\ \A d \in RedCells : d \notin {from, to} => u.world[d] = e.world[d]
           /\ from # to => u.world[from] = Red!Air
<1> DEFINE u == Red!Move(e, from, to, b, Red!Air)
<1>1. /\ Shape(u) /\ u.odd = e.odd
      /\ \A w : PutDown(w, e) => PutDown(w, u)
      /\ \A d \in RedCells : d \notin {from, to} =>
            u.world[d] = e.world[d] /\ u.comps[d].kind = e.comps[d].kind
      /\ \A d \in RedCells : d \notin u.gone =>
            d \notin e.gone /\ u.comps[d].kind = e.comps[d].kind
      /\ from # to =>
            /\ u.world[to] = b /\ u.world[from] = Red!Air
            /\ u.comps[from].kind = After(e.comps[from].kind, b, Red!Air)
            /\ u.comps[to].kind = After(e.comps[to].kind, Red!Air, b)
  BY MoveIs
<1> HIDE DEF u
<1>2. Since(e, u)
  BY <1>1 DEF Since
<1> QED
  BY <1>1, <1>2 DEF u

LEMMA AheadIs ==
    ASSUME NEW c \in Spot, NEW k, Solid(k), NEW m \in Int, NEW n \in Int
    PROVE  /\ k.facing = <<0, 0, 0>> => Red!Ahead(c, k, m) = Red!Ahead(c, k, n)
           /\ k.facing # <<0, 0, 0>> /\ m # n => Red!Ahead(c, k, m) # Red!Ahead(c, k, n)
<1>1. PICK x, y, z \in Int : c = <<x, y, z>>
  BY DEF Spot
<1> DEFINE f == k.facing
           A(i) == <<x + i * f[1], y + i * f[2], z + i * f[3]>>
<1>2. \A i : Red!Ahead(c, k, i) = A(i)
  BY <1>1 DEF Red!Ahead
<1>3. f \in {<<0, 0, 0>>, <<1, 0, 0>>, <<-1, 0, 0>>, <<0, 1, 0>>, <<0, -1, 0>>, <<0, 0, 1>>,
            <<0, 0, -1>>}
  BY DEF Solid, Red!Offsets
<1> HIDE DEF f
<1>4. CASE f = <<0, 0, 0>>
  BY <1>2, <1>4 DEF f
<1>5. CASE f \in {<<1, 0, 0>>, <<-1, 0, 0>>}
  <2>1. m # n => A(m)[1] # A(n)[1]
    BY <1>5
  <2> QED
    BY <1>2, <1>5, <2>1 DEF f
<1>6. CASE f \in {<<0, 1, 0>>, <<0, -1, 0>>}
  <2>1. m # n => A(m)[2] # A(n)[2]
    BY <1>6
  <2> QED
    BY <1>2, <1>6, <2>1 DEF f
<1>7. CASE f \in {<<0, 0, 1>>, <<0, 0, -1>>}
  <2>1. m # n => A(m)[3] # A(n)[3]
    BY <1>7
  <2> QED
    BY <1>2, <1>7, <2>1 DEF f
<1> QED
  BY <1>3, <1>4, <1>5, <1>6, <1>7

\* A piston pushes within the cells, up to the first empty one.
LEMMA GapIs ==
    ASSUME NEW e, NEW c \in RedCells, NEW k, Solid(k), NEW n \in Gaps(e, c, k)
    PROVE  /\ n \in Nat \ {0} /\ \A i \in 1..n : Red!Ahead(c, k, i) \in RedCells
           /\ e.world[Red!Ahead(c, k, n)] = Red!Air
           /\ n > 1 => k.facing # <<0, 0, 0>>
<1> DEFINE At(i) == Red!Ahead(c, k, i)
<1>1. /\ n \in Nat \ {0} /\ Red!BlockAt(e, At(n)) = Red!Air
      /\ \A i \in 1..(n - 1) : /\ Red!BlockAt(e, At(i)) # Red!Air
                              /\ Red!BlockAt(e, At(i)).kind \notin Red!Unpushable
  BY RedFacts DEF Gaps
<1>2. /\ Red!Outside # Red!Air /\ Red!Outside.kind \in Red!Unpushable
      /\ \A q : Red!BlockAt(e, q) = IF q \in RedCells THEN e.world[q] ELSE Red!Outside
  BY DEF Red!BlockAt, Red!Outside, Red!Air, Red!Plain, Red!Block, Red!Unpushable
<1>3. c \in Spot
  BY RedFacts
<1> HIDE DEF At
<1>4. \A i \in 1..n : i = n \/ i \in 1..(n - 1)
  BY <1>1
<1>5. \A i \in 1..n : At(i) \in RedCells
  BY <1>1, <1>2, <1>4
<1>6. ASSUME n > 1 PROVE k.facing # <<0, 0, 0>>
  <2>1. 1 \in 1..(n - 1)
    BY <1>1, <1>6
  <2>2. At(1) # At(n)
    BY <1>1, <2>1
  <2> QED
    BY <1>1, <1>3, <2>2, AheadIs DEF At
<1>7. n \in 1..n
  BY <1>1
<1>8. e.world[At(n)] = Red!Air
  BY <1>1, <1>2, <1>5, <1>7
<1> QED
  BY <1>1, <1>5, <1>6, <1>8 DEF At

\* The first i of the blocks have been pushed.
PushedTo(X, w, e, c, k, n, u, i) ==
    /\ InStep(X, w, u) /\ Since(e, u)
    /\ \A j \in 1..(n - i - 1) : u.world[Red!Ahead(c, k, j)] = e.world[Red!Ahead(c, k, j)]
    /\ u.world[Red!Ahead(c, k, n - i)] = Red!Air

LEMMA PushStep ==
    ASSUME NEW X, NEW w, NEW e, NEW c \in RedCells, NEW k, Solid(k), NEW n \in Gaps(e, c, k),
           NEW u, NEW i \in 1..(n - 1), PushedTo(X, w, e, c, k, n, u, i - 1)
    PROVE  PushedTo(X, w, e, c, k, n, Pushed(e, c, k, n, u, i), i)
<1> DEFINE At(j) == Red!Ahead(c, k, j)
           from == At(n - i)
           to == At(n - i + 1)
           v == Red!Move(u, from, to, e.world[from], Red!Air)
<1>1. Pushed(e, c, k, n, u, i) = v
  BY DEF Pushed
<1>2. /\ n \in Nat \ {0} /\ i \in Nat /\ i >= 1 /\ i <= n - 1
      /\ \A j \in 1..n : At(j) \in RedCells
      /\ n > 1 => k.facing # <<0, 0, 0>>
  <2>1. n \in Nat \ {0} /\ \A j \in 1..n : At(j) \in RedCells
    BY GapIs
  <2>2. n > 1 => k.facing # <<0, 0, 0>>
    BY GapIs
  <2> HIDE DEF At
  <2> QED
    BY <2>1, <2>2
<1>3. /\ n - i \in 1..n /\ n - i + 1 \in 1..n /\ n - (i - 1) - 1 = n - i
      /\ n - (i - 1) = n - i + 1 /\ n > 1
  BY <1>2
<1>4. /\ InStep(X, w, u) /\ Since(e, u)
      /\ \A j \in 1..(n - i) : u.world[At(j)] = e.world[At(j)]
      /\ u.world[to] = Red!Air
  BY <1>3 DEF PushedTo
<1>5. \A a, b \in 1..n : a # b => At(a) # At(b)
  <2>1. c \in Spot
    BY RedFacts
  <2>2. \A a \in 1..n : a \in Int
    OBVIOUS
  <2> QED
    BY <1>2, <1>3, <2>1, <2>2, AheadIs
<1> HIDE DEF At
<1>6. from \in RedCells /\ to \in RedCells /\ from # to
  BY <1>2, <1>3, <1>5
<1>7. e.world[from] = u.world[from]
  <2>1. n - i \in 1..(n - i)
    BY <1>2
  <2> QED
    BY <1>4, <2>1
<1>8. InStep(X, w, v)
  BY <1>4, <1>6, <1>7, MoveStep
<1>9. /\ \A d \in RedCells : d \notin {from, to} => v.world[d] = u.world[d]
      /\ Since(u, v)
      /\ v.world[from] = Red!Air
  <2>1. Shape(u) /\ Solid(u.world[from])
    BY <1>4, <1>6 DEF InStep, Shape
  <2> HIDE DEF from, to
  <2>2. v = Red!Move(u, from, to, u.world[from], Red!Air)
    BY <1>7
  <2> HIDE DEF v
  <2>3. /\ \A d \in RedCells : d \notin {from, to} => v.world[d] = u.world[d]
        /\ Since(u, v)
        /\ v.world[from] = Red!Air
    <3> DEFINE x == u.world[from]
    <3>1. v = Red!Move(u, from, to, x, Red!Air) /\ Solid(x)
      BY <2>1, <2>2
    <3> HIDE DEF x
    <3> DEFINE m == Red!Move(u, from, to, x, Red!Air)
    <3>2. /\ \A d \in RedCells : d \notin {from, to} => m.world[d] = u.world[d]
          /\ Since(u, m)
          /\ from # to => m.world[from] = Red!Air
      BY <1>6, <2>1, <3>1, MoveSince
    <3> HIDE DEF m
    <3> QED
      BY <1>6, <3>1, <3>2 DEF m
  <2> QED
    BY <2>3
<1> HIDE DEF v
<1>10. ASSUME NEW j \in 1..(n - i - 1) PROVE v.world[At(j)] = e.world[At(j)]
  <2>1. j \in 1..n /\ j \in 1..(n - i) /\ j # n - i /\ j # n - i + 1
    BY <1>2
  <2>2. At(j) \in RedCells /\ At(j) \notin {from, to}
    BY <1>2, <1>3, <1>5, <2>1
  <2> QED
    BY <1>4, <1>9, <2>1, <2>2
<1>11. Since(e, v)
  BY <1>4, <1>9, SinceTwice
<1> QED
  BY <1>1, <1>8, <1>9, <1>10, <1>11 DEF PushedTo, At

LEMMA PushAllStep ==
    ASSUME NEW X, NEW w, NEW e, InStep(X, w, e), NEW c \in RedCells, NEW k, Solid(k),
           NEW n \in Gaps(e, c, k)
    PROVE  PushedTo(X, w, e, c, k, n, PushAll(e, c, k, n), n - 1)
<1> DEFINE q == Pushing(n)
           t == <<"push", e, c, k, n>>
<1>1. n \in Nat \ {0} /\ e.world[Red!Ahead(c, k, n)] = Red!Air
  BY GapIs
<1>2. IsList(q) /\ Len(q) = n - 1 /\ \A i \in 1..(n - 1) : q[i] = i
  <2>1. n - 1 \in Nat
    BY <1>1
  <2>2. q = [i \in 1..(n - 1) |-> q[i]] /\ \A i \in 1..(n - 1) : q[i] = i
    BY DEF Pushing
  <2>3. Len(q) = n - 1
    <3>1. q \in [1..(n - 1) -> Int]
      BY DEF Pushing
    <3> HIDE DEF q
    <3> QED
      BY <2>1, <3>1, SeqDef
  <2> HIDE DEF q
  <2> QED
    BY <2>1, <2>2, <2>3 DEF IsList
<1> HIDE DEF q
<1>3. PICK a : IsChain(a, t, e, q) /\ (CHOOSE g : IsPush(g, e, c, k, n, q))[DOMAIN q] = a[Len(q)]
  <2>1. IsList(q)
    BY <1>2
  <2>2. \A cc, kk, m : \E a : IsChain(a, <<"push", e, cc, kk, m>>, e, q)
                     /\ (CHOOSE g : IsPush(g, e, cc, kk, m, q))[DOMAIN q] = a[Len(q)]
    BY <2>1, FoldChains
  <2> QED
    BY <2>2
<1>4. \A v, x : RedStep(t, v, x) = Pushed(e, c, k, n, v, x)
  BY StepIs
<1>5. PushAll(e, c, k, n) = a[n - 1]
  BY <1>2, <1>3 DEF PushAll, q
<1>6. a[0] = e /\ \A i \in 1..(n - 1) : a[i] = Pushed(e, c, k, n, a[i - 1], i)
  <2> HIDE DEF t
  <2> QED
    BY <1>2, <1>3, <1>4 DEF IsChain
<1> DEFINE S == {i \in 0..(n - 1) : PushedTo(X, w, e, c, k, n, a[i], i)}
<1>7. 0 \in S
  <2>1. PushedTo(X, w, e, c, k, n, e, 0)
    <3>1. n - 0 = n
      BY <1>1
    <3>2. Since(e, e)
      BY DEF Since
    <3> QED
      BY <1>1, <3>1, <3>2 DEF PushedTo
  <2>2. 0 \in 0..(n - 1)
    BY <1>1
  <2> QED
    BY <1>6, <2>1, <2>2
<1>8. \A i \in 1..(n - 1) : i - 1 \in S => i \in S
  <2> SUFFICES ASSUME NEW i \in 1..(n - 1), i - 1 \in S PROVE i \in S
    OBVIOUS
  <2>1. PushedTo(X, w, e, c, k, n, a[i], i)
    BY <1>6, PushStep
  <2>2. i \in 0..(n - 1)
    BY <1>1
  <2> QED
    BY <2>1, <2>2
<1>9. n - 1 \in Nat /\ n - 1 \in 0..(n - 1)
  BY <1>1
<1> HIDE DEF S
<1>10. n - 1 \in S
  BY <1>7, <1>8, <1>9, ChainKeeps
<1> QED
  BY <1>5, <1>10 DEF S

LEMMA ExtendStep ==
    ASSUME NEW X, NEW w, NEW e, InStep(X, w, e), NEW c \in RedCells, NEW k, Solid(k),
           k.kind \in Red!Pistons, c \notin e.gone => e.comps[c].kind = k.kind
    PROVE  InStep(X, w, Red!Extend(e, c, k)) /\ Since(e, Red!Extend(e, c, k))
<1>1. CASE Gaps(e, c, k) = {}
  BY <1>1, ExtendIs DEF Since
<1>2. CASE Gaps(e, c, k) # {}
  <2> DEFINE n == CHOOSE g \in Gaps(e, c, k) : TRUE
             u == PushAll(e, c, k, n)
             front == Red!Ahead(c, k, 1)
             b == Red!Block("piston_head", k.facing, FALSE, 1)
             v == Red!PutBlock(u, front, b)
  <2>1. n \in Gaps(e, c, k)
    BY <1>2
  <2>2. Red!Extend(e, c, k) = Red!Moved(v, c, k, TRUE)
    BY <1>2, ExtendIs
  <2> HIDE DEF n
  <2>3. n \in Nat \ {0} /\ front \in RedCells
    <3>1. n \in Nat \ {0} /\ \A i \in 1..n : Red!Ahead(c, k, i) \in RedCells
      BY <2>1, GapIs
    <3>2. 1 \in 1..n
      BY <3>1
    <3> QED
      BY <3>1, <3>2
  <2>4. InStep(X, w, u) /\ Since(e, u) /\ u.world[front] = Red!Air
    <3>1. PushedTo(X, w, e, c, k, n, u, n - 1) /\ n - (n - 1) = 1
      BY <2>1, <2>3, PushAllStep
    <3> HIDE DEF u
    <3> QED
      BY <3>1 DEF PushedTo
  <2> HIDE DEF u, front
  <2>5. Solid(b) /\ b.kind \in Fleeting /\ KindOf(b) = "none"
    BY AirIs DEF Solid, Red!Block, Fleeting, KindOf
  <2> HIDE DEF b
  <2>6. front \notin X \cup u.odd => u.comps[front].kind = "none"
    BY <2>3, <2>4, AirIs DEF InStep, TableFits
  <2>7. InStep(X, w, v) /\ Written(u, v, front, b)
    <3>1. u.world[front].kind \in Fleeting
      BY <2>4, AirIs DEF Fleeting
    <3> QED
      BY <2>3, <2>4, <2>5, <2>6, <3>1, WriteStep
  <2> HIDE DEF v
  <2>8. Since(e, v)
    BY <2>4, <2>7 DEF Since, Written
  <2>9. c \notin v.gone => v.comps[c].kind = k.kind
    BY <2>8 DEF Since
  <2>10. InStep(X, w, Red!Moved(v, c, k, TRUE)) /\ Since(v, Red!Moved(v, c, k, TRUE))
    <3> DEFINE on == TRUE
               m == Red!Moved(v, c, k, on)
    <3> HIDE DEF on
    <3>1. InStep(X, w, m) /\ \A d \in RedCells : d \notin m.gone =>
                                d \notin v.gone /\ m.comps[d].kind = v.comps[d].kind
      BY <2>7, <2>9, MovedStep
    <3> HIDE DEF m
    <3>2. InStep(X, w, m) /\ Since(v, m)
      BY <3>1 DEF Since
    <3> QED
      BY <3>2 DEF m, on
  <2> QED
    BY <2>2, <2>8, <2>10, SinceTwice
<1> QED
  BY <1>1, <1>2

LEMMA OddIs ==
    ASSUME NEW X, NEW w, NEW e, InStep(X, w, e), NEW o, e.odd \subseteq o
    PROVE  LET v == [e EXCEPT !.odd = o] IN
           /\ InStep(X, w, v) /\ v.world = e.world /\ v.comps = e.comps /\ v.gone = e.gone
           /\ v.odd = o
<1> DEFINE v == [e EXCEPT !.odd = o]
<1>1. Shape(e) /\ PutDown(w, e) /\ TableFits(X, e)
  BY DEF InStep
<1>2. /\ v = [world |-> v.world, comps |-> v.comps, order |-> v.order, level |-> v.level,
            strong |-> v.strong, sched |-> v.sched, updates |-> v.updates, gone |-> v.gone,
            odd |-> v.odd]
      /\ v.world = e.world /\ v.comps = e.comps /\ v.order = e.order /\ v.sched = e.sched
      /\ v.updates = e.updates /\ v.gone = e.gone /\ v.odd = o /\ v.level = e.level
  <2>1. e = [world |-> e.world, comps |-> e.comps, order |-> e.order, level |-> e.level,
             strong |-> e.strong, sched |-> e.sched, updates |-> e.updates, gone |-> e.gone,
             odd |-> e.odd]
    BY <1>1 DEF Shape
  <2>2. v = [world |-> e.world, comps |-> e.comps, order |-> e.order, level |-> e.level,
             strong |-> e.strong, sched |-> e.sched, updates |-> e.updates, gone |-> e.gone,
             odd |-> o]
    BY <2>1
  <2> QED
    BY <2>2
<1> HIDE DEF v
<1>3. Shape(v)
  BY <1>1, <1>2 DEF Shape
<1>4. PutDown(w, v) /\ TableFits(X, v) /\ e.odd \subseteq v.odd
  BY <1>1, <1>2 DEF PutDown, TableFits
<1>5. Tallies(e.world, v.world)
  BY <1>2, TalliesSelf
<1>6. InStep(X, w, v)
  BY <1>3, <1>4, <1>5, InStepNext
<1> QED
  BY <1>2, <1>6 DEF v

\* The head comes off.
LEMMA HeadStep ==
    ASSUME NEW X, NEW w, NEW e, InStep(X, w, e), NEW head \in RedCells,
           e.world[head].kind = "piston_head"
    PROVE  LET u == Red!OnBlockChange(Red!PutBlock(e, head, Red!Air), head, e.world[head], Red!Air)
           IN  InStep(X, w, u) /\ Since(e, u)
<1> DEFINE p == Red!PutBlock(e, head, Red!Air)
           old == e.world[head]
           u == Red!OnBlockChange(p, head, old, Red!Air)
<1>1. old.kind \notin RedKind /\ old.kind \in Fleeting /\ KindOf(old) = "none"
  BY AirIs DEF Fleeting, KindOf
<1>2. Red!Air.kind \in Fleeting
  BY AirIs DEF Fleeting
<1>3. head \notin X \cup e.odd => e.comps[head].kind = "none"
  BY <1>1 DEF InStep, TableFits
<1>4. InStep(X, w, p) /\ Written(e, p, head, Red!Air)
  BY <1>1, <1>2, <1>3, AirIs, WriteStep
<1>5. Shape(p) /\ p.comps = e.comps /\ p.odd = e.odd /\ p.gone = e.gone
      /\ p.world[head] = Red!Air
  BY <1>4 DEF Written, InStep, Shape
<1> HIDE DEF p, old
<1>6. Relisted(p, u, head, After(p.comps[head].kind, old, Red!Air))
  BY <1>5, AirIs, ChangeIs
<1>7. After(p.comps[head].kind, old, Red!Air) = p.comps[head].kind
  BY <1>1, AirIs DEF After
<1> HIDE DEF u
<1>8. InStep(X, w, u)
  BY <1>3, <1>4, <1>5, <1>6, <1>7, AirIs, RelistStep
<1>9. Since(e, u)
  BY <1>5, <1>6, <1>7 DEF Since, Relisted
<1> QED
  BY <1>8, <1>9 DEF u, p, old

LEMMA RetractStep ==
    ASSUME NEW X, NEW w, NEW e, InStep(X, w, e), NEW c \in RedCells, NEW k, Solid(k),
           k.kind \in Red!Pistons, c \notin e.gone => e.comps[c].kind = k.kind
    PROVE  InStep(X, w, Red!Retract(e, c, k)) /\ Since(e, Red!Retract(e, c, k))
<1> DEFINE head == Red!Ahead(c, k, 1)
           far == Red!Ahead(c, k, 2)
           loose == Red!OnBlockChange(Red!PutBlock(e, head, Red!Air), head, e.world[head], Red!Air)
           u == IF Red!BlockAt(e, head).kind = "piston_head" THEN loose ELSE e
           pulls == /\ k.kind = "sticky_piston" /\ head \in RedCells
                    /\ Red!BlockAt(u, far).kind \notin Red!Unpushable \cup {"air"}
           o == IF Red!BlockAt(u, head) = Red!Air THEN u.odd ELSE u.odd \cup {head}
           r == [u EXCEPT !.odd = o]
           m == Red!Move(r, far, head, u.world[far], Red!Air)
           v == IF pulls THEN m ELSE u
<1>1. /\ Red!Outside.kind = "obsidian" /\ "obsidian" \in Red!Unpushable
      /\ \A x, q : Red!BlockAt(x, q) = IF q \in RedCells THEN x.world[q] ELSE Red!Outside
  BY DEF Red!BlockAt, Red!Outside, Red!Plain, Red!Block, Red!Unpushable
<1>2. InStep(X, w, u) /\ Since(e, u)
  <2>1. CASE Red!BlockAt(e, head).kind = "piston_head"
    <3>1. head \in RedCells /\ e.world[head].kind = "piston_head"
      BY <1>1, <2>1
    <3> HIDE DEF head
    <3>2. InStep(X, w, loose) /\ Since(e, loose)
      BY <3>1, HeadStep
    <3> QED
      BY <2>1, <3>2
  <2>2. CASE Red!BlockAt(e, head).kind # "piston_head"
    BY <2>2 DEF Since
  <2> QED
    BY <2>1, <2>2
<1>3. Red!Retract(e, c, k) = Red!Moved(v, c, k, FALSE)
  <2>1. Red!Retract(e, c, k) =
            Red!Moved(IF pulls
                      THEN Red!Move([u EXCEPT !.odd = IF Red!BlockAt(u, head) = Red!Air THEN @
                                                      ELSE @ \cup {head}],
                                    far, head, u.world[far], Red!Air)
                      ELSE u, c, k, FALSE)
    BY DEF Red!Retract
  <2> HIDE DEF u, head, far
  <2>2. [u EXCEPT !.odd = IF Red!BlockAt(u, head) = Red!Air THEN @ ELSE @ \cup {head}] = r
    BY <1>2 DEF InStep, Shape
  <2> QED
    BY <2>1, <2>2
<1>4. c \in Spot
  BY RedFacts
<1>5. head = far \/ head # far
  OBVIOUS
<1>6. pulls => far \in RedCells /\ u.world[far].kind # "air"
  BY <1>1
<1> HIDE DEF u, head, far
<1>7. pulls => InStep(X, w, m) /\ Since(u, m)
  <2> SUFFICES ASSUME pulls PROVE InStep(X, w, m) /\ Since(u, m)
    OBVIOUS
  <2>1. far \in RedCells /\ head \in RedCells /\ u.world[far].kind # "air"
    BY <1>6
  <2>2. u.odd \subseteq o
    OBVIOUS
  <2>3. o = u.odd \/ (head \in o /\ u.world[head] # Red!Air)
    BY <1>1, <2>1
  <2>4. u.world[head] # Red!Air => head \in o
    BY <1>1, <2>1
  <2> HIDE DEF o
  <2>5. /\ InStep(X, w, r) /\ r.world = u.world /\ r.comps = u.comps /\ r.gone = u.gone
        /\ r.odd = o
    BY <1>2, <2>2, OddIs
  <2> HIDE DEF r
  <2>6. head \in r.odd \/ (far # head /\ r.world[head] = Red!Air)
    BY <2>1, <2>4, <2>5, AirIs
  <2>7. m = Red!Move(r, far, head, r.world[far], Red!Air)
    BY <2>5
  <2>8. InStep(X, w, m)
    BY <2>1, <2>5, <2>6, <2>7, MoveStep
  <2>9. Since(r, m)
    <3> DEFINE x == r.world[far]
               y == Red!Move(r, far, head, x, Red!Air)
    <3>1. Solid(x) /\ Shape(r)
      BY <2>1, <2>5 DEF InStep, Shape
    <3> HIDE DEF x
    <3>2. Since(r, y)
      BY <2>1, <3>1, MoveSince
    <3>3. y = m
      BY <2>7 DEF x
    <3> HIDE DEF y, m
    <3> QED
      BY <3>2, <3>3
  <2> QED
    BY <2>5, <2>8, <2>9 DEF Since
<1> HIDE DEF pulls, m
<1>8. InStep(X, w, v) /\ Since(e, v)
  BY <1>2, <1>7, SinceTwice
<1> HIDE DEF v
<1>9. c \notin v.gone => v.comps[c].kind = k.kind
  BY <1>8 DEF Since
<1> DEFINE on == FALSE
           z == Red!Moved(v, c, k, on)
<1> HIDE DEF on
<1>10. InStep(X, w, z) /\ \A d \in RedCells : d \notin z.gone =>
                                d \notin v.gone /\ z.comps[d].kind = v.comps[d].kind
  BY <1>8, <1>9, MovedStep
<1>11. z = Red!Retract(e, c, k)
  BY <1>3 DEF on
<1> HIDE DEF z
<1>12. Since(v, z)
  BY <1>10 DEF Since
<1> QED
  BY <1>8, <1>10, <1>11, <1>12, SinceTwice

\* A pass over the pistons, each as it was at its beginning.
LEMMA PistonStep ==
    ASSUME NEW X, NEW w, NEW e, InStep(X, w, e), NEW c \in RedCells, NEW k, Listable(k),
           c \notin e.gone => e.comps[c].kind = k.kind
    PROVE  LET u == Red!UpdatePiston(e, <<c, k>>) IN InStep(X, w, u) /\ Since(e, u)
<1> DEFINE u == Red!UpdatePiston(e, <<c, k>>)
<1>1. \/ u = e
      \/ k.kind \in Red!Pistons /\ u \in {Red!Retract(e, c, k), Red!Extend(e, c, k)}
  <2>1. <<c, k>>[1] = c /\ <<c, k>>[2] = k
    OBVIOUS
  <2> QED
    BY <2>1 DEF Red!UpdatePiston
<1> HIDE DEF u
<1>2. Since(e, e)
  BY DEF Since
<1>3. k.kind \in Red!Pistons => Solid(k)
  BY DEF Listable, Solid, Red!None, Red!Pistons
<1> QED
  BY <1>1, <1>2, <1>3, ExtendStep, RetractStep DEF u

LEMMA PistonsStep ==
    ASSUME NEW X, NEW w, NEW e, InStep(X, w, e)
    PROVE  InStep(X, w, Red!UpdatePistons(e))
<1> DEFINE b == [e EXCEPT !.gone = {}]
           q == [i \in 1..Len(e.order) |-> <<e.order[i], e.comps[e.order[i]]>>]
           t == <<"piston">>
<1>1. Shape(e)
  BY DEF InStep
<1>2. Len(e.order) \in Nat /\ \A i \in 1..Len(e.order) : e.order[i] \in RedCells
  <2>1. e.order \in Seq(RedCells)
    BY <1>1 DEF Shape
  <2> QED
    BY <2>1, LenProperties
<1>3. IsList(q) /\ Len(q) = Len(e.order)
  <2> DEFINE n == Len(e.order)
             f(i) == <<e.order[i], e.comps[e.order[i]]>>
             S == {f(i) : i \in 1..n}
  <2> HIDE DEF f, n
  <2>1. q = [i \in 1..n |-> f(i)] /\ n \in Nat
    BY <1>2 DEF f, n
  <2>2. q \in [1..n -> S] /\ q = [i \in 1..n |-> q[i]]
    BY <2>1
  <2> HIDE DEF q, S
  <2>3. q \in Seq(S) /\ Len(q) = n
    BY <2>1, <2>2, SeqDef
  <2> QED
    BY <2>1, <2>2, <2>3 DEF IsList, n
<1>4. InStep(X, w, b) /\ b.comps = e.comps
  <2>1. /\ b = [world |-> b.world, comps |-> b.comps, order |-> b.order, level |-> b.level,
            strong |-> b.strong, sched |-> b.sched, updates |-> b.updates, gone |-> b.gone,
            odd |-> b.odd]
        /\ b.world = e.world /\ b.comps = e.comps /\ b.order = e.order /\ b.sched = e.sched
        /\ b.updates = e.updates /\ b.odd = e.odd /\ b.level = e.level
    <3>1. e = [world |-> e.world, comps |-> e.comps, order |-> e.order, level |-> e.level,
               strong |-> e.strong, sched |-> e.sched, updates |-> e.updates, gone |-> e.gone,
               odd |-> e.odd]
      BY <1>1 DEF Shape
    <3>2. b = [world |-> e.world, comps |-> e.comps, order |-> e.order, level |-> e.level,
               strong |-> e.strong, sched |-> e.sched, updates |-> e.updates, gone |-> {},
               odd |-> e.odd]
      BY <3>1
    <3> QED
      BY <3>2
  <2> HIDE DEF b
  <2>2. Shape(b)
    BY <1>1, <2>1 DEF Shape
  <2>3. PutDown(w, b) /\ TableFits(X, b)
    BY <2>1 DEF InStep, PutDown, TableFits
  <2>4. Tallies(e.world, b.world)
    BY <2>1, TalliesSelf
  <2> QED
    BY <2>1, <2>2, <2>3, <2>4, InStepNext
<1>5. PICK a : IsChain(a, t, b, q) /\ Red!FoldLeft(Red!UpdatePiston, b, q) = a[Len(q)]
  BY <1>3, FoldChains
<1>6. Red!UpdatePistons(e) = a[Len(q)]
  BY <1>5 DEF Red!UpdatePistons
<1>7. \A v, x : RedStep(t, v, x) = Red!UpdatePiston(v, x)
  BY StepIs
<1>8. \A i \in 1..Len(q) : q[i] = <<e.order[i], e.comps[e.order[i]]>>
  BY <1>3
<1> HIDE DEF t, q, b
<1>9. a[0] = b /\ \A i \in 1..Len(q) : a[i] = Red!UpdatePiston(a[i - 1], q[i])
  BY <1>5, <1>7 DEF IsChain
<1> DEFINE S == {i \in 0..Len(q) : InStep(X, w, a[i]) /\ Since(b, a[i])}
<1>10. 0 \in S
  BY <1>2, <1>3, <1>4, <1>9 DEF Since
<1>11. \A i \in 1..Len(q) : i - 1 \in S => i \in S
  <2> SUFFICES ASSUME NEW i \in 1..Len(q), i - 1 \in S PROVE i \in S
    OBVIOUS
  <2> DEFINE c == e.order[i]
             k == e.comps[c]
             v == a[i - 1]
  <2>1. InStep(X, w, v) /\ Since(b, v) /\ i \in 0..Len(q)
    BY <1>2, <1>3
  <2>2. c \in RedCells /\ Listable(k)
    BY <1>1, <1>2, <1>3 DEF Shape
  <2>3. a[i] = Red!UpdatePiston(v, <<c, k>>)
    BY <1>8, <1>9
  <2>4. c \notin v.gone => v.comps[c].kind = k.kind
    BY <1>4, <2>1, <2>2 DEF Since
  <2> HIDE DEF c, k, v, S
  <2>5. InStep(X, w, a[i]) /\ Since(v, a[i])
    BY <2>1, <2>2, <2>3, <2>4, PistonStep
  <2> QED
    BY <2>1, <2>5, SinceTwice DEF S
<1>12. Len(q) \in Nat /\ Len(q) \in 0..Len(q)
  BY <1>2, <1>3
<1> HIDE DEF S
<1>13. Len(q) \in S
  BY <1>10, <1>11, <1>12, ChainKeeps
<1> QED
  BY <1>6, <1>13 DEF S

-------------------------------------------------------------------------------
(* A tick                                                                    *)

LEMMA ChainInStep ==
    ASSUME NEW X, NEW w, NEW t, NEW b, NEW q, IsList(q), NEW a, IsChain(a, t, b, q),
           InStep(X, w, b),
           \A i \in 1..Len(q) : \A u : InStep(X, w, u) => InStep(X, w, RedStep(t, u, q[i]))
    PROVE  InStep(X, w, a[Len(q)])
<1> DEFINE n == Len(q)
           S == {i \in 0..n : InStep(X, w, a[i])}
<1>1. n \in Nat
  BY ListIs
<1>2. a[0] = b /\ \A i \in 1..n : a[i] = RedStep(t, a[i - 1], q[i])
  BY DEF IsChain
<1> HIDE DEF n
<1>3. 0 \in S
  BY <1>1, <1>2
<1>4. \A i \in 1..n : i - 1 \in S => i \in S
  BY <1>1, <1>2 DEF n
<1>5. n \in 0..n
  BY <1>1
<1> HIDE DEF S
<1>6. n \in S
  BY <1>1, <1>3, <1>4, <1>5, ChainKeeps
<1> QED
  BY <1>6 DEF S, n

\* The components that have a turn in a pass of their kind.
Acting == {"button", "torch", "repeater", "comparator", "observer", "lamp", "tnt"}

LEMMA TurnStep ==
    ASSUME NEW X, NEW w, NEW e, InStep(X, w, e), NEW c \in RedCells, NEW ks \in SUBSET Acting
    PROVE  InStep(X, w, Red!Turn(e, ks, c))
<1> DEFINE kind == e.comps[c].kind
<1>1. Shape(e) /\ Red!KindAt(e, c) = kind
  BY DEF InStep, Red!KindAt
<1>2. Red!Turn(e, ks, c) = IF kind \in ks THEN Red!Update(e, c) ELSE e
  BY <1>1 DEF Red!Turn
<1>3. SUFFICES ASSUME kind \in ks PROVE InStep(X, w, Red!Update(e, c))
  BY <1>2
<1>4. kind \in Acting /\ kind # "none"
  BY <1>3 DEF Acting
<1>5. Red!Update(e, c) =
          CASE kind \in {"button", "observer"} -> Red!RunTimer(e, c)
            [] kind = "torch" -> Red!UpdateTorch(e, c)
            [] kind = "repeater" -> Red!UpdateRepeater(e, c)
            [] kind = "comparator" -> Red!UpdateComparator(e, c)
            [] OTHER -> Red!Activate(e, c)
  BY <1>1 DEF Red!Update
<1>6. CASE kind \in {"button", "observer"}
  <2>1. Red!Update(e, c) = Red!RunTimer(e, c)
    BY <1>5, <1>6
  <2> QED
    BY <1>1, <1>4, <2>1, TimerSame, InStepSame
<1>7. CASE kind = "torch"
  <2>1. Red!Update(e, c) = Red!UpdateTorch(e, c)
    BY <1>5, <1>7
  <2> QED
    BY <1>1, <1>4, <2>1, TorchSame, InStepSame
<1>8. CASE kind = "repeater"
  <2>1. Red!Update(e, c) = Red!UpdateRepeater(e, c)
    BY <1>5, <1>8
  <2> QED
    BY <1>1, <2>1, RepeaterSame, InStepSame
<1>9. CASE kind = "comparator"
  <2>1. Red!Update(e, c) = Red!UpdateComparator(e, c)
    BY <1>5, <1>9
  <2> QED
    BY <1>1, <1>4, <2>1, ComparatorSame, InStepSame
<1>10. CASE kind \in {"lamp", "tnt"}
  <2>1. Red!Update(e, c) = Red!Activate(e, c)
    BY <1>5, <1>10
  <2> QED
    BY <1>10, <2>1, ActivateStep
<1> QED
  BY <1>4, <1>6, <1>7, <1>8, <1>9, <1>10 DEF Acting

LEMMA OrderIs ==
    ASSUME NEW e, Shape(e)
    PROVE  IsList(e.order) /\ \A i \in 1..Len(e.order) : e.order[i] \in RedCells
<1>1. e.order \in Seq(RedCells)
  BY DEF Shape
<1>2. /\ e.order = [i \in 1..Len(e.order) |-> e.order[i]] /\ Len(e.order) \in Nat
      /\ \A i \in 1..Len(e.order) : e.order[i] \in RedCells
  BY <1>1, LenProperties
<1> QED
  BY <1>2 DEF IsList

LEMMA PassStep ==
    ASSUME NEW X, NEW w, NEW e, InStep(X, w, e)
    PROVE  /\ \A ks \in SUBSET Acting : InStep(X, w, Red!Pass(e, ks))
           /\ InStep(X, w, Red!Levels(e))
           /\ InStep(X, w, Red!ShowAll(e))
<1> DEFINE q == e.order
<1>1. Shape(e) /\ IsList(q) /\ \A i \in 1..Len(q) : q[i] \in RedCells
  BY OrderIs DEF InStep
<1>2. ASSUME NEW ks \in SUBSET Acting PROVE InStep(X, w, Red!Pass(e, ks))
  <2> DEFINE t == <<"turn", ks>>
  <2>1. PICK a : IsChain(a, t, e, q) /\ Red!Pass(e, ks) = a[Len(q)]
    BY <1>1, PassChains
  <2>2. \A u, x : RedStep(t, u, x) = Red!Turn(u, ks, x)
    BY StepIs
  <2> HIDE DEF t, q
  <2>3. \A i \in 1..Len(q) : \A u : InStep(X, w, u) => InStep(X, w, RedStep(t, u, q[i]))
    BY <1>1, <2>2, TurnStep
  <2> QED
    BY <1>1, <2>1, <2>3, ChainInStep
<1>3. InStep(X, w, Red!Levels(e))
  <2> DEFINE t == <<"levels">>
  <2>1. PICK a : IsChain(a, t, e, q) /\ Red!Levels(e) = a[Len(q)]
    BY <1>1, PassChains
  <2>2. \A u, x : RedStep(t, u, x) \in {u, Red!CalculateLevel(u, x)}
    BY StepIs
  <2> HIDE DEF t, q
  <2>3. ASSUME NEW i \in 1..Len(q), NEW u, InStep(X, w, u)
        PROVE  InStep(X, w, RedStep(t, u, q[i]))
    <3>1. Same(u, Red!CalculateLevel(u, q[i]))
      BY <2>3, CalculateSame DEF InStep
    <3>2. InStep(X, w, Red!CalculateLevel(u, q[i]))
      BY <2>3, <3>1, InStepSame
    <3> QED
      BY <2>2, <2>3, <3>2
  <2> QED
    BY <1>1, <2>1, <2>3, ChainInStep
<1>4. InStep(X, w, Red!ShowAll(e))
  <2> DEFINE t == <<"show">>
  <2>1. PICK a : IsChain(a, t, e, q) /\ Red!ShowAll(e) = a[Len(q)]
    BY <1>1, PassChains
  <2>2. \A u, x : RedStep(t, u, x) = IF Red!Known(u, x) THEN Red!Show(u, x) ELSE u
    BY StepIs
  <2> HIDE DEF t, q
  <2>3. ASSUME NEW i \in 1..Len(q), NEW u, InStep(X, w, u)
        PROVE  InStep(X, w, RedStep(t, u, q[i]))
    <3> DEFINE c == q[i]
    <3>1. c \in RedCells
      BY <1>1
    <3> HIDE DEF c
    <3>2. Red!Known(u, c) => u.comps[c].kind # "none"
      BY <3>1 DEF Red!Known, Red!KindAt
    <3>3. Red!Known(u, c) => InStep(X, w, Red!Show(u, c))
      BY <2>3, <3>1, <3>2, ShowStep
    <3>4. RedStep(t, u, c) = IF Red!Known(u, c) THEN Red!Show(u, c) ELSE u
      BY <2>2
    <3>5. InStep(X, w, RedStep(t, u, c))
      BY <2>3, <3>3, <3>4
    <3> QED
      BY <3>5 DEF c
  <2> QED
    BY <1>1, <2>1, <2>3, ChainInStep
<1> QED
  BY <1>2, <1>3, <1>4

LEMMA ScheduledStep ==
    ASSUME NEW X, NEW w, NEW e, InStep(X, w, e)
    PROVE  InStep(X, w, Red!FireScheduled(e))
<1> DEFINE b == [e EXCEPT !.sched = <<>>]
           q == e.sched
           t == <<"fire">>
<1>1. Shape(e) /\ IsList(q)
  BY DEF InStep, Shape
<1>2. IsList(<<>>)
  <2>1. <<>> = [i \in 1..0 |-> <<>>[i]]
    OBVIOUS
  <2> QED
    BY <2>1 DEF IsList
<1>3. InStep(X, w, b)
  <2>1. Same(e, b)
    BY <1>1, <1>2, LevelsIs
  <2> QED
    BY <2>1, InStepSame
<1>4. PICK a : IsChain(a, t, b, q) /\ Red!FoldLeft(Red!Fire, b, q) = a[Len(q)]
  BY <1>1, FoldChains
<1>5. Red!FireScheduled(e) = a[Len(q)]
  BY <1>4 DEF Red!FireScheduled
<1>6. \A u, x : RedStep(t, u, x) = Red!Fire(u, x)
  BY StepIs
<1> HIDE DEF t, q, b
<1>7. ASSUME NEW i \in 1..Len(q), NEW u, InStep(X, w, u)
      PROVE  InStep(X, w, RedStep(t, u, q[i]))
  <2>1. Same(u, Red!Fire(u, q[i]))
    BY <1>7, FireSame DEF InStep
  <2>2. InStep(X, w, Red!Fire(u, q[i]))
    BY <1>7, <2>1, InStepSame
  <2> QED
    BY <1>6, <2>2
<1> QED
  BY <1>1, <1>3, <1>4, <1>5, <1>7, ChainInStep

-------------------------------------------------------------------------------
(* The signal of wires is a wave through what they are connected to.        *)

IsSeed(g, p, b, q) ==
    g = [s \in SUBSET DOMAIN q |->
            IF s = {} THEN b
            ELSE IF q[Max(s)] \in DOMAIN p /\ p[q[Max(s)]] > 0
                 THEN Append(g[s \ {Max(s)}], q[Max(s)]) ELSE g[s \ {Max(s)}]]

LEMMA SeededIs ==
    \A e, p : Red!Seeded(e, p) = (CHOOSE g : IsSeed(g, p, <<>>, e.order))[DOMAIN e.order]
BY DEF Red!Seeded, Red!FoldLeft, Red!MapThenFoldSet, Red!Max, Max, IsSeed

\* The first queue lists the wires that are given something.
LEMMA SeededLists ==
    ASSUME NEW e, Shape(e), NEW W \in SUBSET RedCells, \A c \in W : Listed(e.order, c),
           NEW p \in [W -> Nat]
    PROVE  Red!Seeded(e, p) \in Seq(W) /\ \A c \in W : p[c] > 0 <=> Listed(Red!Seeded(e, p), c)
<1> DEFINE q == e.order
           n == Len(q)
           t == <<"seed", p>>
           none == <<>>
           h == CHOOSE g : IsSeed(g, p, none, q)
<1>1. IsList(q) /\ n \in Nat /\ DOMAIN q = 1..n /\ \A i \in 1..n : q[i] \in RedCells
  <2>1. IsList(q) /\ \A i \in 1..n : q[i] \in RedCells
    BY OrderIs
  <2> HIDE DEF q
  <2> QED
    BY <2>1, ListIs
<1>2. \A u, x : RedStep(t, u, x) = IF x \in DOMAIN p /\ p[x] > 0 THEN Append(u, x) ELSE u
  BY DEF RedStep
<1>3. Red!Seeded(e, p) = h[DOMAIN q]
  BY SeededIs
<1>4. \A c \in W : \E i \in 1..n : q[i] = c
  BY DEF Listed
<1> HIDE DEF q, n, t, none
<1>5. \A g : IsRun(g, t, none, q, n) <=> IsSeed(g, p, none, q)
  BY <1>1, <1>2 DEF IsRun, IsSeed
<1>6. IsRun(h, t, none, q, n)
  <2>1. \E g : IsSeed(g, p, none, q)
    BY <1>1, <1>5, RunExists
  <2>2. IsSeed(h, p, none, q)
    BY <2>1
  <2> HIDE DEF h
  <2> QED
    BY <1>5, <2>2
<1> HIDE DEF h
<1>7. PICK a : IsChain(a, t, none, q) /\ h[DOMAIN q] = a[n]
  BY <1>1, <1>6, RunChain DEF n
<1>8. a[0] = none /\ \A k \in 1..n : a[k] = RedStep(t, a[k - 1], q[k])
  BY <1>7 DEF IsChain, n
<1> DEFINE Fits(k) == a[k] \in Seq(W) /\ \A x \in W :
              Listed(a[k], x) <=> p[x] > 0 /\ \E j \in 1..k : q[j] = x
           S == {k \in 0..n : Fits(k)}
<1>9. 0 \in S
  <2>1. a[0] \in Seq(W) /\ \A x : ~Listed(a[0], x)
    BY <1>8, NoneListed DEF none
  <2>2. \A j : j \notin 1..0
    OBVIOUS
  <2> QED
    BY <1>1, <2>1, <2>2
<1>10. ASSUME NEW k \in 1..n, k - 1 \in S PROVE k \in S
  <2>1. k \in 0..n /\ Fits(k - 1)
    BY <1>1, <1>10
  <2>2. \A x : (\E j \in 1..k : q[j] = x) <=> (\E j \in 1..(k-1) : q[j] = x) \/ x = q[k]
    <3>1. \A j \in 1..k : j \in 1..(k-1) \/ j = k
      BY <1>1
    <3>2. k \in 1..k /\ \A j \in 1..(k-1) : j \in 1..k
      BY <1>1
    <3> QED
      BY <3>1, <3>2
  <2> DEFINE c == q[k]
  <2>3. CASE c \in W /\ p[c] > 0
    <3>1. a[k] = Append(a[k - 1], c)
      BY <1>2, <1>8, <2>3
    <3> HIDE DEF c
    <3>2. a[k] \in Seq(W) /\ \A y : Listed(a[k], y) <=> Listed(a[k - 1], y) \/ y = c
      BY <2>1, <2>3, <3>1, AppendLists
    <3> QED
      BY <2>1, <2>2, <2>3, <3>2 DEF c
  <2>4. CASE ~(c \in W /\ p[c] > 0)
    <3>1. a[k] = a[k - 1]
      BY <1>2, <1>8, <2>4
    <3> QED
      BY <2>1, <2>2, <2>4, <3>1
  <2> QED
    BY <2>3, <2>4
<1> HIDE DEF S
<1>11. n \in S
  <2>1. n \in 0..n
    BY <1>1
  <2> QED
    BY <1>1, <1>9, <1>10, <2>1, ChainKeeps
<1>12. Fits(n)
  BY <1>11 DEF S
<1> QED
  BY <1>3, <1>4, <1>7, <1>12

Ways(e) == [c \in Red!Wires(e) |-> Red!Connected(e, c)]

LEMMA WiresAre ==
    ASSUME NEW e, Shape(e)
    PROVE  /\ Red!Wires(e) \in SUBSET RedCells /\ IsFiniteSet(Red!Wires(e))
           /\ \A c \in Red!Wires(e) : Listed(e.order, c)
           /\ Ways(e) \in [Red!Wires(e) -> SUBSET Red!Wires(e)]
<1>1. Red!Wires(e) \in SUBSET RedCells
  BY DEF Red!Wires
<1>2. IsFiniteSet(Red!Wires(e))
  BY <1>1, RedFacts, FS_Subset
<1>3. \A c \in Red!Wires(e) : Listed(e.order, c)
  BY DEF Red!Wires, Red!KindAt, Shape
<1>4. \A c : Red!Connected(e, c) \in SUBSET Red!Wires(e)
  BY DEF Red!Connected
<1> QED
  BY <1>1, <1>2, <1>3, <1>4 DEF Ways

LEMMA PassOnIs ==
    ASSUME NEW e, Shape(e), NEW r \in Waves(Red!Wires(e)), r.queue # <<>>
    PROVE  Red!PassOn(e, r) = WaveStep(Ways(e), r)
<1> DEFINE c == Head(r.queue)
           M == {q \in Red!Connected(e, c) : r.power[c] - 1 > r.power[q]}
<1>1. c \in Red!Wires(e)
  <2>1. r.queue \in Seq(Red!Wires(e))
    BY DEF Waves
  <2> QED
    BY <2>1, TailLists
<1>2. Weaker(Ways(e), r) = M
  BY <1>1 DEF Weaker, Ways
<1>3. Red!SetToSeq(M) = SetToSeq(M)
  <2> HIDE DEF M
  <2> QED
    BY RedOperators DEF Red!SetToSeq, SetToSeq
<1>4. Red!PassOn(e, r) =
          IF c \in r.visited THEN [r EXCEPT !.queue = Tail(@)]
          ELSE [queue |-> Tail(r.queue) \o Red!SetToSeq(M), visited |-> r.visited \cup {c},
                power |-> [q \in DOMAIN r.power |-> IF q \in M THEN r.power[c] - 1 ELSE r.power[q]]]
  BY DEF Red!PassOn
<1> HIDE DEF M
<1> QED
  BY <1>2, <1>3, <1>4 DEF WaveStep

IsSpread(g, e, W) ==
    g = [r \in [queue : Seq(W), visited : SUBSET W, power : [W -> Nat]] |->
            IF r.queue = <<>> THEN r.power ELSE g[Red!PassOn(e, r)]]

LEMMA SpreadIs ==
    \A e, q, p : Red!Spread(e, q, p) =
        (CHOOSE g : IsSpread(g, e, DOMAIN p))[[queue |-> q, visited |-> {}, power |-> p]]
BY DEF Red!Spread, IsSpread

LEMMA SpreadWave ==
    ASSUME NEW e, Shape(e), NEW q, NEW p \in [Red!Wires(e) -> Nat]
    PROVE  \E g : /\ WaveLoop(g, Red!Wires(e), Ways(e))
                  /\ Red!Spread(e, q, p) = g[[queue |-> q, visited |-> {}, power |-> p]]
<1> DEFINE W == Red!Wires(e)
           to == Ways(e)
           g == CHOOSE h : IsSpread(h, e, W)
           out == [r \in Waves(W) |-> r.power]
<1>1. IsFiniteSet(W) /\ to \in [W -> SUBSET W]
  BY WiresAre
<1>2. \A r \in Waves(W) : r.queue # <<>> => Red!PassOn(e, r) = WaveStep(to, r)
  BY PassOnIs
<1>3. Red!Spread(e, q, p) = g[[queue |-> q, visited |-> {}, power |-> p]]
  <2>1. DOMAIN p = W
    OBVIOUS
  <2> QED
    BY <2>1, SpreadIs
<1> HIDE DEF W, to, out
<1>4. ASSUME NEW h PROVE IsSpread(h, e, W) <=> WaveLoop(h, W, to)
  <2>1. \A r \in Waves(W) :
           /\ r \in Spent(W) <=> r.queue = <<>>
           /\ out[r] = r.power
           /\ r.queue # <<>> => WaveNext(W, to)[r] = Red!PassOn(e, r)
    BY <1>2 DEF Spent, WaveNext, out
  <2>2. IsSpread(h, e, W) <=>
           h = [r \in Waves(W) |-> IF r.queue = <<>> THEN r.power ELSE h[Red!PassOn(e, r)]]
    BY DEF IsSpread, Waves
  <2>3. WaveLoop(h, W, to) <=>
           h = [r \in Waves(W) |-> IF r \in Spent(W) THEN out[r] ELSE h[WaveNext(W, to)[r]]]
    BY DEF WaveLoop, IsLoop, out
  <2> DEFINE f1 == [r \in Waves(W) |-> IF r.queue = <<>> THEN r.power ELSE h[Red!PassOn(e, r)]]
             f2 == [r \in Waves(W) |-> IF r \in Spent(W) THEN out[r] ELSE h[WaveNext(W, to)[r]]]
  <2>4. f1 = f2
    BY <2>1
  <2> QED
    BY <2>2, <2>3, <2>4
<1>5. WaveLoop(g, W, to)
  <2>1. \E h : IsSpread(h, e, W)
    BY <1>1, <1>4, WaveExists
  <2>2. IsSpread(g, e, W)
    BY <2>1
  <2> HIDE DEF g
  <2> QED
    BY <1>4, <2>2
<1> QED
  BY <1>3, <1>5 DEF W, to

Seeds(e) == [c \in Red!Wires(e) |-> Red!Seed(e, c)]
Wave(e) == Red!Spread(e, Red!Seeded(e, Seeds(e)), Seeds(e))
Signals(e) == [c \in RedCells |-> IF c \in Red!Wires(e) THEN Wave(e)[c] ELSE e.level[c]]

LEMMA PropagateIs ==
    ASSUME NEW e, Shape(e)
    PROVE  /\ Red!PropagateWires(e) = [e EXCEPT !.level = Signals(e)]
           /\ Red!PropagateWires(e).level = Signals(e)
           /\ Seeds(e) \in [Red!Wires(e) -> Signal]
           /\ Wave(e) \in [Red!Wires(e) -> Signal]
<1>1. Red!PropagateWires(e) = [e EXCEPT !.level = Signals(e)]
  <2> DEFINE old == e.level
             seeds == Seeds(e)
             power == Wave(e)
  <2>1. seeds = [c \in Red!Wires(e) |-> Red!Seed(e, c)] /\ DOMAIN seeds = Red!Wires(e)
    BY DEF Seeds
  <2>2. Red!PropagateWires(e) =
           [e EXCEPT !.level = [c \in RedCells |-> IF c \in DOMAIN seeds THEN power[c] ELSE @[c]]]
    BY <2>1 DEF Red!PropagateWires, Wave, Seeds
  <2> HIDE DEF seeds, power
  <2>3. Red!PropagateWires(e) =
           [e EXCEPT !.level = [c \in RedCells |-> IF c \in Red!Wires(e) THEN power[c] ELSE e.level[c]]]
    BY <2>1, <2>2 DEF Shape
  <2> QED
    BY <2>3 DEF Signals, power
<1>2. [e EXCEPT !.level = Signals(e)].level = Signals(e)
  BY DEF Shape
<1>3. Seeds(e) \in [Red!Wires(e) -> Signal]
  BY PowerIsSignal DEF Seeds
<1>4. Seeds(e) \in [Red!Wires(e) -> Nat]
  BY <1>3 DEF Signal
<1>5. Wave(e) \in [Red!Wires(e) -> Signal]
  <2> DEFINE W == Red!Wires(e)
             to == Ways(e)
             p == Seeds(e)
             q == Red!Seeded(e, p)
  <2>1. /\ W \in SUBSET RedCells /\ IsFiniteSet(W) /\ to \in [W -> SUBSET W]
        /\ \A c \in W : Listed(e.order, c)
    BY WiresAre
  <2>2. p \in [W -> 0..15] /\ 15 \in Nat
    BY <1>3 DEF Signal
  <2>3. q \in Seq(W)
    BY <1>4, <2>1, SeededLists
  <2>4. PICK g : /\ WaveLoop(g, W, to)
                 /\ Red!Spread(e, q, p) = g[[queue |-> q, visited |-> {}, power |-> p]]
    BY <1>4, SpreadWave
  <2> HIDE DEF W, to, p, q
  <2>5. g[[queue |-> q, visited |-> {}, power |-> p]] \in [W -> 0..15]
    BY <2>1, <2>2, <2>3, <2>4, WaveRange
  <2> QED
    BY <2>4, <2>5 DEF Wave, W, p, q, Signal
<1> QED
  BY <1>1, <1>2, <1>3, <1>5

LEMMA WiresSame ==
    ASSUME NEW e, Shape(e)
    PROVE  Same(e, Red!PropagateWires(e))
<1>1. Signals(e) \in [RedCells -> Signal]
  BY PropagateIs DEF Signals, Shape
<1>2. Same(e, [e EXCEPT !.level = Signals(e)])
  BY <1>1, LevelsIs
<1> QED
  BY <1>2, PropagateIs

\* From sources that give the same every wire has what it is given, or one less than the
\* best wire that passes on to it.
LEMMA SignalsLevelled ==
    ASSUME NEW e, Shape(e),
           \A c, d \in Red!Wires(e) : Seeds(e)[c] > 0 /\ Seeds(e)[d] > 0 => Seeds(e)[c] = Seeds(e)[d],
           NEW c \in Red!Wires(e)
    PROVE  Signals(e)[c] = Red!Highest({0, Seeds(e)[c]} \cup
               {Signals(e)[q] - 1 : q \in {w \in Red!Wires(e) : c \in Ways(e)[w]}})
<1> DEFINE W == Red!Wires(e)
           to == Ways(e)
           p == Seeds(e)
           q == Red!Seeded(e, p)
           l == Wave(e)
           S == {0, p[c]} \cup {Signals(e)[w] - 1 : w \in {v \in W : c \in to[v]}}
<1>1. /\ W \in SUBSET RedCells /\ IsFiniteSet(W) /\ to \in [W -> SUBSET W]
      /\ \A d \in W : Listed(e.order, d)
  BY WiresAre
<1>2. p \in [W -> Signal] /\ p \in [W -> Nat] /\ l \in [W -> Signal]
  BY PropagateIs DEF Signal
<1>3. q \in Seq(W) /\ \A d \in W : p[d] > 0 <=> Listed(q, d)
  BY <1>1, <1>2, SeededLists
<1>4. PICK g : /\ WaveLoop(g, W, to)
               /\ Red!Spread(e, q, p) = g[[queue |-> q, visited |-> {}, power |-> p]]
  BY <1>2, SpreadWave
<1>5. \A d, f \in W : p[d] > 0 /\ p[f] > 0 => p[d] = p[f]
  OBVIOUS
<1>6. \A w \in W : Signals(e)[w] = l[w]
  BY <1>1 DEF Signals
<1>7. l = Red!Spread(e, q, p)
  BY DEF Wave
<1> HIDE DEF W, to, p, q, l
<1>8. Levelled(W, to, p, l)
  <2>1. Levelled(W, to, p, g[[queue |-> q, visited |-> {}, power |-> p]])
    BY <1>1, <1>2, <1>3, <1>4, <1>5, WaveLevels
  <2> QED
    BY <1>4, <1>7, <2>1
<1>9. c \in W
  BY DEF W
<1>10. S = {0, p[c]} \cup {l[w] - 1 : w \in {v \in W : c \in to[v]}}
  BY <1>6
<1>11. l[c] \in S
  <2>1. CASE l[c] = p[c]
    BY <2>1
  <2>2. CASE \E w \in W : c \in to[w] /\ l[c] = l[w] - 1
    BY <1>10, <2>2
  <2> QED
    BY <1>8, <1>9, <2>1, <2>2 DEF Levelled
<1>12. \A w \in W : l[w] \in Nat /\ p[w] \in Nat
  BY <1>2, <1>8 DEF Levelled
<1>13. S \in SUBSET Int
  BY <1>9, <1>10, <1>12
<1>14. \A m \in S : l[c] >= m
  <2>1. l[c] >= 0 /\ l[c] >= p[c]
    BY <1>8, <1>9, <1>12 DEF Levelled
  <2>2. \A w \in W : c \in to[w] => l[c] >= l[w] - 1
    BY <1>8, <1>9 DEF Levelled
  <2> QED
    BY <1>10, <2>1, <2>2
<1> HIDE DEF S
<1>15. Red!Highest(S) = l[c]
  BY <1>11, <1>13, <1>14, HighestIs
<1> QED
  BY <1>6, <1>9, <1>15 DEF S, W, to, p

LEMMA WiresStep ==
    ASSUME NEW X, NEW w, NEW e, InStep(X, w, e)
    PROVE  InStep(X, w, Red!PropagateWires(e))
<1>1. Same(e, Red!PropagateWires(e))
  BY WiresSame DEF InStep
<1> QED
  BY <1>1, InStepSame

\* A tick that starts in step ends in step.
LEMMA AfterStep ==
    ASSUME NEW X, NEW w, NEW e, InStep(X, w, [e EXCEPT !.updates = <<>>])
    PROVE  InStep(X, w, Red!After(e))
<1> DEFINE a0 == [e EXCEPT !.updates = <<>>]
           a1 == Red!FireScheduled(a0)
           a2 == Red!Pass(a1, {"button"})
           a3 == Red!PropagateWires(a2)
           a4 == Red!Pass(a3, {"torch"})
           a5 == Red!Pass(a4, {"repeater"})
           a6 == Red!Pass(a5, {"comparator"})
           a7 == Red!Pass(a6, {"observer"})
           a8 == Red!PropagateWires(a7)
           a9 == Red!Levels(a8)
           a10 == Red!Pass(a9, {"lamp", "tnt"})
           a11 == Red!UpdatePistons(a10)
           a12 == Red!ShowAll(a11)
<1>1. Red!After(e) = a12
  BY DEF Red!After
<1>2. \A k \in Acting : {k} \in SUBSET Acting
  OBVIOUS
<1>3. /\ {"button"} \in SUBSET Acting /\ {"torch"} \in SUBSET Acting
      /\ {"repeater"} \in SUBSET Acting /\ {"comparator"} \in SUBSET Acting
      /\ {"observer"} \in SUBSET Acting /\ {"lamp", "tnt"} \in SUBSET Acting
  BY DEF Acting
<1>4. InStep(X, w, a1)
  BY ScheduledStep
<1> HIDE DEF a1
<1>5. InStep(X, w, a2)
  BY <1>3, <1>4, PassStep
<1> HIDE DEF a2
<1>6. InStep(X, w, a3)
  BY <1>5, WiresStep
<1> HIDE DEF a3
<1>7. InStep(X, w, a4)
  BY <1>3, <1>6, PassStep
<1> HIDE DEF a4
<1>8. InStep(X, w, a5)
  BY <1>3, <1>7, PassStep
<1> HIDE DEF a5
<1>9. InStep(X, w, a6)
  BY <1>3, <1>8, PassStep
<1> HIDE DEF a6
<1>10. InStep(X, w, a7)
  BY <1>3, <1>9, PassStep
<1> HIDE DEF a7
<1>11. InStep(X, w, a8)
  BY <1>10, WiresStep
<1> HIDE DEF a8
<1>12. InStep(X, w, a9)
  BY <1>11, PassStep
<1> HIDE DEF a9
<1>13. InStep(X, w, a10)
  BY <1>3, <1>12, PassStep
<1> HIDE DEF a10
<1>14. InStep(X, w, a11)
  BY <1>13, PistonsStep
<1> HIDE DEF a11
<1>15. InStep(X, w, a12)
  BY <1>14, PassStep
<1> QED
  BY <1>1, <1>15 DEF a11, a10, a9, a8, a7, a6, a5, a4, a3, a2, a1

-------------------------------------------------------------------------------
(* At the start the table is the scan of the world.                         *)

LEMMA TableList ==
    ASSUME NEW S, NEW n \in Nat, NEW s \in [1..n -> S]
    PROVE  s \in Seq(S) /\ Len(s) = n
BY SeqDef

ScanOf(S) == [i \in 1..Cardinality(S) |->
                 CHOOSE c \in S : Cardinality({d \in S : Red!Precedes(d, c)}) = i - 1]

LEMMA ScanOrder ==
    ASSUME NEW S \in SUBSET RedCells
    PROVE  LET q == ScanOf(S) IN
           q \in Seq(RedCells) /\ Distinct(q) /\ \A c : Listed(q, c) <=> c \in S
<1> DEFINE q == ScanOf(S)
           n == Cardinality(S)
           Before(c) == {d \in S : Red!Precedes(d, c)}
           rank(c) == Cardinality(Before(c))
           f == [c \in S |-> rank(c)]
<1>1. IsFiniteSet(S) /\ n \in Nat
  BY RedFacts, FS_Subset, FS_CardinalityType
<1>2. \A c, d, g \in S :
         /\ ~Red!Precedes(c, c)
         /\ Red!Precedes(c, d) /\ Red!Precedes(d, g) => Red!Precedes(c, g)
         /\ c # d => Red!Precedes(c, d) \/ Red!Precedes(d, c)
  <2>1. \A c \in S : c[1] \in Int /\ c[2] \in Int /\ c[3] \in Int /\ c = <<c[1], c[2], c[3]>>
    BY RedFacts DEF Spot
  <2>2. \A c, d \in S : c # d => c[1] # d[1] \/ c[2] # d[2] \/ c[3] # d[3]
    BY <2>1
  <2>3. \A c, d \in S : c # d => Red!Precedes(c, d) \/ Red!Precedes(d, c)
    BY <2>1, <2>2 DEF Red!Precedes
  <2>4. \A c, d, g \in S : Red!Precedes(c, d) /\ Red!Precedes(d, g) => Red!Precedes(c, g)
    BY <2>1 DEF Red!Precedes
  <2>5. \A c \in S : ~Red!Precedes(c, c)
    BY <2>1 DEF Red!Precedes
  <2> QED
    BY <2>3, <2>4, <2>5
<1>3. \A c \in S : IsFiniteSet(Before(c)) /\ rank(c) \in 0..(n - 1)
  <2> SUFFICES ASSUME NEW c \in S PROVE IsFiniteSet(Before(c)) /\ rank(c) \in 0..(n - 1)
    OBVIOUS
  <2>1. IsFiniteSet(S \ {c}) /\ Cardinality(S \ {c}) = n - 1
    BY <1>1, FS_RemoveElement
  <2>2. Before(c) \in SUBSET (S \ {c})
    BY <1>2
  <2>3. IsFiniteSet(Before(c)) /\ rank(c) <= n - 1
    BY <2>1, <2>2, FS_Subset
  <2>4. rank(c) \in Nat
    BY <2>3, FS_CardinalityType
  <2> HIDE DEF n, rank
  <2> QED
    BY <1>1, <2>3, <2>4
<1>4. \A c, d \in S : Red!Precedes(c, d) => rank(c) < rank(d)
  <2> SUFFICES ASSUME NEW c \in S, NEW d \in S, Red!Precedes(c, d) PROVE rank(c) < rank(d)
    OBVIOUS
  <2>1. c \notin Before(c) /\ Before(c) \cup {c} \in SUBSET Before(d)
    BY <1>2
  <2> HIDE DEF Before
  <2>2. Cardinality(Before(c) \cup {c}) = rank(c) + 1
    BY <1>3, <2>1, FS_AddElement
  <2>3. Cardinality(Before(c) \cup {c}) <= rank(d)
    BY <1>3, <2>1, FS_Subset
  <2>4. rank(c) \in Nat /\ rank(d) \in Nat
    BY <1>1, <1>3
  <2> HIDE DEF rank
  <2> QED
    BY <2>2, <2>3, <2>4
<1> HIDE DEF n, rank, Before
<1>5. \A c, d \in S : rank(c) = rank(d) => c = d
  <2>1. \A c \in S : rank(c) \in Nat
    BY <1>1, <1>3
  <2> QED
    BY <1>2, <1>4, <2>1
<1>6. \A i \in 1..n : \E c \in S : rank(c) = i - 1
  <2>1. f \in [S -> 0..(n - 1)]
    BY <1>3
  <2>2. f \in Injection(S, 0..(n - 1))
    BY <1>5, <2>1 DEF Injection, IsInjective
  <2>3. IsFiniteSet(0..(n - 1)) /\ Cardinality(0..(n - 1)) = n
    <3>1. 0 > n - 1 <=> n = 0
      BY <1>1
    <3>2. IsFiniteSet(0..(n - 1)) /\ Cardinality(0..(n - 1)) = IF 0 > n - 1 THEN 0 ELSE (n - 1) - 0 + 1
      BY <1>1, FS_Interval
    <3> QED
      BY <1>1, <3>1, <3>2
  <2> HIDE DEF f
  <2>4. f \in Surjection(S, 0..(n - 1))
    BY <2>2, <2>3, FS_Injection DEF n
  <2>5. \A i \in 0..(n - 1) : \E c \in S : f[c] = i
    BY <2>4 DEF Surjection
  <2>6. \A c \in S : f[c] = rank(c)
    BY DEF f
  <2>7. \A i \in 1..n : i - 1 \in 0..(n - 1)
    BY <1>1
  <2> QED
    BY <2>5, <2>6, <2>7
<1>7. q = [i \in 1..n |-> CHOOSE c \in S : rank(c) = i - 1]
  BY DEF n, rank, Before, ScanOf
<1> HIDE DEF q
<1>8. \A i \in 1..n : q[i] \in S /\ rank(q[i]) = i - 1
  BY <1>6, <1>7
<1>9. Len(q) = n /\ q \in Seq(RedCells)
  <2>1. q \in [1..n -> RedCells]
    BY <1>7, <1>8
  <2> QED
    BY <1>1, <2>1, TableList
<1>10. Distinct(q)
  BY <1>1, <1>8, <1>9 DEF Distinct
<1>11. ASSUME NEW c \in S PROVE Listed(q, c)
  <2>1. rank(c) + 1 \in 1..n /\ rank(c) \in Nat
    BY <1>1, <1>3
  <2>2. q[rank(c) + 1] \in S /\ rank(q[rank(c) + 1]) = rank(c)
    BY <1>8, <2>1
  <2> QED
    BY <1>5, <1>9, <2>1, <2>2 DEF Listed
<1>12. \A c : Listed(q, c) => c \in S
  BY <1>8, <1>9 DEF Listed
<1> QED
  BY <1>9, <1>10, <1>11, <1>12 DEF q

-------------------------------------------------------------------------------
(* The inductive invariant                                                   *)

\* The cell a handler is at.
Handled == IF rEdit = Red!Nowhere THEN {} ELSE {rEdit[1]}

\* What clients are still to be told of cell c, after the first m of the updates.
Unsaid(ups, m, c) == \E i \in (m+1)..Len(ups) : ups[i][1] = c
Says(ups, m, c, b) == \A i \in (m+1)..Len(ups) :
    ups[i][1] = c /\ (\A j \in (i+1)..Len(ups) : ups[j][1] # c) => ups[i][2] = b

Handling == rEdit = Red!Nowhere \/ \E c \in RedCells : \E a, b :
    /\ rEdit = <<c, a, b>> /\ Solid(a) /\ Solid(b)
    /\ c \notin rCrossed =>
          rWorld[c] = b /\ rComps[c].kind = KindOf(a) /\ ~Unsaid(rUpdates, rTold, c)

InTable == \A c \in RedCells \ (rCrossed \cup Handled) : rComps[c].kind = KindOf(rWorld[c])

Informed == \A c \in RedCells \ (rCrossed \cup Handled) :
    /\ ~Unsaid(rUpdates, rTold, c) => rSeen[c] = rWorld[c]
    /\ Says(rUpdates, rTold, c, rWorld[c])

RedInv ==
    /\ Shape(Red!Engine)
    /\ rSeen = [c \in RedCells |-> rSeen[c]]
    /\ rTold \in 0..Len(rUpdates)
    /\ \A i \in 1..Len(rUpdates) : rUpdates[i][1] \in RedCells
    /\ Handling /\ InTable /\ Informed

\* A step that is no player's keeps the blocks.
RedStays == rEdit' = rEdit /\ rCrossed' = {} => Tallies(rWorld, rWorld')

LEMMA EngineIs ==
    /\ Red!Engine.world = rWorld /\ Red!Engine.comps = rComps /\ Red!Engine.order = rOrder
    /\ Red!Engine.updates = rUpdates /\ Red!Engine.gone = {} /\ Red!Engine.odd = {}
    /\ Red!Engine.level = rLevel /\ Red!Engine.strong = rStrong /\ Red!Engine.sched = rSched
BY DEF Red!Engine

\* The engine of the next state.
Resting(e) == [world |-> e.world, comps |-> e.comps, order |-> e.order, level |-> e.level,
               strong |-> e.strong, sched |-> e.sched, updates |-> e.updates,
               gone |-> {}, odd |-> {}]

LEMMA RestingShape == \A e : Shape(e) => Shape(Resting(e))
<1> SUFFICES ASSUME NEW e, Shape(e) PROVE Shape(Resting(e))
  OBVIOUS
<1> DEFINE u == Resting(e)
<1>1. /\ u = [world |-> u.world, comps |-> u.comps, order |-> u.order, level |-> u.level,
            strong |-> u.strong, sched |-> u.sched, updates |-> u.updates, gone |-> u.gone,
            odd |-> u.odd]
      /\ u.world = e.world /\ u.comps = e.comps /\ u.order = e.order /\ u.sched = e.sched
      /\ u.updates = e.updates /\ u.level = e.level
  BY DEF Resting
<1> HIDE DEF u
<1>2. Shape(u)
  BY <1>1 DEF Shape
<1> QED
  BY <1>2 DEF u

LEMMA BecomesIs ==
    ASSUME NEW e, Red!Becomes(e), Shape(e)
    PROVE  /\ rWorld' = e.world /\ rComps' = e.comps /\ rUpdates' = e.updates
           /\ Shape(Red!Engine')
<1>1. Red!Engine' = Resting(e)
  BY DEF Red!Engine, Red!Becomes, Resting
<1> QED
  BY <1>1, RestingShape DEF Red!Becomes

LEMMA TickStep ==
    ASSUME RedInv, Red!Tick
    PROVE  RedInv' /\ RedStays
<1> DEFINE b == [Red!Engine EXCEPT !.updates = <<>>]
           X == rCrossed \cup Handled
           e == Red!After(Red!Engine)
<1>1. /\ rTold = Len(rUpdates) /\ Red!Becomes(e) /\ rCrossed' = X \cup e.odd
      /\ rTold' = 0 /\ rSeen' = rSeen /\ rEdit' = rEdit
  <2>1. rCrossed' = (rCrossed \cup e.odd) \cup Handled
    BY DEF Red!Tick, Handled
  <2> QED
    BY <2>1 DEF Red!Tick, Red!AllTold
<1>2. Handled' = Handled
  BY <1>1 DEF Handled
<1>3. InStep(X, rWorld, b)
  <2>1. /\ b = [world |-> b.world, comps |-> b.comps, order |-> b.order, level |-> b.level,
            strong |-> b.strong, sched |-> b.sched, updates |-> b.updates, gone |-> b.gone,
            odd |-> b.odd]
        /\ b.world = rWorld /\ b.comps = rComps /\ b.order = rOrder /\ b.sched = rSched
        /\ b.updates = <<>> /\ b.odd = {} /\ b.level = rLevel
    <3> DEFINE none == <<>>
    <3>1. b = [Red!Engine EXCEPT !.updates = none]
      OBVIOUS
    <3> HIDE DEF none, b
    <3>2. b = [world |-> rWorld, comps |-> rComps, order |-> rOrder, level |-> rLevel,
               strong |-> rStrong, sched |-> rSched, updates |-> none, gone |-> {}, odd |-> {}]
      BY <3>1 DEF Red!Engine
    <3> QED
      BY <3>2 DEF none
  <2> HIDE DEF b
  <2>2. IsList(<<>>) /\ Len(<<>>) = 0
    <3>1. <<>> = [i \in 1..0 |-> <<>>[i]]
      OBVIOUS
    <3> QED
      BY <3>1 DEF IsList
  <2>3. Shape(Red!Engine)
    BY DEF RedInv
  <2>4. Shape(b)
    BY <2>1, <2>2, <2>3, EngineIs DEF Shape
  <2>5. TableFits(X, b)
    BY <2>1 DEF TableFits, RedInv, InTable
  <2>6. PutDown(rWorld, b)
    BY <2>1, <2>2 DEF PutDown
  <2>7. Tallies(rWorld, b.world)
    BY <2>1, TalliesSelf
  <2> QED
    BY <2>4, <2>5, <2>6, <2>7 DEF InStep
<1>4. InStep(X, rWorld, e)
  BY <1>3, AfterStep
<1> HIDE DEF b, e
<1>5. /\ Shape(e) /\ TableFits(X, e) /\ PutDown(rWorld, e)
      /\ X \cup e.odd = {} => Tallies(rWorld, e.world)
  BY <1>4 DEF InStep
<1>6. rWorld' = e.world /\ rComps' = e.comps /\ rUpdates' = e.updates /\ Shape(Red!Engine')
  BY <1>1, <1>5, BecomesIs
<1>7. rSeen' = [c \in RedCells |-> rSeen'[c]] /\ rTold' \in 0..Len(rUpdates')
  <2>1. Len(rUpdates') \in Nat
    BY <1>5, <1>6, ListIs DEF Shape
  <2> QED
    BY <1>1, <2>1 DEF RedInv
<1>8. \A i \in 1..Len(rUpdates') : rUpdates'[i][1] \in RedCells
  BY <1>5, <1>6 DEF PutDown
<1>9. Handling'
  <2>1. CASE rEdit = Red!Nowhere
    BY <1>1, <2>1 DEF Handling
  <2>2. CASE rEdit # Red!Nowhere
    <3>1. PICK c \in RedCells : \E a, d : rEdit = <<c, a, d>> /\ Solid(a) /\ Solid(d)
      BY <2>2 DEF RedInv, Handling
    <3>2. c \in rCrossed'
      BY <1>1, <2>2, <3>1 DEF Handled
    <3> QED
      BY <1>1, <3>1, <3>2 DEF Handling
  <2> QED
    BY <2>1, <2>2
<1>10. InTable'
  BY <1>1, <1>2, <1>5, <1>6 DEF InTable, TableFits
<1>11. Informed'
  <2> SUFFICES ASSUME NEW c \in RedCells \ (rCrossed' \cup Handled')
               PROVE  /\ ~Unsaid(rUpdates', rTold', c) => rSeen'[c] = rWorld'[c]
                      /\ Says(rUpdates', rTold', c, rWorld'[c])
    BY DEF Informed
  <2>1. c \in RedCells \ (rCrossed \cup Handled)
    BY <1>1, <1>2
  <2>2. rSeen[c] = rWorld[c]
    <3>1. Len(rUpdates) \in Nat
      BY ListIs, EngineIs DEF RedInv, Shape
    <3>2. (rTold + 1)..Len(rUpdates) = {}
      BY <1>1, <3>1
    <3>3. ~Unsaid(rUpdates, rTold, c)
      BY <3>2 DEF Unsaid
    <3> QED
      BY <2>1, <3>3 DEF RedInv, Informed
  <2>3. rTold' + 1 = 1
    BY <1>1
  <2>4. ~Unsaid(rUpdates', rTold', c) => rWorld'[c] = rWorld[c]
    BY <1>5, <1>6, <2>3 DEF Unsaid, PutDown
  <2>5. Says(rUpdates', rTold', c, rWorld'[c])
    BY <1>5, <1>6, <2>3 DEF Says, PutDown
  <2> QED
    BY <1>1, <2>2, <2>4, <2>5
<1>12. RedStays
  BY <1>1, <1>5, <1>6 DEF RedStays
<1> QED
  BY <1>6, <1>7, <1>8, <1>9, <1>10, <1>11, <1>12 DEF RedInv

LEMMA TellStep ==
    ASSUME RedInv, Red!Tell
    PROVE  RedInv' /\ RedStays
<1> DEFINE n == Len(rUpdates)
           k == rTold + 1
           at0 == rUpdates[k][1]
<1>1. /\ rTold # n /\ rTold' = k /\ rSeen' = [rSeen EXCEPT ![at0] = rUpdates[k][2]]
      /\ UNCHANGED <<rWorld, rComps, rOrder, rLevel, rStrong, rSched, rUpdates, rEdit, rCrossed>>
  BY DEF Red!Tell, Red!AllTold
<1>2. n \in Nat /\ rTold \in 0..n
  BY ListIs, EngineIs DEF RedInv, Shape
<1>3. k \in 1..n /\ rTold' \in 0..n /\ k \in (rTold + 1)..n
  BY <1>1, <1>2
<1>4. Red!Engine' = Red!Engine
  BY <1>1 DEF Red!Engine
<1>5. at0 \in RedCells /\ rSeen = [c \in RedCells |-> rSeen[c]]
  BY <1>3 DEF RedInv
<1>6. /\ rSeen' = [c \in RedCells |-> rSeen'[c]] /\ rSeen'[at0] = rUpdates[k][2]
      /\ \A c \in RedCells : c # at0 => rSeen'[c] = rSeen[c]
  BY <1>1, <1>5
<1> HIDE DEF n
<1>7. \A i : i \in (rTold' + 1)..n => i \in (rTold + 1)..n
  BY <1>1, <1>2
<1>8. \A i : i \in (rTold + 1)..n => i = k \/ i \in (rTold' + 1)..n
  BY <1>1, <1>2
<1> HIDE DEF k, at0
<1>9. \A c : Unsaid(rUpdates', rTold', c) => Unsaid(rUpdates, rTold, c)
  BY <1>1, <1>7 DEF Unsaid, n
<1>10. Handling'
  <2>1. CASE rEdit = Red!Nowhere
    BY <1>1, <2>1 DEF Handling
  <2>2. CASE rEdit # Red!Nowhere
    <3>1. PICK c \in RedCells : \E a, b :
             /\ rEdit = <<c, a, b>> /\ Solid(a) /\ Solid(b)
             /\ c \notin rCrossed =>
                   rWorld[c] = b /\ rComps[c].kind = KindOf(a) /\ ~Unsaid(rUpdates, rTold, c)
      BY <2>2 DEF RedInv, Handling
    <3> QED
      BY <1>1, <1>9, <3>1 DEF Handling
  <2> QED
    BY <2>1, <2>2
<1>11. Handled' = Handled
  BY <1>1 DEF Handled
<1>12. InTable'
  BY <1>1, <1>11 DEF RedInv, InTable
<1>13. Informed'
  <2> SUFFICES ASSUME NEW c \in RedCells \ (rCrossed' \cup Handled')
               PROVE  /\ ~Unsaid(rUpdates', rTold', c) => rSeen'[c] = rWorld'[c]
                      /\ Says(rUpdates', rTold', c, rWorld'[c])
    BY DEF Informed
  <2>1. c \in RedCells \ (rCrossed \cup Handled)
    BY <1>1, <1>11
  <2>2. /\ ~Unsaid(rUpdates, rTold, c) => rSeen[c] = rWorld[c]
        /\ Says(rUpdates, rTold, c, rWorld[c])
    BY <2>1 DEF RedInv, Informed
  <2>3. Says(rUpdates', rTold', c, rWorld'[c])
    BY <1>1, <1>7, <2>2 DEF Says, n
  <2>4. ASSUME ~Unsaid(rUpdates', rTold', c) PROVE rSeen'[c] = rWorld'[c]
    <3>1. \A i \in (rTold' + 1)..n : rUpdates[i][1] # c
      BY <1>1, <2>4 DEF Unsaid, n
    <3>2. CASE c = at0
      <4>1. \A j \in (k + 1)..n : rUpdates[j][1] # c
        BY <1>1, <3>1
      <4>2. rUpdates[k][2] = rWorld[c]
        BY <1>3, <2>2, <3>2, <4>1 DEF Says, n, at0
      <4> QED
        BY <1>1, <1>6, <3>2, <4>2
    <3>3. CASE c # at0
      <4>1. ~Unsaid(rUpdates, rTold, c)
        BY <1>8, <3>1, <3>3 DEF Unsaid, n, at0
      <4> QED
        BY <1>1, <1>6, <2>2, <3>3, <4>1
    <3> QED
      BY <3>2, <3>3
  <2> QED
    BY <2>3, <2>4
<1>14. RedStays
  BY <1>1, TalliesSelf DEF RedStays
<1>15. Shape(Red!Engine') /\ rTold' \in 0..Len(rUpdates')
       /\ \A i \in 1..Len(rUpdates') : rUpdates'[i][1] \in RedCells
  BY <1>1, <1>3, <1>4 DEF RedInv, n
<1> QED
  BY <1>6, <1>10, <1>12, <1>13, <1>14, <1>15 DEF RedInv

LEMMA HandyCells ==
    /\ \A c \in Handy : c \in RedCells
    /\ \A b \in Pieces : Solid(b)
    /\ Solid(Red!Air)
BY RedFacts, AirIs DEF Solid, Red!Blocks

LEMMA EditStep ==
    ASSUME RedInv, NEW c \in RedCells, NEW b, Solid(b), Red!Change(c, b)
    PROVE  RedInv' /\ RedStays
<1> DEFINE old == rWorld[c]
           n == Len(rUpdates)
<1>1. /\ rEdit = Red!Nowhere /\ rEdit' = <<c, old, b>> /\ rWorld' = [rWorld EXCEPT ![c] = b]
      /\ rCrossed' = rCrossed \cup ({c} \cap Red!Waiting)
      /\ UNCHANGED <<rComps, rOrder, rLevel, rStrong, rSched, rUpdates, rTold, rSeen>>
  BY DEF Red!Change
<1>2. c \in Red!Waiting <=> Unsaid(rUpdates, rTold, c)
  BY DEF Red!Waiting, Unsaid
<1>3. Shape(Red!Engine) /\ rWorld = [d \in RedCells |-> rWorld[d]] /\ Solid(old)
  BY EngineIs DEF RedInv, Shape
<1>4. rWorld'[c] = b /\ \A d \in RedCells : d # c => rWorld'[d] = rWorld[d]
  BY <1>1, <1>3
<1>5. Shape(Red!Engine')
  <2> DEFINE e == Red!Engine
             u == Red!Engine'
  <2>1. /\ u = [world |-> u.world, comps |-> u.comps, order |-> u.order, level |-> u.level,
              strong |-> u.strong, sched |-> u.sched, updates |-> u.updates, gone |-> u.gone,
              odd |-> u.odd]
        /\ u.world = [e.world EXCEPT ![c] = b] /\ u.comps = e.comps /\ u.order = e.order
        /\ u.sched = e.sched /\ u.updates = e.updates /\ u.level = e.level
    BY <1>1 DEF Red!Engine
  <2> HIDE DEF u, e
  <2>2. Shape(e)
    BY <1>3 DEF e
  <2>3. u.world = [d \in RedCells |-> u.world[d]] /\ \A d \in RedCells : Solid(u.world[d])
    BY <2>1, <2>2 DEF Shape
  <2>4. Shape(u)
    BY <2>1, <2>2, <2>3 DEF Shape
  <2> QED
    BY <2>4 DEF u
<1>6. rEdit' # Red!Nowhere
  <2>1. Len(rEdit') = 3 /\ Len(Red!Nowhere) = 0
    BY <1>1 DEF Red!Nowhere
  <2> QED
    BY <2>1
<1>7. Handled = {} /\ Handled' = {c}
  <2>1. rEdit'[1] = c
    BY <1>1
  <2> QED
    BY <1>1, <1>6, <2>1 DEF Handled
<1>8. rCrossed \subseteq rCrossed'
  BY <1>1
<1> HIDE DEF old
<1>9. Handling'
  <2>1. ASSUME c \notin rCrossed'
        PROVE  rWorld'[c] = b /\ rComps'[c].kind = KindOf(old) /\ ~Unsaid(rUpdates', rTold', c)
    <3>1. c \notin rCrossed /\ ~Unsaid(rUpdates, rTold, c)
      BY <1>1, <1>2, <2>1
    <3>2. rComps[c].kind = KindOf(old)
      BY <1>7, <3>1 DEF RedInv, InTable, old
    <3> QED
      BY <1>1, <1>4, <3>1, <3>2
  <2>2. rEdit' = <<c, old, b>> /\ Solid(old) /\ Solid(b)
    BY <1>1, <1>3
  <2> QED
    BY <2>1, <2>2 DEF Handling
<1>10. InTable'
  <2> SUFFICES ASSUME NEW d \in RedCells \ (rCrossed' \cup Handled')
               PROVE  rComps'[d].kind = KindOf(rWorld'[d])
    BY DEF InTable
  <2>1. d # c /\ d \in RedCells \ (rCrossed \cup Handled)
    BY <1>7, <1>8
  <2> QED
    BY <1>1, <1>4, <2>1 DEF RedInv, InTable
<1>11. Informed'
  <2> SUFFICES ASSUME NEW d \in RedCells \ (rCrossed' \cup Handled')
               PROVE  /\ ~Unsaid(rUpdates', rTold', d) => rSeen'[d] = rWorld'[d]
                      /\ Says(rUpdates', rTold', d, rWorld'[d])
    BY DEF Informed
  <2>1. d # c /\ d \in RedCells \ (rCrossed \cup Handled)
    BY <1>7, <1>8
  <2>2. rWorld'[d] = rWorld[d] /\ rUpdates' = rUpdates /\ rTold' = rTold /\ rSeen' = rSeen
    BY <1>1, <1>4, <2>1
  <2> QED
    BY <2>1, <2>2 DEF RedInv, Informed
<1>12. RedStays
  BY <1>1, <1>6 DEF RedStays
<1> QED
  BY <1>1, <1>5, <1>9, <1>10, <1>11, <1>12 DEF RedInv

LEMMA FinishStep ==
    ASSUME RedInv, Red!FinishEdit
    PROVE  RedInv' /\ RedStays
<1>1. PICK c \in RedCells : \E x, y :
         /\ rEdit = <<c, x, y>> /\ Solid(x) /\ Solid(y)
         /\ c \notin rCrossed =>
               rWorld[c] = y /\ rComps[c].kind = KindOf(x) /\ ~Unsaid(rUpdates, rTold, c)
  BY DEF RedInv, Handling, Red!FinishEdit
<1>2. PICK a, b :
         /\ rEdit = <<c, a, b>> /\ Solid(a) /\ Solid(b)
         /\ c \notin rCrossed =>
               rWorld[c] = b /\ rComps[c].kind = KindOf(a) /\ ~Unsaid(rUpdates, rTold, c)
  BY <1>1
<1> DEFINE e == Red!OnBlockChange(Red!Engine, c, a, b)
<1>3. /\ rEdit # Red!Nowhere /\ Red!Becomes(e) /\ rSeen' = [rSeen EXCEPT ![c] = b]
      /\ rEdit' = Red!Nowhere /\ UNCHANGED <<rTold, rActions, rCrossed>>
  BY <1>2 DEF Red!FinishEdit
<1>4. Relisted(Red!Engine, e, c, After(rComps[c].kind, a, b))
  <2> DEFINE E == Red!Engine
  <2>1. Shape(E) /\ E.comps = rComps
    BY EngineIs DEF RedInv
  <2> HIDE DEF E
  <2>2. Relisted(E, Red!OnBlockChange(E, c, a, b), c, After(E.comps[c].kind, a, b))
    BY <1>2, <2>1, ChangeIs
  <2> QED
    BY <2>1, <2>2 DEF E
<1> HIDE DEF e
<1>5. /\ Shape(e) /\ e.world = rWorld /\ e.updates = rUpdates
      /\ \A d \in RedCells : d # c => e.comps[d].kind = rComps[d].kind
      /\ e.comps[c].kind = After(rComps[c].kind, a, b)
  BY <1>4, EngineIs DEF Relisted
<1>6. rWorld' = rWorld /\ rComps' = e.comps /\ rUpdates' = rUpdates /\ Shape(Red!Engine')
  BY <1>3, <1>5, BecomesIs
<1>7. /\ rSeen' = [d \in RedCells |-> rSeen'[d]] /\ rSeen'[c] = b
      /\ \A d \in RedCells : d # c => rSeen'[d] = rSeen[d]
  BY <1>3 DEF RedInv
<1>8. Handled = {c} /\ Handled' = {}
  <2>1. rEdit[1] = c
    BY <1>2
  <2> QED
    BY <1>3, <2>1 DEF Handled
<1>9. Handling'
  BY <1>3 DEF Handling
<1>10. InTable'
  <2> SUFFICES ASSUME NEW d \in RedCells \ (rCrossed' \cup Handled')
               PROVE  rComps'[d].kind = KindOf(rWorld'[d])
    BY DEF InTable
  <2>1. CASE d = c
    <3>1. rWorld[c] = b /\ rComps[c].kind = KindOf(a)
      BY <1>2, <1>3, <2>1
    <3>2. After(KindOf(a), a, b) = KindOf(b)
      BY DEF After, KindOf
    <3> QED
      BY <1>5, <1>6, <2>1, <3>1, <3>2
  <2>2. CASE d # c
    <3>1. d \in RedCells \ (rCrossed \cup Handled)
      BY <1>3, <1>8, <2>2
    <3> QED
      BY <1>5, <1>6, <2>2, <3>1 DEF RedInv, InTable
  <2> QED
    BY <2>1, <2>2
<1>11. Informed'
  <2> SUFFICES ASSUME NEW d \in RedCells \ (rCrossed' \cup Handled')
               PROVE  /\ ~Unsaid(rUpdates', rTold', d) => rSeen'[d] = rWorld'[d]
                      /\ Says(rUpdates', rTold', d, rWorld'[d])
    BY DEF Informed
  <2>0. rUpdates' = rUpdates /\ rTold' = rTold /\ rWorld' = rWorld
    BY <1>3, <1>6
  <2>1. CASE d = c
    <3>1. rWorld[c] = b /\ ~Unsaid(rUpdates, rTold, c)
      BY <1>2, <1>3, <2>1
    <3>2. Says(rUpdates, rTold, c, rWorld[c])
      BY <3>1 DEF Says, Unsaid
    <3> QED
      BY <1>7, <2>0, <2>1, <3>1, <3>2
  <2>2. CASE d # c
    <3>1. d \in RedCells \ (rCrossed \cup Handled)
      BY <1>3, <1>8, <2>2
    <3> QED
      BY <1>7, <2>0, <2>2, <3>1 DEF RedInv, Informed
  <2> QED
    BY <2>1, <2>2
<1>12. RedStays
  BY <1>6, TalliesSelf DEF RedStays
<1> QED
  BY <1>3, <1>6, <1>7, <1>9, <1>10, <1>11, <1>12 DEF RedInv

LEMMA InteractStep ==
    ASSUME RedInv, NEW c \in RedCells, Red!Interact(c)
    PROVE  RedInv' /\ RedStays
<1> DEFINE E == Red!Engine
           k == rComps[c]
           v == [k EXCEPT !.dirty = TRUE]
           j1 == [v EXCEPT !.on = ~@]
           j2 == [v EXCEPT !.on = TRUE, !.timer = ButtonTime]
           j3 == [v EXCEPT !.setting = (@ % 4) + 1]
           j4 == [v EXCEPT !.setting = 3 - @]
           lever == Red!MarkDirty(Red!SetComp(E, c, j1), c)
           button == Red!MarkDirty(Red!SetComp(E, c, j2), c)
<1>1. /\ \/ k.kind = "lever" /\ Red!Becomes(lever)
         \/ k.kind = "button" /\ Red!Becomes(button)
         \/ k.kind = "repeater" /\ Red!Becomes(Red!SetComp(E, c, j3))
         \/ k.kind = "comparator" /\ Red!Becomes(Red!SetComp(E, c, j4))
      /\ rSeen' = [q \in RedCells |-> IF q \in Red!Changed THEN Red!LastOf(q) ELSE rSeen[q]]
      /\ rCrossed' = rCrossed \cup {q \in Red!Changed : Red!LastOf(q) # rWorld[q]}
      /\ UNCHANGED <<rTold, rEdit>>
  BY DEF Red!Interact
<1>2. Shape(E) /\ E.comps = rComps
  BY EngineIs DEF RedInv
<1>3. Listable(k) /\ k = E.comps[c]
  BY <1>2 DEF Shape
<1> HIDE DEF E, k
<1>4. ASSUME k.kind # "none"
      PROVE  \A j \in {j1, j2, j3, j4} : Listable(j) /\ j.kind = k.kind
  <2>1. Listable(v) /\ v.kind = k.kind
    BY <1>3, <1>4, PartIs
  <2> HIDE DEF v
  <2>2. Listable(j1) /\ j1.kind = k.kind
    BY <1>4, <2>1, PartIs
  <2>3. Listable(j2) /\ j2.kind = k.kind
    <3> DEFINE w == [v EXCEPT !.on = TRUE]
    <3>1. Listable(w) /\ w.kind = k.kind
      BY <1>4, <2>1, PartIs
    <3>2. j2 = [w EXCEPT !.timer = ButtonTime]
      OBVIOUS
    <3> HIDE DEF w, j2
    <3> QED
      BY <1>4, <3>1, <3>2, PartIs
  <2>4. Listable(j3) /\ j3.kind = k.kind
    BY <1>4, <2>1, PartIs
  <2>5. Listable(j4) /\ j4.kind = k.kind
    BY <1>4, <2>1, PartIs
  <2> HIDE DEF j1, j2, j3, j4
  <2> QED
    BY <2>2, <2>3, <2>4, <2>5
<1>5. k.kind # "none" => \A j \in {j1, j2, j3, j4} : Same(E, Red!SetComp(E, c, j))
  <2> HIDE DEF j1, j2, j3, j4
  <2> QED
    BY <1>2, <1>3, <1>4, SetCompIs
<1> HIDE DEF j1, j2, j3, j4
<1>6. PICK e : Red!Becomes(e) /\ Same(E, e)
  <2>1. CASE k.kind = "lever" /\ Red!Becomes(lever)
    <3> DEFINE s == Red!SetComp(E, c, j1)
    <3>1. Same(E, s)
      BY <1>5, <2>1
    <3> HIDE DEF s
    <3>2. Same(s, Red!MarkDirty(s, c))
      BY <3>1, MarkDirtySame DEF Same
    <3>3. Same(E, Red!MarkDirty(s, c))
      BY <3>1, <3>2, SameTwice
    <3> QED
      BY <2>1, <3>3 DEF s
  <2>2. CASE k.kind = "button" /\ Red!Becomes(button)
    <3> DEFINE s == Red!SetComp(E, c, j2)
    <3>1. Same(E, s)
      BY <1>5, <2>2
    <3> HIDE DEF s
    <3>2. Same(s, Red!MarkDirty(s, c))
      BY <3>1, MarkDirtySame DEF Same
    <3>3. Same(E, Red!MarkDirty(s, c))
      BY <3>1, <3>2, SameTwice
    <3> QED
      BY <2>2, <3>3 DEF s
  <2>3. CASE k.kind = "repeater" /\ Red!Becomes(Red!SetComp(E, c, j3))
    BY <1>5, <2>3
  <2>4. CASE k.kind = "comparator" /\ Red!Becomes(Red!SetComp(E, c, j4))
    BY <1>5, <2>4
  <2> HIDE DEF lever, button
  <2> QED
    BY <1>1, <2>1, <2>2, <2>3, <2>4
<1>7. /\ Shape(e) /\ e.world = rWorld /\ e.updates = rUpdates
      /\ \A d \in RedCells : e.comps[d].kind = rComps[d].kind
  BY <1>2, <1>6, EngineIs DEF Same, E
<1>8. rWorld' = rWorld /\ rComps' = e.comps /\ rUpdates' = rUpdates /\ Shape(Red!Engine')
  BY <1>6, <1>7, BecomesIs
<1>9. Handled' = Handled /\ rCrossed \subseteq rCrossed'
  BY <1>1 DEF Handled
<1>10. Handling'
  <2>1. CASE rEdit = Red!Nowhere
    BY <1>1, <2>1 DEF Handling
  <2>2. CASE rEdit # Red!Nowhere
    <3>1. PICK d \in RedCells : \E a, b :
             /\ rEdit = <<d, a, b>> /\ Solid(a) /\ Solid(b)
             /\ d \notin rCrossed =>
                   rWorld[d] = b /\ rComps[d].kind = KindOf(a) /\ ~Unsaid(rUpdates, rTold, d)
      BY <2>2 DEF RedInv, Handling
    <3> QED
      BY <1>1, <1>7, <1>8, <1>9, <3>1 DEF Handling
  <2> QED
    BY <2>1, <2>2
<1>11. InTable'
  BY <1>7, <1>8, <1>9 DEF RedInv, InTable
<1>12. Informed'
  <2> SUFFICES ASSUME NEW d \in RedCells \ (rCrossed' \cup Handled')
               PROVE  /\ ~Unsaid(rUpdates', rTold', d) => rSeen'[d] = rWorld'[d]
                      /\ Says(rUpdates', rTold', d, rWorld'[d])
    BY DEF Informed
  <2>1. d \in RedCells \ (rCrossed \cup Handled)
    BY <1>9
  <2>2. rUpdates' = rUpdates /\ rTold' = rTold /\ rWorld' = rWorld
    BY <1>1, <1>8
  <2>3. /\ ~Unsaid(rUpdates, rTold, d) => rSeen[d] = rWorld[d]
        /\ Says(rUpdates, rTold, d, rWorld[d])
    BY <2>1 DEF RedInv, Informed
  <2>4. d \in Red!Changed => Red!LastOf(d) = rWorld[d]
    BY <1>1
  <2>5. rSeen'[d] \in {rSeen[d], rWorld[d]}
    BY <1>1, <2>4
  <2> QED
    BY <2>2, <2>3, <2>5
<1>13. RedStays
  BY <1>8, TalliesSelf DEF RedStays
<1>14. rSeen' = [q \in RedCells |-> rSeen'[q]] /\ rTold' \in 0..Len(rUpdates')
       /\ \A i \in 1..Len(rUpdates') : rUpdates'[i][1] \in RedCells
  BY <1>1, <1>8 DEF RedInv
<1> QED
  BY <1>8, <1>10, <1>11, <1>12, <1>13, <1>14 DEF RedInv

LEMMA RedStart == Red!Init => RedInv
<1> SUFFICES ASSUME Red!Init PROVE RedInv
  OBVIOUS
<1> DEFINE S == {c \in RedCells : rComps[c] # Red!None}
           E == Red!Engine
<1>1. /\ rWorld \in Layouts /\ rComps = [c \in RedCells |-> Red!ComponentAt(rWorld[c])]
      /\ rSched = <<>> /\ rUpdates = <<>> /\ rTold = 0 /\ rSeen = rWorld
      /\ rEdit = Red!Nowhere /\ rCrossed = {} /\ rLevel = [c \in RedCells |-> 0]
  BY DEF Red!Init
<1>2. rOrder = ScanOf(S)
  BY DEF Red!Init, ScanOf, Red!Cardinality, Cardinality
<1>3. rWorld = [c \in RedCells |-> rWorld[c]] /\ \A c \in RedCells : Solid(rWorld[c])
  <2>1. rWorld \in [RedCells -> Red!Blocks]
    BY <1>1, RedFacts
  <2> QED
    BY <2>1 DEF Red!Blocks, Solid
<1>4. ASSUME NEW b, Solid(b)
      PROVE  Listable(Red!ComponentAt(b)) /\ Red!ComponentAt(b).kind = KindOf(b)
  <2>1. 0 \in Signal
    BY DEF Signal
  <2>2. CASE b.kind \in RedKind
    <3>1. Red!ComponentAt(b) = Red!Registered(b) /\ KindOf(b) = b.kind
      BY <2>2 DEF Red!ComponentAt, KindOf, RedKind
    <3>2. Listable(Red!Registered(b)) /\ Red!Registered(b).kind = b.kind
      BY <1>4, <2>1, <2>2 DEF Red!Registered, Listable, Solid
    <3> QED
      BY <3>1, <3>2
  <2>3. CASE b.kind \notin RedKind
    BY <2>3 DEF Red!ComponentAt, Red!None, Listable, KindOf, RedKind
  <2> QED
    BY <2>2, <2>3
<1>5. /\ rComps = [c \in RedCells |-> rComps[c]]
      /\ \A c \in RedCells : Listable(rComps[c]) /\ rComps[c].kind = KindOf(rWorld[c])
  BY <1>1, <1>3, <1>4
<1>6. \A c \in RedCells : rComps[c] # Red!None <=> rComps[c].kind # "none"
  <2>1. \A k : Listable(k) => (k # Red!None <=> k.kind # "none")
    BY AirIs DEF Listable, Red!None
  <2> QED
    BY <1>5, <2>1
<1>7. rOrder \in Seq(RedCells) /\ Distinct(rOrder) /\ \A c : Listed(rOrder, c) <=> c \in S
  <2>1. S \in SUBSET RedCells
    OBVIOUS
  <2> HIDE DEF S
  <2> QED
    BY <1>2, <2>1, ScanOrder
<1>8. IsList(<<>>) /\ Len(<<>>) = 0
  <2>1. <<>> = [i \in 1..0 |-> <<>>[i]]
    OBVIOUS
  <2> QED
    BY <2>1 DEF IsList
<1>9. Shape(E)
  <2>1. /\ E = [world |-> E.world, comps |-> E.comps, order |-> E.order, level |-> E.level,
              strong |-> E.strong, sched |-> E.sched, updates |-> E.updates, gone |-> E.gone,
              odd |-> E.odd]
        /\ E.world = rWorld /\ E.comps = rComps /\ E.order = rOrder /\ E.sched = <<>>
        /\ E.updates = <<>> /\ E.level = rLevel
    BY <1>1 DEF Red!Engine
  <2>3. rLevel \in [RedCells -> Signal]
    BY <1>1 DEF Signal
  <2> HIDE DEF E
  <2>2. \A c \in RedCells : Listed(E.order, c) <=> E.comps[c].kind # "none"
    BY <1>6, <1>7, <2>1
  <2> QED
    BY <1>3, <1>5, <1>7, <1>8, <2>1, <2>2, <2>3 DEF Shape
<1>10. Handling
  BY <1>1 DEF Handling
<1>11. InTable
  BY <1>5 DEF InTable
<1>12. Informed
  BY <1>1, <1>8 DEF Informed, Says
<1>13. rTold \in 0..Len(rUpdates) /\ \A i \in 1..Len(rUpdates) : rUpdates[i][1] \in RedCells
  BY <1>1, <1>8
<1> QED
  BY <1>1, <1>3, <1>9, <1>10, <1>11, <1>12, <1>13 DEF RedInv

LEMMA RedSteps == RedInv /\ [Red!Next]_(Red!vars) => RedInv' /\ [RedStays]_(Red!vars)
<1> SUFFICES ASSUME RedInv, [Red!Next]_(Red!vars) PROVE RedInv' /\ [RedStays]_(Red!vars)
  OBVIOUS
<1>1. CASE UNCHANGED Red!vars
  <2>1. UNCHANGED <<rWorld, rComps, rOrder, rLevel, rStrong, rSched, rUpdates, rTold, rSeen,
                    rEdit, rCrossed>>
    BY <1>1 DEF Red!vars
  <2>2. Red!Engine' = Red!Engine
    BY <2>1 DEF Red!Engine
  <2>3. Handling'
    <3>1. CASE rEdit = Red!Nowhere
      BY <2>1, <3>1 DEF Handling
    <3>2. CASE rEdit # Red!Nowhere
      <4>1. PICK c \in RedCells : \E a, b :
               /\ rEdit = <<c, a, b>> /\ Solid(a) /\ Solid(b)
               /\ c \notin rCrossed =>
                     rWorld[c] = b /\ rComps[c].kind = KindOf(a) /\ ~Unsaid(rUpdates, rTold, c)
        BY <3>2 DEF RedInv, Handling
      <4> QED
        BY <2>1, <4>1 DEF Handling
    <3> QED
      BY <3>1, <3>2
  <2>4. Handled' = Handled
    BY <2>1 DEF Handled
  <2>5. InTable' /\ Informed'
    BY <2>1, <2>4 DEF RedInv, InTable, Informed
  <2> QED
    BY <1>1, <2>1, <2>2, <2>3, <2>5 DEF RedInv
<1>2. CASE Red!Tick
  BY <1>2, TickStep
<1>3. CASE Red!Tell
  BY <1>3, TellStep
<1>4. CASE Red!FinishEdit
  BY <1>4, FinishStep
<1>5. ASSUME NEW c \in Handy, Red!Dig(c) \/ \E b \in Pieces : Red!Place(c, b)
      PROVE  RedInv' /\ RedStays
  <2>1. PICK b : Solid(b) /\ Red!Change(c, b)
    BY <1>5, HandyCells DEF Red!Dig, Red!Place
  <2> QED
    BY <2>1, HandyCells, EditStep
<1>6. ASSUME NEW c \in Handy, Red!Interact(c) PROVE RedInv' /\ RedStays
  BY <1>6, HandyCells, InteractStep
<1> QED
  BY <1>1, <1>2, <1>3, <1>4, <1>5, <1>6 DEF Red!Next

LEMMA RedAlways == Red!Spec => []RedInv
<1>1. RedInv /\ [Red!Next]_(Red!vars) => RedInv'
  BY RedSteps
<1> QED
  BY RedStart, <1>1, PTL DEF Red!Spec

\* Redstone.TableInSync: whatever is built, the engine's table has exactly the components
\* that stand in the world, each once, wherever no handler and no piston was in the way.
THEOREM TableFollowsWorld == Red!Spec => []RedstoneTableInSync
<1>1. RedInv => RedstoneTableInSync
  <2> SUFFICES ASSUME RedInv, rEdit = Red!Nowhere
               PROVE  /\ \A c \in RedCells \ rCrossed :
                            rComps[c].kind = Red!ComponentAt(rWorld[c]).kind
                      /\ Red!IsInjective(rOrder)
                      /\ Red!ToSet(rOrder) = {c \in RedCells : rComps[c] # Red!None}
    BY DEF RedstoneTableInSync, Red!TableInSync
  <2>1. Handled = {}
    BY DEF Handled
  <2>2. \A c \in RedCells \ rCrossed : rComps[c].kind = KindOf(rWorld[c])
    BY <2>1 DEF RedInv, InTable
  <2>3. \A b : Red!ComponentAt(b).kind = KindOf(b)
    BY DEF Red!ComponentAt, Red!Registered, Red!None, KindOf, RedKind
  <2>4. /\ rOrder \in Seq(RedCells) /\ Distinct(rOrder)
        /\ \A c \in RedCells : Listed(rOrder, c) <=> rComps[c].kind # "none"
        /\ \A c \in RedCells : Listable(rComps[c])
    BY EngineIs DEF RedInv, Shape
  <2>5. \A c \in RedCells : rComps[c] # Red!None <=> rComps[c].kind # "none"
    <3>1. \A k : Listable(k) => (k # Red!None <=> k.kind # "none")
      BY AirIs DEF Listable, Red!None
    <3> QED
      BY <2>4, <3>1
  <2>6. DOMAIN rOrder = 1..Len(rOrder) /\ \A i \in 1..Len(rOrder) : rOrder[i] \in RedCells
    BY <2>4, LenProperties
  <2>7. Red!IsInjective(rOrder)
    BY <2>4, <2>6 DEF Red!IsInjective, Distinct
  <2>8. Red!ToSet(rOrder) = {c \in RedCells : rComps[c] # Red!None}
    BY <2>4, <2>5, <2>6 DEF Red!ToSet, Listed
  <2> QED
    BY <2>2, <2>3, <2>7, <2>8
<1> QED
  BY <1>1, RedAlways, PTL

\* Redstone.ToldAsItIs: whatever is built and in whatever order the broadcasts go out, when
\* all is told the clients see the world, wherever no handler and no piston was in the way.
THEOREM RedstoneIsTold == Red!Spec => []RedstoneToldAsItIs
<1>1. RedInv => RedstoneToldAsItIs
  <2> SUFFICES ASSUME RedInv, rTold = Len(rUpdates), rEdit = Red!Nowhere,
                      NEW c \in RedCells \ rCrossed
               PROVE  rSeen[c] = rWorld[c]
    BY DEF RedstoneToldAsItIs, Red!ToldAsItIs, Red!AllTold
  <2>1. Handled = {}
    BY DEF Handled
  <2>2. Len(rUpdates) \in Nat
    BY ListIs, EngineIs DEF RedInv, Shape
  <2>3. (rTold + 1)..Len(rUpdates) = {}
    BY <2>2
  <2>4. ~Unsaid(rUpdates, rTold, c)
    BY <2>3 DEF Unsaid
  <2> QED
    BY <2>1, <2>4 DEF RedInv, Informed
<1> QED
  BY <1>1, RedAlways, PTL

\* At most one signal besides nothing is given: those that are given are the same.
LEMMA OneSignal ==
    ASSUME NEW S \in SUBSET Signal, Cardinality(S \ {0}) <= 1, NEW x \in S, NEW y \in S,
           x > 0, y > 0
    PROVE  x = y
<1> DEFINE T == S \ {0}
<1>1. IsFiniteSet(T)
  <2>1. T \in SUBSET Nat /\ \A s \in T : s <= 15
    BY DEF Signal
  <2>2. 15 \in Nat
    OBVIOUS
  <2> QED
    BY <2>1, <2>2, FS_BoundedSetOfNaturals
<1>2. x \in T /\ y \in T
  OBVIOUS
<1>3. Cardinality(T) \in Nat /\ Cardinality(T) <= 1
  BY <1>1, FS_CardinalityType
<1> HIDE DEF T
<1>4. Cardinality(T) # 0
  BY <1>1, <1>2, FS_EmptySet
<1>5. PICK z : T = {z}
  <2>1. Cardinality(T) = 1
    BY <1>3, <1>4
  <2> QED
    BY <1>1, <2>1, FS_Singleton, Zenon
<1> QED
  BY <1>2, <1>5

\* Redstone.WireLevels (redstone.py:824): whatever is built, toggled and ticked, and along
\* whatever loops the wires run, from sources that give the same the engine's walk leaves
\* each wire with what it is given or one less than the best wire that passes on to it.
THEOREM WiresCarrySignals == Red!Spec => []RedstoneWireLevels
<1>1. RedInv => RedstoneWireLevels
  <2> DEFINE e == Red!Engine
             W == Red!Wires(e)
             given == {Seeds(e)[c] : c \in W}
  <2> SUFFICES ASSUME RedInv, Cardinality(given \ {0}) <= 1, NEW c \in W
               PROVE  Red!PropagateWires(e).level[c] = Red!Highest({0, Seeds(e)[c]} \cup
                          {Red!PropagateWires(e).level[q] - 1 :
                              q \in {w \in W : c \in Ways(e)[w]}})
    BY RedOperators DEF RedstoneWireLevels, Red!WireLevels, Seeds, Ways
  <2>1. Shape(e)
    BY DEF RedInv
  <2> HIDE DEF e
  <2>2. Seeds(e) \in [W -> Signal] /\ Red!PropagateWires(e).level = Signals(e)
    BY <2>1, PropagateIs
  <2>3. \A d, f \in W : Seeds(e)[d] > 0 /\ Seeds(e)[f] > 0 => Seeds(e)[d] = Seeds(e)[f]
    <3>1. given \in SUBSET Signal
      BY <2>2
    <3>2. \A d \in W : Seeds(e)[d] \in given
      OBVIOUS
    <3> HIDE DEF given, W
    <3> QED
      BY <3>1, <3>2, OneSignal
  <2>4. Signals(e)[c] = Red!Highest({0, Seeds(e)[c]} \cup
            {Signals(e)[q] - 1 : q \in {w \in W : c \in Ways(e)[w]}})
    BY <2>1, <2>3, SignalsLevelled
  <2> QED
    BY <2>2, <2>4
<1> QED
  BY <1>1, RedAlways, PTL

\* Redstone.BlocksStay: whatever the pistons push and pull, and in whatever order, a tick
\* keeps the number of blocks of each kind, but for heads and for TNT that goes off.
THEOREM PistonsKeepBlocks == Red!Spec => RedstoneBlocksStay
<1> DEFINE Stays == rEdit' = rEdit /\ rCrossed' = {} =>
              \A k \in {rWorld[c].kind : c \in RedCells} \ {"air", "piston_head"} :
                 \/ Red!NumberOf(rWorld', k) = Red!NumberOf(rWorld, k)
                 \/ k = "tnt" /\ Red!NumberOf(rWorld', k) < Red!NumberOf(rWorld, k)
<1>1. RedStays => Stays
  <2>1. \A w, k : Red!NumberOf(w, k) = Cardinality(Holding(w, k))
    BY RedOperators DEF Red!NumberOf, Holding
  <2> SUFFICES ASSUME Tallies(rWorld, rWorld'), NEW k, k \notin Fleeting
               PROVE  \/ Red!NumberOf(rWorld', k) = Red!NumberOf(rWorld, k)
                      \/ k = "tnt" /\ Red!NumberOf(rWorld', k) < Red!NumberOf(rWorld, k)
    BY DEF RedStays, Fleeting
  <2> QED
    BY <2>1, HoldingCounts DEF Tallies
<1>2. RedInv /\ [Red!Next]_(Red!vars) => [Stays]_(Red!vars)
  BY <1>1, RedSteps
<1>3. RedstoneBlocksStay <=> [][Stays]_(Red!vars)
  BY DEF RedstoneBlocksStay, Red!BlocksStay
<1> HIDE DEF Stays
<1> QED
  BY <1>2, <1>3, RedAlways, PTL DEF Red!Spec

-------------------------------------------------------------------------------
(* The suite                                                                 *)

LEMMA WorldIsItsParts == WorldSpec => Spec /\ Edits!Spec /\ Flow!Spec /\ Red!Spec
<1>1. WorldInit => Init /\ Edits!Init /\ Flow!Init /\ Red!Init
  BY DEF WorldInit, ChunksInit
<1>2. [WorldNext]_worldVars => [Next]_vars /\ [Edits!Next]_(Edits!vars)
                                 /\ [Flow!Next]_(Flow!vars) /\ [Red!Next]_(Red!vars)
  <2>1. UNCHANGED editVars => UNCHANGED Edits!vars
    BY DEF editVars, Edits!vars, Edits!job, Edits!history
  <2>2. UNCHANGED flowVars => UNCHANGED Flow!vars
    BY DEF flowVars, Flow!vars
  <2>3. UNCHANGED redVars => UNCHANGED Red!vars
    BY DEF redVars, Red!vars
  <2>4. UNCHANGED worldVars => UNCHANGED <<vars, editVars, flowVars, redVars>>
    BY DEF worldVars
  <2> QED
    BY <2>1, <2>2, <2>3, <2>4 DEF WorldNext, ChunksNext, EnginesNext
<1> QED
  BY <1>1, <1>2, PTL DEF WorldSpec, Spec, Edits!Spec, Flow!Spec, Red!Spec

\* A behaviour of the suite is one of each of its parts, so what holds of them holds in
\* the runs.
THEOREM WorldKeepsAll ==
    WorldSpec => [](NoMoveMissed /\ ViewIsLoaded /\ ClientInSync /\ ChunkEditsSurvive
                      /\ ChunkViewIsCurrent /\ UnfedFluidIsPending /\ WorldToldAsItIs
                      /\ RedstoneTableInSync /\ RedstoneWireLevels)
<1>1. WorldSpec => Spec /\ Edits!Spec /\ Flow!Spec /\ Red!Spec
  BY WorldIsItsParts
<1>2. FluidsToldAsTheyAre /\ RedstoneToldAsItIs => WorldToldAsItIs
  BY DEF WorldToldAsItIs
<1> QED
  BY <1>1, <1>2, EveryMoveFollowed, ViewLoaded, ClientHoldsView, NoEditLost, ViewsCurrent,
     FlowIsAttended, FlowIsTold, TableFollowsWorld, RedstoneIsTold, WiresCarrySignals, PTL

\* In the suite no tick takes away a source or a block that it should not.
THEOREM WorldKeepsBlocks == WorldSpec => WorldBlocksStay
<1>1. WorldSpec => Flow!Spec /\ Red!Spec
  BY WorldIsItsParts
<1>2. FluidSourcesStay /\ RedstoneBlocksStay => WorldBlocksStay
  BY DEF WorldBlocksStay
<1> QED
  BY <1>1, <1>2, SourcesAreKept, PistonsKeepBlocks, PTL
===============================================================================

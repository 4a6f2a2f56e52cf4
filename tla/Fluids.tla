---------------------------------- MODULE Fluids --------------------------------
(***************************************************************************)
(* Water and lava (FluidSystem, world/fluids.py), ticked by the game loop, *)
(* with players who dig and place blocks between the ticks and while the   *)
(* changes of a tick are being told (_tick_fluids, network/server.py).     *)
(* A block of a fluid is scheduled when it is placed, when it has flowed   *)
(* there, or when a neighbour was dug or has dried up, and is looked at    *)
(* once when its time has come.  Level 0 is a source, 8 falls.             *)
(***************************************************************************)
EXTENDS Integers, FiniteSets, Sequences, SequencesExt

CONSTANTS Cells,          \* the loaded part of the world: a set of <<x, y, z>>
          Worlds,         \* what it may hold at the start
          Kinds,          \* what players place
          Diggable,       \* the cells players dig and place in
          Reach,          \* Reach[f]: how far fluid f flows
          Speed,          \* Speed[f]: ticks until a block of f is looked at
          MaxEdits        \* bound: blocks dug or placed

Fluid == {"water", "lava"}
Falling == 8

FlowingOf(f, n) == [kind |-> f, level |-> n]
Solid(k) == [kind |-> k, level |-> -1]
Air == Solid("air")
IsFluid(b) == b.kind \in Fluid

Blocks == {Solid(k) : k \in {"air", "stone", "cobblestone", "obsidian"}}
             \cup {FlowingOf(f, n) : f \in Fluid, n \in 0..Falling}

\* What the constants must be; the suite that instantiates this module assumes it.
FluidsAssumption ==
    /\ Cells \subseteq Int \X Int \X Int
    /\ Worlds \subseteq [Cells -> Blocks]
    /\ Diggable \subseteq Cells
    /\ Kinds \subseteq Fluid \cup {"stone"}
    /\ Reach \in [Fluid -> 1..(Falling - 1)]
    /\ Speed \in [Fluid -> Nat \ {0}]
    /\ MaxEdits \in Nat

Nowhere == <<>>

VARIABLES block,    \* block[c]: what the world storage has
          pending,  \* pending_flows: <<cell, ticks until it is due>>
          telling,  \* telling[c]: the update of c the broadcast has still to tell, or Air
          toTell,   \* the cells of those updates
          edit,     \* the cell a player's handler is telling, and its block
          seen,     \* seen[c]: what a client was told last
          edits,    \* blocks dug or placed so far
          crossed,  \* history: cells that changed while an update of them was being told
          unnoticed \* history: fluid whose feeder went away without its being scheduled

vars == <<block, pending, telling, toTell, edit, seen, edits, crossed, unnoticed>>

-------------------------------------------------------------------------------
(* The neighbours of a cell.  The code visits them in the order of RecheckAll *)
(* and passes over those that are not loaded.                                   *)

Shift(c, x, y, z) == <<c[1] + x, c[2] + y, c[3] + z>>
Below(c) == Shift(c, 0, -1, 0)
Above(c) == Shift(c, 0, 1, 0)
Loaded(c) == c \in Cells

Beside(c) == {Shift(c, 1, 0, 0), Shift(c, -1, 0, 0),
              Shift(c, 0, 0, 1), Shift(c, 0, 0, -1)} \cap Cells
Around(c) == Beside(c) \cup ({Above(c), Below(c)} \cap Cells)

\* c has a neighbour of its own kind that it can come from.
Fed(world, c) == \E s \in Around(c) :
    /\ world[s].kind = world[c].kind
    /\ \/ world[s].level < world[c].level
       \/ s = Above(c) /\ world[s].level >= Falling

\* Flowing blocks that should dry up when they are looked at.
Unfed(world) ==
    {c \in Cells : IsFluid(world[c]) /\ world[c].level # 0 /\ ~Fed(world, c)}

WaterSource == FlowingOf("water", 0)
SourcesBeside(world, c) == {s \in Beside(c) : world[s] = WaterSource}

\* There is something below c for water to rest on.
Rests(world, c) ==
    /\ Loaded(Below(c))
    /\ world[Below(c)] # Air
    /\ IsFluid(world[Below(c)]) => world[Below(c)] = WaterSource

\* Mutant: one source is enough.
CanFormFromOne(world, c) == Rests(world, c) /\ Cardinality(SourcesBeside(world, c)) >= 1

\* Water that flows to c becomes a source: two sources are beside it.
CanFormInfiniteSource(world, c) == Rests(world, c) /\ Cardinality(SourcesBeside(world, c)) >= 2

(***************************************************************************)
(* A tick is a computation over a record: the world, what is pending for   *)
(* later ticks, the cells changed (_notify_fluid_update) and, for the      *)
(* history, the neighbours of changes that schedule none of them.          *)
(***************************************************************************)
\* Mutant: the change is not put down for the clients.
PutUntold(w, c, b) == [w EXCEPT !.block[c] = b]

Put(w, c, b) == [w EXCEPT !.block[c] = b, !.changed = @ \cup {c}]

Schedule(w, c, f) == [w EXCEPT !.later = Append(@, <<c, Speed[f]>>)]
Silent(w, cells) == [w EXCEPT !.silent = @ \cup cells]

\* Fluid b comes to c, perhaps over fluid of its kind, and flows on from there.
Arrive(w, c, b) == Silent(Schedule(Put(w, c, b), c, b.kind), Around(c))

Opposite(b, d) == IsFluid(b) /\ IsFluid(d) /\ b.kind # d.kind

\* Fluid b flows against the other fluid at d.  For lava that flows into water
\* it is the level of the lava that decides what d becomes.
React(w, d, b) ==
    LET level == IF b.kind = "water" THEN w.block[d].level ELSE b.level
        made  == IF level = 0 THEN "obsidian"
                 ELSE IF b.kind = "water" THEN "cobblestone" ELSE "stone"
    IN  Silent(Put(w, d, Solid(made)), Around(d))

FlowDown(w, c, b) ==
    LET d == Below(c) IN
    IF ~Loaded(d) THEN w
    ELSE IF Opposite(b, w.block[d]) THEN React(w, d, b)
    ELSE IF w.block[d] = Air THEN Arrive(w, d, FlowingOf(b.kind, Falling))
    ELSE w

\* Fluid b flows sideways into d, unless something as good is there.
FlowSide(b, w, d) ==
    LET level == IF b.level \in {0, Falling} THEN 1 ELSE b.level + 1
        there == w.block[d]
    IN  IF ~Loaded(d) THEN w
        ELSE IF Opposite(b, there) THEN React(w, d, b)
        ELSE IF there = Air \/ (IsFluid(there) /\ there.level > level)
        THEN Arrive(w, d, IF b.kind = "water" /\ CanFormInfiniteSource(w.block, d)
                          THEN WaterSource
                          ELSE FlowingOf(b.kind, level))
        ELSE w

FlowSides(w, c, b) ==
    IF b.level \in {0, Falling} \/ b.level < Reach[b.kind]
    THEN FlowSide(b, FlowSide(b, FlowSide(b, FlowSide(b, w,
             Shift(c, 1, 0, 0)), Shift(c, -1, 0, 0)), Shift(c, 0, 0, 1)), Shift(c, 0, 0, -1))
    ELSE w

Recheck(w, d) ==
    IF Loaded(d) /\ IsFluid(w.block[d]) THEN Schedule(w, d, w.block[d].kind) ELSE w

RecheckSides(w, c) ==
    Recheck(Recheck(Recheck(Recheck(w,
        Shift(c, 1, 0, 0)), Shift(c, -1, 0, 0)), Shift(c, 0, 0, 1)), Shift(c, 0, 0, -1))
RecheckAll(w, c) ==
    Recheck(Recheck(Recheck(Recheck(Recheck(Recheck(w,
        Shift(c, 1, 0, 0)), Shift(c, -1, 0, 0)), Above(c)), Below(c)),
        Shift(c, 0, 0, 1)), Shift(c, 0, 0, -1))

\* Mutant: the neighbours are not looked at again.
DryUpAlone(w, c, b) ==
    IF b.level = 0 \/ Fed([w.block EXCEPT ![c] = b], c) THEN w
    ELSE Silent(Put(w, c, Air), {Above(c), Below(c)})

\* Mutant: what falls from above is not counted as a feeder, and is looked at again.
DryUpHasty(w, c, b) ==
    IF b.level = 0 \/ \E s \in Around(c) :
          w.block[s].kind = b.kind /\ w.block[s].level < b.level
    THEN w ELSE RecheckAll(Put(w, c, Air), c)

\* A block that nothing feeds dries up; its neighbours on the four sides are
\* looked at again, those above and below are not.
DryUp(w, c, b) ==
    IF b.level = 0 \/ Fed([w.block EXCEPT ![c] = b], c) THEN w
    ELSE Silent(RecheckSides(Put(w, c, Air), c), {Above(c), Below(c)})

\* _process_flow: b is what was at c when it was called.
ProcessFlow(w, c) ==
    LET b == w.block[c] IN DryUp(FlowSides(FlowDown(w, c, b), c, b), c, b)

\* One entry of pending_flows in the loop of tick(): each cell once a tick.
Visit(w, entry) ==
    LET c   == entry[1]
        due == entry[2] - 1
    IN  IF due > 0 THEN [w EXCEPT !.later = Append(@, <<c, due>>)]
        ELSE IF c \in w.processed THEN w
        ELSE LET u == [w EXCEPT !.processed = @ \cup {c}]
             IN  IF IsFluid(w.block[c]) THEN ProcessFlow(u, c) ELSE u

Before == [block |-> block, later |-> <<>>, changed |-> {}, processed |-> {},
           silent |-> {}]

Pending == {pending[i][1] : i \in 1..Len(pending)}

\* pending_flows is not saved: what was flowing when the server stopped is unnoticed.
Init ==
    /\ block \in Worlds
    /\ pending = <<>>
    /\ telling = [c \in Cells |-> Air]
    /\ toTell = {}
    /\ edit = Nowhere
    /\ seen = block
    /\ edits = 0
    /\ crossed = {}
    /\ unnoticed = Unfed(block)

-------------------------------------------------------------------------------
(* Actions *)

CanTick == toTell = {} /\ pending # <<>>

\* _tick_fluids up to its broadcasts.
Tick ==
    /\ CanTick
    /\ LET w == FoldLeft(Visit, Before, pending)
       IN  /\ block' = w.block
           /\ pending' = w.later
           /\ telling' = [c \in Cells |-> IF c \in w.changed THEN w.block[c] ELSE Air]
           /\ toTell' = w.changed
           /\ crossed' = crossed \cup {c \in w.changed : edit # Nowhere /\ edit[1] = c}
           /\ unnoticed' = (unnoticed \cup w.silent) \cap Unfed(w.block)
    /\ UNCHANGED <<edit, seen, edits>>

\* The broadcast of one update of the tick; it waits for slow clients.
Tell(c) ==
    /\ c \in toTell
    /\ seen' = [seen EXCEPT ![c] = telling[c]]
    /\ toTell' = toTell \ {c}
    /\ telling' = [telling EXCEPT ![c] = Air]
    /\ UNCHANGED <<block, pending, edit, edits, crossed, unnoticed>>

Change(c, b) ==
    /\ edits < MaxEdits
    /\ edit = Nowhere
    /\ block' = [block EXCEPT ![c] = b]
    /\ edit' = <<c, b>>
    /\ edits' = edits + 1
    /\ crossed' = crossed \cup ({c} \cap toTell)
    /\ unnoticed' = unnoticed \cap Unfed(block')
    /\ UNCHANGED <<pending, telling, toTell, seen>>

\* _handle_block_dig and _handle_block_place, up to their broadcasts.
Dig(c) == block[c] # Air /\ Change(c, Air)
Place(c, k) ==
    /\ block[c] = Air
    /\ Change(c, IF k \in Fluid THEN FlowingOf(k, 0) ELSE Solid(k))

\* The rest of the handlers: the broadcast is over, and the fluid system is
\* told: on_fluid_place for a fluid, on_fluid_remove after digging anything.
FinishEdit ==
    /\ edit # Nowhere
    /\ LET c == edit[1]
           b == edit[2]
           w == [Before EXCEPT !.later = pending]
           u == CASE b = Air    -> RecheckAll(w, c)
                  [] IsFluid(b) -> Schedule(w, c, b.kind)
                  [] OTHER      -> w
       IN  /\ pending' = u.later
           /\ seen' = [seen EXCEPT ![c] = b]
    /\ edit' = Nowhere
    /\ UNCHANGED <<block, telling, toTell, edits, crossed, unnoticed>>

Next ==
    \/ Tick
    \/ \E c \in Cells : Tell(c)
    \/ \E c \in Diggable : Dig(c)
    \/ \E c \in Diggable, k \in Kinds : Place(c, k)
    \/ FinishEdit

Spec == Init /\ [][Next]_vars

TickStep == CanTick /\ UNCHANGED <<edit, edits>>

\* The game loop ticks, and its broadcasts and those of the handlers end.  The
\* first conjunct is WF_vars(Tick) with ENABLED written out: only Tick leaves the
\* edits alone when nothing is to be told.
Fairness ==
    /\ []<>(~CanTick) \/ []<><<TickStep>>_vars
    /\ WF_vars(\E c \in Cells : Tell(c))
    /\ WF_vars(FinishEdit)

FairSpec == Spec /\ Fairness

-------------------------------------------------------------------------------
(* Properties *)

TypeOK ==
    /\ block \in [Cells -> Blocks]
    /\ \A i \in 1..Len(pending) : pending[i][1] \in Cells /\ pending[i][2] \in Nat \ {0}
    /\ telling \in [Cells -> Blocks]
    /\ toTell \subseteq Cells
    /\ edit \in {Nowhere} \cup Cells \X Blocks
    /\ seen \in [Cells -> Blocks]
    /\ edits \in 0..MaxEdits
    /\ crossed \subseteq Cells /\ unnoticed \subseteq Cells

\* "Flowing blocks without source dry up" (fluids.py:206): a flowing block that
\* nothing feeds is going to be looked at.  Not so next to a change that
\* schedules nothing: a reaction, fluid of another level that flows over it, and
\* above and below a block that dries up, or what flowed when the server started.
UnfedIsPending ==
    Unfed(block) \subseteq
        Pending \cup unnoticed \cup (IF edit = Nowhere THEN {} ELSE Around(edit[1]))

\* Between the broadcasts a client has been told of every block as it is, those
\* excepted that changed again while an update of them was being told.
ToldAsItIs ==
    toTell = {} /\ edit = Nowhere =>
        \A c \in Cells \ crossed : seen[c] = block[c]

\* The flow of a tick never takes a source away, other than by the reaction of
\* water and lava, and makes one only where two were beside it.  In the same tick
\* lava may have reached those two since.
Made == {"stone", "cobblestone", "obsidian"}
SourcesStay == [][\A c \in Cells :
    edits' = edits /\ block'[c] # block[c] =>
        /\ block[c].level = 0 => block'[c].kind \in Made
        /\ block'[c].level = 0 =>
              /\ block'[c].kind = "water"
              /\ Cardinality({s \in Beside(c) : block'[s] = WaterSource
                     \/ (block'[s] # block[s] /\ block'[s].kind \in Made)}) >= 2]_vars

\* When players leave the water alone flowing comes to an end.
FlowEnds == <>[](pending = <<>>)
===============================================================================

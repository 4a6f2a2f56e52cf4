--------------------------------- MODULE Redstone -------------------------------
(***************************************************************************)
(* RedstoneEngine (world/redstone.py), ticked every second tick of the     *)
(* game loop, with players who use, dig and place blocks between the ticks *)
(* and while the changes are being told.  The engine keeps a table of the  *)
(* components it knows, beside the world: on_block_change and the pistons  *)
(* keep the two in step.                                                   *)
(* "lamp" stands for everything that follows a signal (lamps, doors,       *)
(* hoppers, rails).  A facing is the offset it points to.                  *)
(***************************************************************************)
EXTENDS Integers, FiniteSets, Sequences, SequencesExt

CONSTANTS Cells,       \* the part of the world that is modelled: a set of <<x, y, z>>
          Layouts,     \* what it may hold at the start
          Handy,       \* the cells players act on
          Pieces,      \* the blocks they place
          ButtonTime,  \* ticks a button stays pressed
          Fuse,        \* ticks until TNT goes off
          Threshold, Window, Burnout,  \* a torch that toggles that often within the
                                       \* window is out for that long
          PushLimit,   \* blocks a piston pushes
          MaxActions   \* bound: actions of players

Sources == {"lever", "button", "redstone_block"}
Pistons == {"piston", "sticky_piston"}
Component == Sources \cup Pistons \cup {"wire", "torch", "repeater", "comparator",
                                        "observer", "lamp", "tnt"}
Unpushable == {"obsidian", "piston_head"}

\* A block: whether it is on (lit, powered, extended, unstable) and its setting
\* (the delay of a repeater, the mode of a comparator: 1 compares, 2 subtracts).
Block(kind, facing, on, setting) ==
    [kind |-> kind, facing |-> facing, on |-> on, setting |-> setting]
Plain(kind) == Block(kind, <<0, 0, 0>>, FALSE, 1)
Air == Plain("air")

Offsets == {<<0, 0, 0>>, <<1, 0, 0>>, <<-1, 0, 0>>, <<0, 1, 0>>, <<0, -1, 0>>,
            <<0, 0, 1>>, <<0, 0, -1>>}
Blocks == [kind : Component \cup Unpushable \cup {"air", "stone"}, facing : Offsets,
           on : BOOLEAN, setting : 1..4]

\* What the constants must be; the suite that instantiates this module assumes it.
RedstoneAssumption ==
    /\ Cells \subseteq Int \X Int \X Int /\ IsFiniteSet(Cells)
    /\ Layouts \subseteq [Cells -> Blocks]
    /\ Handy \subseteq Cells /\ Pieces \subseteq Blocks
    /\ {ButtonTime, Fuse, Threshold, Window, Burnout, PushLimit, MaxActions} \subseteq Nat

Outside == Plain("obsidian")  \* around the cells that are modelled

None == [kind |-> "none"]     \* no component
Nowhere == <<>>

VARIABLES world,    \* world[c]: the block at c
          comps,    \* components[c], None where the engine knows of none
          order,    \* the keys of components, oldest first
          level,    \* power_levels of the cells of components
          strong,   \* strong_power of them
          sched,    \* scheduled_updates: <<ticks left, cell, on>>
          updates,  \* visual_updates of the last tick
          told,     \* how many of them have been told
          seen,     \* seen[c]: what a client was told last
          edit,     \* the cell a player's handler is telling, its old and new block
          actions,  \* actions of players so far
          crossed   \* history: cells that a tick may have worked on while a handler
                    \* was at them, or where a piston wrote over a block

vars == <<world, comps, order, level, strong, sched, updates, told, seen, edit,
          actions, crossed>>

\* register_component: the state is read off the block.  power is the output of a
\* comparator; the others give 15 or nothing.
Registered(b) ==
    [kind |-> b.kind, facing |-> b.facing, on |-> b.on, setting |-> b.setting,
     power |-> 0, timer |-> IF b.kind = "button" /\ b.on THEN ButtonTime ELSE 0,
     toggles |-> 0, age |-> Window + 1, dirty |-> TRUE]

ComponentAt(b) == IF b.kind \in Component THEN Registered(b) ELSE None

\* The order in which scan_chunk visits the cells.
Precedes(c, d) ==
    \/ c[2] < d[2]
    \/ c[2] = d[2] /\ c[3] < d[3]
    \/ c[2] = d[2] /\ c[3] = d[3] /\ c[1] < d[1]

Init ==
    /\ world \in Layouts
    /\ comps = [c \in Cells |-> ComponentAt(world[c])]
    /\ LET S == {c \in Cells : comps[c] # None}
       IN  order = [i \in 1..Cardinality(S) |->
                       CHOOSE c \in S : Cardinality({d \in S : Precedes(d, c)}) = i - 1]
    /\ level = [c \in Cells |-> 0]
    /\ strong = [c \in Cells |-> 0]
    /\ sched = <<>>
    /\ updates = <<>>
    /\ told = 0
    /\ seen = world
    /\ edit = Nowhere
    /\ actions = 0
    /\ crossed = {}

-------------------------------------------------------------------------------
(* The engine as a record e of world, comps, order, level, strong, sched and *)
(* updates; a tick is a computation over it.  gone: the cells whose component *)
(* was taken from the table in this pass over it; odd: history, the cells    *)
(* where a piston wrote over a block.                                        *)

Engine == [world |-> world, comps |-> comps, order |-> order, level |-> level,
           strong |-> strong, sched |-> sched, updates |-> updates, gone |-> {}, odd |-> {}]

Plus(c, d) == <<c[1] + d[1], c[2] + d[2], c[3] + d[3]>>
Minus(c, d) == <<c[1] - d[1], c[2] - d[2], c[3] - d[3]>>

Flat == {<<1, 0, 0>>, <<-1, 0, 0>>, <<0, 0, 1>>, <<0, 0, -1>>}
Six == Flat \cup {<<0, 1, 0>>, <<0, -1, 0>>}

KindAt(e, c) == IF c \in Cells THEN e.comps[c].kind ELSE "none"
Known(e, c) == KindAt(e, c) # "none"
BlockAt(e, c) == IF c \in Cells THEN e.world[c] ELSE Outside
Near(e, c) == {q \in {Plus(c, d) : d \in Six} : Known(e, q)}
Highest(S) == IF S = {} THEN 0 ELSE CHOOSE m \in S : \A n \in S : m >= n

SetComp(e, c, k) == [e EXCEPT !.comps[c] = k]

\* Mutant: the change is not put down for the clients.
PutBlockUntold(e, c, b) == IF c \notin Cells THEN e ELSE [e EXCEPT !.world[c] = b]

\* _set_block_state: writes to the world and tells the clients later.
PutBlock(e, c, b) ==
    IF c \notin Cells THEN e
    ELSE [e EXCEPT !.world[c] = b, !.updates = Append(@, <<c, b>>)]

(* Power.  A wire passes its signal on only by _propagate_wire_signals: the  *)
(* power field of its component is never set.                               *)

\* The component at q points to c.
PointsTo(e, q, c) == Plus(q, e.comps[q].facing) = c

\* _get_direct_power_from_neighbor
Gives(e, q, c) ==
    LET k == e.comps[q] IN
    CASE k.kind = "redstone_block"                     -> 15
      [] k.kind \in {"lever", "torch"} /\ k.on           -> 15
      [] k.kind = "button" /\ k.on /\ k.timer > 0        -> 15
      [] k.kind \in {"repeater", "observer"} /\ k.on /\ PointsTo(e, q, c) -> 15
      [] k.kind = "comparator" /\ PointsTo(e, q, c)      -> k.power
      [] OTHER                                         -> 0

\* _get_strong_power_at: torches and observers give none.
StrongAt(e, c) == Highest({Gives(e, q, c) :
    q \in {n \in Near(e, c) : e.comps[n].kind \in Sources \cup {"repeater", "comparator"}}})

Stored(e, c) == c \in Cells /\ (e.level[c] > 0 \/ e.strong[c] > 0)

\* is_powered and _is_block_powered_excluding: the torch itself does not count.
PoweredBut(e, c, torch) ==
    \/ Stored(e, c)
    \/ StrongAt(e, c) > 0
    \/ \E q \in Near(e, c) \ torch : Gives(e, q, c) > 0
Powered(e, c) == PoweredBut(e, c, {})

\* What a component that looks at cell q is given from there.
Input(e, q, c) ==
    Highest({StrongAt(e, q)} \cup (IF q \in Cells THEN {e.level[q]} ELSE {})
                             \cup (IF Known(e, q) THEN {Gives(e, q, c)} ELSE {}))

-------------------------------------------------------------------------------
(* Wires *)

Wires(e) == {c \in Cells : KindAt(e, c) = "wire"}

\* calculate_wire_connections, as far as wires are concerned: on the same level;
\* up, past a block or an empty cell with nothing over it; down past a block that
\* is neither solid nor air, of which there is none here.
Connected(e, c) == {q \in Wires(e) : \E d \in Flat :
    LET n == Plus(c, d) IN
    \/ q = n
    \/ /\ q = Plus(n, <<0, 1, 0>>)
       /\ BlockAt(e, n).kind \notin Component
       /\ BlockAt(e, n) = Air => BlockAt(e, Plus(n, <<0, 2, 0>>)).kind \in {"air", "wire", "torch"}}

\* What a wire is given by something other than a wire.
Seed(e, c) == Highest({StrongAt(e, c)} \cup
    {IF Known(e, q) THEN Gives(e, q, c) ELSE StrongAt(e, q) : q \in {Plus(c, d) : d \in Six}})

\* One round of the queue of _propagate_wire_signals: each wire passes on once what
\* it has when its turn comes.
PassOn(e, r) ==
    LET c    == Head(r.queue)
        more == {q \in Connected(e, c) : r.power[c] - 1 > r.power[q]}
    IN  IF c \in r.visited THEN [r EXCEPT !.queue = Tail(@)]
        ELSE [queue   |-> Tail(r.queue) \o SetToSeq(more),
              visited |-> r.visited \cup {c},
              power   |-> [q \in DOMAIN r.power |->
                              IF q \in more THEN r.power[c] - 1 ELSE r.power[q]]]

\* Its first queue: the wires that are given something, in the order of the table.
Seeded(e, seeds) ==
    FoldLeft(LAMBDA queue, c : IF c \in DOMAIN seeds /\ seeds[c] > 0 THEN Append(queue, c) ELSE queue,
             <<>>, e.order)

\* _propagate_wire_signals from its first queue on, until the queue is empty.
Spread(e, queue, power) ==
    LET W      == DOMAIN power
        Rounds == [queue : Seq(W), visited : SUBSET W, power : [W -> Nat]]
        run[r \in Rounds] == IF r.queue = <<>> THEN r.power ELSE run[PassOn(e, r)]
    IN  run[[queue |-> queue, visited |-> {}, power |-> power]]

\* Mutant: a wire without a signal keeps its old level.
PropagateWiresUnreset(e) ==
    LET seeds == [c \in Wires(e) |-> Seed(e, c)]
        power == Spread(e, Seeded(e, seeds), seeds)
    IN  [e EXCEPT !.level = [c \in Cells |-> IF c \in DOMAIN seeds /\ power[c] > 0
                                             THEN power[c] ELSE @[c]]]

PropagateWires(e) ==
    LET seeds == [c \in Wires(e) |-> Seed(e, c)]
        power == Spread(e, Seeded(e, seeds), seeds)
    IN  [e EXCEPT !.level = [c \in Cells |-> IF c \in DOMAIN seeds THEN power[c] ELSE @[c]]]

-------------------------------------------------------------------------------
(* Components *)

\* k turned on or off; clients are told if that is a change.
Switched(k, on) == [k EXCEPT !.on = on, !.dirty = @ \/ k.on # on]

\* Timers of buttons and observers.
RunTimer(e, c) ==
    LET k == e.comps[c] IN
    IF k.timer = 0 THEN e
    ELSE IF k.timer > 1 THEN SetComp(e, c, [k EXCEPT !.timer = @ - 1])
    ELSE SetComp(e, c, [Switched(k, FALSE) EXCEPT !.timer = 0])

\* _update_redstone_torch: off while the block it is attached to is powered; out
\* for a time when it has toggled too often within the window.
UpdateTorch(e, c) ==
    LET k       == e.comps[c]
        lit     == ~PoweredBut(SetComp(e, c, [k EXCEPT !.on = FALSE]), Minus(c, k.facing), {c})
        fresh   == k.age > Window
        toggles == IF fresh THEN 1 ELSE k.toggles + 1
        age     == IF k.age > Window THEN k.age ELSE k.age + 1
    IN  IF k.timer > 0
        THEN SetComp(e, c, [Switched(k, FALSE) EXCEPT !.timer = @ - 1, !.age = age])
        ELSE IF lit = k.on THEN SetComp(e, c, [k EXCEPT !.age = age])
        ELSE IF ~fresh /\ toggles >= Threshold
        THEN SetComp(e, c, [Switched(k, FALSE) EXCEPT
                               !.timer = Burnout, !.toggles = 0, !.age = age])
        ELSE SetComp(e, c, [Switched(k, lit) EXCEPT
                               !.toggles = toggles, !.age = IF fresh THEN 1 ELSE age])

SidesOf(facing) ==
    IF facing[3] # 0 THEN {<<1, 0, 0>>, <<-1, 0, 0>>} ELSE {<<0, 0, 1>>, <<0, 0, -1>>}

\* _update_repeater: a change is scheduled every tick until it has come.
UpdateRepeater(e, c) ==
    LET k      == e.comps[c]
        locked == \E d \in SidesOf(k.facing) : LET q == Plus(c, d) IN
                     KindAt(e, q) = "repeater" /\ e.comps[q].on /\ PointsTo(e, q, c)
        back   == Minus(c, k.facing)
        on     == Input(e, back, c) > 0 \/ Powered(e, back)
    IN  IF locked \/ on = k.on THEN e
        ELSE [e EXCEPT !.sched = Append(@, <<k.setting, c, on>>)]

\* _update_comparator, without containers.
UpdateComparator(e, c) ==
    LET k     == e.comps[c]
        back  == Minus(c, k.facing)
        given == Input(e, back, c)
        rear  == IF given = 0 /\ Powered(e, back) THEN 15 ELSE given
        side  == Highest({Input(e, Plus(c, d), c) : d \in SidesOf(k.facing)})
        power == IF k.setting = 1 THEN (IF rear >= side THEN rear ELSE 0)
                 ELSE (IF rear > side THEN rear - side ELSE 0)
    IN  SetComp(e, c, [Switched(k, power > 0) EXCEPT !.power = power, !.dirty = @ \/ k.power # power])

\* One entry in the loop of _process_scheduled_updates.
Fire(e, entry) ==
    LET c == entry[2] IN
    IF entry[1] > 1 THEN [e EXCEPT !.sched = Append(@, <<entry[1] - 1, c, entry[3]>>)]
    ELSE IF KindAt(e, c) # "repeater" THEN e
    ELSE SetComp(e, c, [e.comps[c] EXCEPT !.on = entry[3], !.dirty = TRUE])

FireScheduled(e) == FoldLeft(Fire, [e EXCEPT !.sched = <<>>], e.sched)

\* _calculate_power_levels: a component has what its neighbours give it, and the
\* level stored for any of them, wire or not.
CalculateLevel(e, c) ==
    [e EXCEPT
        !.level[c] = Highest({StrongAt(e, c)}
                        \cup {e.level[q] : q \in Near(e, c)}
                        \cup {Gives(e, q, c) : q \in Near(e, c)}),
        !.strong[c] = StrongAt(e, c)]

-------------------------------------------------------------------------------
(* Changes of blocks *)

\* _mark_neighbors_dirty
MarkDirty(e, c) ==
    LET near == {Plus(c, d) : d \in Six}
        far  == {Plus(n, d) : n \in near, d \in Six}
    IN  [e EXCEPT !.comps = [q \in Cells |->
            IF q \in near \cup far /\ Known(e, q) THEN [@[q] EXCEPT !.dirty = TRUE]
            ELSE @[q]]]

\* An observer that faces c sends a pulse, unless it is sending one.
Notice(e, c) ==
    [e EXCEPT !.comps = [q \in Cells |->
        IF KindAt(e, q) = "observer" /\ PointsTo(e, q, c) /\ @[q].timer = 0
        THEN [@[q] EXCEPT !.on = TRUE, !.timer = 2, !.dirty = TRUE]
        ELSE @[q]]]

Without(list, c) ==
    IF c \in ToSet(list) THEN RemoveAt(list, CHOOSE i \in 1..Len(list) : list[i] = c) ELSE list

Unregister(e, c) ==
    [e EXCEPT !.comps[c] = None, !.order = Without(@, c),
              !.level[c] = 0, !.strong[c] = 0, !.gone = @ \cup {c}]

Register(e, c, b) ==
    [e EXCEPT !.comps[c] = Registered(b),
              !.order = IF Known(e, c) THEN @ ELSE Append(@, c),
              !.gone = @ \cup {c}]

\* on_block_change: what the caller says that was there goes out of the table.
OnBlockChange(e, c, old, new) ==
    LET u == IF old.kind \in Component THEN Unregister(e, c) ELSE e
        v == IF new.kind \in Component THEN Register(u, c, new) ELSE u
    IN  Notice(MarkDirty(v, c), c)

\* A lamp follows the signal; TNT burns down while it has one, and goes off.
Activate(e, c) ==
    LET k  == e.comps[c]
        on == Powered(e, c)
    IN  IF k.kind = "lamp" \/ on # k.on
        THEN SetComp(e, c, [Switched(k, on) EXCEPT
                               !.timer = IF on /\ k.kind = "tnt" THEN Fuse ELSE 0])
        ELSE IF k.timer > 1 THEN SetComp(e, c, [k EXCEPT !.timer = @ - 1])
        ELSE IF k.timer = 1 THEN OnBlockChange(PutBlock(e, c, Air), c, e.world[c], Air)
        ELSE e

(* Pistons.  k is the component the pass over the table took at its start: a *)
(* piston that was pushed away before its turn still acts where it was.      *)

Ahead(c, k, n) == <<c[1] + n * k.facing[1], c[2] + n * k.facing[2], c[3] + n * k.facing[3]>>

\* Mutant: the engine is not told of the new place.
MoveUnregistered(e, from, to, block, there) ==
    OnBlockChange(PutBlock(PutBlock(e, to, block), from, Air), from, block, Air)

Move(e, from, to, block, there) ==
    OnBlockChange(OnBlockChange(PutBlock(PutBlock(e, to, block), from, Air),
                                from, block, Air), to, there, block)

\* The piston's own field, if it is still in the table, and its block.
Moved(e, c, k, on) ==
    PutBlock(IF c \in e.gone THEN [e EXCEPT !.odd = @ \cup {c}]
             ELSE SetComp(e, c, [e.comps[c] EXCEPT !.on = on]),
             c, Block(k.kind, k.facing, on, k.setting))

\* Mutant: the blocks are moved from the near end.
ExtendNearFirst(e, c, k) ==
    LET At(n) == Ahead(c, k, n)
        Gap   == {n \in 1..(PushLimit + 1) :
                    /\ BlockAt(e, At(n)) = Air
                    /\ \A i \in 1..(n - 1) : /\ BlockAt(e, At(i)) # Air
                                           /\ BlockAt(e, At(i)).kind \notin Unpushable}
    IN  IF Gap = {} THEN e
        ELSE LET n == CHOOSE g \in Gap : TRUE
                 pushed == FoldLeft(LAMBDA u, i : Move(u, At(i), At(i + 1),
                                                       u.world[At(i)], Air),
                                    e, [i \in 1..(n - 1) |-> i])
             IN  Moved(PutBlock(pushed, At(1), Block("piston_head", k.facing, FALSE, 1)),
                       c, k, TRUE)

\* _piston_extend: everything up to the first empty cell moves on, from the far end.
Extend(e, c, k) ==
    LET At(n) == Ahead(c, k, n)
        Gap   == {n \in 1..(PushLimit + 1) :
                    /\ BlockAt(e, At(n)) = Air
                    /\ \A i \in 1..(n - 1) : /\ BlockAt(e, At(i)) # Air
                                           /\ BlockAt(e, At(i)).kind \notin Unpushable}
    IN  IF Gap = {} THEN e
        ELSE LET n == CHOOSE g \in Gap : TRUE
                 pushed == FoldLeft(LAMBDA u, i : Move(u, At(n - i), At(n - i + 1),
                                                       e.world[At(n - i)], Air),
                                    e, [i \in 1..(n - 1) |-> i])
             IN  Moved(PutBlock(pushed, At(1), Block("piston_head", k.facing, FALSE, 1)),
                       c, k, TRUE)

\* _piston_retract: a sticky one pulls a block, over whatever is in the head's place.
Retract(e, c, k) ==
    LET head == Ahead(c, k, 1)
        far  == Ahead(c, k, 2)
        u == IF BlockAt(e, head).kind = "piston_head"
             THEN OnBlockChange(PutBlock(e, head, Air), head, e.world[head], Air) ELSE e
        v == IF /\ k.kind = "sticky_piston" /\ head \in Cells
                /\ BlockAt(u, far).kind \notin Unpushable \cup {"air"}
             THEN Move([u EXCEPT !.odd = IF BlockAt(u, head) = Air THEN @ ELSE @ \cup {head}],
                       far, head, u.world[far], Air)
             ELSE u
    IN  Moved(v, c, k, FALSE)

UpdatePiston(e, entry) ==
    LET c == entry[1]
        k == entry[2]
    IN  IF k.kind \notin Pistons \/ Powered(e, c) = k.on THEN e
        ELSE IF k.on THEN Retract(e, c, k) ELSE Extend(e, c, k)

UpdatePistons(e) ==
    FoldLeft(UpdatePiston, [e EXCEPT !.gone = {}],
             [i \in 1..Len(e.order) |-> <<e.order[i], e.comps[e.order[i]]>>])

\* _apply_visual_updates: the world shows what the dirty components are.
Show(e, c) ==
    LET k == e.comps[c]
        b == Block(k.kind, k.facing, k.kind # "wire" /\ k.on, k.setting)
        u == SetComp(e, c, [k EXCEPT !.dirty = FALSE])
    IN  IF ~k.dirty \/ b = e.world[c] THEN u ELSE PutBlock(u, c, b)

\* What a pass over the components does when it comes to cell c.
Update(e, c) ==
    LET kind == KindAt(e, c) IN
    CASE kind \in {"button", "observer"} -> RunTimer(e, c)
      [] kind = "torch"                  -> UpdateTorch(e, c)
      [] kind = "repeater"               -> UpdateRepeater(e, c)
      [] kind = "comparator"             -> UpdateComparator(e, c)
      [] OTHER                           -> Activate(e, c)
Turn(e, kinds, c) == IF KindAt(e, c) \in kinds THEN Update(e, c) ELSE e

\* A pass over the components that were there at its beginning.
Pass(e, kinds) == FoldLeft(LAMBDA u, c : Turn(u, kinds, c), e, e.order)
Levels(e) ==
    FoldLeft(LAMBDA u, c : IF KindAt(u, c) \in {"none", "wire"} THEN u ELSE CalculateLevel(u, c),
             e, e.order)
ShowAll(e) == FoldLeft(LAMBDA u, c : IF Known(u, c) THEN Show(u, c) ELSE u, e, e.order)

\* tick()
After(e) ==
    LET e1 == Pass(FireScheduled([e EXCEPT !.updates = <<>>]), {"button"})
        e2 == Pass(PropagateWires(e1), {"torch"})
        e3 == Pass(Pass(e2, {"repeater"}), {"comparator"})
        e4 == PropagateWires(Pass(e3, {"observer"}))
        e5 == Pass(Levels(e4), {"lamp", "tnt"})
    IN  ShowAll(UpdatePistons(e5))

-------------------------------------------------------------------------------
(* Actions *)

Becomes(e) ==
    /\ world' = e.world /\ comps' = e.comps /\ order' = e.order
    /\ level' = e.level /\ strong' = e.strong
    /\ sched' = e.sched /\ updates' = e.updates

AllTold == told = Len(updates)
Waiting == {updates[i][1] : i \in (told + 1)..Len(updates)}
Changed == {updates[i][1] : i \in DOMAIN updates}
LastOf(c) == updates[Highest({i \in DOMAIN updates : updates[i][1] = c})][2]

\* _tick_redstone up to its broadcasts.
Tick ==
    /\ AllTold
    /\ LET e == After(Engine)
       IN  /\ Becomes(e)
           /\ crossed' = crossed \cup e.odd \cup (IF edit = Nowhere THEN {} ELSE {edit[1]})
    /\ told' = 0
    /\ UNCHANGED <<seen, edit, actions>>

\* The broadcast of the next update; it waits for slow clients.
Tell ==
    /\ ~AllTold
    /\ told' = told + 1
    /\ seen' = [seen EXCEPT ![updates[told + 1][1]] = updates[told + 1][2]]
    /\ UNCHANGED <<world, comps, order, level, strong, sched, updates, edit, actions, crossed>>

\* _handle_block_dig and _handle_block_place up to their broadcast.
Change(c, b) ==
    /\ actions < MaxActions /\ actions' = actions + 1
    /\ edit = Nowhere
    /\ world' = [world EXCEPT ![c] = b]
    /\ edit' = <<c, world[c], b>>
    /\ crossed' = crossed \cup ({c} \cap Waiting)
    /\ UNCHANGED <<comps, order, level, strong, sched, updates, told, seen>>

Dig(c) == world[c] # Air /\ Change(c, Air)
Place(c, b) == world[c] = Air /\ Change(c, b)

\* The rest of them: the broadcast, then on_block_change.
FinishEdit ==
    /\ edit # Nowhere
    /\ Becomes(OnBlockChange(Engine, edit[1], edit[2], edit[3]))
    /\ seen' = [seen EXCEPT ![edit[1]] = edit[3]]
    /\ edit' = Nowhere
    /\ UNCHANGED <<told, actions, crossed>>

\* on_player_interact, and its handler that tells the updates of the last tick again.
Interact(c) ==
    /\ actions < MaxActions /\ actions' = actions + 1
    /\ LET k == comps[c]
           u == [k EXCEPT !.dirty = TRUE]
       IN  \/ /\ k.kind = "lever"
              /\ Becomes(MarkDirty(SetComp(Engine, c, [u EXCEPT !.on = ~@]), c))
           \/ /\ k.kind = "button" /\ ~k.on
              /\ Becomes(MarkDirty(SetComp(Engine, c, [u EXCEPT !.on = TRUE, !.timer = ButtonTime]), c))
           \/ /\ k.kind = "repeater"
              /\ Becomes(SetComp(Engine, c, [u EXCEPT !.setting = (@ % 4) + 1]))
           \/ /\ k.kind = "comparator"
              /\ Becomes(SetComp(Engine, c, [u EXCEPT !.setting = 3 - @]))
    /\ seen' = [q \in Cells |->
                  IF q \in Changed THEN LastOf(q) ELSE seen[q]]
    /\ crossed' = crossed \cup {q \in Changed : LastOf(q) # world[q]}
    /\ UNCHANGED <<told, edit>>

Next ==
    \/ Tick \/ Tell \/ FinishEdit
    \/ \E c \in Handy : Dig(c) \/ Interact(c) \/ \E b \in Pieces : Place(c, b)

Spec == Init /\ [][Next]_vars

\* The game loop goes on, and broadcasts and handlers end.  The first conjunct is
\* WF_vars(Tick) with ENABLED written out: a tick can be when everything is told,
\* and changes something unless it leaves the engine as it was; only Tick leaves the
\* actions of players alone when everything is told.
TickStep == AllTold /\ UNCHANGED <<actions, edit>>
Idle == LET e == After(Engine) IN
    /\ e.comps = comps /\ e.level = level /\ e.strong = strong /\ e.sched = sched
    /\ e.updates = updates /\ e.world = world /\ told = 0
Fairness ==
    /\ []<>(~AllTold \/ Idle) \/ []<><<TickStep>>_vars
    /\ WF_vars(Tell)
    /\ WF_vars(FinishEdit)

FairSpec == Spec /\ Fairness

-------------------------------------------------------------------------------
(* Properties *)

\* Between the handlers of players the engine's table has exactly the components
\* that stand in the world, each once, those cells excepted that a tick may have
\* worked on while a handler was at them (_apply_visual_updates puts the block
\* back that is being dug) or where a piston wrote over a block.
TableInSync == edit = Nowhere =>
    /\ \A c \in Cells \ crossed : comps[c].kind = ComponentAt(world[c]).kind
    /\ IsInjective(order) /\ ToSet(order) = {c \in Cells : comps[c] # None}

\* When everything is told a client sees the blocks as they are, with the same
\* exceptions and those of changes told twice.
ToldAsItIs == AllTold /\ edit = Nowhere =>
    \A c \in Cells \ crossed : seen[c] = world[c]

\* A tick makes no block and loses none, whatever the pistons push and pull, but
\* for the piston heads and for TNT that goes off.
NumberOf(w, kind) == Cardinality({c \in Cells : w[c].kind = kind})

BlocksStay == [][edit' = edit /\ crossed' = {} =>
    \A k \in {world[c].kind : c \in Cells} \ {"air", "piston_head"} :
        \/ NumberOf(world', k) = NumberOf(world, k)
        \/ k = "tnt" /\ NumberOf(world', k) < NumberOf(world, k)]_vars

\* "Wire signal degrades by 1 per block from the source" (redstone.py:824): each wire
\* has what it is given, or one less than the best wire that passes on to it.  Said
\* of sources that give the same; from unequal ones the code passes on too little.
WireLevels ==
    LET e      == Engine
        levels == PropagateWires(e).level
        seed   == [c \in Wires(e) |-> Seed(e, c)]
        to     == [c \in Wires(e) |-> Connected(e, c)]
    IN  Cardinality({seed[c] : c \in DOMAIN seed} \ {0}) <= 1 =>
           \A c \in DOMAIN seed : levels[c] = Highest({0, seed[c]} \cup
               {levels[q] - 1 : q \in {w \in DOMAIN to : c \in to[w]}})

\* "Activate/deactivate blocks that respond to redstone signals" (redstone.py:1372):
\* no lamp stays lit when nothing that gives power is on.
Dark == \A c \in Cells :
    /\ comps[c].kind # "redstone_block"
    /\ comps[c].kind \in {"lever", "button", "torch", "repeater", "comparator", "observer"} =>
           ~comps[c].on
Lit == \E c \in Cells : comps[c].kind = "lamp" /\ comps[c].on
LampsGoOut == [](Dark => <>(~Dark \/ ~Lit))
===============================================================================

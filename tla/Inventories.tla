------------------------------ MODULE Inventories ------------------------------
(***************************************************************************)
(* Items in slots: the clicks of world/inventory_interactions.py, the      *)
(* pickup of network/server.py, and the digging, placing and dropping of   *)
(* handlers/play/blocks.py, around one chest that players share.           *)
(*                                                                         *)
(* A handler runs to its end unless it awaits: a drop tells the players of *)
(* the new entity before it empties the slot, a task of the Q key clears   *)
(* the hand when it has told them, a dug chest is poured out entity by     *)
(* entity, a block is placed before it is taken from the hand, and the     *)
(* game loop sends packets in the middle of a pickup.                      *)
(*                                                                         *)
(* An ItemStack is an object, and a drop keeps hold of the one it found:   *)
(* "by" names the players whose drop in flight holds this very object.     *)
(* Damage and tags of items are left out, so are the crafting slots.       *)
(***************************************************************************)
EXTENDS Integers, FiniteSets, Bags, SequencesExt, FiniteSetsExt, Sums

CONSTANTS Player, Item,
          Wearable, Placeable,  \* items that are armour; items that are blocks
          MaxStack,             \* max_stack_size of every item
          Hotbar, Main,         \* slots 0..8 and 9..35, as sequences
          Offhand, Armor,       \* slot 40, and one slot of armour
          Ender, Chest,         \* slots of an ender chest and of the shared chest
          Starts,               \* starting points: stacks, open windows, creative mode
          MaxTosses,            \* bound: tasks of the Q key per player
          MaxPackets            \* bound: packets that start a handler, and stacks
                                \* poured out of a dug chest

VARIABLES at,        \* the stack in every slot and on every cursor
          ground,    \* item entities, a bag of [item, count]
          built,     \* blocks placed, by item
          window,    \* _open_container_type: "own" when no window is open
          chest,     \* the chest's block and its container are there
          pending,   \* what the packet handler of a player is waiting in
          tossed,    \* _do_drop tasks that have thrown and not yet cleared the slot
          selected,  \* selected_hotbar_slot
          pick,      \* the pickup in progress
          listed,    \* the players the game loop's tick has listed
          online, creative,
          supply,    \* ghost: how many of every item there were at first
          shown,     \* ghost: what was sent of main slots and cursor under the
                     \* current inventory_state_id
          spoilt,    \* ghost: items were lost or doubled in a way named below
          packets    \* counter for the bound

vars == <<at, ground, built, window, chest, pending, tossed, selected, pick,
          listed, online, creative, supply, shown, spoilt, packets>>

Shared == "block"      \* owner of the slots of the chest
Cursor == -999
NoItem == "minecraft:air"
Nothing == [item |-> NoItem, count |-> 0, by |-> {}]
Idle == [kind |-> "idle"]

Backpack == ToSet(Hotbar) \cup ToSet(Main)
InventorySlots == Backpack \cup {Offhand, Armor}
Place == (Player \X (InventorySlots \cup ToSet(Ender) \cup {Cursor}))
             \cup ({Shared} \X ToSet(Chest))

IsEmpty(s) == s.count = 0
\* How many of an item a stack has.
Of(s, i) == IF s.item = i THEN s.count ELSE 0
Fresh(i, n) == [item |-> i, count |-> n, by |-> {}]

ASSUME InventoriesAssumption ==
    /\ IsFiniteSet(Player) /\ IsFiniteSet(Item)
    /\ Shared \notin Player /\ NoItem \notin Item
    /\ MaxStack \in [Item -> Nat \ {0}]
    /\ \A slots \in {Hotbar, Main, Ender, Chest} : slots \in Seq(Nat)
    /\ Hotbar # <<>>
    /\ Offhand \in Nat /\ Armor \in Nat
    /\ \A start \in Starts :
          /\ start.at = [l \in Place |-> start.at[l]]
          /\ \A l \in Place : \/ start.at[l] = Nothing
                             \/ \E i \in Item : \E n \in 1..MaxStack[i] : start.at[l] = Fresh(i, n)
          /\ start.window \in [Player -> {"own", "chest", "ender"}]

Written(s) == IF IsEmpty(s) THEN Nothing ELSE s    \* set_slot stores None for it
CanStack(s, t) == ~IsEmpty(s) /\ ~IsEmpty(t) /\ s.item = t.item
Space(s) == MaxStack[s.item] - s.count
Smaller(m, n) == IF m < n THEN m ELSE n
Plus(s, n) == [s EXCEPT !.count = @ + n]
Minus(s, n) == [s EXCEPT !.count = @ - n]
Places(p, slots) == [k \in DOMAIN slots |-> <<p, slots[k]>>]

\* ... and how many there are in slots and on cursors.
Total(a, i) == SumOf([l \in Place |-> Of(a[l], i)], Place)

-------------------------------------------------------------------------------
(* The clicks, as operators from the stacks before to the stacks after.      *)

\* Slots a click in this window can name: the own inventory's window shows
\* all of it, a container's window the container and the backpack.
Locations(p, w) ==
    CASE w = "own"   -> {p} \X InventorySlots
      [] w = "chest" -> IF chest THEN ({p} \X Backpack) \cup ({Shared} \X ToSet(Chest)) ELSE {}
      [] w = "ender" -> {p} \X (Backpack \cup ToSet(Ender))

\* Variant: a merge that does not look at the room that is left.
LeftClickOver(a, p, l) ==
    IF CanStack(a[l], a[<<p, Cursor>>])
    THEN [a EXCEPT ![l] = Plus(@, a[<<p, Cursor>>].count), ![<<p, Cursor>>] = Nothing]
    ELSE [a EXCEPT ![l] = a[<<p, Cursor>>], ![<<p, Cursor>>] = a[l]]
LeftClick(a, p, l) ==
    LET s == a[l]
        c == a[<<p, Cursor>>]
    IN CASE IsEmpty(c) -> [a EXCEPT ![<<p, Cursor>>] = s, ![l] = Nothing]
         [] ~IsEmpty(c) /\ IsEmpty(s) -> [a EXCEPT ![l] = c, ![<<p, Cursor>>] = Nothing]
         [] CanStack(s, c) /\ Space(s) > 0 ->
              LET moved == Smaller(c.count, Space(s))
              IN [a EXCEPT ![l] = Plus(s, moved), ![<<p, Cursor>>] = Written(Minus(c, moved))]
         [] OTHER -> [a EXCEPT ![l] = c, ![<<p, Cursor>>] = s]

RightClick(a, p, l) ==
    LET s == a[l]
        c == a[<<p, Cursor>>]
        half == (s.count + 1) \div 2
    IN CASE IsEmpty(c) /\ IsEmpty(s) -> a
         [] IsEmpty(c) /\ ~IsEmpty(s) ->
              [a EXCEPT ![<<p, Cursor>>] = Fresh(s.item, half), ![l] = Written(Minus(s, half))]
         [] ~IsEmpty(c) /\ IsEmpty(s) ->
              [a EXCEPT ![l] = Fresh(c.item, 1), ![<<p, Cursor>>] = Written(Minus(c, 1))]
         [] CanStack(s, c) /\ Space(s) > 0 ->
              [a EXCEPT ![l] = Plus(s, 1), ![<<p, Cursor>>] = Written(Minus(c, 1))]
         [] OTHER -> a

\* Of r.left items as many as there is room for go onto the stack at l ...
Grow(r, l) ==
    LET moved == Smaller(Space(r.at[l]), r.left)
    IN [at |-> [r.at EXCEPT ![l] = Plus(@, moved)], left |-> r.left - moved]

\* ... or become a stack at l, if it is empty.
FillSlot(r, l, item) ==
    LET moved == Smaller(MaxStack[item], r.left)
    IN IF r.left > 0 /\ IsEmpty(r.at[l])
       THEN [at |-> [r.at EXCEPT ![l] = Fresh(item, moved)], left |-> r.left - moved]
       ELSE r

\* Insert n of an item into slots in this order: first onto stacks, then into
\* empty slots.  Returns the stacks and how many are left.
InsertStack(a, item, n, onto, into) ==
    LET Merge(r, l) == IF CanStack(r.at[l], Fresh(item, 1)) THEN Grow(r, l) ELSE r
        Fill(r, l) == FillSlot(r, l, item)
    IN FoldLeft(Fill, FoldLeft(Merge, [at |-> a, left |-> n], onto), into)

\* Where a shift-click in a slot of a window sends the stack.
ShiftOrder(p, w, l) ==
    LET Everywhere == Main \o Hotbar \o <<Offhand>>
    IN CASE w = "own" /\ l[2] \in ToSet(Hotbar) -> Places(p, Main)
         [] w = "own" /\ l[2] \in ToSet(Main) -> Places(p, Hotbar \o Main)
         [] w = "own" /\ l[2] = Offhand -> Places(p, Main \o Hotbar)
         [] w = "own" /\ l[2] = Armor -> Places(p, Everywhere)
         [] w = "chest" /\ l[1] = p -> Places(Shared, Chest)
         [] w = "ender" /\ l[2] \in Backpack -> Places(p, Ender)
         [] OTHER -> Places(p, Everywhere)

\* Variant: what does not fit is forgotten.
ShiftClickAll(a, p, w, l) ==
    LET order == ShiftOrder(p, w, l)
    IN IF IsEmpty(a[l]) THEN a
       ELSE InsertStack([a EXCEPT ![l] = Nothing], a[l].item, a[l].count, order, order).at
ShiftClick(a, p, w, l) ==
    LET s == a[l]
        taken == [a EXCEPT ![l] = Nothing]
        order == ShiftOrder(p, w, l)
        r == InsertStack(taken, s.item, s.count, order, order)
    IN CASE IsEmpty(s) -> a
         [] ~IsEmpty(s) /\ w = "own" /\ s.item \in Wearable /\ l[2] # Armor
                        /\ IsEmpty(a[<<p, Armor>>]) -> [taken EXCEPT ![<<p, Armor>>] = s]
         [] OTHER -> IF r.left > 0 THEN [r.at EXCEPT ![l] = [s EXCEPT !.count = r.left]]
                                   ELSE r.at

NumberKey(a, p, l, h) ==
    [a EXCEPT ![l] = Written(a[<<p, h>>]), ![<<p, h>>] = Written(a[l])]

\* Of what is left of the cursor c up to amount go to l.
GiveTo(r, l, c, amount) ==
    LET s == r.at[l]
        moved == Smaller(amount, Space(s))
    IN CASE amount <= 0 -> r
         [] amount > 0 /\ IsEmpty(s) ->
              [at |-> [r.at EXCEPT ![l] = Fresh(c.item, amount)], used |-> r.used + amount]
         [] amount > 0 /\ CanStack(s, c) ->
              [at |-> [r.at EXCEPT ![l] = Plus(s, moved)], used |-> r.used + moved]
         [] OTHER -> r

\* Spread the cursor over slots: evenly, or one to each.
DragOver(a, p, order, even) ==
    LET c == a[<<p, Cursor>>]
        n == Len(order)
        each == IF even THEN Max({1, c.count \div n}) ELSE 1
        extra == IF even THEN c.count - each * n ELSE 0
        share(k) == each + (IF k <= extra THEN 1 ELSE 0)
        Give(r, k) == GiveTo(r, order[k], c, Smaller(share(k), c.count - r.used))
        r == FoldLeft(Give, [at |-> a, used |-> 0], [k \in 1..n |-> k])
    IN [r.at EXCEPT ![<<p, Cursor>>] = Written(Minus(c, r.used))]

\* add_item: stacks of the same item first, an emptied object among them,
\* then new stacks in empty slots.
AddItem(a, p, item, n) ==
    LET Merge(r, l) == IF r.at[l].item = item THEN Grow(r, l) ELSE r
        merged == FoldLeft(Merge, [at |-> a, left |-> n],
                           Places(p, Hotbar \o Main \o <<Armor, Offhand>>))
    IN InsertStack(merged.at, item, merged.left, <<>>, Places(p, Main \o Hotbar \o <<Offhand>>))

-------------------------------------------------------------------------------
\* What a client is sent of the slots whose numbers it shares with the server.
View(a, p) == [s \in ToSet(Main) \cup {Cursor} |->
                  LET t == a[<<p, s>>] IN IF IsEmpty(t) THEN <<NoItem, 0>> ELSE <<t.item, t.count>>]

Ready(p) == p \in online /\ pending[p] = Idle
Survival(p) == p \notin creative
InTick == listed # {}

\* Variant: the number stays.
RenumberNot(p) == UNCHANGED shown
\* inventory_state_id += 1: what was shown before cannot be clicked on any more.
Renumber(p) == shown' = [shown EXCEPT ![p] = {}]

\* The same, and then the open window's content is sent, if it is there.
Answer(p) == shown' = [shown EXCEPT ![p] = IF window[p] = "chest" /\ ~chest THEN {}
                                           ELSE {View(at', p)}]

world == <<ground, built, chest>>
loop == <<pick, listed>>
people == <<online, creative, supply>>
hands == <<window, selected, tossed>>

Init ==
    /\ \E start \in Starts : at = start.at /\ creative = start.creative /\ window = start.window
    /\ supply = [i \in Item |-> Total(at, i)]
    /\ ground = EmptyBag
    /\ built = [i \in Item |-> 0]
    /\ chest = TRUE
    /\ pending = [p \in Player |-> Idle]
    /\ tossed = [p \in Player |-> <<>>]
    /\ selected = [p \in Player |-> Hotbar[1]]
    /\ pick = Idle /\ listed = {}
    /\ online = Player
    /\ shown = [p \in Player |-> {View(at, p)}]
    /\ spoilt = FALSE /\ packets = 0

\* A click that does not await before it answers.
Clicked(p) ==
    /\ Answer(p)
    /\ UNCHANGED <<world, hands, pending, loop, people, spoilt>>

ClickBasic(p) ==
    /\ Ready(p)
    /\ \E l \in Locations(p, window[p]) :
           /\ at' = LeftClick(at, p, l) \/ at' = RightClick(at, p, l)
           /\ Clicked(p)

ClickShift(p) ==
    /\ Ready(p)
    /\ \E l \in Locations(p, window[p]) :
           /\ at' = ShiftClick(at, p, window[p], l)
           /\ Clicked(p)

ClickNumberKey(p) ==
    /\ Ready(p)
    /\ \E h \in ToSet(Hotbar) : \E l \in Locations(p, window[p]) \ {<<p, h>>} :
           /\ at' = NumberKey(at, p, l, h)
           /\ Clicked(p)

\* Creative mode makes a full stack of what a slot holds.
ClickPickBlock(p) ==
    /\ Ready(p) /\ ~Survival(p)
    /\ \E l \in Locations(p, window[p]) :
           /\ ~IsEmpty(at[l]) /\ at[<<p, Cursor>>].item = NoItem
           /\ at' = [at EXCEPT ![<<p, Cursor>>] = Fresh(at[l].item, MaxStack[at[l].item])]
           /\ Answer(p)
    /\ spoilt' = TRUE
    /\ UNCHANGED <<world, hands, pending, loop, people>>

DragEnd(p) ==
    /\ Ready(p) /\ ~IsEmpty(at[<<p, Cursor>>])
    /\ \E even \in BOOLEAN : \E some \in kSubset(2, Locations(p, window[p])) :
       \E order \in SetToSeqs(some) :
           /\ at' = DragOver(at, p, order, even)
           /\ Clicked(p)

\* _drop_stack takes the count off the stack, makes the entity and tells the
\* players of it; only then DropDone looks at the stack again.
DropStack(p) ==
    /\ Ready(p)
    /\ \E all \in BOOLEAN : \E l \in Locations(p, window[p]) \cup {<<p, Cursor>>} :
           LET s == at[l]
               n == IF all THEN s.count ELSE 1
           IN /\ ~IsEmpty(s)
              /\ at' = [at EXCEPT ![l] = [Minus(s, n) EXCEPT !.by = @ \cup {p}]]
              /\ ground' = ground (+) SetToBag({[item |-> s.item, count |-> n]})
              /\ pending' = [pending EXCEPT ![p] = [kind |-> "drop", from |-> l,
                                                    kept |-> FALSE]]
    /\ UNCHANGED <<built, chest, hands, loop, people, shown, spoilt>>

\* An emptied object is written out of the slot it came from, whatever that
\* slot holds by now.
DropDone(p) ==
    /\ pending[p].kind = "drop"
    /\ LET d == pending[p]
           held == {l \in Place : p \in at[l].by}
           gone == IF held = {} THEN ~d.kept ELSE \A l \in held : IsEmpty(at[l])
           erase == gone /\ (d.from[1] = Shared => chest)
           freed == [l \in Place |-> [at[l] EXCEPT !.by = @ \ {p}]]
       IN /\ at' = [l \in Place |-> IF l = d.from /\ erase THEN Nothing
                                    ELSE freed[l]]
          /\ spoilt' = (erase /\ ~IsEmpty(at[d.from]))
          /\ Answer(p)
    /\ pending' = [pending EXCEPT ![p] = Idle]
    /\ UNCHANGED <<world, hands, loop, people>>

\* The Q key: _do_drop throws the whole stack in the hand, as a task.
TossHeld(p) ==
    LET s == at[<<p, selected[p]>>]
        e == [item |-> s.item, count |-> s.count]
    IN /\ Ready(p) /\ Survival(p) /\ ~IsEmpty(s) /\ Len(tossed[p]) < MaxTosses
       /\ tossed' = [tossed EXCEPT ![p] = Append(@, e)]
       /\ ground' = ground (+) SetToBag({e})
       /\ UNCHANGED <<at, built, window, chest, pending, selected, loop, people, shown, spoilt>>

\* ... and then clears the slot that is selected by then.
TossDone(p) ==
    LET l == <<p, selected[p]>>
        s == at[l]
    IN /\ tossed[p] # <<>>
       /\ tossed' = [tossed EXCEPT ![p] = Tail(@)]
       /\ at' = [at EXCEPT ![l] = Nothing]
       /\ pending' = [q \in Player |-> IF q \in s.by /\ ~IsEmpty(s)
                                       THEN [pending[q] EXCEPT !.kept = TRUE] ELSE pending[q]]
       /\ Renumber(p)
       /\ spoilt' = (<<s.item, s.count>> # <<Head(tossed[p]).item, Head(tossed[p]).count>>)
       /\ UNCHANGED <<world, window, selected, loop, people>>

HeldItemSlot(p) ==
    /\ Ready(p)
    /\ \E h \in ToSet(Hotbar) : selected' = [selected EXCEPT ![p] = h]
    /\ UNCHANGED <<at, world, window, tossed, pending, loop, people, shown, spoilt>>

\* Opening sends the content under the id of the last change.
OpenWindow(p) ==
    /\ Ready(p)
    /\ \E w \in {"chest", "ender"} :
           /\ w = "chest" => chest
           /\ window' = [window EXCEPT ![p] = w]
    /\ shown' = [shown EXCEPT ![p] = @ \cup {View(at, p)}]
    /\ UNCHANGED <<at, world, selected, tossed, pending, loop, people, spoilt>>

\* The cursor keeps what it carries.
CloseContainer(p) ==
    /\ Ready(p) /\ window[p] # "own"
    /\ window' = [window EXCEPT ![p] = "own"]
    /\ UNCHANGED <<at, world, selected, tossed, pending, loop, people, shown, spoilt>>

\* A block is set and told to the players before it is taken from the hand; a
\* hand that holds no block places one of HOTBAR_PLACEABLES.
PlaceBlock(p) ==
    /\ Ready(p)
    /\ LET s == at[<<p, selected[p]>>]
           owned == ~IsEmpty(s) /\ s.item \in Placeable
       IN \E i \in Placeable :
              /\ owned => i = s.item
              /\ built' = [built EXCEPT ![i] = @ + 1]
              /\ pending' = [pending EXCEPT ![p] = [kind |-> "place", item |-> i]]
    /\ UNCHANGED <<at, ground, chest, hands, loop, people, shown, spoilt>>

ConsumePlacementItem(p) ==
    /\ pending[p].kind = "place"
    /\ LET l == <<p, selected[p]>>
           pays == Survival(p) /\ ~IsEmpty(at[l]) /\ at[l].item = pending[p].item
       IN /\ at' = IF pays THEN [at EXCEPT ![l] = Written(Minus(@, 1))] ELSE at
          /\ IF pays THEN Renumber(p) ELSE UNCHANGED shown
          /\ spoilt' = ~pays
    /\ pending' = [pending EXCEPT ![p] = Idle]
    /\ UNCHANGED <<world, hands, loop, people>>

\* Digging the chest makes an entity of one stack after the other and tells the
\* players of each, while the chest can still be used ...
DigPour(p) ==
    /\ chest /\ Survival(p) /\ p \in online /\ pending[p].kind \in {"idle", "dig"}
    /\ LET done == IF pending[p].kind = "dig" THEN pending[p].done ELSE 0
           poured == IF pending[p].kind = "dig" THEN pending[p].poured ELSE EmptyBag
           full == {k \in (done + 1)..Len(Chest) : ~IsEmpty(at[<<Shared, Chest[k]>>])}
           s == at[<<Shared, Chest[Min(full)]>>]
           e == SetToBag({[item |-> s.item, count |-> s.count]})
       IN /\ full # {}
          /\ ground' = ground (+) e
          /\ pending' = [pending EXCEPT ![p] = [kind |-> "dig", done |-> Min(full),
                                                poured |-> poured (+) e]]
    /\ UNCHANGED <<at, built, chest, hands, loop, people, shown, spoilt>>

Contents(a) ==
    LET full == {k \in ToSet(Chest) : ~IsEmpty(a[<<Shared, k>>])}
        entity(k) == [item |-> a[<<Shared, k>>].item, count |-> a[<<Shared, k>>].count]
    IN [e \in {entity(k) : k \in full} |-> Cardinality({k \in full : entity(k) = e})]

\* ... and then removes it with whatever it holds by then; in creative mode at
\* once.
DigDone(p) ==
    /\ chest /\ p \in online
    /\ IF Survival(p)
       THEN /\ pending[p].kind = "dig"
            /\ \A k \in (pending[p].done + 1)..Len(Chest) : IsEmpty(at[<<Shared, Chest[k]>>])
       ELSE pending[p] = Idle
    /\ chest' = FALSE
    /\ at' = [l \in Place |-> IF l[1] = Shared THEN Nothing ELSE at[l]]
    /\ pending' = [pending EXCEPT ![p] = Idle]
    /\ spoilt' = \/ Contents(at) # IF Survival(p) THEN pending[p].poured ELSE EmptyBag
                 \/ \E q \in Player \ {p} : pending[q].kind = "dig"
    /\ UNCHANGED <<ground, built, hands, loop, people, shown>>

\* _tick_pickups: what fits goes into the inventory of a player the tick has
\* listed, before the packets; a player who has left since is still listed.
PickUp(p) ==
    /\ pick = Idle
    /\ IF InTick THEN p \in listed ELSE p \in online
    /\ listed' = IF InTick THEN listed ELSE online
    /\ \E e \in BagToSet(ground) :
           LET r == AddItem(at, p, e.item, e.count)
           IN /\ r.left < e.count
              /\ at' = r.at
              /\ ground' = ground (-) SetToBag({e})
              /\ pick' = [kind |-> "pick", by |-> p, item |-> e.item, left |-> r.left]
    /\ Renumber(p)
    /\ spoilt' = (p \notin online)
    /\ UNCHANGED <<built, chest, hands, pending, people>>

\* The entity goes or keeps what is left, the inventory is sent, and the tick
\* goes on with the next entity or ends.
PickedUp ==
    /\ pick # Idle
    /\ ground' = IF pick.left = 0 THEN ground
                 ELSE ground (+) SetToBag({[item |-> pick.item, count |-> pick.left]})
    /\ shown' = [shown EXCEPT ![pick.by] = @ \cup {View(at, pick.by)}]
    /\ pick' = Idle
    /\ listed' \in IF ground' = EmptyBag THEN {{}} ELSE {listed, {}}
    /\ UNCHANGED <<at, built, chest, hands, pending, people, spoilt>>

\* The slots are saved when the connection ends, the cursor is not, and a task
\* of the Q key clears the slot of an inventory that has been saved.
Leave(p) ==
    /\ Ready(p)
    /\ online' = online \ {p}
    /\ spoilt' = (tossed[p] # <<>> \/ ~IsEmpty(at[<<p, Cursor>>]))
    /\ UNCHANGED <<at, world, hands, pending, loop, creative, supply, shown>>

\* The accounts are closed once items are known to be lost or doubled, when
\* everybody has left or no more packets are followed.
Closed == (spoilt \/ online = {} \/ packets = MaxPackets) /\ UNCHANGED vars

Packet(p) ==
    /\ packets < MaxPackets
    /\ packets' = packets + 1
    /\ \/ ClickBasic(p) \/ ClickShift(p) \/ ClickNumberKey(p) \/ ClickPickBlock(p)
       \/ DragEnd(p) \/ DropStack(p) \/ TossHeld(p) \/ HeldItemSlot(p)
       \/ OpenWindow(p) \/ CloseContainer(p) \/ PlaceBlock(p) \/ DigPour(p) \/ Leave(p)

Resumption(p) ==
    /\ UNCHANGED packets
    /\ DropDone(p) \/ TossDone(p) \/ ConsumePlacementItem(p) \/ DigDone(p) \/ PickUp(p)

Next ==
    \/ /\ ~spoilt
       /\ \/ \E p \in Player : Packet(p) \/ Resumption(p)
          \/ PickedUp /\ UNCHANGED packets
    \/ Closed

Spec == Init /\ [][Next]_vars

-------------------------------------------------------------------------------
\* How many of an item are in a bag of entities.
InBag(b, i) == SumOf([e \in BagToSet(b) |-> Of(e, i) * b[e]], BagToSet(b))

\* What a player's handler has made and not yet taken away: a block, or entities.
Owed(r, i) == CASE r.kind = "place" -> IF r.item = i THEN 1 ELSE 0
                [] r.kind = "dig" -> InBag(r.poured, i)
                [] OTHER -> 0

\* What the tasks of the Q key have thrown and not yet cleared.
Thrown(thrown, i) == SumOf([k \in DOMAIN thrown |-> Of(thrown[k], i)], DOMAIN thrown)

\* How many of an item there are: in slots and on cursors, on the ground, built,
\* less what was made into an entity or a block before it was taken away.
Amount(i) ==
    Total(at, i) + InBag(ground, i) + built[i]
      + (IF pick # Idle /\ pick.item = i THEN pick.left ELSE 0)
      - SumOf([p \in Player |-> Owed(pending[p], i)], Player)
      - SumOf([p \in Player |-> Thrown(tossed[p], i)], Player)

\* Clicks, drops, drags, pickups, digging and placing move items and never make
\* or lose one (inventory_interactions.py:440, blocks.py:240, server.py:1030) -
\* except by the races that set spoilt: a slot refilled while its drop is told
\* or while the Q task waits, a chest used while it is poured out, a hand
\* emptied while its block is told, a departure in the middle; and except for
\* what creative mode makes or discards.
ItemsConserved == ~spoilt => \A i \in Item : Amount(i) = supply[i]

\* No stack outgrows its kind, and an emptied object stays in a slot only while
\* a drop that holds it is in flight (or on a cursor that picked it up from
\* there): add_item must not see it as a stack to fill up otherwise.
StacksLegal ==
    \A l \in Place :
        LET s == at[l]
        IN /\ s.item # NoItem => s.count <= MaxStack[s.item]
           /\ IsEmpty(s) /\ s # Nothing => s.by # {} \/ l[2] = Cursor

\* A click that is accepted acts on the backpack its client was shown: every
\* change of it comes with a new inventory_state_id before the next packet of
\* the player is read (inventory_interactions.py:445, server.py:1061).
ClicksInformed ==
    \A p \in online : pending[p] = Idle => shown[p] \subseteq {View(at, p)}
===============================================================================

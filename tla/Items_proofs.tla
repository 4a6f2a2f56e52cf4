------------------------------ MODULE Items_proofs ------------------------------
(***************************************************************************)
(* Proofs about what MCItems is made of, for any players, slots, kinds of  *)
(* items and starting points: inventories around a shared chest, and the   *)
(* furnace.                                                                *)
(*                                                                         *)
(* None of the three properties of the inventories is inductive.  What     *)
(* carries them (ItemsInv) says who may hold an object - no drop holds two *)
(* (OneHolder), only a drop in flight holds one, and an empty one that is  *)
(* still in a slot is held by the drop that found it there (Holders) -     *)
(* that a chest that is gone is empty (GoneIsEmpty), and that a client     *)
(* outside a drop has been sent nothing but what it holds now (Informed).  *)
(*                                                                         *)
(* The account of items is a sum over slots, a bag on the ground and what  *)
(* the handlers owe.  That a click leaves it alone comes from what one     *)
(* slot after the other gains and loses (Filled, Exchanged, Moved); a loop *)
(* over slots is a fold, and its table is reached step by step (IsFold).   *)
(***************************************************************************)
EXTENDS MCItems, DataTheorems, TLAPS

-------------------------------------------------------------------------------
(* Furnace. *)

OvenType ==
    /\ fBurn \in Nat /\ fCook \in Nat /\ fMade \in Nat
    /\ fFired \in Nat /\ fHeat \in Nat /\ fCooled \in Nat

\* An item is done when its progress is exactly what it needs: progress and needs are
\* whole numbers of steps, and all recipes need as much.
Exact ==
    /\ fTotal \in {0, Oven!Needed}
    /\ fCook < Oven!Needed
    /\ fCook % Oven!Speed = 0

OvenInv == OvenType /\ Exact /\ FurnaceHeatIsPaid

LEMMA OvenSpeeds ==
    /\ Oven!Speed \in {1, 2} /\ Oven!Needed \in Nat /\ Oven!Needed > 0
    /\ Oven!Needed % Oven!Speed = 0
BY OvenAssumption DEF Oven!FurnaceAssumption, Oven!Speed, Oven!Needed

LEMMA OvenTick == ASSUME OvenInv, Oven!Tick PROVE OvenInv'
<1> DEFINE fuel == IF Oven!Lights THEN (coal :> 5)[fSlot[Oven!Fuel].item] ELSE 0
           cooked == fCook + Oven!Speed
<1>1. fuel \in Nat /\ Oven!Burning = fBurn + fuel
  BY OvenAssumption DEF Oven!FurnaceAssumption, Oven!Burning, Oven!Lights, OvenInv, OvenType
<1>2. fFired' = fFired + fuel
  BY DEF Oven!Tick
<1> HIDE DEF fuel
<1>3. CASE Oven!CanSmelt /\ Oven!Burning > 0
  <2>1. /\ fBurn' = fBurn + fuel - 1 /\ fHeat' = fHeat + 1 /\ fCooled' = fCooled
        /\ fBurn + fuel > 0
    <3>1. fBurn' = Oven!Burning - 1 /\ fHeat' = fHeat + 1 /\ fCooled' = fCooled
      BY <1>3 DEF Oven!Tick
    <3> QED
      BY <1>1, <1>3, <3>1 DEF OvenInv, OvenType
  <2>2. fHeat' * Oven!Speed = fHeat * Oven!Speed + Oven!Speed
    BY <2>1, OvenSpeeds DEF OvenInv, OvenType
  <2>3. CASE cooked >= (IF fTotal = 0 THEN Oven!Needed ELSE fTotal)
    <3>1. fCook' = 0 /\ fTotal' = 0 /\ fMade' = fMade + 1
      BY <1>3, <2>3 DEF Oven!Tick
    <3>2. cooked = Oven!Needed
      BY <2>3, OvenSpeeds DEF OvenInv, OvenType, Exact
    <3>3. fMade' * Oven!Needed = fMade * Oven!Needed + Oven!Needed
      BY <3>1, OvenSpeeds DEF OvenInv, OvenType
    <3>4. fHeat' * Oven!Speed = fMade' * Oven!Needed + fCook' + fCooled'
      <4>1. /\ fHeat * Oven!Speed = fMade * Oven!Needed + fCook + fCooled
            /\ fMade * Oven!Needed \in Nat
        BY OvenSpeeds DEF OvenInv, OvenType, FurnaceHeatIsPaid, Oven!HeatIsPaid
      <4> QED
        BY <2>1, <2>2, <3>1, <3>2, <3>3, <4>1, OvenSpeeds DEF OvenInv, OvenType
    <3>5. OvenType' /\ Exact'
      BY <1>1, <1>2, <2>1, <3>1, OvenSpeeds DEF OvenInv, OvenType, Exact, Oven!Speed, Oven!Needed
    <3> QED
      BY <1>1, <1>2, <2>1, <3>4, <3>5 DEF OvenInv, OvenType, FurnaceHeatIsPaid, Oven!HeatIsPaid, Oven!Speed, Oven!Needed
  <2>4. CASE ~(cooked >= (IF fTotal = 0 THEN Oven!Needed ELSE fTotal))
    <3>1. /\ fCook' = cooked /\ fTotal' = (IF fTotal = 0 THEN Oven!Needed ELSE fTotal)
          /\ fMade' = fMade
      BY <1>3, <2>4 DEF Oven!Tick
    <3>2. cooked \in Nat /\ cooked < Oven!Needed /\ cooked % Oven!Speed = 0
      BY <2>4, OvenSpeeds DEF OvenInv, OvenType, Exact
    <3>3. OvenType' /\ Exact'
      BY <1>1, <1>2, <2>1, <3>1, <3>2, OvenSpeeds DEF OvenInv, OvenType, Exact, Oven!Speed, Oven!Needed
    <3>4. fHeat' * Oven!Speed = fMade' * Oven!Needed + fCook' + fCooled'
      <4>1. /\ fHeat * Oven!Speed = fMade * Oven!Needed + fCook + fCooled
            /\ fMade * Oven!Needed \in Nat
        BY OvenSpeeds DEF OvenInv, OvenType, FurnaceHeatIsPaid, Oven!HeatIsPaid
      <4> QED
        BY <2>1, <2>2, <3>1, <4>1, OvenSpeeds DEF OvenInv, OvenType
    <3> QED
      BY <1>1, <1>2, <2>1, <3>3, <3>4 DEF OvenInv, OvenType, FurnaceHeatIsPaid, Oven!HeatIsPaid, Oven!Speed, Oven!Needed
  <2> QED
    BY <2>3, <2>4
<1>4. CASE ~(Oven!CanSmelt /\ Oven!Burning > 0)
  <2>1. /\ fBurn' = fBurn + fuel /\ fCook' = (IF fCook > 2 THEN fCook - 2 ELSE 0)
        /\ fCooled' = fCooled + (fCook - fCook') /\ UNCHANGED <<fTotal, fMade, fHeat>>
    BY <1>1, <1>4 DEF Oven!Tick
  <2>2. fCook' \in Nat /\ fCook' <= fCook /\ fCook' % Oven!Speed = 0
    BY <2>1, OvenSpeeds DEF OvenInv, OvenType, Exact
  <2>3. OvenType' /\ Exact'
    BY <1>1, <1>2, <2>1, <2>2, OvenSpeeds DEF OvenInv, OvenType, Exact, Oven!Speed, Oven!Needed
  <2>4. fHeat' * Oven!Speed = fMade' * Oven!Needed + fCook' + fCooled'
    <3>1. /\ fHeat * Oven!Speed = fMade * Oven!Needed + fCook + fCooled
          /\ fMade * Oven!Needed \in Nat
      BY OvenSpeeds DEF OvenInv, OvenType, FurnaceHeatIsPaid, Oven!HeatIsPaid
    <3> QED
      BY <2>1, <2>2, <3>1, OvenSpeeds DEF OvenInv, OvenType
  <2> QED
    BY <1>1, <1>2, <2>1, <2>3, <2>4 DEF OvenInv, OvenType, FurnaceHeatIsPaid, Oven!HeatIsPaid, Oven!Speed, Oven!Needed
<1> QED
  BY <1>3, <1>4

\* All fuel that burns is in something made, in progress or lost by cooling, whatever is
\* put in and taken out meanwhile.
THEOREM HeatPaid == Oven!Spec => []FurnaceHeatIsPaid
<1>1. Oven!Init => OvenInv
  BY OvenSpeeds DEF Oven!Init, OvenInv, OvenType, Exact, FurnaceHeatIsPaid, Oven!HeatIsPaid
<1>2. OvenInv /\ [Oven!Next]_(Oven!vars) => OvenInv'
  <2> SUFFICES ASSUME OvenInv, [Oven!Next]_(Oven!vars) PROVE OvenInv'
    OBVIOUS
  <2>1. CASE UNCHANGED <<fBurn, fCook, fTotal, fMade, fFired, fHeat, fCooled>>
    BY <2>1 DEF OvenInv, OvenType, Exact, FurnaceHeatIsPaid, Oven!HeatIsPaid, Oven!Speed, Oven!Needed
  <2> QED
    BY <2>1, OvenTick DEF Oven!Next, Oven!Touch, Oven!vars
<1>3. OvenInv => FurnaceHeatIsPaid
  BY DEF OvenInv
<1> QED
  BY <1>1, <1>2, <1>3, PTL DEF Oven!Spec

-------------------------------------------------------------------------------
(* Inventories: stacks.                                                    *)

\* A stack has no more than its kind may have; an emptied object keeps its item.
Stack == {s \in [item : Item \cup {NoItem}, count : Nat, by : SUBSET Player] :
             IF s.item = NoItem THEN s.count = 0 ELSE s.count <= MaxStack[s.item]}

LEMMA StackFields ==
    ASSUME NEW s \in Stack
    PROVE  /\ s.count \in Nat /\ s.by \in SUBSET Player /\ s.item \in Item \cup {NoItem}
           /\ s = [item |-> s.item, count |-> s.count, by |-> s.by]
           /\ s.count # 0 => s.item \in Item
           /\ s.item \in Item => s.count <= MaxStack[s.item] /\ MaxStack[s.item] \in Nat
           /\ s.item = NoItem => s.count = 0
           /\ \A i \in Item : Of(s, i) \in Nat /\ (IsEmpty(s) => Of(s, i) = 0)
<1>1. /\ s \in [item : Item \cup {NoItem}, count : Nat, by : SUBSET Player]
      /\ IF s.item = NoItem THEN s.count = 0 ELSE s.count <= MaxStack[s.item]
  BY DEF Stack
<1>2. NoItem \notin Item /\ \A i \in Item : MaxStack[i] \in Nat
  BY InventoriesAssumption
<1> QED
  BY <1>1, <1>2 DEF Of, IsEmpty

LEMMA NothingIn ==
    Nothing \in Stack /\ Nothing.count = 0 /\ Nothing.item = NoItem /\ Nothing.by = {} /\ IsEmpty(Nothing)
BY DEF Stack, Nothing, IsEmpty

LEMMA PlusIn ==
    ASSUME NEW s \in Stack, s.item \in Item, NEW k \in Nat, k <= Space(s)
    PROVE  /\ Plus(s, k) \in Stack
           /\ Plus(s, k).item = s.item /\ Plus(s, k).count = s.count + k /\ Plus(s, k).by = s.by
           /\ k = 0 => Plus(s, k) = s
<1>1. Plus(s, k) = [item |-> s.item, count |-> s.count + k, by |-> s.by]
  BY StackFields DEF Plus
<1>2. s.count + k \in Nat /\ s.count + k <= MaxStack[s.item] /\ s.item # NoItem
  BY StackFields, InventoriesAssumption DEF Space
<1>3. k = 0 => s.count + k = s.count
  BY StackFields
<1>4. s.by \in SUBSET Player
  BY StackFields
<1>5. [item |-> s.item, count |-> s.count + k, by |-> s.by] \in Stack
  BY <1>2, <1>4 DEF Stack
<1>6. k = 0 => Plus(s, k) = s
  BY <1>1, <1>3, StackFields
<1> QED
  BY <1>1, <1>5, <1>6

LEMMA MinusIn ==
    ASSUME NEW s \in Stack, NEW k \in Nat, k <= s.count
    PROVE  /\ Minus(s, k) \in Stack
           /\ Minus(s, k).item = s.item /\ Minus(s, k).count = s.count - k /\ Minus(s, k).by = s.by
<1>1. Minus(s, k) = [item |-> s.item, count |-> s.count - k, by |-> s.by]
  BY StackFields DEF Minus
<1>2. s.count - k \in Nat /\ s.count - k <= s.count
  BY StackFields
<1>3. [item |-> s.item, count |-> s.count - k, by |-> s.by] \in Stack
  BY <1>2, StackFields DEF Stack
<1> QED
  BY <1>1, <1>3

LEMMA FreshIn ==
    ASSUME NEW i \in Item, NEW k \in Nat, k <= MaxStack[i]
    PROVE  /\ Fresh(i, k) \in Stack
           /\ Fresh(i, k).item = i /\ Fresh(i, k).count = k /\ Fresh(i, k).by = {}
BY InventoriesAssumption DEF Fresh, Stack

LEMMA WrittenIn ==
    ASSUME NEW s \in Stack
    PROVE  /\ Written(s) \in Stack
           /\ Written(s).count = s.count /\ Written(s).by \subseteq s.by
           /\ IsEmpty(Written(s)) => Written(s) = Nothing
           /\ \A i \in Item : Of(Written(s), i) = Of(s, i)
<1>1. CASE IsEmpty(s)
  <2>1. Written(s) = Nothing /\ s.count = 0
    BY <1>1 DEF Written, IsEmpty
  <2>2. \A i \in Item : Of(Nothing, i) = 0 /\ Of(s, i) = 0
    BY <1>1, NothingIn, StackFields
  <2> QED
    BY <2>1, <2>2, NothingIn
<1>2. CASE ~IsEmpty(s)
  BY <1>2 DEF Written
<1> QED
  BY <1>1, <1>2

LEMMA SmallerIs ==
    ASSUME NEW m \in Int, NEW n \in Int
    PROVE  Smaller(m, n) \in {m, n} /\ Smaller(m, n) <= m /\ Smaller(m, n) <= n
BY DEF Smaller

-------------------------------------------------------------------------------
(* Places, and how many of an item there are in them. *)

LEMMA ToSetFinite ==
    ASSUME NEW S, NEW s \in Seq(S)
    PROVE  IsFiniteSet(ToSet(s)) /\ ToSet(s) \subseteq S /\ (\A x \in ToSet(s) : Listed(s, x))
<1> DEFINE f == [k \in 1..Len(s) |-> s[k]]
<1>1. Len(s) \in Nat /\ DOMAIN s = 1..Len(s) /\ \A k \in 1..Len(s) : s[k] \in S
  OBVIOUS
<1>2. IsFiniteSet(1..Len(s))
  BY <1>1, FS_Interval
<1>3. ToSet(s) = {s[k] : k \in 1..Len(s)}
  BY <1>1 DEF ToSet
<1>4. f \in [1..Len(s) -> ToSet(s)] /\ \A x \in ToSet(s) : \E k \in 1..Len(s) : f[k] = x
  BY <1>3
<1>5. f \in Surjection(1..Len(s), ToSet(s))
  BY <1>4 DEF Surjection
<1>6. IsFiniteSet(ToSet(s))
  BY <1>2, <1>5, FS_Surjection
<1> QED
  BY <1>1, <1>3, <1>6 DEF Listed

LEMMA SlotsFinite ==
    /\ Hotbar \in Seq(Nat) /\ Main \in Seq(Nat) /\ Ender \in Seq(Nat) /\ Chest \in Seq(Nat)
    /\ Offhand \in Nat /\ Armor \in Nat
    /\ IsFiniteSet(ToSet(Hotbar)) /\ ToSet(Hotbar) \subseteq Nat
    /\ IsFiniteSet(ToSet(Main)) /\ ToSet(Main) \subseteq Nat
    /\ IsFiniteSet(ToSet(Ender)) /\ ToSet(Ender) \subseteq Nat
    /\ IsFiniteSet(ToSet(Chest)) /\ ToSet(Chest) \subseteq Nat
<1>1. /\ Hotbar \in Seq(Nat) /\ Main \in Seq(Nat) /\ Ender \in Seq(Nat) /\ Chest \in Seq(Nat)
      /\ Offhand \in Nat /\ Armor \in Nat
  BY InventoriesAssumption
<1> QED
  BY <1>1, ToSetFinite

LEMMA PlaceFinite == IsFiniteSet(Place)
<1> DEFINE Slots == InventorySlots \cup ToSet(Ender) \cup {Cursor}
<1>1. IsFiniteSet(Backpack) /\ IsFiniteSet({Offhand, Armor}) /\ IsFiniteSet({Cursor}) /\ IsFiniteSet({Shared})
  <2>1. IsFiniteSet({Offhand}) /\ IsFiniteSet({Armor}) /\ IsFiniteSet({Cursor}) /\ IsFiniteSet({Shared})
    BY FS_Singleton
  <2>2. {Offhand, Armor} = {Offhand} \cup {Armor}
    OBVIOUS
  <2>3. IsFiniteSet(Backpack)
    BY SlotsFinite, FS_Union DEF Backpack
  <2>4. IsFiniteSet({Offhand} \cup {Armor})
    BY <2>1, FS_Union
  <2> QED
    BY <2>1, <2>2, <2>3, <2>4
<1>2. IsFiniteSet(InventorySlots)
  BY <1>1, FS_Union DEF InventorySlots
<1>3. IsFiniteSet(Slots)
  BY <1>1, <1>2, SlotsFinite, FS_Union
<1>4. IsFiniteSet(Player \X Slots) /\ IsFiniteSet({Shared} \X ToSet(Chest))
  BY <1>1, <1>3, SlotsFinite, FS_Product, InventoriesAssumption
<1> QED
  BY <1>4, FS_Union DEF Place

OfAll(a, i) == [l \in Place |-> Of(a[l], i)]

LEMMA TotalType ==
    ASSUME NEW a \in [Place -> Stack], NEW i \in Item
    PROVE  Total(a, i) \in Int /\ OfAll(a, i) \in [Place -> Int] /\ Total(a, i) = SumOf(OfAll(a, i), Place)
<1>1. OfAll(a, i) \in [Place -> Int]
  BY StackFields DEF OfAll
<1>2. Total(a, i) = SumOf(OfAll(a, i), Place)
  BY DEF Total, OfAll
<1> QED
  BY <1>1, <1>2, SumType, PlaceFinite

LEMMA TotalSet ==
    ASSUME NEW a \in [Place -> Stack], NEW b \in [Place -> Stack], NEW l \in Place,
           \A x \in Place : x # l => b[x] = a[x], NEW i \in Item
    PROVE  Total(b, i) = Total(a, i) - Of(a[l], i) + Of(b[l], i)
<1>1. Of(b[l], i) \in Int /\ Of(a[l], i) \in Int
  BY StackFields
<1>2. OfAll(b, i) = [OfAll(a, i) EXCEPT ![l] = Of(b[l], i)]
  BY DEF OfAll
<1>3. SumOf([OfAll(a, i) EXCEPT ![l] = Of(b[l], i)], Place) = SumOf(OfAll(a, i), Place) + Of(b[l], i) - OfAll(a, i)[l]
  BY <1>1, TotalType, PlaceFinite, SumChange
<1>4. OfAll(a, i)[l] = Of(a[l], i)
  BY DEF OfAll
<1>5. Total(b, i) = Total(a, i) + Of(b[l], i) - Of(a[l], i)
  BY <1>2, <1>3, <1>4, TotalType
<1>6. Total(a, i) \in Int
  BY TotalType
<1> QED
  BY <1>1, <1>5, <1>6

-------------------------------------------------------------------------------
(* The folds of the clicks, each as the table of its results. *)

Merged(r, l, item) == IF CanStack(r.at[l], Fresh(item, 1)) THEN Grow(r, l) ELSE r
Added(r, l, item) == IF r.at[l].item = item THEN Grow(r, l) ELSE r
Given(r, k, order, c, each, extra) ==
    GiveTo(r, order[k], c, Smaller(each + (IF k <= extra THEN 1 ELSE 0), c.count - r.used))
Numbers(n) == [k \in 1..n |-> k]

IsMerge(g, b, order, item) ==
    g = [s \in SUBSET DOMAIN order |->
            IF s = {} THEN b ELSE Merged(g[s \ {Max(s)}], order[Max(s)], item)]
IsFill(g, b, order, item) ==
    g = [s \in SUBSET DOMAIN order |->
            IF s = {} THEN b ELSE FillSlot(g[s \ {Max(s)}], order[Max(s)], item)]
IsAdd(g, b, order, item) ==
    g = [s \in SUBSET DOMAIN order |->
            IF s = {} THEN b ELSE Added(g[s \ {Max(s)}], order[Max(s)], item)]
IsGive(g, b, order, c, each, extra) ==
    g = [s \in SUBSET DOMAIN Numbers(Len(order)) |->
            IF s = {} THEN b
            ELSE Given(g[s \ {Max(s)}], Numbers(Len(order))[Max(s)], order, c, each, extra)]

MergeAll(b, order, item) == (CHOOSE g : IsMerge(g, b, order, item))[DOMAIN order]
FillAll(b, order, item) == (CHOOSE g : IsFill(g, b, order, item))[DOMAIN order]
AddAll(b, order, item) == (CHOOSE g : IsAdd(g, b, order, item))[DOMAIN order]
GiveAll(b, order, c, each, extra) ==
    (CHOOSE g : IsGive(g, b, order, c, each, extra))[DOMAIN Numbers(Len(order))]

LEMMA InsertIs ==
    \A a, item, n, onto, into :
        InsertStack(a, item, n, onto, into) =
            FillAll(MergeAll([at |-> a, left |-> n], onto, item), into, item)
BY DEF InsertStack, FoldLeft, MapThenFoldSet, FillAll, MergeAll, IsFill, IsMerge, Merged

LEMMA AddIs ==
    \A a, p, item, n :
        LET m == AddAll([at |-> a, left |-> n], Places(p, Hotbar \o Main \o <<Armor, Offhand>>), item)
        IN  AddItem(a, p, item, n) =
                InsertStack(m.at, item, m.left, <<>>, Places(p, Main \o Hotbar \o <<Offhand>>))
BY DEF AddItem, FoldLeft, MapThenFoldSet, AddAll, IsAdd, Added

Each(c, order, even) == IF even THEN Max({1, c.count \div Len(order)}) ELSE 1
Extra(c, order, even) == IF even THEN c.count - Each(c, order, even) * Len(order) ELSE 0

LEMMA DragIs ==
    \A a, p, order, even :
        LET c == a[<<p, Cursor>>]
            r == GiveAll([at |-> a, used |-> 0], order, c, Each(c, order, even), Extra(c, order, even))
        IN  DragOver(a, p, order, even) = [r.at EXCEPT ![<<p, Cursor>>] = Written(Minus(c, r.used))]
BY DEF DragOver, FoldLeft, MapThenFoldSet, GiveAll, IsGive, Given, Numbers, Each, Extra

-------------------------------------------------------------------------------
(* What inserting into slots, filling them up and spreading over them do.  *)

\* b is a with m more of an item in slots of S: no stack changes its owners but
\* to lose them, and what is empty in b was so in a.
Filled(a, b, item, m, S) ==
    /\ b \in [Place -> Stack]
    /\ \A l \in Place : b[l].by \subseteq a[l].by
    /\ \A l \in Place : b[l].count = 0 => b[l] = a[l]
    /\ \A l \in Place \ S : b[l] = a[l]
    /\ \A i \in Item : Total(b, i) = Total(a, i) + (IF i = item THEN m ELSE 0)

LEMMA FilledSelf ==
    ASSUME NEW a \in [Place -> Stack], NEW item, NEW S
    PROVE  Filled(a, a, item, 0, S)
<1>1. \A i \in Item : Total(a, i) = Total(a, i) + (IF i = item THEN 0 ELSE 0)
  BY TotalType
<1> QED
  BY <1>1 DEF Filled

\* One more step of the kind.
LEMMA FilledMore ==
    ASSUME NEW a \in [Place -> Stack], NEW b, NEW item \in Item, NEW m \in Nat, NEW S,
           Filled(a, b, item, m, S),
           NEW l \in Place \cap S, NEW s \in Stack, NEW k \in Nat,
           s.by \subseteq b[l].by, s.count = 0 => s = b[l],
           \A i \in Item : Of(s, i) = Of(b[l], i) + (IF i = item THEN k ELSE 0)
    PROVE  Filled(a, [b EXCEPT ![l] = s], item, m + k, S)
<1> DEFINE c == [b EXCEPT ![l] = s]
<1>1. b \in [Place -> Stack]
  BY DEF Filled
<1>2. c \in [Place -> Stack] /\ c[l] = s /\ \A x \in Place : x # l => c[x] = b[x]
  BY <1>1
<1>3. ASSUME NEW i \in Item PROVE Total(c, i) = Total(a, i) + (IF i = item THEN m + k ELSE 0)
  <2>1. Total(c, i) = Total(b, i) - Of(b[l], i) + Of(s, i)
    <3>1. l \in Place
      OBVIOUS
    <3>2. Total(c, i) = Total(b, i) - Of(b[l], i) + Of(c[l], i)
      <4> HIDE DEF c
      <4> QED
        BY <1>1, <1>2, <3>1, TotalSet
    <3> QED
      BY <1>2, <3>2
  <2>2. Total(b, i) = Total(a, i) + (IF i = item THEN m ELSE 0)
    BY DEF Filled
  <2>3. Of(s, i) = Of(b[l], i) + (IF i = item THEN k ELSE 0)
    OBVIOUS
  <2>4. Of(b[l], i) \in Int /\ Total(a, i) \in Int
    BY <1>1, StackFields, TotalType
  <2> HIDE DEF c
  <2> QED
    BY <2>1, <2>2, <2>3, <2>4
<1>4. \A x \in Place : c[x].by \subseteq a[x].by
  BY <1>2 DEF Filled
<1>5. \A x \in Place : c[x].count = 0 => c[x] = a[x]
  BY <1>2 DEF Filled
<1>6. \A x \in Place \ S : c[x] = a[x]
  BY <1>2 DEF Filled
<1> QED
  BY <1>2, <1>3, <1>4, <1>5, <1>6 DEF Filled

\* With n to insert, what is left and what went in; what was no object at first
\* is none as long as some is left, when the stack came out of one slot.
Filling(a, item, n, S) ==
    {r \in [at : [Place -> Stack], left : Nat] :
        /\ r.left <= n
        /\ Filled(a, r.at, item, n - r.left, S)
        /\ n <= MaxStack[item] /\ r.left > 0 =>
               \A l \in Place : a[l] = Nothing => r.at[l] = Nothing}

LEMMA FillingFields ==
    ASSUME NEW a \in [Place -> Stack], NEW item \in Item, NEW n \in Nat, NEW S,
           NEW r \in Filling(a, item, n, S)
    PROVE  /\ r.at \in [Place -> Stack] /\ r.left \in Nat /\ r.left <= n /\ n - r.left \in Nat
           /\ r = [at |-> r.at, left |-> r.left]
           /\ Filled(a, r.at, item, n - r.left, S)
           /\ n <= MaxStack[item] /\ r.left > 0 =>
                  \A l \in Place : a[l] = Nothing => r.at[l] = Nothing
BY DEF Filling

LEMMA GrowStays ==
    ASSUME NEW a \in [Place -> Stack], NEW item \in Item, NEW n \in Nat, NEW S,
           NEW r \in Filling(a, item, n, S), NEW l \in Place \cap S, r.at[l].item = item
    PROVE  Grow(r, l) \in Filling(a, item, n, S)
<1> DEFINE s == r.at[l]
           k == Smaller(Space(s), r.left)
           b == [r.at EXCEPT ![l] = Plus(s, k)]
<1>1. /\ r.at \in [Place -> Stack] /\ r.left \in Nat /\ r.left <= n /\ n - r.left \in Nat
      /\ Filled(a, r.at, item, n - r.left, S)
  BY FillingFields
<1>2. s \in Stack /\ s.item = item /\ s.item \in Item
  BY <1>1
<1>3. Space(s) \in Nat
  <2>1. \A t \in Stack : t.item \in Item => t.count \in Nat /\ MaxStack[t.item] \in Nat /\ t.count <= MaxStack[t.item]
    BY StackFields
  <2> HIDE DEF s
  <2>2. s.count \in Nat /\ MaxStack[s.item] \in Nat /\ s.count <= MaxStack[s.item]
    BY <1>2, <2>1
  <2> QED
    BY <2>2 DEF Space
<1>4. k \in Nat /\ k <= r.left /\ k <= Space(s)
  BY <1>1, <1>3 DEF Smaller
<1> HIDE DEF k
<1>5. /\ Plus(s, k) \in Stack /\ Plus(s, k).item = item /\ Plus(s, k).count = s.count + k
      /\ Plus(s, k).by = s.by
      /\ k = 0 => Plus(s, k) = s
  BY <1>2, <1>4, PlusIn
<1> HIDE DEF s
<1>6. s.count \in Nat
  BY <1>2, StackFields
<1>7. \A i \in Item : Of(Plus(s, k), i) = Of(s, i) + (IF i = item THEN k ELSE 0)
  BY <1>2, <1>4, <1>5, <1>6 DEF Of
<1>8. Plus(s, k).count = 0 => Plus(s, k) = s
  BY <1>4, <1>5, <1>6
<1>9. Filled(a, b, item, (n - r.left) + k, S)
  <2>1. s = r.at[l]
    BY DEF s
  <2> HIDE DEF Filled
  <2> QED
    BY <1>1, <1>4, <1>5, <1>7, <1>8, <2>1, FilledMore
<1>10. (n - r.left) + k = n - (r.left - k) /\ r.left - k \in Nat /\ r.left - k <= n
  BY <1>1, <1>4
<1>11. n <= MaxStack[item] /\ r.left - k > 0 => \A x \in Place : a[x] = Nothing => b[x] = Nothing
  <2> SUFFICES ASSUME n <= MaxStack[item], r.left - k > 0, NEW x \in Place, a[x] = Nothing
               PROVE  b[x] = Nothing
    OBVIOUS
  <2>1. r.left > 0
    BY <1>1, <1>4
  <2>2. r.at[x] = Nothing
    BY <2>1, FillingFields
  <2>3. x # l
    BY <1>2, <2>2, NothingIn, InventoriesAssumption DEF s
  <2> QED
    BY <1>1, <2>2, <2>3
<1>12. Grow(r, l) = [at |-> b, left |-> r.left - k]
  BY DEF Grow, k, s
<1>13. b \in [Place -> Stack]
  BY <1>1, <1>5
<1> HIDE DEF b
<1>14. [at |-> b, left |-> r.left - k] \in Filling(a, item, n, S)
  BY <1>9, <1>10, <1>11, <1>13 DEF Filling
<1> QED
  BY <1>12, <1>14

LEMMA FillSlotStays ==
    ASSUME NEW a \in [Place -> Stack], NEW item \in Item, NEW n \in Nat, NEW S,
           NEW r \in Filling(a, item, n, S), NEW l \in Place \cap S
    PROVE  FillSlot(r, l, item) \in Filling(a, item, n, S)
<1>1. CASE ~(r.left > 0 /\ IsEmpty(r.at[l]))
  BY <1>1 DEF FillSlot
<1>2. CASE r.left > 0 /\ IsEmpty(r.at[l])
  <2> DEFINE s == r.at[l]
             k == Smaller(MaxStack[item], r.left)
             b == [r.at EXCEPT ![l] = Fresh(item, k)]
  <2>1. /\ r.at \in [Place -> Stack] /\ r.left \in Nat /\ r.left <= n /\ n - r.left \in Nat
        /\ Filled(a, r.at, item, n - r.left, S)
    BY FillingFields
  <2>2. s \in Stack /\ IsEmpty(s)
    BY <1>2, <2>1
  <2>3. MaxStack[item] \in Nat /\ MaxStack[item] # 0
    BY InventoriesAssumption
  <2>4. k \in Nat /\ k # 0 /\ k <= r.left /\ k <= MaxStack[item] /\ (r.left <= MaxStack[item] => k = r.left)
    BY <1>2, <2>1, <2>3 DEF Smaller
  <2> HIDE DEF k
  <2>5. Fresh(item, k) \in Stack /\ Fresh(item, k).item = item /\ Fresh(item, k).count = k /\ Fresh(item, k).by = {}
    BY <2>4, FreshIn
  <2> HIDE DEF s
  <2>6. \A i \in Item : Of(Fresh(item, k), i) = Of(s, i) + (IF i = item THEN k ELSE 0)
    <3>1. \A i \in Item : Of(s, i) = 0
      BY <2>2, StackFields
    <3> QED
      BY <2>4, <2>5, <3>1 DEF Of
  <2>7. Filled(a, b, item, (n - r.left) + k, S)
    <3>1. s = r.at[l]
      BY DEF s
    <3> HIDE DEF Filled
    <3> QED
      BY <2>1, <2>4, <2>5, <2>6, <3>1, FilledMore
  <2>8. (n - r.left) + k = n - (r.left - k) /\ r.left - k \in Nat /\ r.left - k <= n
    BY <2>1, <2>4
  <2>9. n <= MaxStack[item] => r.left - k = 0
    BY <2>1, <2>3, <2>4
  <2>10. FillSlot(r, l, item) = [at |-> b, left |-> r.left - k]
    BY <1>2 DEF FillSlot, k
  <2>11. b \in [Place -> Stack]
    BY <2>1, <2>5
  <2> HIDE DEF b
  <2>12. [at |-> b, left |-> r.left - k] \in Filling(a, item, n, S)
    <3>1. ~(n <= MaxStack[item] /\ r.left - k > 0)
      BY <2>9
    <3> QED
      BY <2>7, <2>8, <2>11, <3>1 DEF Filling
  <2> QED
    BY <2>10, <2>12
<1> QED
  BY <1>1, <1>2

LEMMA FillingStart ==
    ASSUME NEW a \in [Place -> Stack], NEW item \in Item, NEW n \in Nat, NEW S
    PROVE  [at |-> a, left |-> n] \in Filling(a, item, n, S)
<1>1. n - n = 0 /\ n <= n
  OBVIOUS
<1>2. Filled(a, a, item, 0, S)
  BY FilledSelf
<1> QED
  BY <1>1, <1>2 DEF Filling

(* So the folds stay in it. *)

LEMMA MergeStays ==
    ASSUME NEW a \in [Place -> Stack], NEW item \in Item, NEW n \in Nat, NEW S \in SUBSET Place,
           NEW order \in Seq(S), NEW b \in Filling(a, item, n, S)
    PROVE  MergeAll(b, order, item) \in Filling(a, item, n, S)
<1> DEFINE R == Filling(a, item, n, S)
           m == Len(order)
           st == [k \in 1..m |-> [r \in R |-> Merged(r, order[k], item)]]
<1>1. m \in Nat /\ DOMAIN order = 1..m /\ \A k \in 1..m : order[k] \in Place \cap S
  OBVIOUS
<1>2. ASSUME NEW k \in 1..m, NEW r \in R PROVE Merged(r, order[k], item) \in R
  <2>1. CASE CanStack(r.at[order[k]], Fresh(item, 1))
    <3>1. r.at[order[k]].item = item
      BY <2>1 DEF CanStack, Fresh
    <3> QED
      BY <1>1, <2>1, <3>1, GrowStays DEF Merged
  <2>2. CASE ~CanStack(r.at[order[k]], Fresh(item, 1))
    BY <2>2 DEF Merged
  <2> QED
    BY <2>1, <2>2
<1>3. st \in [1..m -> [R -> R]]
  BY <1>2
<1>4. \A k \in 1..m : \A r \in R : st[k][r] = Merged(r, order[k], item)
  OBVIOUS
<1>5. b \in R
  OBVIOUS
<1> HIDE DEF R, st
<1>6. PICK g : IsFold(g, R, b, m, st)
  <2> HIDE DEF m
  <2> QED
    BY <1>1, <1>3, <1>5, FoldTableExists
<1>7. \A s \in SUBSET (1..m) : s # {} => Max(s) \in 1..m /\ g[s \ {Max(s)}] \in R
  <2> SUFFICES ASSUME NEW s \in SUBSET (1..m), s # {} PROVE Max(s) \in 1..m /\ g[s \ {Max(s)}] \in R
    OBVIOUS
  <2>1. Max(s) \in s
    BY <1>1, MaxIs
  <2> QED
    BY <1>6, <2>1 DEF IsFold
<1>8. \A s \in SUBSET (1..m) : g[s] = IF s = {} THEN b ELSE Merged(g[s \ {Max(s)}], order[Max(s)], item)
  BY <1>4, <1>6, <1>7 DEF IsFold
<1>9. IsMerge(g, b, order, item)
  BY <1>1, <1>6, <1>8 DEF IsMerge, IsFold
<1> DEFINE h == CHOOSE f : IsMerge(f, b, order, item)
<1>10. IsMerge(h, b, order, item)
  BY <1>9
<1> HIDE DEF h
<1>11. \A s \in SUBSET (1..m) : h[s] = IF s = {} THEN b ELSE Merged(h[s \ {Max(s)}], order[Max(s)], item)
  BY <1>1, <1>10 DEF IsMerge
<1>12. h[{}] \in R
  BY <1>5, <1>11
<1>13. \A s \in SUBSET (1..m) : s # {} /\ h[s \ {Max(s)}] \in R => h[s] \in R
  <2> SUFFICES ASSUME NEW s \in SUBSET (1..m), s # {}, h[s \ {Max(s)}] \in R PROVE h[s] \in R
    OBVIOUS
  <2>1. h[s] = Merged(h[s \ {Max(s)}], order[Max(s)], item) /\ Max(s) \in 1..m
    BY <1>7, <1>11
  <2> QED
    BY <1>2, <2>1
<1>14. h[1..m] \in R
  <2> HIDE DEF m
  <2> QED
    BY <1>1, <1>12, <1>13, FoldStays
<1> QED
  BY <1>1, <1>14 DEF MergeAll, h, R

LEMMA FillStays ==
    ASSUME NEW a \in [Place -> Stack], NEW item \in Item, NEW n \in Nat, NEW S \in SUBSET Place,
           NEW order \in Seq(S), NEW b \in Filling(a, item, n, S)
    PROVE  FillAll(b, order, item) \in Filling(a, item, n, S)
<1> DEFINE R == Filling(a, item, n, S)
           m == Len(order)
           st == [k \in 1..m |-> [r \in R |-> FillSlot(r, order[k], item)]]
<1>1. m \in Nat /\ DOMAIN order = 1..m /\ \A k \in 1..m : order[k] \in Place \cap S
  OBVIOUS
<1>2. ASSUME NEW k \in 1..m, NEW r \in R PROVE FillSlot(r, order[k], item) \in R
  BY <1>1, FillSlotStays
<1>3. st \in [1..m -> [R -> R]]
  BY <1>2
<1>4. \A k \in 1..m : \A r \in R : st[k][r] = FillSlot(r, order[k], item)
  OBVIOUS
<1>5. b \in R
  OBVIOUS
<1> HIDE DEF R, st
<1>6. PICK g : IsFold(g, R, b, m, st)
  <2> HIDE DEF m
  <2> QED
    BY <1>1, <1>3, <1>5, FoldTableExists
<1>7. \A s \in SUBSET (1..m) : s # {} => Max(s) \in 1..m /\ g[s \ {Max(s)}] \in R
  <2> SUFFICES ASSUME NEW s \in SUBSET (1..m), s # {} PROVE Max(s) \in 1..m /\ g[s \ {Max(s)}] \in R
    OBVIOUS
  <2>1. Max(s) \in s
    BY <1>1, MaxIs
  <2> QED
    BY <1>6, <2>1 DEF IsFold
<1>8. \A s \in SUBSET (1..m) : g[s] = IF s = {} THEN b ELSE FillSlot(g[s \ {Max(s)}], order[Max(s)], item)
  BY <1>4, <1>6, <1>7 DEF IsFold
<1>9. IsFill(g, b, order, item)
  BY <1>1, <1>6, <1>8 DEF IsFill, IsFold
<1> DEFINE h == CHOOSE f : IsFill(f, b, order, item)
<1>10. IsFill(h, b, order, item)
  BY <1>9
<1> HIDE DEF h
<1>11. \A s \in SUBSET (1..m) : h[s] = IF s = {} THEN b ELSE FillSlot(h[s \ {Max(s)}], order[Max(s)], item)
  BY <1>1, <1>10 DEF IsFill
<1>12. h[{}] \in R
  BY <1>5, <1>11
<1>13. \A s \in SUBSET (1..m) : s # {} /\ h[s \ {Max(s)}] \in R => h[s] \in R
  <2> SUFFICES ASSUME NEW s \in SUBSET (1..m), s # {}, h[s \ {Max(s)}] \in R PROVE h[s] \in R
    OBVIOUS
  <2>1. h[s] = FillSlot(h[s \ {Max(s)}], order[Max(s)], item) /\ Max(s) \in 1..m
    BY <1>7, <1>11
  <2> QED
    BY <1>2, <2>1
<1>14. h[1..m] \in R
  <2> HIDE DEF m
  <2> QED
    BY <1>1, <1>12, <1>13, FoldStays
<1> QED
  BY <1>1, <1>14 DEF FillAll, h, R

LEMMA AddStays ==
    ASSUME NEW a \in [Place -> Stack], NEW item \in Item, NEW n \in Nat, NEW S \in SUBSET Place,
           NEW order \in Seq(S), NEW b \in Filling(a, item, n, S)
    PROVE  AddAll(b, order, item) \in Filling(a, item, n, S)
<1> DEFINE R == Filling(a, item, n, S)
           m == Len(order)
           st == [k \in 1..m |-> [r \in R |-> Added(r, order[k], item)]]
<1>1. m \in Nat /\ DOMAIN order = 1..m /\ \A k \in 1..m : order[k] \in Place \cap S
  OBVIOUS
<1>2. ASSUME NEW k \in 1..m, NEW r \in R PROVE Added(r, order[k], item) \in R
  <2>1. CASE r.at[order[k]].item = item
    BY <1>1, <2>1, GrowStays DEF Added
  <2>2. CASE r.at[order[k]].item # item
    BY <2>2 DEF Added
  <2> QED
    BY <2>1, <2>2
<1>3. st \in [1..m -> [R -> R]]
  BY <1>2
<1>4. \A k \in 1..m : \A r \in R : st[k][r] = Added(r, order[k], item)
  OBVIOUS
<1>5. b \in R
  OBVIOUS
<1> HIDE DEF R, st
<1>6. PICK g : IsFold(g, R, b, m, st)
  <2> HIDE DEF m
  <2> QED
    BY <1>1, <1>3, <1>5, FoldTableExists
<1>7. \A s \in SUBSET (1..m) : s # {} => Max(s) \in 1..m /\ g[s \ {Max(s)}] \in R
  <2> SUFFICES ASSUME NEW s \in SUBSET (1..m), s # {} PROVE Max(s) \in 1..m /\ g[s \ {Max(s)}] \in R
    OBVIOUS
  <2>1. Max(s) \in s
    BY <1>1, MaxIs
  <2> QED
    BY <1>6, <2>1 DEF IsFold
<1>8. \A s \in SUBSET (1..m) : g[s] = IF s = {} THEN b ELSE Added(g[s \ {Max(s)}], order[Max(s)], item)
  BY <1>4, <1>6, <1>7 DEF IsFold
<1>9. IsAdd(g, b, order, item)
  BY <1>1, <1>6, <1>8 DEF IsAdd, IsFold
<1> DEFINE h == CHOOSE f : IsAdd(f, b, order, item)
<1>10. IsAdd(h, b, order, item)
  BY <1>9
<1> HIDE DEF h
<1>11. \A s \in SUBSET (1..m) : h[s] = IF s = {} THEN b ELSE Added(h[s \ {Max(s)}], order[Max(s)], item)
  BY <1>1, <1>10 DEF IsAdd
<1>12. h[{}] \in R
  BY <1>5, <1>11
<1>13. \A s \in SUBSET (1..m) : s # {} /\ h[s \ {Max(s)}] \in R => h[s] \in R
  <2> SUFFICES ASSUME NEW s \in SUBSET (1..m), s # {}, h[s \ {Max(s)}] \in R PROVE h[s] \in R
    OBVIOUS
  <2>1. h[s] = Added(h[s \ {Max(s)}], order[Max(s)], item) /\ Max(s) \in 1..m
    BY <1>7, <1>11
  <2> QED
    BY <1>2, <2>1
<1>14. h[1..m] \in R
  <2> HIDE DEF m
  <2> QED
    BY <1>1, <1>12, <1>13, FoldStays
<1> QED
  BY <1>1, <1>14 DEF AddAll, h, R

LEMMA InsertStays ==
    ASSUME NEW a \in [Place -> Stack], NEW item \in Item, NEW n \in Nat, NEW S \in SUBSET Place,
           NEW onto \in Seq(S), NEW into \in Seq(S)
    PROVE  InsertStack(a, item, n, onto, into) \in Filling(a, item, n, S)
<1>1. [at |-> a, left |-> n] \in Filling(a, item, n, S)
  BY FillingStart
<1>2. MergeAll([at |-> a, left |-> n], onto, item) \in Filling(a, item, n, S)
  BY <1>1, MergeStays
<1>3. FillAll(MergeAll([at |-> a, left |-> n], onto, item), into, item) \in Filling(a, item, n, S)
  BY <1>2, FillStays
<1> QED
  BY <1>3, InsertIs

LEMMA AddItemStays ==
    ASSUME NEW a \in [Place -> Stack], NEW p, NEW item \in Item, NEW n \in Nat, NEW S \in SUBSET Place,
           Places(p, Hotbar \o Main \o <<Armor, Offhand>>) \in Seq(S),
           Places(p, Main \o Hotbar \o <<Offhand>>) \in Seq(S)
    PROVE  AddItem(a, p, item, n) \in Filling(a, item, n, S)
<1> DEFINE onto == Places(p, Hotbar \o Main \o <<Armor, Offhand>>)
           into == Places(p, Main \o Hotbar \o <<Offhand>>)
           m == AddAll([at |-> a, left |-> n], onto, item)
<1>1. AddItem(a, p, item, n) = FillAll(MergeAll([at |-> m.at, left |-> m.left], <<>>, item), into, item)
  BY AddIs, InsertIs
<1>2. onto \in Seq(S) /\ into \in Seq(S) /\ <<>> \in Seq(S)
  OBVIOUS
<1> HIDE DEF onto, into
<1>3. m \in Filling(a, item, n, S)
  BY <1>2, FillingStart, AddStays
<1> HIDE DEF m
<1>4. [at |-> m.at, left |-> m.left] \in Filling(a, item, n, S)
  BY <1>3, FillingFields
<1>5. MergeAll([at |-> m.at, left |-> m.left], <<>>, item) \in Filling(a, item, n, S)
  BY <1>2, <1>4, MergeStays
<1>6. FillAll(MergeAll([at |-> m.at, left |-> m.left], <<>>, item), into, item) \in Filling(a, item, n, S)
  BY <1>2, <1>5, FillStays
<1> QED
  BY <1>1, <1>6

\* The same for spreading the stack c.
Giving(a, c, S) ==
    {r \in [at : [Place -> Stack], used : Nat] :
        r.used <= c.count /\ Filled(a, r.at, c.item, r.used, S)}

LEMMA GivenStays ==
    ASSUME NEW a \in [Place -> Stack], NEW c \in Stack, c.item \in Item, NEW S,
           NEW r \in Giving(a, c, S), NEW l \in Place \cap S, NEW wanted \in Nat
    PROVE  GiveTo(r, l, c, Smaller(wanted, c.count - r.used)) \in Giving(a, c, S)
<1> DEFINE s == r.at[l]
           n == Smaller(wanted, c.count - r.used)
           k == Smaller(n, Space(s))
<1>1. /\ r.at \in [Place -> Stack] /\ r.used \in Nat /\ r.used <= c.count
      /\ Filled(a, r.at, c.item, r.used, S) /\ r = [at |-> r.at, used |-> r.used]
  BY DEF Giving
<1>2. s \in Stack
  BY <1>1
<1>3. c.count \in Nat /\ c.count <= MaxStack[c.item] /\ MaxStack[c.item] \in Nat
  BY StackFields
<1>4. n \in Nat /\ n <= c.count - r.used
  BY <1>1, <1>3 DEF Smaller
<1> HIDE DEF n, s
<1>5. CASE n <= 0
  <2>1. GiveTo(r, l, c, n) = r
    BY <1>4, <1>5 DEF GiveTo
  <2> QED
    BY <2>1 DEF n
<1>6. CASE n > 0 /\ IsEmpty(s)
  <2>1. GiveTo(r, l, c, n) = [at |-> [r.at EXCEPT ![l] = Fresh(c.item, n)], used |-> r.used + n]
    BY <1>4, <1>6 DEF GiveTo, CanStack, s
  <2>2. n <= MaxStack[c.item]
    BY <1>1, <1>3, <1>4
  <2>3. /\ Fresh(c.item, n) \in Stack /\ Fresh(c.item, n).item = c.item /\ Fresh(c.item, n).count = n
        /\ Fresh(c.item, n).by = {}
    BY <1>4, <2>2, FreshIn
  <2>4. \A i \in Item : Of(Fresh(c.item, n), i) = Of(s, i) + (IF i = c.item THEN n ELSE 0)
    <3>1. \A i \in Item : Of(s, i) = 0
      BY <1>2, <1>6, StackFields
    <3> QED
      BY <1>4, <2>3, <3>1 DEF Of
  <2>5. Filled(a, [r.at EXCEPT ![l] = Fresh(c.item, n)], c.item, r.used + n, S)
    <3>1. Fresh(c.item, n).by \subseteq r.at[l].by /\ Fresh(c.item, n).count # 0 /\ s = r.at[l]
      BY <1>4, <1>6, <2>3 DEF s
    <3> HIDE DEF Filled
    <3> QED
      BY <1>1, <1>4, <2>3, <2>4, <3>1, FilledMore
  <2>6. r.used + n \in Nat /\ r.used + n <= c.count
    BY <1>1, <1>3, <1>4
  <2>7. [r.at EXCEPT ![l] = Fresh(c.item, n)] \in [Place -> Stack]
    BY <1>1, <2>3
  <2>8. GiveTo(r, l, c, n) \in Giving(a, c, S)
    BY <2>1, <2>5, <2>6, <2>7 DEF Giving
  <2> QED
    BY <2>8 DEF n
<1>7. CASE n > 0 /\ ~IsEmpty(s) /\ CanStack(s, c)
  <2>1. GiveTo(r, l, c, n) = [at |-> [r.at EXCEPT ![l] = Plus(s, k)], used |-> r.used + k]
    BY <1>4, <1>7 DEF GiveTo, s
  <2>2. s.item = c.item
    BY <1>7 DEF CanStack
  <2>3. Space(s) \in Nat
    <3>1. s.count \in Nat /\ MaxStack[s.item] \in Nat /\ s.count <= MaxStack[s.item]
      BY <1>2, <2>2, StackFields
    <3> QED
      BY <3>1 DEF Space
  <2>4. k \in Nat /\ k <= Space(s) /\ k <= n
    BY <1>4, <2>3 DEF Smaller
  <2> HIDE DEF k
  <2>5. /\ Plus(s, k) \in Stack /\ Plus(s, k).item = s.item /\ Plus(s, k).count = s.count + k
        /\ Plus(s, k).by = s.by
        /\ k = 0 => Plus(s, k) = s
    BY <1>2, <2>2, <2>4, PlusIn
  <2>6. s.count \in Nat
    BY <1>2, StackFields
  <2>7. \A i \in Item : Of(Plus(s, k), i) = Of(s, i) + (IF i = c.item THEN k ELSE 0)
    BY <2>2, <2>4, <2>5, <2>6 DEF Of
  <2>8. Plus(s, k).count = 0 => Plus(s, k) = s
    BY <2>4, <2>5, <2>6
  <2>9. Filled(a, [r.at EXCEPT ![l] = Plus(s, k)], c.item, r.used + k, S)
    <3>1. s = r.at[l]
      BY DEF s
    <3> HIDE DEF Filled
    <3> QED
      BY <1>1, <2>4, <2>5, <2>7, <2>8, <3>1, FilledMore
  <2>10. r.used + k \in Nat /\ r.used + k <= c.count
    BY <1>1, <1>3, <1>4, <2>4
  <2>11. [r.at EXCEPT ![l] = Plus(s, k)] \in [Place -> Stack]
    BY <1>1, <2>5
  <2>12. GiveTo(r, l, c, n) \in Giving(a, c, S)
    BY <2>1, <2>9, <2>10, <2>11 DEF Giving
  <2> QED
    BY <2>12 DEF n
<1>8. CASE n > 0 /\ ~IsEmpty(s) /\ ~CanStack(s, c)
  <2>1. GiveTo(r, l, c, n) = r
    BY <1>4, <1>8 DEF GiveTo, s
  <2> QED
    BY <2>1 DEF n
<1> QED
  BY <1>4, <1>5, <1>6, <1>7, <1>8

LEMMA GiveStays ==
    ASSUME NEW a \in [Place -> Stack], NEW c \in Stack, c.item \in Item, NEW S \in SUBSET Place,
           NEW order \in Seq(S), NEW each \in Nat, NEW extra \in Int, NEW b \in Giving(a, c, S)
    PROVE  GiveAll(b, order, c, each, extra) \in Giving(a, c, S)
<1> DEFINE R == Giving(a, c, S)
           m == Len(order)
           st == [k \in 1..m |-> [r \in R |-> Given(r, k, order, c, each, extra)]]
<1>1. m \in Nat /\ DOMAIN order = 1..m /\ \A k \in 1..m : order[k] \in Place \cap S
  OBVIOUS
<1>0. DOMAIN Numbers(Len(order)) = 1..m /\ \A k \in 1..m : Numbers(Len(order))[k] = k
  BY <1>1 DEF Numbers
<1>2. ASSUME NEW k \in 1..m, NEW r \in R PROVE Given(r, k, order, c, each, extra) \in R
  <2>1. each + (IF k <= extra THEN 1 ELSE 0) \in Nat
    OBVIOUS
  <2> QED
    BY <1>1, <2>1, GivenStays DEF Given
<1>3. st \in [1..m -> [R -> R]]
  BY <1>2
<1>4. \A k \in 1..m : \A r \in R : st[k][r] = Given(r, k, order, c, each, extra)
  OBVIOUS
<1>5. b \in R
  OBVIOUS
<1> HIDE DEF R, st
<1>6. PICK g : IsFold(g, R, b, m, st)
  <2> HIDE DEF m
  <2> QED
    BY <1>1, <1>3, <1>5, FoldTableExists
<1>7. \A s \in SUBSET (1..m) : s # {} => Max(s) \in 1..m /\ g[s \ {Max(s)}] \in R
  <2> SUFFICES ASSUME NEW s \in SUBSET (1..m), s # {} PROVE Max(s) \in 1..m /\ g[s \ {Max(s)}] \in R
    OBVIOUS
  <2>1. Max(s) \in s
    BY <1>1, MaxIs
  <2> QED
    BY <1>6, <2>1 DEF IsFold
<1>8. \A s \in SUBSET (1..m) : g[s] = IF s = {} THEN b ELSE Given(g[s \ {Max(s)}], Max(s), order, c, each, extra)
  BY <1>4, <1>6, <1>7 DEF IsFold
<1>9. IsGive(g, b, order, c, each, extra)
  <2>1. \A s \in SUBSET (1..m) : g[s] = IF s = {} THEN b
            ELSE Given(g[s \ {Max(s)}], Numbers(Len(order))[Max(s)], order, c, each, extra)
    BY <1>0, <1>7, <1>8
  <2>2. g = [s \in SUBSET (1..m) |-> g[s]]
    BY <1>6 DEF IsFold
  <2> QED
    BY <1>0, <2>1, <2>2 DEF IsGive
<1> DEFINE h == CHOOSE f : IsGive(f, b, order, c, each, extra)
<1>10. IsGive(h, b, order, c, each, extra)
  BY <1>9
<1> HIDE DEF h
<1>11. \A s \in SUBSET (1..m) : h[s] = IF s = {} THEN b ELSE Given(h[s \ {Max(s)}], Max(s), order, c, each, extra)
  BY <1>1, <1>0, <1>7, <1>10 DEF IsGive
<1>12. h[{}] \in R
  BY <1>5, <1>11
<1>13. \A s \in SUBSET (1..m) : s # {} /\ h[s \ {Max(s)}] \in R => h[s] \in R
  <2> SUFFICES ASSUME NEW s \in SUBSET (1..m), s # {}, h[s \ {Max(s)}] \in R PROVE h[s] \in R
    OBVIOUS
  <2>1. h[s] = Given(h[s \ {Max(s)}], Max(s), order, c, each, extra) /\ Max(s) \in 1..m
    BY <1>7, <1>11
  <2> QED
    BY <1>2, <2>1
<1>14. h[1..m] \in R
  <2> HIDE DEF m
  <2> QED
    BY <1>1, <1>12, <1>13, FoldStays
<1> QED
  BY <1>0, <1>1, <1>14 DEF GiveAll, h, R

-------------------------------------------------------------------------------
(* Where clicks reach.                                                     *)

LEMMA ListIn ==
    ASSUME NEW s \in Seq(Nat)
    PROVE  s \in Seq(ToSet(s))
<1>1. Len(s) \in Nat /\ DOMAIN s = 1..Len(s) /\ s = [k \in 1..Len(s) |-> s[k]]
  OBVIOUS
<1>2. \A k \in 1..Len(s) : s[k] \in ToSet(s)
  BY <1>1 DEF ToSet
<1>3. s \in [1..Len(s) -> ToSet(s)]
  BY <1>1, <1>2
<1> QED
  BY <1>1, <1>3, SeqDef

LEMMA PlacesIn ==
    ASSUME NEW T, NEW s \in Seq(T), NEW p, NEW S, \A k \in T : <<p, k>> \in S
    PROVE  Places(p, s) \in Seq(S)
<1>1. Len(s) \in Nat /\ DOMAIN s = 1..Len(s) /\ \A k \in 1..Len(s) : s[k] \in T
  OBVIOUS
<1>2. Places(p, s) \in [1..Len(s) -> S]
  BY <1>1 DEF Places
<1> QED
  BY <1>1, <1>2, SeqDef

\* The places an action of p may change.
Reach(p) == {l \in Place : l[1] = p \/ (l[1] = Shared /\ chest)}
Clickable(p) == Reach(p) \ {<<p, Cursor>>}
Windows == {"own", "chest", "ender"}

LEMMA Kinds ==
    /\ InventorySlots \subseteq Nat /\ Backpack \subseteq InventorySlots
    /\ ToSet(Ender) \subseteq Nat /\ ToSet(Chest) \subseteq Nat /\ Cursor \notin Nat
    /\ ToSet(Hotbar) \subseteq Backpack /\ ToSet(Main) \subseteq Backpack
    /\ {Offhand, Armor} \subseteq InventorySlots
    /\ Shared \notin Player
<1>1. Cursor \notin Nat
  BY DEF Cursor
<1>2. Shared \notin Player
  BY InventoriesAssumption
<1> QED
  BY <1>1, <1>2, SlotsFinite DEF InventorySlots, Backpack

LEMMA PlaceIs ==
    /\ \A l \in Place : l = <<l[1], l[2]>>
    /\ \A p \in Player : \A k \in InventorySlots \cup ToSet(Ender) \cup {Cursor} : <<p, k>> \in Place
    /\ \A k \in ToSet(Chest) : <<Shared, k>> \in Place
    /\ \A l \in Place : l[1] = Shared => l[2] \in ToSet(Chest)
    /\ \A l \in Place : l[1] # Shared => l[1] \in Player
BY Kinds DEF Place

LEMMA ReachIn ==
    ASSUME NEW p \in Player
    PROVE  /\ Reach(p) \in SUBSET Place /\ Clickable(p) \in SUBSET Place
           /\ \A k \in InventorySlots \cup ToSet(Ender) : <<p, k>> \in Clickable(p)
           /\ <<p, Cursor>> \in Reach(p)
           /\ chest => \A k \in ToSet(Chest) : <<Shared, k>> \in Clickable(p)
<1>1. \A k \in InventorySlots \cup ToSet(Ender) : k # Cursor
  BY Kinds
<1>2. \A k \in InventorySlots \cup ToSet(Ender) \cup {Cursor} : <<p, k>> \in Reach(p)
  BY PlaceIs DEF Reach
<1>3. p # Shared
  BY Kinds
<1>4. chest => \A k \in ToSet(Chest) : <<Shared, k>> \in Reach(p) /\ <<Shared, k>> # <<p, Cursor>>
  BY <1>3, PlaceIs DEF Reach
<1> QED
  BY <1>1, <1>2, <1>4 DEF Clickable, Reach

LEMMA LocationsIn ==
    ASSUME NEW p \in Player, NEW w \in Windows, NEW l \in Locations(p, w)
    PROVE  /\ l \in Clickable(p) /\ l[2] # Cursor
           /\ l[1] = Shared => w = "chest" /\ chest
           /\ w = "chest" => chest
           /\ w = "own" => l \in {p} \X InventorySlots
<1>1. CASE w = "own"
  <2>1. l \in {p} \X InventorySlots
    BY <1>1 DEF Locations
  <2>2. l = <<p, l[2]>> /\ l[2] \in InventorySlots /\ l[1] = p
    BY <2>1
  <2> QED
    BY <1>1, <2>1, <2>2, ReachIn, Kinds
<1>2. CASE w = "chest"
  <2>1. chest /\ l \in ({p} \X Backpack) \cup ({Shared} \X ToSet(Chest))
    BY <1>2 DEF Locations
  <2>2. CASE l \in {p} \X Backpack
    <3>0. PICK k \in Backpack : l = <<p, k>>
      BY <2>2
    <3>1. l = <<p, l[2]>> /\ l[2] \in InventorySlots /\ l[1] = p
      BY <3>0, Kinds
    <3> QED
      BY <1>2, <2>1, <3>1, ReachIn, Kinds
  <2>3. CASE l \in {Shared} \X ToSet(Chest)
    <3>1. l = <<Shared, l[2]>> /\ l[2] \in ToSet(Chest)
      BY <2>3
    <3> QED
      BY <1>2, <2>1, <3>1, ReachIn, Kinds
  <2> QED
    BY <2>1, <2>2, <2>3
<1>3. CASE w = "ender"
  <2>1. l \in {p} \X (Backpack \cup ToSet(Ender))
    BY <1>3 DEF Locations
  <2>0. PICK k \in Backpack \cup ToSet(Ender) : l = <<p, k>>
    BY <2>1
  <2>2. l = <<p, l[2]>> /\ l[2] \in InventorySlots \cup ToSet(Ender) /\ l[1] = p
    BY <2>0, Kinds
  <2> QED
    BY <1>3, <2>2, ReachIn, Kinds
<1> QED
  BY <1>1, <1>2, <1>3 DEF Windows

LEMMA OrdersIn ==
    ASSUME NEW p \in Player
    PROVE  /\ Places(p, Main) \in Seq(Clickable(p))
           /\ Places(p, Hotbar \o Main) \in Seq(Clickable(p))
           /\ Places(p, Main \o Hotbar) \in Seq(Clickable(p))
           /\ Places(p, Main \o Hotbar \o <<Offhand>>) \in Seq(Clickable(p))
           /\ Places(p, Hotbar \o Main \o <<Armor, Offhand>>) \in Seq(Clickable(p))
           /\ Places(p, Ender) \in Seq(Clickable(p))
           /\ chest => Places(Shared, Chest) \in Seq(Clickable(p))
<1> DEFINE T == InventorySlots \cup ToSet(Ender)
<1>1. Hotbar \in Seq(T) /\ Main \in Seq(T) /\ Ender \in Seq(T) /\ Chest \in Seq(ToSet(Chest))
  <2>1. /\ Hotbar \in Seq(ToSet(Hotbar)) /\ Main \in Seq(ToSet(Main)) /\ Ender \in Seq(ToSet(Ender))
        /\ Chest \in Seq(ToSet(Chest))
    BY SlotsFinite, ListIn
  <2>2. ToSet(Hotbar) \subseteq T /\ ToSet(Main) \subseteq T /\ ToSet(Ender) \subseteq T
    BY Kinds
  <2> HIDE DEF T
  <2> QED
    BY <2>1, <2>2
<1>2. Armor \in T /\ Offhand \in T
  BY Kinds
<1>3. \A k \in T : <<p, k>> \in Clickable(p)
  BY ReachIn
<1> HIDE DEF T
<1>4. <<Offhand>> \in Seq(T) /\ <<Armor, Offhand>> \in Seq(T)
  BY <1>2
<1>5. Hotbar \o Main \in Seq(T) /\ Main \o Hotbar \in Seq(T)
  BY <1>1
<1>6. Main \o Hotbar \o <<Offhand>> \in Seq(T) /\ Hotbar \o Main \o <<Armor, Offhand>> \in Seq(T)
  BY <1>4, <1>5
<1>7. \A s \in Seq(T) : Places(p, s) \in Seq(Clickable(p))
  <2> SUFFICES ASSUME NEW s \in Seq(T) PROVE Places(p, s) \in Seq(Clickable(p))
    OBVIOUS
  <2> QED
    BY <1>3, PlacesIn
<1>8. chest => Places(Shared, Chest) \in Seq(Clickable(p))
  BY <1>1, ReachIn, PlacesIn
<1> QED
  BY <1>1, <1>5, <1>6, <1>7, <1>8

LEMMA ShiftOrderIn ==
    ASSUME NEW p \in Player, NEW w \in Windows, NEW l \in Locations(p, w)
    PROVE  ShiftOrder(p, w, l) \in Seq(Clickable(p))
<1>1. ShiftOrder(p, w, l) \in {Places(p, Main), Places(p, Hotbar \o Main), Places(p, Main \o Hotbar),
                               Places(p, Main \o Hotbar \o <<Offhand>>), Places(p, Ender)}
      \/ (w = "chest" /\ ShiftOrder(p, w, l) = Places(Shared, Chest))
  BY DEF ShiftOrder
<1>2. w = "chest" => chest
  BY LocationsIn
<1> QED
  BY <1>1, <1>2, OrdersIn

-------------------------------------------------------------------------------
(* What a click of p does to the stacks: it moves them.                    *)

\* No drop holds two objects.
OneHolder(a) ==
    \A q \in Player : \A l, m \in Place : q \in a[l].by /\ q \in a[m].by => l = m

Moved(a, b, p) ==
    /\ b \in [Place -> Stack]
    /\ \A l \in Place \ Reach(p) : b[l] = a[l]
    /\ \A l \in Place : \A q \in b[l].by : \E m \in Place : q \in a[m].by
    /\ OneHolder(a) => OneHolder(b)
    /\ \A l \in Place : b[l].count = 0 /\ l[2] # Cursor => b[l] = a[l] \/ b[l] = Nothing
    /\ \A i \in Item : Total(b, i) = Total(a, i)

LEMMA MovedSelf ==
    ASSUME NEW a \in [Place -> Stack], NEW p \in Player
    PROVE  Moved(a, a, p)
BY DEF Moved

LEMMA HoldersKept ==
    ASSUME NEW a \in [Place -> Stack], NEW b \in [Place -> Stack],
           \A l \in Place : b[l].by \subseteq a[l].by
    PROVE  /\ \A l \in Place : \A q \in b[l].by : \E m \in Place : q \in a[m].by
           /\ OneHolder(a) => OneHolder(b)
BY DEF OneHolder

\* Two stacks become others, with as many of every item.
Exchanged(a, b, l, m) ==
    /\ a \in [Place -> Stack] /\ b \in [Place -> Stack]
    /\ \A k \in Place : k # l /\ k # m => b[k] = a[k]
    /\ \/ b[l].by \subseteq a[l].by /\ b[m].by \subseteq a[m].by
       \/ b[l].by \subseteq a[m].by /\ b[m].by \subseteq a[l].by
    /\ b[l].count = 0 /\ l[2] # Cursor => b[l] = a[l] \/ b[l] = Nothing
    /\ b[m].count = 0 /\ m[2] # Cursor => b[m] = a[m] \/ b[m] = Nothing
    /\ \A i \in Item : Of(b[l], i) + Of(b[m], i) = Of(a[l], i) + Of(a[m], i)

LEMMA MovedTwo ==
    ASSUME NEW a, NEW b, NEW p \in Player, NEW l \in Reach(p), NEW m \in Reach(p), l # m,
           Exchanged(a, b, l, m)
    PROVE  Moved(a, b, p)
<1>0. a \in [Place -> Stack] /\ b \in [Place -> Stack]
  BY DEF Exchanged
<1>1. l \in Place /\ m \in Place
  BY ReachIn
<1>2. \A k \in Place \ Reach(p) : b[k] = a[k]
  BY DEF Exchanged
<1>3. \A k \in Place : \A q \in b[k].by : \E n \in Place : q \in a[n].by
  BY <1>1 DEF Exchanged
<1>4. OneHolder(a) => OneHolder(b)
  BY <1>0, <1>1 DEF OneHolder, Exchanged
<1>5. \A k \in Place : b[k].count = 0 /\ k[2] # Cursor => b[k] = a[k] \/ b[k] = Nothing
  BY DEF Exchanged
<1>6. ASSUME NEW i \in Item PROVE Total(b, i) = Total(a, i)
  <2> DEFINE c == [a EXCEPT ![l] = b[l]]
  <2>1. /\ c \in [Place -> Stack] /\ c[l] = b[l] /\ c[m] = a[m]
        /\ (\A k \in Place : k # l => c[k] = a[k]) /\ (\A k \in Place : k # m => b[k] = c[k])
    BY <1>0, <1>1 DEF Exchanged
  <2> HIDE DEF c
  <2>2. Total(c, i) = Total(a, i) - Of(a[l], i) + Of(c[l], i)
    BY <1>0, <1>1, <2>1, TotalSet
  <2>3. Total(b, i) = Total(c, i) - Of(c[m], i) + Of(b[m], i)
    BY <1>0, <1>1, <2>1, TotalSet
  <2>4. /\ Of(a[l], i) \in Int /\ Of(a[m], i) \in Int /\ Of(b[l], i) \in Int /\ Of(b[m], i) \in Int
        /\ Total(a, i) \in Int
    BY <1>0, <1>1, StackFields, TotalType
  <2>5. Of(b[l], i) + Of(b[m], i) = Of(a[l], i) + Of(a[m], i)
    BY DEF Exchanged
  <2> QED
    BY <2>1, <2>2, <2>3, <2>4, <2>5
<1> QED
  BY <1>0, <1>2, <1>3, <1>4, <1>5, <1>6 DEF Moved

\* Some of c goes onto s.
LEMMA Split ==
    ASSUME NEW s \in Stack, NEW c \in Stack, s.item \in Item, c.item = s.item,
           NEW k \in Nat, k <= c.count, k <= Space(s)
    PROVE  \A i \in Item : Of(Plus(s, k), i) + Of(Written(Minus(c, k)), i) = Of(s, i) + Of(c, i)
<1> SUFFICES ASSUME NEW i \in Item
             PROVE  Of(Plus(s, k), i) + Of(Written(Minus(c, k)), i) = Of(s, i) + Of(c, i)
  OBVIOUS
<1>1. Minus(c, k) \in Stack /\ Minus(c, k).item = c.item /\ Minus(c, k).count = c.count - k
  BY MinusIn
<1>2. Plus(s, k).item = s.item /\ Plus(s, k).count = s.count + k
  BY PlusIn
<1>3. Of(Written(Minus(c, k)), i) = Of(Minus(c, k), i)
  BY <1>1, WrittenIn
<1>4. s.count \in Nat /\ c.count \in Nat
  BY StackFields
<1> QED
  BY <1>1, <1>2, <1>3, <1>4 DEF Of

LEMMA LeftMoves ==
    ASSUME NEW a \in [Place -> Stack], NEW p \in Player, NEW l \in Clickable(p)
    PROVE  Moved(a, LeftClick(a, p, l), p)
<1> DEFINE m == <<p, Cursor>>
           s == a[l]
           c == a[m]
           b == LeftClick(a, p, l)
           k == Smaller(c.count, Space(s))
<1>1. l \in Reach(p) /\ m \in Reach(p) /\ l # m /\ l \in Place /\ m \in Place /\ m[2] = Cursor
  BY ReachIn DEF Clickable
<1>2. s \in Stack /\ c \in Stack
  BY <1>1
<1>3. CASE IsEmpty(c)
  <2>1. b = [a EXCEPT ![m] = s, ![l] = Nothing]
    BY <1>3 DEF LeftClick, CanStack
  <2> HIDE DEF b, m
  <2>2. b \in [Place -> Stack] /\ b[l] = Nothing /\ b[m] = s /\ \A x \in Place : x # l /\ x # m => b[x] = a[x]
    BY <1>1, <1>2, <2>1, NothingIn
  <2>3. \A i \in Item : Of(Nothing, i) + Of(s, i) = Of(s, i) + Of(c, i)
    BY <1>2, <1>3, NothingIn, StackFields
  <2>9. Exchanged(a, b, l, m)
    BY <1>1, <2>2, <2>3, NothingIn DEF Exchanged
  <2> QED
    BY <1>1, <2>9, MovedTwo DEF b
<1>4. CASE ~IsEmpty(c) /\ IsEmpty(s)
  <2>1. b = [a EXCEPT ![l] = c, ![m] = Nothing]
    BY <1>4 DEF LeftClick, CanStack
  <2> HIDE DEF b, m
  <2>2. b \in [Place -> Stack] /\ b[l] = c /\ b[m] = Nothing /\ \A x \in Place : x # l /\ x # m => b[x] = a[x]
    BY <1>1, <1>2, <2>1, NothingIn
  <2>3. \A i \in Item : Of(c, i) + Of(Nothing, i) = Of(s, i) + Of(c, i)
    BY <1>2, <1>4, NothingIn, StackFields
  <2>4. c.count # 0
    BY <1>4 DEF IsEmpty
  <2>9. Exchanged(a, b, l, m)
    BY <1>1, <2>2, <2>3, <2>4, NothingIn DEF Exchanged
  <2> QED
    BY <1>1, <2>9, MovedTwo DEF b
<1>5. CASE ~IsEmpty(c) /\ ~IsEmpty(s) /\ CanStack(s, c) /\ Space(s) > 0
  <2>1. b = [a EXCEPT ![l] = Plus(s, k), ![m] = Written(Minus(c, k))]
    BY <1>5 DEF LeftClick
  <2>2. s.item = c.item /\ s.item \in Item /\ s.count \in Nat /\ c.count \in Nat /\ s.count # 0 /\ MaxStack[s.item] \in Nat
    BY <1>2, <1>5, StackFields DEF CanStack, IsEmpty
  <2>3. k \in Nat /\ k <= c.count /\ k <= Space(s)
    BY <1>5, <2>2 DEF Smaller, Space
  <2> HIDE DEF b, m, k
  <2>4. Plus(s, k) \in Stack /\ Plus(s, k).by = s.by /\ Plus(s, k).count = s.count + k
    BY <1>2, <2>2, <2>3, PlusIn
  <2>5. Written(Minus(c, k)) \in Stack /\ Written(Minus(c, k)).by \subseteq c.by
    BY <1>2, <2>3, MinusIn, WrittenIn
  <2>6. \A i \in Item : Of(Plus(s, k), i) + Of(Written(Minus(c, k)), i) = Of(s, i) + Of(c, i)
    BY <1>2, <2>2, <2>3, Split
  <2>7. b \in [Place -> Stack] /\ b[l] = Plus(s, k) /\ b[m] = Written(Minus(c, k))
        /\ \A x \in Place : x # l /\ x # m => b[x] = a[x]
    BY <1>1, <1>2, <2>1, <2>4, <2>5
  <2>8. b[l].count # 0
    BY <2>2, <2>3, <2>4, <2>7
  <2>9. Exchanged(a, b, l, m)
    BY <1>1, <2>4, <2>5, <2>6, <2>7, <2>8 DEF Exchanged
  <2> QED
    BY <1>1, <2>9, MovedTwo DEF b
<1>6. CASE ~IsEmpty(c) /\ ~IsEmpty(s) /\ ~(CanStack(s, c) /\ Space(s) > 0)
  <2>1. b = [a EXCEPT ![l] = c, ![m] = s]
    BY <1>6 DEF LeftClick
  <2> HIDE DEF b, m
  <2>2. b \in [Place -> Stack] /\ b[l] = c /\ b[m] = s /\ \A x \in Place : x # l /\ x # m => b[x] = a[x]
    BY <1>1, <1>2, <2>1
  <2>3. \A i \in Item : Of(c, i) + Of(s, i) = Of(s, i) + Of(c, i)
    BY <1>2, StackFields
  <2>4. c.count # 0
    BY <1>6 DEF IsEmpty
  <2>9. Exchanged(a, b, l, m)
    BY <1>1, <2>2, <2>3, <2>4 DEF Exchanged
  <2> QED
    BY <1>1, <2>9, MovedTwo DEF b
<1> QED
  BY <1>3, <1>4, <1>5, <1>6

LEMMA RightMoves ==
    ASSUME NEW a \in [Place -> Stack], NEW p \in Player, NEW l \in Clickable(p)
    PROVE  Moved(a, RightClick(a, p, l), p)
<1> DEFINE m == <<p, Cursor>>
           s == a[l]
           c == a[m]
           b == RightClick(a, p, l)
           half == (s.count + 1) \div 2
<1>1. l \in Reach(p) /\ m \in Reach(p) /\ l # m /\ l \in Place /\ m \in Place /\ m[2] = Cursor
  BY ReachIn DEF Clickable
<1>2. s \in Stack /\ c \in Stack
  BY <1>1
<1>3. CASE IsEmpty(c) /\ IsEmpty(s)
  <2>1. b = a
    BY <1>3 DEF RightClick, CanStack
  <2> QED
    BY <2>1, MovedSelf DEF b
<1>4. CASE IsEmpty(c) /\ ~IsEmpty(s)
  <2>1. b = [a EXCEPT ![m] = Fresh(s.item, half), ![l] = Written(Minus(s, half))]
    BY <1>4 DEF RightClick, CanStack
  <2>2. s.item \in Item /\ s.count \in Nat /\ s.count # 0 /\ s.count <= MaxStack[s.item] /\ c.count = 0
    BY <1>2, <1>4, StackFields DEF IsEmpty
  <2>3. half \in Nat /\ half <= s.count
    BY <2>2
  <2> HIDE DEF half
  <2>4. Fresh(s.item, half) \in Stack /\ Fresh(s.item, half).item = s.item /\ Fresh(s.item, half).count = half
        /\ Fresh(s.item, half).by = {}
    <3>1. half <= MaxStack[s.item]
      BY <2>2, <2>3, InventoriesAssumption
    <3> QED
      BY <2>2, <2>3, <3>1, FreshIn
  <2>5. /\ Written(Minus(s, half)) \in Stack /\ Written(Minus(s, half)).by \subseteq s.by
        /\ Written(Minus(s, half)).count = 0 => Written(Minus(s, half)) = Nothing
        /\ Minus(s, half) \in Stack /\ Minus(s, half).item = s.item /\ Minus(s, half).count = s.count - half
        /\ \A i \in Item : Of(Written(Minus(s, half)), i) = Of(Minus(s, half), i)
    BY <1>2, <2>3, MinusIn, WrittenIn DEF IsEmpty
  <2>6. \A i \in Item : Of(Written(Minus(s, half)), i) + Of(Fresh(s.item, half), i) = Of(s, i) + Of(c, i)
    <3> SUFFICES ASSUME NEW i \in Item
                 PROVE  Of(Written(Minus(s, half)), i) + Of(Fresh(s.item, half), i) = Of(s, i) + Of(c, i)
      OBVIOUS
    <3>1. Of(c, i) = 0
      BY <1>2, <1>4, StackFields
    <3>2. Of(Minus(s, half), i) + Of(Fresh(s.item, half), i) = Of(s, i)
      BY <2>2, <2>3, <2>4, <2>5 DEF Of
    <3>3. Of(s, i) \in Nat
      BY <1>2, StackFields
    <3> QED
      BY <2>5, <3>1, <3>2, <3>3
  <2> HIDE DEF b, m
  <2>7. b \in [Place -> Stack] /\ b[m] = Fresh(s.item, half) /\ b[l] = Written(Minus(s, half))
        /\ \A x \in Place : x # l /\ x # m => b[x] = a[x]
    BY <1>1, <1>2, <2>1, <2>4, <2>5
  <2>8. b[m].by = {}
    BY <2>4, <2>7
  <2>9. Exchanged(a, b, l, m)
    BY <1>1, <2>5, <2>6, <2>7, <2>8 DEF Exchanged
  <2> QED
    BY <1>1, <2>9, MovedTwo DEF b
<1>5. CASE ~IsEmpty(c) /\ IsEmpty(s)
  <2>1. b = [a EXCEPT ![l] = Fresh(c.item, 1), ![m] = Written(Minus(c, 1))]
    BY <1>5 DEF RightClick, CanStack
  <2>2. c.item \in Item /\ c.count \in Nat /\ c.count # 0 /\ c.count <= MaxStack[c.item]
    BY <1>2, <1>5, StackFields DEF IsEmpty
  <2>3. Fresh(c.item, 1) \in Stack /\ Fresh(c.item, 1).item = c.item /\ Fresh(c.item, 1).count = 1
        /\ Fresh(c.item, 1).by = {}
    <3>1. 1 <= MaxStack[c.item]
      BY <2>2, InventoriesAssumption
    <3> QED
      BY <2>2, <3>1, FreshIn
  <2>4. /\ Written(Minus(c, 1)) \in Stack /\ Written(Minus(c, 1)).by \subseteq c.by
        /\ Minus(c, 1) \in Stack /\ Minus(c, 1).item = c.item /\ Minus(c, 1).count = c.count - 1
        /\ \A i \in Item : Of(Written(Minus(c, 1)), i) = Of(Minus(c, 1), i)
    <3>1. 1 \in Nat /\ 1 <= c.count
      BY <2>2
    <3> QED
      BY <1>2, <3>1, MinusIn, WrittenIn
  <2>5. \A i \in Item : Of(Fresh(c.item, 1), i) + Of(Written(Minus(c, 1)), i) = Of(s, i) + Of(c, i)
    <3> SUFFICES ASSUME NEW i \in Item
                 PROVE  Of(Fresh(c.item, 1), i) + Of(Written(Minus(c, 1)), i) = Of(s, i) + Of(c, i)
      OBVIOUS
    <3>1. Of(s, i) = 0
      BY <1>2, <1>5, StackFields
    <3>2. Of(Minus(c, 1), i) + Of(Fresh(c.item, 1), i) = Of(c, i)
      BY <2>2, <2>3, <2>4 DEF Of
    <3>3. Of(c, i) \in Nat /\ Of(Minus(c, 1), i) \in Nat /\ Of(Fresh(c.item, 1), i) \in Nat
      BY <1>2, <2>3, <2>4, StackFields
    <3> QED
      BY <2>4, <3>1, <3>2, <3>3
  <2> HIDE DEF b, m
  <2>6. b \in [Place -> Stack] /\ b[l] = Fresh(c.item, 1) /\ b[m] = Written(Minus(c, 1))
        /\ \A x \in Place : x # l /\ x # m => b[x] = a[x]
    BY <1>1, <1>2, <2>1, <2>3, <2>4
  <2>7. b[l].by = {} /\ b[l].count # 0
    BY <2>3, <2>6
  <2>8. Exchanged(a, b, l, m)
    BY <1>1, <2>4, <2>5, <2>6, <2>7 DEF Exchanged
  <2> QED
    BY <1>1, <2>8, MovedTwo DEF b
<1>6. CASE ~IsEmpty(c) /\ ~IsEmpty(s) /\ CanStack(s, c) /\ Space(s) > 0
  <2>1. b = [a EXCEPT ![l] = Plus(s, 1), ![m] = Written(Minus(c, 1))]
    BY <1>6 DEF RightClick
  <2>2. s.item = c.item /\ s.item \in Item /\ s.count \in Nat /\ c.count \in Nat /\ c.count # 0 /\ MaxStack[s.item] \in Nat
    BY <1>2, <1>6, StackFields DEF CanStack, IsEmpty
  <2>3. 1 \in Nat /\ 1 <= c.count /\ 1 <= Space(s)
    BY <1>6, <2>2 DEF Space
  <2>4. Plus(s, 1) \in Stack /\ Plus(s, 1).by = s.by /\ Plus(s, 1).count = s.count + 1
    BY <1>2, <2>2, <2>3, PlusIn
  <2>5. Written(Minus(c, 1)) \in Stack /\ Written(Minus(c, 1)).by \subseteq c.by
    BY <1>2, <2>3, MinusIn, WrittenIn
  <2>6. \A i \in Item : Of(Plus(s, 1), i) + Of(Written(Minus(c, 1)), i) = Of(s, i) + Of(c, i)
    BY <1>2, <2>2, <2>3, Split
  <2> HIDE DEF b, m
  <2>7. b \in [Place -> Stack] /\ b[l] = Plus(s, 1) /\ b[m] = Written(Minus(c, 1))
        /\ \A x \in Place : x # l /\ x # m => b[x] = a[x]
    BY <1>1, <1>2, <2>1, <2>4, <2>5
  <2>8. b[l].count # 0
    BY <2>2, <2>4, <2>7
  <2>9. Exchanged(a, b, l, m)
    BY <1>1, <2>4, <2>5, <2>6, <2>7, <2>8 DEF Exchanged
  <2> QED
    BY <1>1, <2>9, MovedTwo DEF b
<1>7. CASE ~IsEmpty(c) /\ ~IsEmpty(s) /\ ~(CanStack(s, c) /\ Space(s) > 0)
  <2>1. b = a
    BY <1>7 DEF RightClick
  <2> QED
    BY <2>1, MovedSelf DEF b
<1> QED
  BY <1>3, <1>4, <1>5, <1>6, <1>7

LEMMA NumberKeyMoves ==
    ASSUME NEW a \in [Place -> Stack], NEW p \in Player, NEW l \in Clickable(p),
           NEW h \in ToSet(Hotbar), l # <<p, h>>
    PROVE  Moved(a, NumberKey(a, p, l, h), p)
<1> DEFINE m == <<p, h>>
           s == a[l]
           c == a[m]
           b == NumberKey(a, p, l, h)
<1>1. l \in Reach(p) /\ m \in Reach(p) /\ l # m /\ l \in Place /\ m \in Place
  BY ReachIn, Kinds DEF Clickable
<1>2. s \in Stack /\ c \in Stack
  BY <1>1
<1>3. /\ Written(s) \in Stack /\ Written(s).by \subseteq s.by
      /\ Written(s).count = 0 => Written(s) = Nothing
      /\ \A i \in Item : Of(Written(s), i) = Of(s, i)
      /\ Written(c) \in Stack /\ Written(c).by \subseteq c.by
      /\ Written(c).count = 0 => Written(c) = Nothing
      /\ \A i \in Item : Of(Written(c), i) = Of(c, i)
  BY <1>2, WrittenIn DEF IsEmpty
<1>4. b = [a EXCEPT ![l] = Written(c), ![m] = Written(s)]
  BY DEF NumberKey
<1>5. \A i \in Item : Of(Written(c), i) + Of(Written(s), i) = Of(s, i) + Of(c, i)
  BY <1>2, <1>3, StackFields
<1> HIDE DEF b, m
<1>6. b \in [Place -> Stack] /\ b[l] = Written(c) /\ b[m] = Written(s)
      /\ \A x \in Place : x # l /\ x # m => b[x] = a[x]
  BY <1>1, <1>3, <1>4
<1>7. Exchanged(a, b, l, m)
  BY <1>1, <1>3, <1>5, <1>6 DEF Exchanged
<1> QED
  BY <1>1, <1>7, MovedTwo DEF b

LEMMA ShiftMoves ==
    ASSUME NEW a \in [Place -> Stack], NEW p \in Player, NEW w \in Windows, NEW l \in Locations(p, w)
    PROVE  Moved(a, ShiftClick(a, p, w, l), p)
<1> DEFINE s == a[l]
           taken == [a EXCEPT ![l] = Nothing]
           order == ShiftOrder(p, w, l)
           r == InsertStack(taken, s.item, s.count, order, order)
           b == ShiftClick(a, p, w, l)
           Arm == <<p, Armor>>
           Worn == w = "own" /\ s.item \in Wearable /\ l[2] # Armor /\ IsEmpty(a[Arm])
<1>1. l \in Clickable(p) /\ l \in Reach(p) /\ l \in Place /\ Arm \in Reach(p) /\ Arm \in Place
  BY LocationsIn, ReachIn, Kinds DEF Clickable
<1>2. s \in Stack /\ a[Arm] \in Stack
  BY <1>1
<1>3. CASE IsEmpty(s)
  <2>1. b = a
    BY <1>3 DEF ShiftClick
  <2> QED
    BY <2>1, MovedSelf DEF b
<1>4. CASE ~IsEmpty(s) /\ Worn
  <2>1. b = [taken EXCEPT ![Arm] = s]
    BY <1>4 DEF ShiftClick
  <2>2. l # Arm
    BY <1>4
  <2>3. \A i \in Item : Of(Nothing, i) + Of(s, i) = Of(s, i) + Of(a[Arm], i)
    BY <1>2, <1>4, NothingIn, StackFields
  <2>4. s.count # 0
    BY <1>4 DEF IsEmpty
  <2> HIDE DEF b, Arm
  <2>5. b \in [Place -> Stack] /\ b[l] = Nothing /\ b[Arm] = s
        /\ \A x \in Place : x # l /\ x # Arm => b[x] = a[x]
    BY <1>1, <1>2, <2>1, <2>2, NothingIn
  <2>6. Exchanged(a, b, l, Arm)
    BY <1>1, <2>3, <2>4, <2>5, NothingIn DEF Exchanged
  <2> QED
    BY <1>1, <2>2, <2>6, MovedTwo DEF b
<1>5. CASE ~IsEmpty(s) /\ ~Worn
  <2>1. b = IF r.left > 0 THEN [r.at EXCEPT ![l] = [s EXCEPT !.count = r.left]] ELSE r.at
    BY <1>5 DEF ShiftClick
  <2>2. s.item \in Item /\ s.count \in Nat /\ s.count # 0 /\ s.count <= MaxStack[s.item]
        /\ MaxStack[s.item] \in Nat /\ s.item # NoItem
        /\ s = [item |-> s.item, count |-> s.count, by |-> s.by] /\ s.by \in SUBSET Player
    <3>1. s.count # 0
      BY <1>5 DEF IsEmpty
    <3>2. s.item \in Item
      BY <1>2, <3>1, StackFields
    <3> QED
      BY <1>2, <3>1, <3>2, StackFields
  <2>3. /\ taken \in [Place -> Stack] /\ taken[l] = Nothing
        /\ \A x \in Place : x # l => taken[x] = a[x]
    BY <1>1, NothingIn
  <2>4. order \in Seq(Clickable(p)) /\ Clickable(p) \in SUBSET Place
    BY ShiftOrderIn, ReachIn
  <2> HIDE DEF b, taken, order, s
  <2>5. r \in Filling(taken, s.item, s.count, Clickable(p))
    BY <2>2, <2>3, <2>4, InsertStays
  <2> HIDE DEF r
  <2>6. /\ r.at \in [Place -> Stack] /\ r.left \in Nat /\ r.left <= s.count
        /\ Filled(taken, r.at, s.item, s.count - r.left, Clickable(p))
        /\ r.left > 0 => r.at[l] = Nothing
    BY <1>1, <2>2, <2>3, <2>5, FillingFields
  <2>7. /\ \A x \in Place : r.at[x].by \subseteq taken[x].by
        /\ \A x \in Place : r.at[x].count = 0 => r.at[x] = taken[x]
        /\ \A x \in Place \ Clickable(p) : r.at[x] = taken[x]
        /\ \A i \in Item : Total(r.at, i) = Total(taken, i) + (IF i = s.item THEN s.count - r.left ELSE 0)
    BY <2>6 DEF Filled
  <2>8. \A i \in Item : Total(taken, i) = Total(a, i) - Of(s, i) + Of(Nothing, i)
    <3> SUFFICES ASSUME NEW i \in Item PROVE Total(taken, i) = Total(a, i) - Of(s, i) + Of(Nothing, i)
      OBVIOUS
    <3>1. Total(taken, i) = Total(a, i) - Of(a[l], i) + Of(taken[l], i)
      BY <1>1, <2>3, TotalSet
    <3> QED
      BY <2>3, <3>1 DEF s
  <2> DEFINE rest == [s EXCEPT !.count = r.left]
  <2>9. rest = [item |-> s.item, count |-> r.left, by |-> s.by]
    BY <2>2
  <2>10. rest \in Stack /\ rest.count = r.left /\ rest.item = s.item /\ rest.by = s.by
    <3>1. r.left <= MaxStack[s.item]
      BY <2>2, <2>6
    <3> QED
      BY <2>2, <2>6, <2>9, <3>1 DEF Stack
  <2> HIDE DEF rest
  <2>11. b \in [Place -> Stack]
         /\ (\A x \in Place : x # l => b[x] = r.at[x])
         /\ b[l] = IF r.left > 0 THEN rest ELSE r.at[l]
    BY <1>1, <2>1, <2>6, <2>10 DEF rest
  <2>12. \A x \in Place : b[x].by \subseteq a[x].by
    <3>1. \A x \in Place : x # l => b[x].by \subseteq a[x].by
      BY <2>3, <2>7, <2>11
    <3>2. b[l].by \subseteq s.by
      BY <1>1, <2>3, <2>7, <2>10, <2>11, NothingIn
    <3> QED
      BY <3>1, <3>2 DEF s
  <2>13. \A x \in Place \ Reach(p) : b[x] = a[x]
    <3> SUFFICES ASSUME NEW x \in Place \ Reach(p) PROVE b[x] = a[x]
      OBVIOUS
    <3>1. x # l /\ x \notin Clickable(p)
      BY <1>1 DEF Clickable
    <3> QED
      BY <2>3, <2>7, <2>11, <3>1
  <2>14. \A x \in Place : b[x].count = 0 => b[x] = a[x] \/ b[x] = Nothing
    <3> SUFFICES ASSUME NEW x \in Place, b[x].count = 0 PROVE b[x] = a[x] \/ b[x] = Nothing
      OBVIOUS
    <3>1. CASE x # l
      BY <2>3, <2>7, <2>11, <3>1
    <3>2. CASE x = l
      <4>1. ~(r.left > 0)
        BY <2>10, <2>11, <3>2
      <4> QED
        BY <2>3, <2>7, <2>11, <3>2, <4>1
    <3> QED
      BY <3>1, <3>2
  <2>15. \A i \in Item : Total(b, i) = Total(a, i)
    <3> SUFFICES ASSUME NEW i \in Item PROVE Total(b, i) = Total(a, i)
      OBVIOUS
    <3>1. Of(Nothing, i) = 0 /\ Of(s, i) = (IF i = s.item THEN s.count ELSE 0)
          /\ Of(rest, i) = (IF i = s.item THEN r.left ELSE 0)
      BY <2>10, NothingIn, StackFields DEF Of
    <3>2. Total(a, i) \in Int
      BY TotalType
    <3>3. Total(r.at, i) = Total(a, i) - (IF i = s.item THEN r.left ELSE 0)
      <4>1. Total(r.at, i) = Total(taken, i) + (IF i = s.item THEN s.count - r.left ELSE 0)
        BY <2>7
      <4>2. Total(taken, i) = Total(a, i) - Of(s, i) + Of(Nothing, i)
        BY <2>8
      <4> QED
        BY <2>2, <2>6, <3>1, <3>2, <4>1, <4>2
    <3>4. CASE r.left > 0
      <4>1. Total(b, i) = Total(r.at, i) - Of(r.at[l], i) + Of(b[l], i)
        BY <1>1, <2>6, <2>11, TotalSet
      <4>2. r.at[l] = Nothing /\ b[l] = rest
        BY <2>6, <2>11, <3>4
      <4> QED
        BY <2>6, <3>1, <3>2, <3>3, <4>1, <4>2
    <3>5. CASE ~(r.left > 0)
      <4>1. b = r.at /\ r.left = 0
        BY <2>1, <2>6, <3>5
      <4> QED
        BY <3>2, <3>3, <4>1
    <3> QED
      BY <3>4, <3>5
  <2>16. Moved(a, b, p)
    BY <2>11, <2>12, <2>13, <2>14, <2>15, HoldersKept DEF Moved
  <2> QED
    BY <2>16 DEF b
<1> QED
  BY <1>3, <1>4, <1>5

LEMMA DragMoves ==
    ASSUME NEW a \in [Place -> Stack], NEW p \in Player, NEW even \in BOOLEAN,
           NEW order \in Seq(Clickable(p)), Len(order) # 0, ~IsEmpty(a[<<p, Cursor>>])
    PROVE  Moved(a, DragOver(a, p, order, even), p)
<1> DEFINE m == <<p, Cursor>>
           c == a[m]
           S == Clickable(p)
           each == Each(c, order, even)
           extra == Extra(c, order, even)
           r == GiveAll([at |-> a, used |-> 0], order, c, each, extra)
           rest == Written(Minus(c, r.used))
           b == DragOver(a, p, order, even)
<1>1. m \in Reach(p) /\ m \in Place /\ m \notin S /\ S \in SUBSET Place /\ m[2] = Cursor
      /\ S \subseteq Reach(p)
  BY ReachIn DEF Clickable
<1>2. c \in Stack
  BY <1>1
<1>3. c.count \in Nat /\ c.count # 0 /\ c.item \in Item
  <2>1. c.count # 0
    BY DEF IsEmpty
  <2> QED
    BY <1>2, <2>1, StackFields
<1>4. b = [r.at EXCEPT ![m] = rest]
  BY DragIs
<1>5. each \in Nat /\ extra \in Int
  <2>1. Len(order) \in Nat /\ Len(order) # 0
    OBVIOUS
  <2> HIDE DEF c
  <2>2. c.count \div Len(order) \in Int
    BY <1>3, <2>1
  <2>3. \A k \in Int : Max({1, k}) \in Nat
    <3> SUFFICES ASSUME NEW k \in Int PROVE Max({1, k}) \in Nat
      OBVIOUS
    <3>1. \E x \in {1, k} : \A y \in {1, k} : x >= y
      <4>1. CASE k >= 1
        BY <4>1
      <4>2. CASE ~(k >= 1)
        BY <4>2
      <4> QED
        BY <4>1, <4>2
    <3>2. Max({1, k}) \in {1, k} /\ Max({1, k}) >= 1
      BY <3>1 DEF Max
    <3> QED
      BY <3>2
  <2>4. Each(c, order, even) \in Nat
    BY <2>2, <2>3 DEF Each
  <2>5. Extra(c, order, even) \in Int
    BY <1>3, <2>1, <2>4 DEF Extra
  <2> QED
    BY <2>4, <2>5
<1> HIDE DEF c, S, each, extra, m, b
<1>6. [at |-> a, used |-> 0] \in Giving(a, c, S)
  BY <1>3, FilledSelf DEF Giving
<1>7. r \in Giving(a, c, S)
  <2>1. order \in Seq(S)
    BY DEF S
  <2> QED
    BY <1>1, <1>2, <1>3, <1>5, <1>6, <2>1, GiveStays
<1> HIDE DEF r
<1>8. /\ r.at \in [Place -> Stack] /\ r.used \in Nat /\ r.used <= c.count
      /\ Filled(a, r.at, c.item, r.used, S)
  BY <1>7 DEF Giving
<1>9. /\ \A x \in Place : r.at[x].by \subseteq a[x].by
      /\ \A x \in Place : r.at[x].count = 0 => r.at[x] = a[x]
      /\ \A x \in Place \ S : r.at[x] = a[x]
      /\ \A i \in Item : Total(r.at, i) = Total(a, i) + (IF i = c.item THEN r.used ELSE 0)
  BY <1>8 DEF Filled
<1>10. /\ Minus(c, r.used) \in Stack /\ Minus(c, r.used).item = c.item /\ Minus(c, r.used).count = c.count - r.used
       /\ rest \in Stack /\ rest.by \subseteq c.by /\ \A i \in Item : Of(rest, i) = Of(Minus(c, r.used), i)
  <2>1. /\ Minus(c, r.used) \in Stack /\ Minus(c, r.used).item = c.item /\ Minus(c, r.used).count = c.count - r.used
        /\ Minus(c, r.used).by = c.by
    BY <1>2, <1>8, MinusIn
  <2> QED
    BY <2>1, WrittenIn
<1> HIDE DEF rest
<1>11. b \in [Place -> Stack] /\ b[m] = rest /\ (\A x \in Place : x # m => b[x] = r.at[x])
  BY <1>1, <1>4, <1>8, <1>10
<1>12. \A x \in Place : b[x].by \subseteq a[x].by
  BY <1>9, <1>10, <1>11 DEF c
<1>13. \A x \in Place \ Reach(p) : b[x] = a[x]
  BY <1>1, <1>9, <1>11
<1>14. \A x \in Place : b[x].count = 0 /\ x[2] # Cursor => b[x] = a[x] \/ b[x] = Nothing
  BY <1>1, <1>9, <1>11
<1>15. \A i \in Item : Total(b, i) = Total(a, i)
  <2> SUFFICES ASSUME NEW i \in Item PROVE Total(b, i) = Total(a, i)
    OBVIOUS
  <2>1. Total(b, i) = Total(r.at, i) - Of(r.at[m], i) + Of(b[m], i)
    BY <1>1, <1>8, <1>11, TotalSet
  <2>2. r.at[m] = c /\ b[m] = rest
    BY <1>1, <1>9, <1>11 DEF c
  <2>3. Total(a, i) \in Int /\ Of(c, i) = (IF i = c.item THEN c.count ELSE 0)
        /\ Of(rest, i) = (IF i = c.item THEN c.count - r.used ELSE 0)
    BY <1>2, <1>10, TotalType DEF Of
  <2>4. Total(r.at, i) = Total(a, i) + (IF i = c.item THEN r.used ELSE 0)
    BY <1>9
  <2> QED
    BY <1>3, <1>8, <2>1, <2>2, <2>3, <2>4
<1>16. Moved(a, b, p)
  BY <1>11, <1>12, <1>13, <1>14, <1>15, HoldersKept DEF Moved
<1> QED
  BY <1>16 DEF b

\* A pickup only puts items into slots of p.
LEMMA PickUpFills ==
    ASSUME NEW a \in [Place -> Stack], NEW p \in Player, NEW item \in Item, NEW n \in Nat
    PROVE  AddItem(a, p, item, n) \in Filling(a, item, n, {l \in Place : l[1] = p})
<1> DEFINE T == InventorySlots
           S == {l \in Place : l[1] = p}
<1>1. Hotbar \in Seq(T) /\ Main \in Seq(T)
  <2>1. Hotbar \in Seq(ToSet(Hotbar)) /\ Main \in Seq(ToSet(Main))
    BY SlotsFinite, ListIn
  <2>2. ToSet(Hotbar) \subseteq T /\ ToSet(Main) \subseteq T
    BY Kinds
  <2> HIDE DEF T
  <2> QED
    BY <2>1, <2>2
<1>2. <<Armor, Offhand>> \in Seq(T) /\ <<Offhand>> \in Seq(T)
  BY Kinds
<1>3. \A k \in T : <<p, k>> \in S
  BY PlaceIs
<1>4. S \in SUBSET Place
  OBVIOUS
<1> HIDE DEF T, S
<1>5. Hotbar \o Main \o <<Armor, Offhand>> \in Seq(T) /\ Main \o Hotbar \o <<Offhand>> \in Seq(T)
  BY <1>1, <1>2
<1>6. Places(p, Hotbar \o Main \o <<Armor, Offhand>>) \in Seq(S)
      /\ Places(p, Main \o Hotbar \o <<Offhand>>) \in Seq(S)
  BY <1>3, <1>5, PlacesIn
<1>7. AddItem(a, p, item, n) \in Filling(a, item, n, S)
  BY <1>4, <1>6, AddItemStays
<1> QED
  BY <1>7 DEF S

-------------------------------------------------------------------------------
(* How many of an item there are in bags of entities, and in lists of them. *)

Entity == [item : Item, count : Nat]
IsEntities(b) ==
    /\ IsFiniteSet(DOMAIN b) /\ DOMAIN b \subseteq Entity
    /\ b \in [DOMAIN b -> Nat \ {0}]

InAll(b, i) == [e \in BagToSet(b) |-> Of(e, i) * b[e]]

\* One value of a function changes.
LEMMA SumChangeAt ==
    ASSUME NEW D, NEW f \in [D -> Int], NEW g \in [D -> Int], IsFiniteSet(D), NEW x \in D,
           \A y \in D : y # x => g[y] = f[y]
    PROVE  SumOf(g, D) = SumOf(f, D) - f[x] + g[x]
<1>1. IsFiniteSet(D \ {x}) /\ D \in SUBSET D /\ D \ {x} \in SUBSET D
  BY FS_Subset
<1>2. SumOf(f, D) = f[x] + SumOf(f, D \ {x})
  BY <1>1, SumRemove
<1>3. SumOf(g, D) = g[x] + SumOf(g, D \ {x})
  BY <1>1, SumRemove
<1>4. SumOf(g, D \ {x}) = SumOf(f, D \ {x})
  BY <1>1, SumAgree
<1>5. SumOf(f, D \ {x}) \in Int /\ f[x] \in Int /\ g[x] \in Int
  BY <1>1, SumType
<1> QED
  BY <1>2, <1>3, <1>4, <1>5

\* The last of the first m values.
LEMMA SumLast ==
    ASSUME NEW n \in Nat, NEW f \in [1..n -> Int], NEW m \in 1..n
    PROVE  SumOf(f, 1..m) = SumOf(f, 1..(m - 1)) + f[m] /\ SumOf(f, 1..(m - 1)) \in Int /\ f[m] \in Int
<1> DEFINE T == 1..m
           D == 1..n
<1>1. T \in SUBSET D /\ m \in T /\ T \ {m} = 1..(m - 1) /\ T \ {m} \in SUBSET D
  OBVIOUS
<1>2. IsFiniteSet(T) /\ IsFiniteSet(T \ {m})
  <2>1. IsFiniteSet(T)
    BY FS_Interval
  <2> QED
    BY <2>1, FS_Subset
<1>3. f \in [D -> Int]
  OBVIOUS
<1> HIDE DEF T, D
<1>4. SumOf(f, T) = f[m] + SumOf(f, T \ {m})
  BY <1>1, <1>2, <1>3, SumRemove
<1>5. SumOf(f, T \ {m}) \in Int /\ f[m] \in Int
  BY <1>1, <1>2, <1>3, SumType
<1>6. SumOf(f, T \ {m}) = SumOf(f, 1..(m - 1))
  <2>1. T \ {m} = 1..(m - 1)
    BY <1>1
  <2> QED
    BY ONLY <2>1, Zenon
<1>7. SumOf(f, T) = SumOf(f, 1..(m - 1)) + f[m] /\ SumOf(f, 1..(m - 1)) \in Int
  BY ONLY <1>4, <1>5, <1>6
<1> QED
  BY <1>5, <1>7 DEF T

LEMMA EntityOf ==
    ASSUME NEW e \in Entity, NEW i
    PROVE  Of(e, i) \in Nat
BY DEF Entity, Of

LEMMA InBagType ==
    ASSUME NEW b, IsEntities(b), NEW i
    PROVE  /\ InAll(b, i) \in [DOMAIN b -> Int] /\ InBag(b, i) = SumOf(InAll(b, i), DOMAIN b)
           /\ InBag(b, i) \in Int
<1>1. ASSUME NEW e \in DOMAIN b PROVE Of(e, i) * b[e] \in Int
  <2>1. Of(e, i) \in Nat /\ b[e] \in Nat
    BY EntityOf DEF IsEntities
  <2> QED
    BY <2>1
<1>2. InAll(b, i) \in [DOMAIN b -> Int]
  BY <1>1 DEF InAll, BagToSet
<1>3. InBag(b, i) = SumOf(InAll(b, i), DOMAIN b)
  BY DEF InBag, InAll, BagToSet
<1> QED
  BY <1>2, <1>3, SumType DEF IsEntities

LEMMA InNoBag ==
    IsEntities(EmptyBag) /\ \A i : InBag(EmptyBag, i) = 0
<1>1. DOMAIN EmptyBag = {}
  BY DEF EmptyBag, SetToBag
<1>2. IsEntities(EmptyBag)
  BY <1>1, FS_EmptySet DEF IsEntities, EmptyBag, SetToBag
<1>3. \A i : InBag(EmptyBag, i) = 0
  BY <1>1, SumEmpty DEF InBag, BagToSet
<1> QED
  BY <1>2, <1>3

LEMMA BagPlus ==
    ASSUME NEW b, IsEntities(b), NEW e \in Entity
    PROVE  /\ IsEntities(b (+) SetToBag({e}))
           /\ \A i \in Item : InBag(b (+) SetToBag({e}), i) = InBag(b, i) + Of(e, i)
<1> DEFINE c == b (+) SetToBag({e})
           D == DOMAIN b
<1>1. /\ DOMAIN c = D \cup {e}
      /\ \A x \in D \cup {e} : c[x] = (IF x \in D THEN b[x] ELSE 0) + (IF x = e THEN 1 ELSE 0)
      /\ c = [x \in DOMAIN c |-> c[x]]
  BY DEF (+), SetToBag
<1>2. IsFiniteSet(D) /\ D \subseteq Entity /\ \A x \in D : b[x] \in Nat \ {0}
  BY DEF IsEntities
<1> HIDE DEF c, D
<1>3. IsEntities(c)
  <2>1. IsFiniteSet(D \cup {e})
    BY <1>2, FS_AddElement
  <2>2. \A x \in DOMAIN c : c[x] \in Nat \ {0}
    BY <1>1, <1>2
  <2> QED
    BY <1>1, <1>2, <2>1, <2>2 DEF IsEntities
<1>4. ASSUME NEW i \in Item PROVE InBag(c, i) = InBag(b, i) + Of(e, i)
  <2>1. /\ InAll(b, i) \in [D -> Int] /\ InBag(b, i) = SumOf(InAll(b, i), D) /\ InBag(b, i) \in Int
        /\ InAll(c, i) \in [D \cup {e} -> Int] /\ InBag(c, i) = SumOf(InAll(c, i), D \cup {e})
    BY <1>1, <1>3, InBagType DEF D
  <2>2. Of(e, i) \in Nat
    BY EntityOf
  <2>3. /\ \A x \in D : InAll(b, i)[x] = Of(x, i) * b[x]
        /\ \A x \in D \cup {e} : InAll(c, i)[x] = Of(x, i) * c[x]
    BY <1>1 DEF InAll, BagToSet, D
  <2>4. \A x \in D : x # e => InAll(c, i)[x] = InAll(b, i)[x]
    <3>1. \A x \in D : x # e => c[x] = b[x]
      BY <1>1, <1>2
    <3> QED
      BY <2>3, <3>1
  <2>5. CASE e \in D
    <3>1. c[e] = b[e] + 1 /\ b[e] \in Nat /\ D \cup {e} = D
      BY <1>1, <1>2, <2>5
    <3>2. InAll(c, i)[e] = InAll(b, i)[e] + Of(e, i)
      <4>1. \A m \in Nat, n \in Nat : m * (n + 1) = m * n + m
        OBVIOUS
      <4>2. Of(e, i) * (b[e] + 1) = Of(e, i) * b[e] + Of(e, i)
        BY <2>2, <3>1, <4>1
      <4> QED
        BY <2>3, <2>5, <3>1, <4>2
    <3>3. SumOf(InAll(c, i), D) = SumOf(InAll(b, i), D) - InAll(b, i)[e] + InAll(c, i)[e]
      <4>1. InAll(c, i) \in [D -> Int] /\ e \in D /\ \A x \in D : x # e => InAll(c, i)[x] = InAll(b, i)[x]
        BY <2>1, <2>4, <2>5, <3>1
      <4> QED
        BY <1>2, <2>1, <4>1, SumChangeAt
    <3>4. InAll(b, i)[e] \in Int /\ SumOf(InAll(b, i), D) \in Int
      BY <1>2, <2>1, <2>5
    <3> QED
      BY <2>1, <2>2, <3>1, <3>2, <3>3, <3>4
  <2>6. CASE e \notin D
    <3>1. InAll(c, i)[e] = Of(e, i)
      <4>1. c[e] = 1
        BY <1>1, <2>6
      <4> QED
        BY <2>2, <2>3, <4>1
    <3>2. SumOf(InAll(c, i), D \cup {e}) = SumOf(InAll(c, i), D) + InAll(c, i)[e]
      BY <1>2, <2>1, <2>6, SumAdd
    <3>3. SumOf(InAll(c, i), D) = SumOf(InAll(b, i), D)
      BY <1>2, <2>4, <2>6, SumAgree
    <3> QED
      BY <2>1, <3>1, <3>2, <3>3
  <2> QED
    BY <2>5, <2>6
<1> QED
  BY <1>3, <1>4 DEF c

LEMMA BagMinus ==
    ASSUME NEW b, IsEntities(b), NEW e \in DOMAIN b
    PROVE  /\ IsEntities(b (-) SetToBag({e}))
           /\ \A i \in Item : InBag(b (-) SetToBag({e}), i) = InBag(b, i) - Of(e, i)
<1> DEFINE c == b (-) SetToBag({e})
           D == DOMAIN b
           E == {x \in D : (IF x = e THEN b[x] - 1 ELSE b[x]) > 0}
<1>1. /\ DOMAIN c = E
      /\ \A x \in E : c[x] = IF x = e THEN b[x] - 1 ELSE b[x]
      /\ c = [x \in DOMAIN c |-> c[x]]
  BY DEF (-), SetToBag
<1>2. IsFiniteSet(D) /\ D \subseteq Entity /\ (\A x \in D : b[x] \in Nat \ {0}) /\ e \in D
  BY DEF IsEntities
<1> HIDE DEF c, D
<1>3. IsEntities(c)
  <2>1. IsFiniteSet(E)
    BY <1>2, FS_Subset
  <2>2. \A x \in E : c[x] \in Nat \ {0}
    BY <1>1, <1>2
  <2> QED
    BY <1>1, <1>2, <2>1, <2>2 DEF IsEntities
<1>4. ASSUME NEW i \in Item PROVE InBag(c, i) = InBag(b, i) - Of(e, i)
  <2>1. /\ InAll(b, i) \in [D -> Int] /\ InBag(b, i) = SumOf(InAll(b, i), D) /\ InBag(b, i) \in Int
        /\ InAll(c, i) \in [E -> Int] /\ InBag(c, i) = SumOf(InAll(c, i), E)
    BY <1>1, <1>3, InBagType DEF D
  <2>2. Of(e, i) \in Nat
    BY <1>2, EntityOf
  <2>3. /\ \A x \in D : InAll(b, i)[x] = Of(x, i) * b[x]
        /\ \A x \in E : InAll(c, i)[x] = Of(x, i) * c[x]
    BY <1>1 DEF InAll, BagToSet, D
  <2>4. \A x \in E : x # e => InAll(c, i)[x] = InAll(b, i)[x]
    BY <1>1, <2>3
  <2>5. CASE e \in E
    <3>1. c[e] = b[e] - 1 /\ b[e] \in Nat /\ E = D
      BY <1>1, <1>2, <2>5
    <3>2. InAll(c, i)[e] = InAll(b, i)[e] - Of(e, i)
      <4>1. \A m \in Nat, n \in Nat : m * (n - 1) = m * n - m
        OBVIOUS
      <4>2. Of(e, i) * (b[e] - 1) = Of(e, i) * b[e] - Of(e, i)
        BY <2>2, <3>1, <4>1
      <4> QED
        BY <1>2, <2>3, <2>5, <3>1, <4>2
    <3>3. SumOf(InAll(c, i), D) = SumOf(InAll(b, i), D) - InAll(b, i)[e] + InAll(c, i)[e]
      <4>1. InAll(c, i) \in [D -> Int] /\ e \in D /\ \A x \in D : x # e => InAll(c, i)[x] = InAll(b, i)[x]
        BY <2>1, <2>4, <2>5, <3>1
      <4> QED
        BY <1>2, <2>1, <4>1, SumChangeAt
    <3>4. InAll(b, i)[e] \in Int /\ SumOf(InAll(b, i), D) \in Int
      BY <1>2, <2>1, <2>5
    <3> HIDE DEF E
    <3> QED
      BY <2>1, <2>2, <3>1, <3>2, <3>3, <3>4
  <2>6. CASE e \notin E
    <3>1. b[e] = 1
      BY <1>2, <2>6
    <3>2. E = D \ {e}
      BY <1>2, <3>1
    <3> HIDE DEF E
    <3>3. SumOf(InAll(b, i), D) = InAll(b, i)[e] + SumOf(InAll(b, i), D \ {e})
      BY <1>2, <2>1, SumRemove
    <3>4. SumOf(InAll(c, i), D \ {e}) = SumOf(InAll(b, i), D \ {e})
      <4>1. IsFiniteSet(D \ {e})
        BY <1>2, FS_Subset
      <4> QED
        BY <2>4, <3>2, <4>1, SumAgree
    <3>5. InAll(b, i)[e] = Of(e, i)
      BY <1>2, <2>2, <2>3, <3>1
    <3>6. InBag(b, i) = Of(e, i) + InBag(c, i)
      BY <2>1, <3>2, <3>3, <3>4, <3>5
    <3>7. InBag(c, i) \in Int
      BY <1>3, InBagType
    <3> QED
      BY <2>2, <3>6, <3>7
  <2> QED
    BY <2>5, <2>6
<1> QED
  BY <1>3, <1>4 DEF c

LEMMA SumZero ==
    ASSUME NEW f, NEW S, IsFiniteSet(S), \A x \in S : f[x] = 0
    PROVE  SumOf(f, S) = 0
<1> DEFINE Wrong == {s \in SUBSET S : SumOf(f, s) # 0}
<1>1. SUFFICES ASSUME Wrong # {} PROVE FALSE
  OBVIOUS
<1>2. PICK s \in Wrong : \A t \in Wrong : ~(t \subseteq s /\ t # s)
  <2>1. Wrong \in SUBSET SUBSET S
    OBVIOUS
  <2> HIDE DEF Wrong
  <2> QED
    BY <2>1, <1>1, LeastSubset
<1>3. SumOf(f, s) = IF s = {} THEN 0 ELSE f[AnyOf(s)] + SumOf(f, s \ {AnyOf(s)})
  BY FS_Subset, SumStep
<1>4. s # {}
  BY <1>3
<1>5. AnyOf(s) \in s /\ f[AnyOf(s)] = 0
  BY <1>4 DEF AnyOf
<1>6. SumOf(f, s \ {AnyOf(s)}) = 0
  BY <1>2, <1>5
<1> QED
  BY <1>3, <1>4, <1>5, <1>6

ThrownAll(s, i) == [k \in DOMAIN s |-> Of(s[k], i)]

LEMMA ThrownType ==
    ASSUME NEW s \in Seq(Entity), NEW i
    PROVE  /\ ThrownAll(s, i) \in [1..Len(s) -> Int] /\ Thrown(s, i) = SumOf(ThrownAll(s, i), 1..Len(s))
           /\ Thrown(s, i) \in Int /\ Len(s) \in Nat
<1>1. DOMAIN s = 1..Len(s) /\ Len(s) \in Nat /\ \A k \in 1..Len(s) : s[k] \in Entity
  OBVIOUS
<1>2. ThrownAll(s, i) \in [1..Len(s) -> Int]
  BY <1>1, EntityOf DEF ThrownAll
<1>3. Thrown(s, i) = SumOf(ThrownAll(s, i), 1..Len(s))
  BY <1>1 DEF Thrown, ThrownAll
<1>4. IsFiniteSet(1..Len(s))
  BY <1>1, FS_Interval
<1> QED
  BY <1>1, <1>2, <1>3, <1>4, SumType

LEMMA ThrownNone == \A i : Thrown(<<>>, i) = 0
<1>1. DOMAIN <<>> = {}
  OBVIOUS
<1> QED
  BY <1>1, SumEmpty DEF Thrown

LEMMA ThrownAppend ==
    ASSUME NEW s \in Seq(Entity), NEW e \in Entity, NEW i
    PROVE  Append(s, e) \in Seq(Entity) /\ Thrown(Append(s, e), i) = Thrown(s, i) + Of(e, i)
<1> DEFINE t == Append(s, e)
           n == Len(s)
<1>1. t \in Seq(Entity) /\ Len(t) = n + 1 /\ t[n + 1] = e /\ n \in Nat /\ \A k \in 1..n : t[k] = s[k]
  OBVIOUS
<1>2. DOMAIN t = 1..(n + 1) /\ DOMAIN s = 1..n /\ 1..(n + 1) = (1..n) \cup {n + 1} /\ n + 1 \notin 1..n
  BY <1>1
<1> HIDE DEF t, n
<1>3. /\ ThrownAll(t, i) \in [1..(n + 1) -> Int] /\ Thrown(t, i) = SumOf(ThrownAll(t, i), 1..(n + 1))
      /\ Thrown(s, i) = SumOf(ThrownAll(s, i), 1..n)
  BY <1>1, ThrownType DEF n
<1>4. /\ ThrownAll(t, i)[n + 1] = Of(e, i)
      /\ \A k \in 1..n : ThrownAll(t, i)[k] = ThrownAll(s, i)[k]
  BY <1>1, <1>2 DEF ThrownAll
<1>5. IsFiniteSet(1..n)
  <2>1. n \in Nat
    BY <1>1
  <2> QED
    BY <2>1, FS_Interval
<1>6. SumOf(ThrownAll(t, i), 1..(n + 1)) = SumOf(ThrownAll(t, i), 1..n) + ThrownAll(t, i)[n + 1]
  <2>1. n + 1 \in 1..(n + 1) /\ (n + 1) - 1 = n /\ n + 1 \in Nat
    BY <1>1
  <2> QED
    BY <1>3, <2>1, SumLast
<1>7. SumOf(ThrownAll(t, i), 1..n) = SumOf(ThrownAll(s, i), 1..n)
  BY <1>4, <1>5, SumAgree
<1> QED
  BY <1>1, <1>2, <1>3, <1>4, <1>6, <1>7 DEF t

LEMMA ThrownTail ==
    ASSUME NEW s \in Seq(Entity), s # <<>>, NEW i
    PROVE  /\ Tail(s) \in Seq(Entity) /\ Head(s) \in Entity
           /\ Thrown(Tail(s), i) = Thrown(s, i) - Of(Head(s), i)
<1> DEFINE t == Tail(s)
           n == Len(s)
           f == ThrownAll(s, i)
           g == ThrownAll(t, i)
           Wrong == {m \in 0..(n - 1) : SumOf(f, 1..(m + 1)) # SumOf(g, 1..m) + f[1]}
<1>1. /\ t \in Seq(Entity) /\ n \in Nat /\ n # 0 /\ Len(t) = n - 1 /\ Head(s) = s[1] /\ Head(s) \in Entity
      /\ \A k \in 1..(n - 1) : t[k] = s[k + 1]
  OBVIOUS
<1>2. DOMAIN t = 1..(n - 1) /\ DOMAIN s = 1..n
  BY <1>1
<1> HIDE DEF t
<1>3. /\ f \in [1..n -> Int] /\ Thrown(s, i) = SumOf(f, 1..n)
      /\ g \in [1..(n - 1) -> Int] /\ Thrown(t, i) = SumOf(g, 1..(n - 1)) /\ Thrown(t, i) \in Int
  BY <1>1, ThrownType
<1>4. f[1] = Of(Head(s), i) /\ \A k \in 1..(n - 1) : g[k] = f[k + 1]
  BY <1>1, <1>2 DEF ThrownAll
<1> HIDE DEF n, f, g
<1>5. \A m \in Nat : IsFiniteSet(1..m)
  BY FS_Interval
<1>6. f[1] \in Int
  BY <1>1, <1>3
<1>7. Wrong = {}
  <2> SUFFICES ASSUME Wrong # {} PROVE FALSE
    OBVIOUS
  <2>1. PICK m \in Wrong : \A j \in Wrong : ~(j < m)
    <3>1. Wrong \in SUBSET Nat
      BY <1>1
    <3> HIDE DEF Wrong
    <3> QED
      BY <3>1, LeastNumber
  <2>2. m \in 0..(n - 1) /\ m \in Nat
    BY <1>1, <2>1
  <2>3. m # 0
    <3> SUFFICES ASSUME m = 0 PROVE FALSE
      OBVIOUS
    <3>1. 1 \in 1..n /\ 1 - 1 = 0 /\ m + 1 = 1 /\ 1..0 = {} /\ 1..m = {}
      BY <1>1
    <3>2. SumOf(f, 1..1) = SumOf(f, 1..0) + f[1]
      BY <1>1, <1>3, <3>1, SumLast
    <3>3. SumOf(f, 1..0) = 0 /\ SumOf(g, 1..m) = 0
      BY <3>1, SumEmpty
    <3> QED
      BY <2>1, <3>1, <3>2, <3>3
  <2>4. SumOf(f, 1..m) = SumOf(g, 1..(m - 1)) + f[1]
    <3>1. m - 1 \in 0..(n - 1) /\ m - 1 < m /\ (m - 1) + 1 = m
      BY <1>1, <2>2, <2>3
    <3>2. m - 1 \notin Wrong
      <4> HIDE DEF Wrong
      <4> QED
        BY <2>1, <3>1
    <3> QED
      BY <3>1, <3>2
  <2>5. SumOf(f, 1..(m + 1)) = SumOf(f, 1..m) + f[m + 1]
    <3>1. m + 1 \in 1..n /\ (m + 1) - 1 = m
      BY <1>1, <2>2
    <3> QED
      BY <1>1, <1>3, <3>1, SumLast
  <2>6. SumOf(g, 1..m) = SumOf(g, 1..(m - 1)) + g[m]
    <3>1. m \in 1..(n - 1) /\ n - 1 \in Nat
      BY <1>1, <2>2, <2>3
    <3> QED
      BY <1>3, <3>1, SumLast
  <2>7. g[m] = f[m + 1] /\ g[m] \in Int /\ SumOf(g, 1..(m - 1)) \in Int
    <3>1. m \in 1..(n - 1) /\ n - 1 \in Nat
      BY <1>1, <2>2, <2>3
    <3> QED
      BY <1>3, <1>4, <3>1, SumLast
  <2>8. SumOf(f, 1..(m + 1)) = SumOf(g, 1..m) + f[1]
    BY <1>6, <2>4, <2>5, <2>6, <2>7
  <2> QED
    BY <2>1, <2>8
<1>8. SumOf(f, 1..n) = SumOf(g, 1..(n - 1)) + f[1]
  <2>1. n - 1 \in 0..(n - 1) /\ (n - 1) + 1 = n
    BY <1>1
  <2> QED
    BY <1>7, <2>1
<1> QED
  BY <1>1, <1>3, <1>4, <1>6, <1>8 DEF t

-------------------------------------------------------------------------------
(* What is in the chest, as stacks and as a bag of entities.               *)

Block(k) == <<Shared, k>>
AsEntity(a, k) == [item |-> a[Block(k)].item, count |-> a[Block(k)].count]
Full(a, F) == {k \in F : ~IsEmpty(a[Block(k)])}
ContentsOf(a, F) ==
    [e \in {AsEntity(a, k) : k \in Full(a, F)} |-> Cardinality({k \in Full(a, F) : AsEntity(a, k) = e})]
Emptied(a, F) == [l \in Place |-> IF l[1] = Shared /\ l[2] \in F THEN Nothing ELSE a[l]]

LEMMA ContentsIs == \A a : Contents(a) = ContentsOf(a, ToSet(Chest))
BY DEF Contents, ContentsOf, AsEntity, Full, Block

LEMMA ContentsMore ==
    ASSUME NEW a, NEW F, IsFiniteSet(F), NEW k \in F, ~IsEmpty(a[Block(k)])
    PROVE  ContentsOf(a, F) = ContentsOf(a, F \ {k}) (+) SetToBag({AsEntity(a, k)})
<1> DEFINE E == F \ {k}
           e == AsEntity(a, k)
           b == ContentsOf(a, E)
           c == ContentsOf(a, F)
           Same(G, x) == {j \in Full(a, G) : AsEntity(a, j) = x}
<1>1. Full(a, F) = Full(a, E) \cup {k} /\ k \notin Full(a, E) /\ Full(a, E) \subseteq F /\ k \in Full(a, F)
  BY DEF Full
<1>2. DOMAIN c = DOMAIN b \cup {e}
  BY <1>1 DEF ContentsOf
<1>3. \A x : IsFiniteSet(Same(E, x)) /\ k \notin Same(E, x)
  <2> SUFFICES ASSUME NEW x PROVE IsFiniteSet(Same(E, x)) /\ k \notin Same(E, x)
    OBVIOUS
  <2>1. Same(E, x) \in SUBSET F /\ k \notin Same(E, x)
    BY <1>1
  <2> HIDE DEF Same
  <2> QED
    BY <2>1, FS_Subset
<1>4. \A x : Same(F, x) = IF x = e THEN Same(E, x) \cup {k} ELSE Same(E, x)
  BY <1>1
<1>5. /\ \A x \in DOMAIN c : c[x] = Cardinality(Same(F, x))
      /\ \A x \in DOMAIN b : b[x] = Cardinality(Same(E, x))
      /\ c = [x \in DOMAIN c |-> c[x]]
  BY DEF ContentsOf
<1>6. \A x : x \notin DOMAIN b => Same(E, x) = {}
  BY DEF ContentsOf
<1> HIDE DEF E, e, b, c, Same
<1>7. \A x : Cardinality(Same(F, x)) = Cardinality(Same(E, x)) + (IF x = e THEN 1 ELSE 0)
  <2> SUFFICES ASSUME NEW x
               PROVE  Cardinality(Same(F, x)) = Cardinality(Same(E, x)) + (IF x = e THEN 1 ELSE 0)
    OBVIOUS
  <2>1. Cardinality(Same(E, x)) \in Nat
    BY <1>3, FS_CardinalityType
  <2>2. CASE x = e
    <3>1. Same(F, x) = Same(E, x) \cup {k}
      BY <1>4, <2>2
    <3>2. Cardinality(Same(E, x) \cup {k}) = Cardinality(Same(E, x)) + 1
      BY <1>3, FS_AddElement
    <3> QED
      BY <2>1, <2>2, <3>1, <3>2
  <2>3. CASE x # e
    <3>1. Same(F, x) = Same(E, x)
      BY <1>4, <2>3
    <3> QED
      BY <2>1, <2>3, <3>1
  <2> QED
    BY <2>2, <2>3
<1>8. \A x \in DOMAIN b \cup {e} : c[x] = (IF x \in DOMAIN b THEN b[x] ELSE 0) + (IF x = e THEN 1 ELSE 0)
  <2> SUFFICES ASSUME NEW x \in DOMAIN b \cup {e}
               PROVE  c[x] = (IF x \in DOMAIN b THEN b[x] ELSE 0) + (IF x = e THEN 1 ELSE 0)
    OBVIOUS
  <2>1. c[x] = Cardinality(Same(E, x)) + (IF x = e THEN 1 ELSE 0)
    BY <1>2, <1>5, <1>7
  <2>2. Cardinality(Same(E, x)) = IF x \in DOMAIN b THEN b[x] ELSE 0
    BY <1>5, <1>6, FS_EmptySet
  <2> QED
    BY <2>1, <2>2
<1>9. b (+) SetToBag({e}) = [x \in DOMAIN b \cup {e} |-> c[x]]
  <2>1. DOMAIN SetToBag({e}) = {e} /\ SetToBag({e})[e] = 1
    BY DEF SetToBag
  <2>2. \A x \in DOMAIN b \cup {e} :
            (IF x \in DOMAIN b THEN b[x] ELSE 0) + (IF x \in DOMAIN SetToBag({e}) THEN SetToBag({e})[x] ELSE 0) = c[x]
    BY <1>8, <2>1
  <2> QED
    BY <2>1, <2>2 DEF (+)
<1> QED
  BY <1>2, <1>5, <1>9 DEF E, e, b, c

\* Emptying the chest takes away what is in it.
LEMMA EmptiedTakes ==
    ASSUME NEW a \in [Place -> Stack]
    PROVE  /\ IsEntities(Contents(a)) /\ Emptied(a, ToSet(Chest)) \in [Place -> Stack]
           /\ \A i \in Item : Total(Emptied(a, ToSet(Chest)), i) = Total(a, i) - InBag(Contents(a), i)
<1> DEFINE D == ToSet(Chest)
           Right(F) == /\ IsEntities(ContentsOf(a, F)) /\ Emptied(a, F) \in [Place -> Stack]
                       /\ \A i \in Item : Total(Emptied(a, F), i) = Total(a, i) - InBag(ContentsOf(a, F), i)
           Wrong == {F \in SUBSET D : ~Right(F)}
<1>1. IsFiniteSet(D)
  BY SlotsFinite
<1>2. SUFFICES ASSUME Wrong # {} PROVE FALSE
  <2>1. D \in SUBSET D
    OBVIOUS
  <2>2. Right(D)
    <3> HIDE DEF Right, D
    <3> QED
      BY <2>1
  <2> QED
    BY <2>2, ContentsIs
<1>3. PICK F \in Wrong : \A G \in Wrong : ~(G \subseteq F /\ G # F)
  <2>1. Wrong \in SUBSET SUBSET D
    OBVIOUS
  <2> HIDE DEF Wrong, D
  <2> QED
    BY <1>1, <1>2, <2>1, LeastSubset
<1>4. F \in SUBSET D /\ IsFiniteSet(F)
  <2>1. F \in SUBSET D
    OBVIOUS
  <2> QED
    BY <1>1, <2>1, FS_Subset
<1>5. F # {}
  <2> SUFFICES ASSUME F = {} PROVE FALSE
    OBVIOUS
  <2>1. Emptied(a, F) = a
    BY DEF Emptied
  <2>2. ContentsOf(a, F) = EmptyBag
    BY DEF ContentsOf, Full, EmptyBag, SetToBag
  <2>3. \A i \in Item : Total(a, i) = Total(a, i) - 0
    BY TotalType
  <2>4. Right(F)
    BY <2>1, <2>2, <2>3, InNoBag
  <2> QED
    BY <2>4
<1>6. PICK k \in F : TRUE
  BY <1>5
<1> DEFINE G == F \ {k}
           b == Emptied(a, G)
           c == Emptied(a, F)
           l == Block(k)
<1>7. Right(G)
  BY <1>3, <1>6
<1>8. l \in Place /\ l[1] = Shared /\ l[2] = k /\ \A m \in Place : m[1] = Shared /\ m[2] = k => m = l
  BY <1>4, <1>6, PlaceIs DEF Block
<1>9. b \in [Place -> Stack]
  BY <1>7
<1>10. /\ c \in [Place -> Stack] /\ c[l] = Nothing /\ b[l] = a[l]
       /\ \A m \in Place : m # l => c[m] = b[m]
  BY <1>6, <1>8, NothingIn DEF Emptied
<1>11. a[l] \in Stack
  BY <1>8
<1> HIDE DEF b, c, l
<1>12. \A i \in Item : Total(c, i) = Total(b, i) - Of(a[l], i)
  <2> SUFFICES ASSUME NEW i \in Item PROVE Total(c, i) = Total(b, i) - Of(a[l], i)
    OBVIOUS
  <2>1. Total(c, i) = Total(b, i) - Of(b[l], i) + Of(c[l], i)
    BY <1>8, <1>9, <1>10, TotalSet
  <2>2. Of(c[l], i) = 0 /\ Of(a[l], i) \in Int /\ Total(b, i) \in Int
    BY <1>9, <1>10, <1>11, NothingIn, StackFields, TotalType
  <2> QED
    BY <1>10, <2>1, <2>2
<1>13. CASE IsEmpty(a[l])
  <2>1. ContentsOf(a, F) = ContentsOf(a, G)
    <3>1. Full(a, F) = Full(a, G)
      BY <1>13 DEF Full, l
    <3> QED
      BY <3>1 DEF ContentsOf
  <2>2. \A i \in Item : Of(a[l], i) = 0 /\ Total(b, i) \in Int
    BY <1>9, <1>11, <1>13, StackFields, TotalType
  <2>3. \A i \in Item : Total(c, i) = Total(b, i)
    BY <1>12, <2>2
  <2>4. Right(F)
    BY <1>7, <1>10, <2>1, <2>3 DEF b, c
  <2> QED
    BY <2>4
<1>14. CASE ~IsEmpty(a[l])
  <2> DEFINE e == AsEntity(a, k)
  <2>1. ContentsOf(a, F) = ContentsOf(a, G) (+) SetToBag({e})
    BY <1>4, <1>6, <1>14, ContentsMore DEF l
  <2>2. e \in Entity /\ \A i \in Item : Of(e, i) = Of(a[l], i)
    <3>1. a[l].item \in Item /\ a[l].count \in Nat
      BY <1>11, <1>14, StackFields DEF IsEmpty
    <3> QED
      BY <3>1 DEF AsEntity, Entity, Of, l
  <2> HIDE DEF e
  <2>3. IsEntities(ContentsOf(a, G))
    BY <1>7
  <2>4. /\ IsEntities(ContentsOf(a, F))
        /\ \A i \in Item : InBag(ContentsOf(a, F), i) = InBag(ContentsOf(a, G), i) + Of(e, i)
    BY <2>1, <2>2, <2>3, BagPlus
  <2>5. \A i \in Item : Total(c, i) = Total(a, i) - InBag(ContentsOf(a, F), i)
    <3> SUFFICES ASSUME NEW i \in Item PROVE Total(c, i) = Total(a, i) - InBag(ContentsOf(a, F), i)
      OBVIOUS
    <3>1. Total(b, i) = Total(a, i) - InBag(ContentsOf(a, G), i)
      BY <1>7 DEF b
    <3>2. InBag(ContentsOf(a, G), i) \in Int /\ Of(e, i) \in Int /\ Total(a, i) \in Int
      BY <2>2, <2>3, InBagType, TotalType, EntityOf
    <3>3. Of(e, i) = Of(a[l], i) /\ Total(c, i) = Total(b, i) - Of(a[l], i)
      BY <1>12, <2>2
    <3> QED
      BY <2>4, <3>1, <3>2, <3>3
  <2>6. Right(F)
    BY <1>10, <2>4, <2>5 DEF c
  <2> QED
    BY <2>6
<1> QED
  BY <1>13, <1>14

-------------------------------------------------------------------------------
(* The invariant.                                                          *)

Dropping(p) == [kind : {"drop"}, from : {l \in Place : l[1] \in {p, Shared}}, kept : BOOLEAN]
Placing == [kind : {"place"}, item : Item \cup Placeable]
IsDigging(r) == r.kind = "dig" /\ r.done \in Nat /\ IsEntities(r.poured)
IsWaiting(r, p) == r = Idle \/ r \in Dropping(p) \/ r \in Placing \/ IsDigging(r)
AreWaiting(w) == w = [p \in Player |-> w[p]] /\ \A p \in Player : IsWaiting(w[p], p)
Picking == [kind : {"pick"}, by : Player, item : Item, left : Nat]

ItemsType ==
    /\ at \in [Place -> Stack] /\ IsEntities(ground) /\ built \in [Item -> Nat]
    /\ window \in [Player -> Windows] /\ chest \in BOOLEAN
    /\ AreWaiting(pending) /\ tossed \in [Player -> Seq(Entity)]
    /\ selected \in [Player -> ToSet(Hotbar)]
    /\ pick = Idle \/ pick \in Picking
    /\ listed \subseteq Player /\ online \subseteq Player
    /\ shown = [p \in Player |-> shown[p]]

\* An object that is held is held by a drop in flight, one object by each; an empty one
\* in a slot is held by the drop that took it from there.
Holders(a, w) ==
    /\ \A q \in Player : \A l \in Place : q \in a[l].by => w[q].kind = "drop"
    /\ OneHolder(a)
    /\ \A l \in Place : a[l].count = 0 /\ l[2] # Cursor =>
           a[l] = Nothing \/ \E q \in Player : q \in a[l].by /\ w[q].from = l

\* A chest that is gone has nothing in it.
GoneIsEmpty(a, here) == ~here => \A l \in Place : l[1] = Shared => a[l] = Nothing

\* Outside a drop, a client has been sent nothing but what it holds now.
Informed(a, w, s) == \A p \in Player : w[p].kind # "drop" => s[p] \subseteq {View(a, p)}

ItemsInv ==
    /\ ItemsType /\ Holders(at, pending) /\ GoneIsEmpty(at, chest)
    /\ Informed(at, pending, shown) /\ ItemsConserved

LEMMA WaitingKinds ==
    ASSUME NEW p \in Player, NEW r, IsWaiting(r, p)
    PROVE  /\ r.kind \in {"idle", "drop", "place", "dig"}
           /\ r.kind = "idle" <=> r = Idle
           /\ r.kind = "drop" => r \in Dropping(p)
           /\ r.kind = "place" => r \in Placing
           /\ r.kind = "dig" => IsDigging(r)
BY DEF IsWaiting, Idle, Dropping, Placing, IsDigging

\* One handler goes from one await to another.
GoesOn(w, v, p, r) == v = [w EXCEPT ![p] = r]

LEMMA WaitingOne ==
    ASSUME NEW w, AreWaiting(w), NEW p \in Player, NEW r, IsWaiting(r, p),
           NEW v, GoesOn(w, v, p, r)
    PROVE  /\ AreWaiting(v) /\ v[p] = r
           /\ \A q \in Player : q # p => v[q] = w[q]
BY DEF AreWaiting, GoesOn

LEMMA HoldersStay ==
    ASSUME NEW a \in [Place -> Stack], NEW b \in [Place -> Stack], NEW w, Holders(a, w),
           \A l \in Place : \A q \in b[l].by : \E m \in Place : q \in a[m].by,
           OneHolder(a) => OneHolder(b),
           \A l \in Place : b[l].count = 0 /\ l[2] # Cursor => b[l] = a[l] \/ b[l] = Nothing
    PROVE  Holders(b, w)
BY DEF Holders

\* A handler with no drop in flight goes on without one.
LEMMA HoldersOther ==
    ASSUME NEW a, NEW w, Holders(a, w), NEW v, NEW p \in Player, w[p].kind # "drop",
           \A q \in Player : q # p => v[q] = w[q]
    PROVE  Holders(a, v)
BY DEF Holders

LEMMA ViewSame ==
    ASSUME NEW a, NEW b, NEW p \in Player,
           \A l \in Place : l[1] = p => b[l].item = a[l].item /\ b[l].count = a[l].count
    PROVE  View(b, p) = View(a, p)
<1>1. \A s \in ToSet(Main) \cup {Cursor} : <<p, s>> \in Place
  BY PlaceIs, Kinds
<1> QED
  BY <1>1 DEF View, IsEmpty

\* What p does to its own slots and to the chest's, others do not see in theirs.
LEMMA InformedOthers ==
    ASSUME NEW a, NEW b, NEW w, NEW v, NEW s, NEW t, Informed(a, w, s), NEW p \in Player,
           \A l \in Place \ Reach(p) : b[l].item = a[l].item /\ b[l].count = a[l].count,
           \A q \in Player : q # p => t[q] = s[q] /\ (v[q].kind = "drop" <=> w[q].kind = "drop"),
           v[p].kind # "drop" => t[p] \subseteq {View(b, p)}
    PROVE  Informed(b, v, t)
<1> SUFFICES ASSUME NEW q \in Player, v[q].kind # "drop" PROVE t[q] \subseteq {View(b, q)}
  BY DEF Informed
<1>1. CASE q = p
  BY <1>1
<1>2. CASE q # p
  <2>1. \A l \in Place : l[1] = q => b[l].item = a[l].item /\ b[l].count = a[l].count
    BY <1>2, Kinds DEF Reach
  <2>2. View(b, q) = View(a, q)
    BY <2>1, ViewSame
  <2> QED
    BY <1>2, <2>2 DEF Informed
<1> QED
  BY <1>1, <1>2

-------------------------------------------------------------------------------
(* The account.                                                            *)

OwedBy(w, i) == [p \in Player |-> Owed(w[p], i)]
ThrownBy(t, i) == [p \in Player |-> Thrown(t[p], i)]
Making(w, i) == SumOf(OwedBy(w, i), Player)
Throwing(t, i) == SumOf(ThrownBy(t, i), Player)
Picked(k, i) == IF k # Idle /\ k.item = i THEN k.left ELSE 0
Account(a, g, n, k, w, t, i) ==
    Total(a, i) + InBag(g, i) + n[i] + Picked(k, i) - Making(w, i) - Throwing(t, i)

\* Every action leaves the account of every item as it is, or spoils it.
Balanced == \A i \in Item : Account(at', ground', built', pick', pending', tossed', i)
                                = Account(at, ground, built, pick, pending, tossed, i)

LEMMA AmountIs ==
    ASSUME NEW i
    PROVE  /\ Amount(i) = Account(at, ground, built, pick, pending, tossed, i)
           /\ Amount(i)' = Account(at', ground', built', pick', pending', tossed', i)
BY DEF Amount, Account, Making, Throwing, Picked, OwedBy, ThrownBy

LEMMA BalanceKeeps ==
    ASSUME ItemsConserved, ~spoilt, supply' = supply, spoilt' \/ Balanced
    PROVE  ItemsConserved'
<1> SUFFICES ASSUME ~spoilt', NEW i \in Item PROVE Amount(i)' = supply'[i]
  BY DEF ItemsConserved
<1> QED
  BY AmountIs DEF ItemsConserved, Balanced

LEMMA OwedType ==
    ASSUME NEW p \in Player, NEW r, IsWaiting(r, p), NEW i
    PROVE  /\ Owed(r, i) \in Int
           /\ r.kind \in {"idle", "drop"} => Owed(r, i) = 0
           /\ r.kind = "place" => Owed(r, i) = IF r.item = i THEN 1 ELSE 0
           /\ r.kind = "dig" => Owed(r, i) = InBag(r.poured, i)
<1>1. r.kind = "dig" => InBag(r.poured, i) \in Int
  BY WaitingKinds, InBagType DEF IsDigging
<1>2. r.kind = "idle" \/ r.kind = "drop" \/ r.kind = "place" \/ r.kind = "dig"
  BY WaitingKinds
<1> QED
  BY <1>1, <1>2 DEF Owed

\* A value of one player changes.
LEMMA PlayersSum ==
    \A f, g \in [Player -> Int] : \A p \in Player :
        (\A q \in Player : q # p => g[q] = f[q])
            => SumOf(g, Player) = SumOf(f, Player) - f[p] + g[p]
<1> SUFFICES ASSUME NEW f \in [Player -> Int], NEW g \in [Player -> Int], NEW p \in Player,
                    \A q \in Player : q # p => g[q] = f[q]
             PROVE  SumOf(g, Player) = SumOf(f, Player) - f[p] + g[p]
  OBVIOUS
<1>1. IsFiniteSet(Player)
  BY InventoriesAssumption
<1> QED
  BY <1>1, SumChangeAt

LEMMA MakingOne ==
    ASSUME NEW w, AreWaiting(w), NEW v, AreWaiting(v), NEW p \in Player, NEW i,
           \A q \in Player : q # p => v[q] = w[q]
    PROVE  /\ Making(v, i) = Making(w, i) - Owed(w[p], i) + Owed(v[p], i)
           /\ Making(w, i) \in Int /\ Owed(w[p], i) \in Int /\ Owed(v[p], i) \in Int
<1>1. OwedBy(w, i) \in [Player -> Int] /\ OwedBy(v, i) \in [Player -> Int]
  BY OwedType DEF OwedBy, AreWaiting
<1>2. OwedBy(w, i)[p] = Owed(w[p], i) /\ OwedBy(v, i)[p] = Owed(v[p], i)
      /\ \A q \in Player : q # p => OwedBy(v, i)[q] = OwedBy(w, i)[q]
  BY DEF OwedBy
<1>3. IsFiniteSet(Player)
  BY InventoriesAssumption
<1>4. SumOf(OwedBy(v, i), Player) = SumOf(OwedBy(w, i), Player) - OwedBy(w, i)[p] + OwedBy(v, i)[p]
  BY <1>1, <1>2, PlayersSum
<1>5. SumOf(OwedBy(w, i), Player) \in Int
  BY <1>1, <1>3, SumType
<1> QED
  BY <1>1, <1>2, <1>4, <1>5 DEF Making

LEMMA MakingSame ==
    ASSUME NEW w, NEW v, NEW i, \A q \in Player : Owed(v[q], i) = Owed(w[q], i)
    PROVE  Making(v, i) = Making(w, i)
BY DEF Making, OwedBy

LEMMA ThrowingOne ==
    ASSUME NEW t \in [Player -> Seq(Entity)], NEW u \in [Player -> Seq(Entity)], NEW p \in Player, NEW i,
           \A q \in Player : q # p => u[q] = t[q]
    PROVE  /\ Throwing(u, i) = Throwing(t, i) - Thrown(t[p], i) + Thrown(u[p], i)
           /\ Throwing(t, i) \in Int /\ Thrown(t[p], i) \in Int /\ Thrown(u[p], i) \in Int
<1> DEFINE f == ThrownBy(t, i)
           g == ThrownBy(u, i)
<1>1. f \in [Player -> Int] /\ g \in [Player -> Int]
  BY ThrownType DEF ThrownBy
<1>2. f[p] = Thrown(t[p], i) /\ g[p] = Thrown(u[p], i) /\ \A q \in Player : q # p => g[q] = f[q]
  BY DEF ThrownBy
<1>3. IsFiniteSet(Player)
  BY InventoriesAssumption
<1>4. Throwing(t, i) = SumOf(f, Player) /\ Throwing(u, i) = SumOf(g, Player)
  BY DEF Throwing
<1> HIDE DEF f, g
<1>5. SumOf(g, Player) = SumOf(f, Player) - f[p] + g[p]
  BY <1>1, <1>2, PlayersSum
<1>6. SumOf(f, Player) \in Int
  BY <1>1, <1>3, SumType
<1>7. f[p] \in Int /\ g[p] \in Int
  BY <1>1
<1> QED
  BY <1>2, <1>4, <1>5, <1>6, <1>7

\* The parts of an account are whole numbers.
LEMMA AccountType ==
    ASSUME ItemsType, NEW i \in Item
    PROVE  /\ Total(at, i) \in Int /\ InBag(ground, i) \in Int /\ built[i] \in Int
           /\ Picked(pick, i) \in Int /\ Making(pending, i) \in Int /\ Throwing(tossed, i) \in Int
<1>1. Total(at, i) \in Int /\ InBag(ground, i) \in Int /\ built[i] \in Int
  BY TotalType, InBagType DEF ItemsType
<1>2. Picked(pick, i) \in Int
  BY DEF ItemsType, Picked, Picking
<1>3. IsFiniteSet(Player)
  BY InventoriesAssumption
<1>4. OwedBy(pending, i) \in [Player -> Int]
  BY OwedType DEF OwedBy, ItemsType, AreWaiting
<1>5. ThrownBy(tossed, i) \in [Player -> Int]
  BY ThrownType DEF ThrownBy, ItemsType
<1> QED
  BY <1>1, <1>2, <1>3, <1>4, <1>5, SumType DEF Making, Throwing

-------------------------------------------------------------------------------
(* One step after the other.                                               *)

\* What p is sent replaces what was shown to it; the rest stays.
LEMMA ShownOne ==
    ASSUME NEW s, s = [q \in Player |-> s[q]], NEW p \in Player, NEW x
    PROVE  /\ [s EXCEPT ![p] = x] = [q \in Player |-> [s EXCEPT ![p] = x][q]]
           /\ [s EXCEPT ![p] = x][p] = x
           /\ \A q \in Player : q # p => [s EXCEPT ![p] = x][q] = s[q]
OBVIOUS

LEMMA AnswerShows ==
    ASSUME ItemsType, NEW p \in Player, Answer(p)
    PROVE  /\ shown' = [q \in Player |-> shown'[q]]
           /\ shown'[p] \subseteq {View(at', p)}
           /\ \A q \in Player : q # p => shown'[q] = shown[q]
<1> DEFINE x == IF window[p] = "chest" /\ ~chest THEN {} ELSE {View(at', p)}
<1>1. shown' = [shown EXCEPT ![p] = x] /\ x \subseteq {View(at', p)}
  BY DEF Answer
<1> HIDE DEF x
<1>2. shown = [q \in Player |-> shown[q]]
  BY DEF ItemsType
<1> QED
  BY <1>1, <1>2, ShownOne

LEMMA RenumberShows ==
    ASSUME ItemsType, NEW p \in Player, Renumber(p)
    PROVE  /\ shown' = [q \in Player |-> shown'[q]]
           /\ shown'[p] = {}
           /\ \A q \in Player : q # p => shown'[q] = shown[q]
BY ShownOne DEF Renumber, ItemsType

\* A click that moves items and answers.
LEMMA ClickKeeps ==
    ASSUME ItemsInv, ~spoilt, NEW p \in Player, Ready(p), Moved(at, at', p), Clicked(p)
    PROVE  ItemsInv'
<1>1. ItemsType /\ at \in [Place -> Stack] /\ at' \in [Place -> Stack]
  BY DEF ItemsInv, ItemsType, Moved
<1>2. /\ UNCHANGED <<ground, built, chest, window, selected, tossed, pending, pick, listed>>
      /\ UNCHANGED <<online, creative, supply, spoilt>> /\ Answer(p)
  BY DEF Clicked, world, hands, loop, people
<1>3. ItemsType'
  <2>1. shown' = [q \in Player |-> shown'[q]]
    BY <1>1, <1>2, AnswerShows
  <2> QED
    BY <1>1, <1>2, <2>1 DEF ItemsType
<1>4. Holders(at', pending')
  <2>1. Holders(at, pending)
    BY DEF ItemsInv
  <2>2. Holders(at', pending)
    BY <1>1, <2>1, HoldersStay DEF Moved
  <2> QED
    BY <1>2, <2>2
<1>5. GoneIsEmpty(at', chest')
  BY <1>2, Kinds DEF ItemsInv, GoneIsEmpty, Moved, Reach
<1>6. Informed(at', pending', shown')
  <2>1. \A l \in Place \ Reach(p) : at'[l].item = at[l].item /\ at'[l].count = at[l].count
    BY DEF Moved
  <2>2. \A q \in Player : q # p => shown'[q] = shown[q] /\ (pending'[q].kind = "drop" <=> pending[q].kind = "drop")
    BY <1>1, <1>2, AnswerShows
  <2>3. shown'[p] \subseteq {View(at', p)}
    BY <1>1, <1>2, AnswerShows
  <2>4. Informed(at, pending, shown)
    BY DEF ItemsInv
  <2> QED
    BY <2>1, <2>2, <2>3, <2>4, InformedOthers
<1>7. ItemsConserved'
  <2>1. Balanced
    BY <1>2 DEF Balanced, Account, Moved
  <2> QED
    BY <1>2, <2>1, BalanceKeeps DEF ItemsInv
<1> QED
  BY <1>3, <1>4, <1>5, <1>6, <1>7 DEF ItemsInv

LEMMA BasicKeeps ==
    ASSUME ItemsInv, ~spoilt, NEW p \in Player, ClickBasic(p)
    PROVE  ItemsInv'
<1>1. window[p] \in Windows /\ at \in [Place -> Stack]
  BY DEF ItemsInv, ItemsType
<1>2. PICK l \in Locations(p, window[p]) : (at' = LeftClick(at, p, l) \/ at' = RightClick(at, p, l)) /\ Clicked(p)
  BY DEF ClickBasic
<1>3. l \in Clickable(p)
  BY <1>1, <1>2, LocationsIn
<1>4. Moved(at, at', p)
  BY <1>1, <1>2, <1>3, LeftMoves, RightMoves
<1> QED
  BY <1>2, <1>4, ClickKeeps DEF ClickBasic

LEMMA ShiftKeeps ==
    ASSUME ItemsInv, ~spoilt, NEW p \in Player, ClickShift(p)
    PROVE  ItemsInv'
<1>1. window[p] \in Windows /\ at \in [Place -> Stack]
  BY DEF ItemsInv, ItemsType
<1>2. PICK l \in Locations(p, window[p]) : at' = ShiftClick(at, p, window[p], l) /\ Clicked(p)
  BY DEF ClickShift
<1>3. Moved(at, at', p)
  BY <1>1, <1>2, ShiftMoves
<1> QED
  BY <1>2, <1>3, ClickKeeps DEF ClickShift

LEMMA NumberKeyKeeps ==
    ASSUME ItemsInv, ~spoilt, NEW p \in Player, ClickNumberKey(p)
    PROVE  ItemsInv'
<1>1. window[p] \in Windows /\ at \in [Place -> Stack]
  BY DEF ItemsInv, ItemsType
<1>0. PICK h \in ToSet(Hotbar) :
          \E l \in Locations(p, window[p]) \ {<<p, h>>} : at' = NumberKey(at, p, l, h) /\ Clicked(p)
  BY DEF ClickNumberKey
<1>2. PICK l \in Locations(p, window[p]) \ {<<p, h>>} : at' = NumberKey(at, p, l, h) /\ Clicked(p)
  BY <1>0
<1>3. l \in Clickable(p) /\ l # <<p, h>>
  BY <1>1, <1>2, LocationsIn
<1>4. Moved(at, at', p)
  BY <1>1, <1>2, <1>3, NumberKeyMoves
<1> QED
  BY <1>2, <1>4, ClickKeeps DEF ClickNumberKey

LEMMA PairOrdered ==
    ASSUME NEW S, NEW some \in kSubset(2, S), NEW order \in SetToSeqs(some)
    PROVE  order \in Seq(S) /\ Len(order) # 0
<1>1. some \in SUBSET S /\ Cardinality(some) = 2
  BY DEF kSubset
<1>2. order \in [1..Cardinality(some) -> some]
  BY DEF SetToSeqs
<1>3. order \in [1..2 -> some]
  BY <1>1, <1>2
<1>4. order \in Seq(some) /\ Len(order) = 2
  <2>1. order \in UNION {[1..n -> some] : n \in Nat}
    BY <1>3
  <2>2. order \in Seq(some)
    BY <2>1, SeqDef
  <2>3. DOMAIN order = 1..2
    BY <1>3
  <2> QED
    BY <2>2, <2>3
<1> QED
  BY <1>1, <1>4

LEMMA DragKeeps ==
    ASSUME ItemsInv, ~spoilt, NEW p \in Player, DragEnd(p)
    PROVE  ItemsInv'
<1>1. window[p] \in Windows /\ at \in [Place -> Stack]
  BY DEF ItemsInv, ItemsType
<1>0. PICK even \in BOOLEAN, some \in kSubset(2, Locations(p, window[p])) :
          \E order \in SetToSeqs(some) : at' = DragOver(at, p, order, even) /\ Clicked(p)
  BY DEF DragEnd
<1>2. PICK order \in SetToSeqs(some) : at' = DragOver(at, p, order, even) /\ Clicked(p)
  BY <1>0
<1>3. order \in Seq(Locations(p, window[p])) /\ Len(order) # 0
  BY <1>2, PairOrdered
<1>4. Locations(p, window[p]) \subseteq Clickable(p)
  BY <1>1, LocationsIn
<1>5. order \in Seq(Clickable(p))
  BY <1>3, <1>4
<1>6. ~IsEmpty(at[<<p, Cursor>>])
  BY DEF DragEnd
<1>7. Moved(at, at', p)
  BY <1>1, <1>2, <1>3, <1>5, <1>6, DragMoves
<1> QED
  BY <1>2, <1>7, ClickKeeps DEF DragEnd

\* Creative mode spoils the account; the rest stays true.
LEMMA PickBlockKeeps ==
    ASSUME ItemsInv, ~spoilt, NEW p \in Player, ClickPickBlock(p)
    PROVE  ItemsInv'
<1> DEFINE m == <<p, Cursor>>
<1>1. ItemsType /\ window[p] \in Windows /\ at \in [Place -> Stack]
  BY DEF ItemsInv, ItemsType
<1>2. PICK l \in Locations(p, window[p]) :
          /\ ~IsEmpty(at[l]) /\ at' = [at EXCEPT ![m] = Fresh(at[l].item, MaxStack[at[l].item])]
          /\ Answer(p)
  BY DEF ClickPickBlock
<1>3. /\ UNCHANGED <<ground, built, chest, window, selected, tossed, pending, pick, listed>>
      /\ UNCHANGED <<online, creative, supply>> /\ spoilt'
  BY DEF ClickPickBlock, world, hands, loop, people
<1>4. l \in Place /\ m \in Place /\ m[1] = p /\ m[2] = Cursor
  BY <1>1, <1>2, LocationsIn, ReachIn DEF Clickable, Reach
<1>5. at[l].item \in Item /\ MaxStack[at[l].item] \in Nat
  BY <1>1, <1>2, <1>4, StackFields DEF IsEmpty
<1>6. /\ at' \in [Place -> Stack] /\ at'[m].by = {} /\ \A k \in Place : k # m => at'[k] = at[k]
  <2> DEFINE s == Fresh(at[l].item, MaxStack[at[l].item])
  <2>1. s \in Stack /\ s.by = {}
    BY <1>5, FreshIn
  <2>2. at' = [at EXCEPT ![m] = s]
    BY <1>2
  <2> HIDE DEF s, m
  <2> QED
    BY <1>1, <1>4, <2>1, <2>2
<1> HIDE DEF m
<1>7. ItemsType'
  <2>1. shown' = [q \in Player |-> shown'[q]]
    BY <1>1, <1>2, AnswerShows
  <2> QED
    BY <1>1, <1>3, <1>6, <2>1 DEF ItemsType
<1>8. Holders(at', pending')
  <2>1. Holders(at, pending)
    BY DEF ItemsInv
  <2>2. \A k \in Place : at'[k].by \subseteq at[k].by
    BY <1>6
  <2>3. \A k \in Place : at'[k].count = 0 /\ k[2] # Cursor => at'[k] = at[k] \/ at'[k] = Nothing
    BY <1>4, <1>6
  <2>4. Holders(at', pending)
    BY <1>1, <1>6, <2>1, <2>2, <2>3, HoldersKept, HoldersStay
  <2> QED
    BY <1>3, <2>4
<1>9. GoneIsEmpty(at', chest')
  BY <1>3, <1>4, <1>6, Kinds DEF ItemsInv, GoneIsEmpty
<1>10. Informed(at', pending', shown')
  <2>1. \A k \in Place \ Reach(p) : at'[k].item = at[k].item /\ at'[k].count = at[k].count
    BY <1>4, <1>6 DEF Reach
  <2>2. \A q \in Player : q # p => shown'[q] = shown[q] /\ (pending'[q].kind = "drop" <=> pending[q].kind = "drop")
    BY <1>1, <1>2, <1>3, AnswerShows
  <2>3. shown'[p] \subseteq {View(at', p)}
    BY <1>1, <1>2, AnswerShows
  <2>4. Informed(at, pending, shown)
    BY DEF ItemsInv
  <2> QED
    BY <2>1, <2>2, <2>3, <2>4, InformedOthers
<1>11. ItemsConserved'
  BY <1>3 DEF ItemsConserved
<1> QED
  BY <1>7, <1>8, <1>9, <1>10, <1>11 DEF ItemsInv

\* A drop holds the object it found, which has n less.
Rest(s, n, p) == [item |-> s.item, count |-> s.count - n, by |-> s.by \cup {p}]

LEMMA RestIs ==
    ASSUME NEW s \in Stack, NEW n, NEW p
    PROVE  [Minus(s, n) EXCEPT !.by = @ \cup {p}] = Rest(s, n, p)
<1> DEFINE r == [item |-> s.item, count |-> s.count - n, by |-> s.by]
<1>1. Minus(s, n) = r
  BY StackFields DEF Minus
<1>2. [r EXCEPT !.by = @ \cup {p}] = Rest(s, n, p)
  BY DEF Rest
<1> HIDE DEF r
<1> QED
  BY <1>1, <1>2

LEMMA RestIn ==
    ASSUME NEW s \in Stack, NEW n \in Nat, n <= s.count, n # 0, NEW p \in Player
    PROVE  /\ Rest(s, n, p) \in Stack /\ Rest(s, n, p).by = s.by \cup {p} /\ Rest(s, n, p).item = s.item
           /\ [item |-> s.item, count |-> n] \in Entity
           /\ \A i \in Item : Of(Rest(s, n, p), i) + Of([item |-> s.item, count |-> n], i) = Of(s, i)
<1>1. /\ s.count \in Nat /\ s.item \in Item /\ s.count <= MaxStack[s.item] /\ MaxStack[s.item] \in Nat
      /\ s.by \in SUBSET Player
  BY StackFields
<1>2. s.count - n \in Nat /\ s.count - n <= MaxStack[s.item] /\ s.item # NoItem
  BY <1>1, InventoriesAssumption
<1>3. s.by \cup {p} \in SUBSET Player
  BY <1>1
<1>4. Rest(s, n, p) \in Stack
  BY <1>1, <1>2, <1>3 DEF Stack, Rest
<1>5. [item |-> s.item, count |-> n] \in Entity
  BY <1>1 DEF Entity
<1>6. \A i \in Item : Of(Rest(s, n, p), i) + Of([item |-> s.item, count |-> n], i) = Of(s, i)
  BY <1>1 DEF Of, Rest
<1> QED
  BY <1>4, <1>5, <1>6 DEF Rest

LEMMA DropKeeps ==
    ASSUME ItemsInv, ~spoilt, NEW p \in Player, DropStack(p)
    PROVE  ItemsInv'
<1>1. ItemsType /\ window[p] \in Windows /\ at \in [Place -> Stack] /\ IsEntities(ground) /\ AreWaiting(pending)
  BY DEF ItemsInv, ItemsType
<1>2. PICK all \in BOOLEAN, l \in Locations(p, window[p]) \cup {<<p, Cursor>>} :
          LET s == at[l]
              n == IF all THEN s.count ELSE 1
          IN /\ ~IsEmpty(s)
             /\ at' = [at EXCEPT ![l] = [Minus(s, n) EXCEPT !.by = @ \cup {p}]]
             /\ ground' = ground (+) SetToBag({[item |-> s.item, count |-> n]})
             /\ pending' = [pending EXCEPT ![p] = [kind |-> "drop", from |-> l, kept |-> FALSE]]
  BY DEF DropStack
<1> DEFINE s == at[l]
           n == IF all THEN s.count ELSE 1
           t == Rest(s, n, p)
           e == [item |-> s.item, count |-> n]
           d == [kind |-> "drop", from |-> l, kept |-> FALSE]
<1>3. l \in Reach(p) /\ l \in Place /\ l[1] \in {p, Shared}
  <2>1. l \in Reach(p)
    BY <1>1, LocationsIn, ReachIn DEF Clickable
  <2> QED
    BY <2>1 DEF Reach
<1>4. /\ UNCHANGED <<built, chest, window, selected, tossed, pick, listed>>
      /\ UNCHANGED <<online, creative, supply, shown, spoilt>>
  BY DEF DropStack, hands, loop, people
<1>5. pending[p] = Idle /\ pending[p].kind = "idle"
  BY DEF DropStack, Ready, Idle
<1>6. s \in Stack /\ s.count \in Nat /\ n \in Nat /\ n <= s.count /\ n # 0
  <2>1. s \in Stack
    BY <1>1, <1>3
  <2>2. s.count \in Nat /\ s.count # 0
    BY <1>2, <2>1, StackFields DEF IsEmpty
  <2> QED
    BY <2>1, <2>2
<1>7. /\ t \in Stack /\ t.by = s.by \cup {p} /\ t.item = s.item /\ e \in Entity
      /\ \A i \in Item : Of(t, i) + Of(e, i) = Of(s, i)
  <2> HIDE DEF s, n
  <2> QED
    BY <1>6, RestIn
<1>8. at' = [at EXCEPT ![l] = t] /\ ground' = ground (+) SetToBag({e}) /\ pending' = [pending EXCEPT ![p] = d]
  <2>1. [Minus(s, n) EXCEPT !.by = @ \cup {p}] = t
    BY <1>6, RestIs
  <2> QED
    BY <1>2, <2>1
<1>9. d \in Dropping(p) /\ IsWaiting(d, p) /\ d.kind = "drop" /\ d.from = l
  BY <1>3 DEF Dropping, IsWaiting
<1> HIDE DEF t, e, d, n
<1>10. at' \in [Place -> Stack] /\ at'[l] = t /\ \A k \in Place : k # l => at'[k] = at[k]
  BY <1>1, <1>3, <1>7, <1>8
<1>11. IsEntities(ground') /\ \A i \in Item : InBag(ground', i) = InBag(ground, i) + Of(e, i)
  BY <1>1, <1>7, <1>8, BagPlus
<1>12. AreWaiting(pending') /\ pending'[p] = d /\ \A q \in Player : q # p => pending'[q] = pending[q]
  <2>1. GoesOn(pending, pending', p, d)
    BY <1>8 DEF GoesOn
  <2> QED
    BY <1>1, <1>9, <2>1, WaitingOne
<1>13. ItemsType'
  BY <1>1, <1>4, <1>10, <1>11, <1>12 DEF ItemsType
<1>14. Holders(at', pending')
  <2>1. Holders(at, pending)
    BY DEF ItemsInv
  <2>2. \A k \in Place : p \notin at[k].by
    BY <1>5, <2>1 DEF Holders
  <2>3. \A q \in Player : \A k \in Place : q \in at'[k].by => pending'[q].kind = "drop"
    BY <1>7, <1>9, <1>10, <1>12, <2>1 DEF Holders
  <2>4. OneHolder(at')
    BY <1>7, <1>10, <2>1, <2>2 DEF Holders, OneHolder
  <2>5. ASSUME NEW k \in Place, at'[k].count = 0, k[2] # Cursor
        PROVE  at'[k] = Nothing \/ \E q \in Player : q \in at'[k].by /\ pending'[q].from = k
    BY <1>7, <1>9, <1>10, <1>12, <2>1, <2>2, <2>5 DEF Holders
  <2> QED
    BY <2>3, <2>4, <2>5 DEF Holders
<1>15. GoneIsEmpty(at', chest')
  BY <1>3, <1>4, <1>10, Kinds DEF ItemsInv, GoneIsEmpty, Reach
<1>16. Informed(at', pending', shown')
  <2>1. \A k \in Place \ Reach(p) : at'[k].item = at[k].item /\ at'[k].count = at[k].count
    BY <1>3, <1>10
  <2>2. Informed(at, pending, shown)
    BY DEF ItemsInv
  <2>3. \A q \in Player : q # p => shown'[q] = shown[q] /\ (pending'[q].kind = "drop" <=> pending[q].kind = "drop")
    BY <1>4, <1>12
  <2>4. pending'[p].kind = "drop"
    BY <1>9, <1>12
  <2> QED
    BY <2>1, <2>2, <2>3, <2>4, InformedOthers
<1>17. ASSUME NEW i \in Item
       PROVE  Account(at', ground', built', pick', pending', tossed', i)
                  = Account(at, ground, built, pick, pending, tossed, i)
  <2>1. Total(at', i) = Total(at, i) - Of(s, i) + Of(t, i)
    <3>1. Total(at', i) = Total(at, i) - Of(at[l], i) + Of(at'[l], i)
      BY <1>1, <1>3, <1>10, TotalSet
    <3> QED
      BY <1>10, <3>1
  <2>2. Making(pending', i) = Making(pending, i) - Owed(pending[p], i) + Owed(pending'[p], i)
    BY <1>1, <1>12, MakingOne
  <2>3. Owed(pending[p], i) = 0 /\ Owed(pending'[p], i) = 0
    BY <1>1, <1>5, <1>9, <1>12, OwedType DEF AreWaiting
  <2>4. Of(t, i) \in Int /\ Of(e, i) \in Int /\ Of(s, i) \in Int
    BY <1>6, <1>7, StackFields, EntityOf
  <2>5. Of(t, i) + Of(e, i) = Of(s, i)
    BY <1>7
  <2>6. /\ Total(at, i) \in Int /\ InBag(ground, i) \in Int /\ built[i] \in Int
        /\ Picked(pick, i) \in Int /\ Making(pending, i) \in Int /\ Throwing(tossed, i) \in Int
    BY <1>1, AccountType
  <2>7. InBag(ground', i) = InBag(ground, i) + Of(e, i)
    BY <1>11
  <2> HIDE DEF s
  <2> QED
    BY <1>4, <2>1, <2>2, <2>3, <2>4, <2>5, <2>6, <2>7 DEF Account
<1>18. ItemsConserved'
  <2>1. Balanced
    BY <1>17 DEF Balanced
  <2> QED
    BY <1>4, <2>1, BalanceKeeps DEF ItemsInv
<1> QED
  BY <1>13, <1>14, <1>15, <1>16, <1>18 DEF ItemsInv

\* A drop that is done holds its object no more.
Freed(s, p) == [item |-> s.item, count |-> s.count, by |-> s.by \ {p}]

LEMMA FreedIn ==
    ASSUME NEW s \in Stack, NEW p
    PROVE  /\ [s EXCEPT !.by = @ \ {p}] = Freed(s, p) /\ Freed(s, p) \in Stack
           /\ Freed(s, p).item = s.item /\ Freed(s, p).count = s.count /\ Freed(s, p).by = s.by \ {p}
           /\ s = Nothing => Freed(s, p) = Nothing
<1>1. s = [item |-> s.item, count |-> s.count, by |-> s.by] /\ s.by \in SUBSET Player
  BY StackFields
<1>2. [s EXCEPT !.by = @ \ {p}] = Freed(s, p)
  <2> DEFINE r == [item |-> s.item, count |-> s.count, by |-> s.by]
  <2>1. [r EXCEPT !.by = @ \ {p}] = Freed(s, p)
    BY DEF Freed
  <2> HIDE DEF r
  <2> QED
    BY <1>1, <2>1 DEF r
<1>3. Freed(s, p) \in Stack
  <2>1. s.by \ {p} \in SUBSET Player
    BY <1>1
  <2> QED
    BY <2>1 DEF Stack, Freed
<1>4. s = Nothing => Freed(s, p) = Nothing
  BY DEF Freed, Nothing
<1> QED
  BY <1>2, <1>3, <1>4 DEF Freed

LEMMA TotalSame ==
    ASSUME NEW a, NEW b, NEW i, \A l \in Place : Of(b[l], i) = Of(a[l], i)
    PROVE  Total(b, i) = Total(a, i)
BY DEF Total

LEMMA DropDoneKeeps ==
    ASSUME ItemsInv, ~spoilt, NEW p \in Player, DropDone(p)
    PROVE  ItemsInv'
<1> DEFINE from == pending[p].from
           held == {l \in Place : p \in at[l].by}
           gone == IF held = {} THEN ~pending[p].kept ELSE \A l \in held : IsEmpty(at[l])
           erase == gone /\ (from[1] = Shared => chest)
<1>1. ItemsType /\ at \in [Place -> Stack] /\ AreWaiting(pending)
  BY DEF ItemsInv, ItemsType
<1>2. /\ UNCHANGED <<ground, built, chest, window, selected, tossed, pick, listed>>
      /\ UNCHANGED <<online, creative, supply>> /\ Answer(p)
      /\ pending' = [pending EXCEPT ![p] = Idle] /\ spoilt' = (erase /\ ~IsEmpty(at[from]))
  BY DEF DropDone, world, hands, loop, people
<1>3. at' = [l \in Place |-> IF l = from /\ erase THEN Nothing ELSE [at[l] EXCEPT !.by = @ \ {p}]]
  BY DEF DropDone
<1>4. pending[p].kind = "drop" /\ from \in Place /\ from[1] \in {p, Shared}
  <2>1. pending[p].kind = "drop"
    BY DEF DropDone
  <2>2. pending[p] \in Dropping(p)
    BY <1>1, <2>1, WaitingKinds DEF AreWaiting
  <2> QED
    BY <2>1, <2>2 DEF Dropping
<1>5. held # {} => (gone <=> \A l \in held : IsEmpty(at[l]))
  OBVIOUS
<1> HIDE DEF gone
<1>6. \A l \in Place : at'[l] = IF l = from /\ erase THEN Nothing ELSE Freed(at[l], p)
  BY <1>1, <1>3, FreedIn
<1>7. at' \in [Place -> Stack]
  <2>1. \A l \in Place : at'[l] \in Stack
    BY <1>1, <1>6, FreedIn, NothingIn
  <2>2. at' = [l \in Place |-> at'[l]]
    BY <1>3
  <2> QED
    BY <2>1, <2>2
<1>8. AreWaiting(pending') /\ pending'[p] = Idle /\ \A q \in Player : q # p => pending'[q] = pending[q]
  <2>1. GoesOn(pending, pending', p, Idle)
    BY <1>2 DEF GoesOn
  <2>2. IsWaiting(Idle, p)
    BY DEF IsWaiting
  <2> QED
    BY <1>1, <2>1, <2>2, WaitingOne
<1>9. ItemsType'
  <2>1. shown' = [q \in Player |-> shown'[q]]
    BY <1>1, <1>2, AnswerShows
  <2> QED
    BY <1>1, <1>2, <1>7, <1>8, <2>1 DEF ItemsType
<1>10. \A l \in Place : at'[l].by \subseteq at[l].by \ {p}
  BY <1>1, <1>6, FreedIn, NothingIn
<1>11. Holders(at', pending')
  <2>1. Holders(at, pending)
    BY DEF ItemsInv
  <2>2. \A q \in Player : \A l \in Place : q \in at'[l].by => pending'[q].kind = "drop"
    BY <1>8, <1>10, <2>1 DEF Holders
  <2>3. OneHolder(at')
    BY <1>10, <2>1 DEF Holders, OneHolder
  <2>4. ASSUME NEW l \in Place, at'[l].count = 0, l[2] # Cursor, at'[l] # Nothing
        PROVE  \E q \in Player : q \in at'[l].by /\ pending'[q].from = l
    <3>1. ~(l = from /\ erase) /\ at'[l] = Freed(at[l], p)
      BY <1>6, <2>4
    <3>2. at[l].count = 0 /\ at[l] # Nothing /\ at'[l].by = at[l].by \ {p}
      BY <1>1, <2>4, <3>1, FreedIn
    <3>3. PICK q \in Player : q \in at[l].by /\ pending[q].from = l
      BY <2>1, <2>4, <3>2 DEF Holders
    <3>4. q # p
      <4> SUFFICES ASSUME q = p PROVE FALSE
        OBVIOUS
      <4>1. l \in held /\ l = from
        BY <3>3
      <4>2. \A m \in held : m = l
        BY <2>1, <3>3 DEF Holders, OneHolder
      <4>3. gone
        BY <1>5, <3>2, <4>1, <4>2 DEF IsEmpty
      <4>4. l[1] = Shared => chest
        BY <3>2 DEF ItemsInv, GoneIsEmpty
      <4> QED
        BY <3>1, <4>1, <4>3, <4>4
    <3> QED
      BY <1>8, <3>2, <3>3, <3>4
  <2> QED
    BY <2>2, <2>3, <2>4 DEF Holders
<1>12. GoneIsEmpty(at', chest')
  <2>1. ASSUME ~chest, NEW l \in Place, l[1] = Shared PROVE at'[l] = Nothing
    <3>1. at[l] = Nothing
      BY <2>1 DEF ItemsInv, GoneIsEmpty
    <3> QED
      BY <1>1, <1>6, <3>1, FreedIn
  <2> QED
    BY <1>2, <2>1 DEF GoneIsEmpty
<1>13. \A l \in Place : ~(l = from /\ erase) => at'[l].item = at[l].item /\ at'[l].count = at[l].count
  BY <1>1, <1>6, FreedIn
<1>14. Informed(at', pending', shown')
  <2>1. erase => from \in Reach(p)
    BY <1>4 DEF Reach
  <2>2. \A l \in Place \ Reach(p) : at'[l].item = at[l].item /\ at'[l].count = at[l].count
    BY <1>13, <2>1
  <2>3. \A q \in Player : q # p => shown'[q] = shown[q] /\ (pending'[q].kind = "drop" <=> pending[q].kind = "drop")
    BY <1>1, <1>2, <1>8, AnswerShows
  <2>4. shown'[p] \subseteq {View(at', p)}
    BY <1>1, <1>2, AnswerShows
  <2>5. Informed(at, pending, shown)
    BY DEF ItemsInv
  <2> QED
    BY <2>2, <2>3, <2>4, <2>5, InformedOthers
<1>15. ASSUME ~spoilt', NEW i \in Item
       PROVE  Account(at', ground', built', pick', pending', tossed', i)
                  = Account(at, ground, built, pick, pending, tossed, i)
  <2>1. \A l \in Place : Of(at'[l], i) = Of(at[l], i)
    <3> SUFFICES ASSUME NEW l \in Place PROVE Of(at'[l], i) = Of(at[l], i)
      OBVIOUS
    <3>1. CASE l = from /\ erase
      <4>1. at'[l] = Nothing /\ IsEmpty(at[l]) /\ at[l] \in Stack
        BY <1>1, <1>2, <1>6, <1>15, <3>1
      <4> QED
        BY <4>1, NothingIn, StackFields
    <3>2. CASE ~(l = from /\ erase)
      BY <1>13, <3>2 DEF Of
    <3> QED
      BY <3>1, <3>2
  <2>2. Total(at', i) = Total(at, i)
    BY <2>1, TotalSame
  <2>3. Making(pending', i) = Making(pending, i) - Owed(pending[p], i) + Owed(pending'[p], i) /\ Making(pending, i) \in Int
    BY <1>1, <1>8, MakingOne
  <2>4. Owed(pending[p], i) = 0 /\ Owed(pending'[p], i) = 0
    BY <1>1, <1>4, <1>8, OwedType DEF AreWaiting, Idle
  <2> QED
    BY <1>2, <2>2, <2>3, <2>4 DEF Account
<1>16. ItemsConserved'
  <2>1. spoilt' \/ Balanced
    BY <1>15 DEF Balanced
  <2> QED
    BY <1>2, <2>1, BalanceKeeps DEF ItemsInv
<1> QED
  BY <1>9, <1>11, <1>12, <1>14, <1>16 DEF ItemsInv

LEMMA HandIn ==
    ASSUME ItemsType, NEW p \in Player
    PROVE  <<p, selected[p]>> \in Place /\ <<p, selected[p]>> \in Reach(p) /\ at[<<p, selected[p]>>] \in Stack
<1>1. selected[p] \in InventorySlots
  BY Kinds DEF ItemsType
<1> QED
  BY <1>1, PlaceIs DEF Reach, ItemsType

\* Nothing changes in the slots, nor what is waiting in them.
LEMMA SlotsStay ==
    ASSUME ItemsInv, UNCHANGED <<at, pending, chest>>
    PROVE  Holders(at', pending') /\ GoneIsEmpty(at', chest')
BY DEF ItemsInv

LEMMA TossKeeps ==
    ASSUME ItemsInv, ~spoilt, NEW p \in Player, TossHeld(p)
    PROVE  ItemsInv'
<1> DEFINE s == at[<<p, selected[p]>>]
           e == [item |-> s.item, count |-> s.count]
<1>1. ItemsType /\ IsEntities(ground) /\ tossed \in [Player -> Seq(Entity)]
  BY DEF ItemsInv, ItemsType
<1>2. /\ UNCHANGED <<at, built, window, chest, pending, selected, pick, listed>>
      /\ UNCHANGED <<online, creative, supply, shown, spoilt>>
      /\ tossed' = [tossed EXCEPT ![p] = Append(@, e)] /\ ground' = ground (+) SetToBag({e}) /\ ~IsEmpty(s)
  BY DEF TossHeld, loop, people
<1>3. e \in Entity
  <2>1. s \in Stack
    BY <1>1, HandIn
  <2>2. s.item \in Item /\ s.count \in Nat
    BY <1>2, <2>1, StackFields DEF IsEmpty
  <2> HIDE DEF s
  <2> QED
    BY <2>2 DEF Entity
<1> HIDE DEF e
<1>4. IsEntities(ground') /\ \A i \in Item : InBag(ground', i) = InBag(ground, i) + Of(e, i)
  BY <1>1, <1>2, <1>3, BagPlus
<1>5. /\ tossed' \in [Player -> Seq(Entity)] /\ \A q \in Player : q # p => tossed'[q] = tossed[q]
      /\ \A i \in Item : Thrown(tossed'[p], i) = Thrown(tossed[p], i) + Of(e, i)
  <2>1. tossed[p] \in Seq(Entity)
    BY <1>1
  <2>2. Append(tossed[p], e) \in Seq(Entity)
        /\ \A i \in Item : Thrown(Append(tossed[p], e), i) = Thrown(tossed[p], i) + Of(e, i)
    BY <1>3, <2>1, ThrownAppend
  <2>3. tossed' = [tossed EXCEPT ![p] = Append(tossed[p], e)]
    BY <1>2
  <2> QED
    BY <1>1, <2>2, <2>3
<1>6. ItemsType'
  BY <1>1, <1>2, <1>4, <1>5 DEF ItemsType
<1>7. ASSUME NEW i \in Item
      PROVE  Account(at', ground', built', pick', pending', tossed', i)
                 = Account(at, ground, built, pick, pending, tossed, i)
  <2>1. /\ Throwing(tossed', i) = Throwing(tossed, i) - Thrown(tossed[p], i) + Thrown(tossed'[p], i)
        /\ Throwing(tossed, i) \in Int /\ Thrown(tossed[p], i) \in Int
    BY <1>1, <1>5, ThrowingOne
  <2>2. Of(e, i) \in Int
    BY <1>3, EntityOf
  <2>3. /\ Total(at, i) \in Int /\ InBag(ground, i) \in Int /\ built[i] \in Int
        /\ Picked(pick, i) \in Int /\ Making(pending, i) \in Int
    BY <1>1, AccountType
  <2>4. /\ InBag(ground', i) = InBag(ground, i) + Of(e, i)
        /\ Thrown(tossed'[p], i) = Thrown(tossed[p], i) + Of(e, i)
    BY <1>4, <1>5
  <2> QED
    BY <1>2, <2>1, <2>2, <2>3, <2>4 DEF Account
<1>8. ItemsConserved'
  <2>1. Balanced
    BY <1>7 DEF Balanced
  <2> QED
    BY <1>2, <2>1, BalanceKeeps DEF ItemsInv
<1> QED
  BY <1>2, <1>6, <1>8, SlotsStay DEF ItemsInv

LEMMA TossDoneKeeps ==
    ASSUME ItemsInv, ~spoilt, NEW p \in Player, TossDone(p)
    PROVE  ItemsInv'
<1> DEFINE l == <<p, selected[p]>>
           s == at[l]
           h == Head(tossed[p])
<1>1. /\ ItemsType /\ at \in [Place -> Stack] /\ tossed \in [Player -> Seq(Entity)] /\ AreWaiting(pending)
      /\ Holders(at, pending) /\ Informed(at, pending, shown) /\ GoneIsEmpty(at, chest)
  BY DEF ItemsInv, ItemsType
<1>2. /\ UNCHANGED <<ground, built, chest, window, selected, pick, listed>>
      /\ UNCHANGED <<online, creative, supply>> /\ Renumber(p)
      /\ tossed[p] # <<>> /\ tossed' = [tossed EXCEPT ![p] = Tail(@)]
      /\ at' = [at EXCEPT ![l] = Nothing]
      /\ pending' = [q \in Player |-> IF q \in s.by /\ ~IsEmpty(s)
                                      THEN [pending[q] EXCEPT !.kept = TRUE] ELSE pending[q]]
      /\ spoilt' = (<<s.item, s.count>> # <<h.item, h.count>>)
  BY DEF TossDone, world, loop, people
<1>3. l \in Place /\ l \in Reach(p) /\ s \in Stack /\ l[1] = p
  BY <1>1, HandIn
<1> HIDE DEF l
<1>4. at' \in [Place -> Stack] /\ at'[l] = Nothing /\ \A k \in Place : k # l => at'[k] = at[k]
  BY <1>1, <1>2, <1>3, NothingIn
<1>5. ASSUME NEW q \in Player
      PROVE  /\ IsWaiting(pending'[q], q) /\ pending'[q].kind = pending[q].kind
             /\ pending[q].kind = "drop" => pending'[q].from = pending[q].from
             /\ pending[q].kind # "drop" => pending'[q] = pending[q]
  <2>1. IsWaiting(pending[q], q)
    BY <1>1 DEF AreWaiting
  <2>2. CASE q \in s.by /\ ~IsEmpty(s)
    <3>1. pending[q].kind = "drop"
      BY <1>1, <1>3, <2>2 DEF Holders
    <3>2. pending[q] \in Dropping(q)
      BY <2>1, <3>1, WaitingKinds
    <3>3. pending'[q] = [pending[q] EXCEPT !.kept = TRUE]
      BY <1>2, <2>2
    <3>4. /\ pending'[q] \in Dropping(q) /\ pending'[q].kind = pending[q].kind
          /\ pending'[q].from = pending[q].from
      BY <3>2, <3>3 DEF Dropping
    <3> QED
      BY <3>1, <3>4 DEF IsWaiting
  <2>3. CASE ~(q \in s.by /\ ~IsEmpty(s))
    BY <1>2, <2>1, <2>3
  <2> QED
    BY <2>2, <2>3
<1>6. AreWaiting(pending')
  <2>1. pending' = [q \in Player |-> pending'[q]]
    BY <1>2
  <2> QED
    BY <1>5, <2>1 DEF AreWaiting
<1>7. /\ tossed' \in [Player -> Seq(Entity)] /\ (\A q \in Player : q # p => tossed'[q] = tossed[q])
      /\ h \in Entity /\ \A i \in Item : Thrown(tossed'[p], i) = Thrown(tossed[p], i) - Of(h, i)
  <2>1. tossed[p] \in Seq(Entity)
    BY <1>1
  <2>2. Tail(tossed[p]) \in Seq(Entity) /\ h \in Entity
        /\ \A i \in Item : Thrown(Tail(tossed[p]), i) = Thrown(tossed[p], i) - Of(h, i)
    BY <1>2, <2>1, ThrownTail
  <2>3. tossed' = [tossed EXCEPT ![p] = Tail(tossed[p])]
    BY <1>2
  <2> HIDE DEF h
  <2> QED
    BY <1>1, <2>2, <2>3
<1> HIDE DEF s, h
<1>8. ItemsType'
  <2>1. shown' = [q \in Player |-> shown'[q]]
    BY <1>1, <1>2, RenumberShows
  <2> QED
    BY <1>1, <1>2, <1>4, <1>6, <1>7, <2>1 DEF ItemsType
<1>9. Holders(at', pending')
  <2>1. Holders(at', pending)
    <3>1. \A k \in Place : at'[k].by \subseteq at[k].by
      BY <1>4, NothingIn
    <3>2. \A k \in Place : at'[k].count = 0 /\ k[2] # Cursor => at'[k] = at[k] \/ at'[k] = Nothing
      BY <1>4
    <3> QED
      <4>1. /\ \A k \in Place : \A q \in at'[k].by : \E m \in Place : q \in at[m].by
            /\ OneHolder(at) => OneHolder(at')
        BY <1>1, <1>4, <3>1, HoldersKept
      <4> QED
        BY <1>1, <1>4, <3>2, <4>1, HoldersStay
  <2> QED
    BY <1>5, <2>1 DEF Holders
<1>10. GoneIsEmpty(at', chest')
  BY <1>1, <1>2, <1>3, <1>4, Kinds DEF GoneIsEmpty
<1>11. Informed(at', pending', shown')
  <2>1. \A k \in Place \ Reach(p) : at'[k].item = at[k].item /\ at'[k].count = at[k].count
    BY <1>3, <1>4
  <2>2. \A q \in Player : q # p => shown'[q] = shown[q] /\ (pending'[q].kind = "drop" <=> pending[q].kind = "drop")
    BY <1>1, <1>2, <1>5, RenumberShows
  <2>3. shown'[p] \subseteq {View(at', p)}
    BY <1>1, <1>2, RenumberShows
  <2> QED
    BY <1>1, <2>1, <2>2, <2>3, InformedOthers
<1>12. ASSUME ~spoilt', NEW i \in Item
       PROVE  Account(at', ground', built', pick', pending', tossed', i)
                  = Account(at, ground, built, pick, pending, tossed, i)
  <2>1. s.item = h.item /\ s.count = h.count
    BY <1>2, <1>12
  <2>2. Of(s, i) = Of(h, i) /\ Of(h, i) \in Int
    BY <1>7, <2>1, EntityOf DEF Of
  <2>3. Total(at', i) = Total(at, i) - Of(s, i)
    <3>1. Total(at', i) = Total(at, i) - Of(at[l], i) + Of(at'[l], i)
      BY <1>1, <1>3, <1>4, TotalSet
    <3>2. Of(at'[l], i) = 0 /\ Total(at, i) \in Int
      BY <1>1, <1>4, NothingIn, StackFields, TotalType
    <3>3. s = at[l]
      BY DEF s
    <3> QED
      BY <2>2, <3>1, <3>2, <3>3
  <2>4. /\ Throwing(tossed', i) = Throwing(tossed, i) - Thrown(tossed[p], i) + Thrown(tossed'[p], i)
        /\ Throwing(tossed, i) \in Int /\ Thrown(tossed[p], i) \in Int
    BY <1>1, <1>7, ThrowingOne
  <2>5. Thrown(tossed'[p], i) = Thrown(tossed[p], i) - Of(h, i)
    BY <1>7
  <2>6. Making(pending', i) = Making(pending, i)
    <3>1. \A q \in Player : Owed(pending'[q], i) = Owed(pending[q], i)
      <4> SUFFICES ASSUME NEW q \in Player PROVE Owed(pending'[q], i) = Owed(pending[q], i)
        OBVIOUS
      <4>1. CASE pending[q].kind = "drop"
        <5>1. /\ IsWaiting(pending[q], q) /\ IsWaiting(pending'[q], q)
              /\ pending[q].kind = "drop" /\ pending'[q].kind = "drop"
          BY <1>1, <1>5, <4>1 DEF AreWaiting
        <5> QED
          BY <5>1, OwedType
      <4>2. CASE pending[q].kind # "drop"
        BY <1>5, <4>2
      <4> QED
        BY <4>1, <4>2
    <3> QED
      BY <3>1, MakingSame
  <2>7. /\ Total(at, i) \in Int /\ InBag(ground, i) \in Int /\ built[i] \in Int
        /\ Picked(pick, i) \in Int /\ Making(pending, i) \in Int
    BY <1>1, AccountType
  <2>8. Throwing(tossed', i) = Throwing(tossed, i) - Of(h, i)
    BY <2>2, <2>4, <2>5
  <2>9. InBag(ground', i) = InBag(ground, i) /\ built'[i] = built[i] /\ Picked(pick', i) = Picked(pick, i)
    BY <1>2
  <2>10. Total(at', i) = Total(at, i) - Of(h, i)
    BY <2>2, <2>3
  <2> QED
    BY <2>2, <2>4, <2>6, <2>7, <2>8, <2>9, <2>10 DEF Account
<1>13. ItemsConserved'
  <2>1. spoilt' \/ Balanced
    BY <1>12 DEF Balanced
  <2> QED
    BY <1>2, <2>1, BalanceKeeps DEF ItemsInv
<1> QED
  BY <1>8, <1>9, <1>10, <1>11, <1>13 DEF ItemsInv

\* Choosing a slot, opening and closing a window move nothing.
LEMMA StillKeeps ==
    ASSUME ItemsInv, ~spoilt, NEW p \in Player, HeldItemSlot(p) \/ OpenWindow(p) \/ CloseContainer(p)
    PROVE  ItemsInv'
<1>1. ItemsType /\ Informed(at, pending, shown)
  BY DEF ItemsInv
<1>2. /\ UNCHANGED <<at, ground, built, chest, tossed, pending, pick, listed>>
      /\ UNCHANGED <<online, creative, supply, spoilt>>
  BY DEF HeldItemSlot, OpenWindow, CloseContainer, world, loop, people
<1>3. selected' \in [Player -> ToSet(Hotbar)] /\ window' \in [Player -> Windows]
  BY <1>1 DEF HeldItemSlot, OpenWindow, CloseContainer, ItemsType, Windows
<1>4. /\ shown' = [q \in Player |-> shown'[q]]
      /\ \A q \in Player : shown'[q] \subseteq shown[q] \cup {View(at, q)}
  BY <1>1 DEF HeldItemSlot, OpenWindow, CloseContainer, ItemsType
<1>5. ItemsType'
  BY <1>1, <1>2, <1>3, <1>4 DEF ItemsType
<1>6. Informed(at', pending', shown')
  BY <1>1, <1>2, <1>4 DEF Informed
<1>7. ItemsConserved'
  BY <1>2 DEF ItemsInv, ItemsConserved, Amount
<1> QED
  BY <1>2, <1>5, <1>6, <1>7, SlotsStay DEF ItemsInv

\* One handler goes on with slots and windows as they are.
LEMMA WaitingKeeps ==
    ASSUME ItemsInv, UNCHANGED <<at, chest, shown>>, NEW p \in Player, AreWaiting(pending'),
           pending[p].kind # "drop", pending'[p].kind # "drop",
           \A q \in Player : q # p => pending'[q] = pending[q]
    PROVE  Holders(at', pending') /\ GoneIsEmpty(at', chest') /\ Informed(at', pending', shown')
<1>1. Holders(at, pending) /\ Informed(at, pending, shown) /\ GoneIsEmpty(at, chest)
  BY DEF ItemsInv
<1>2. Holders(at, pending')
  BY <1>1, HoldersOther
<1>3. Informed(at, pending', shown)
  BY <1>1 DEF Informed
<1> QED
  BY <1>1, <1>2, <1>3

LEMMA PlaceKeeps ==
    ASSUME ItemsInv, ~spoilt, NEW p \in Player, PlaceBlock(p)
    PROVE  ItemsInv'
<1>1. ItemsType /\ AreWaiting(pending) /\ built \in [Item -> Nat]
  BY DEF ItemsInv, ItemsType
<1>2. /\ UNCHANGED <<at, ground, chest, window, selected, tossed, pick, listed>>
      /\ UNCHANGED <<online, creative, supply, shown, spoilt>>
  BY DEF PlaceBlock, hands, loop, people
<1>3. pending[p] = Idle /\ pending[p].kind = "idle"
  BY DEF PlaceBlock, Ready, Idle
<1>4. PICK j \in Placeable : built' = [built EXCEPT ![j] = @ + 1]
                             /\ pending' = [pending EXCEPT ![p] = [kind |-> "place", item |-> j]]
  BY DEF PlaceBlock
<1> DEFINE r == [kind |-> "place", item |-> j]
<1>5. IsWaiting(r, p) /\ r.kind = "place" /\ r.item = j
  BY DEF IsWaiting, Placing
<1>6. AreWaiting(pending') /\ pending'[p] = r /\ \A q \in Player : q # p => pending'[q] = pending[q]
  <2>1. GoesOn(pending, pending', p, r)
    BY <1>4 DEF GoesOn
  <2> HIDE DEF r
  <2> QED
    BY <1>1, <1>5, <2>1, WaitingOne
<1>7. built' \in [Item -> Nat] /\ \A i \in Item : built'[i] = built[i] + (IF i = j THEN 1 ELSE 0)
  <2>1. built' = [built EXCEPT ![j] = built[j] + 1]
    BY <1>4
  <2>2. \A i \in Item : built[i] \in Nat
    BY <1>1
  <2>3. CASE j \in Item
    BY <1>1, <2>1, <2>2, <2>3
  <2>4. CASE j \notin Item
    <3>1. built' = built
      BY <1>1, <2>1, <2>4
    <3> QED
      BY <1>1, <2>2, <2>4, <3>1
  <2> QED
    BY <2>3, <2>4
<1> HIDE DEF r
<1>8. ItemsType'
  BY <1>1, <1>2, <1>6, <1>7 DEF ItemsType
<1>9. ASSUME NEW i \in Item
      PROVE  Account(at', ground', built', pick', pending', tossed', i)
                 = Account(at, ground, built, pick, pending, tossed, i)
  <2>1. Making(pending', i) = Making(pending, i) - Owed(pending[p], i) + Owed(pending'[p], i)
    BY <1>1, <1>6, MakingOne
  <2>2. Owed(pending[p], i) = 0 /\ Owed(pending'[p], i) = IF i = j THEN 1 ELSE 0
    <3>1. Owed(r, i) = IF r.item = i THEN 1 ELSE 0
      BY <1>5, OwedType
    <3>2. Owed(pending[p], i) = 0
      BY <1>1, <1>3, OwedType DEF AreWaiting
    <3> QED
      BY <1>5, <1>6, <3>1, <3>2
  <2>3. /\ Total(at, i) \in Int /\ InBag(ground, i) \in Int /\ built[i] \in Int
        /\ Picked(pick, i) \in Int /\ Making(pending, i) \in Int /\ Throwing(tossed, i) \in Int
    BY <1>1, AccountType
  <2> QED
    BY <1>2, <1>7, <2>1, <2>2, <2>3 DEF Account
<1>10. ItemsConserved'
  <2>1. Balanced
    BY <1>9 DEF Balanced
  <2> QED
    BY <1>2, <2>1, BalanceKeeps DEF ItemsInv
<1>11. pending[p].kind # "drop" /\ pending'[p].kind # "drop"
  BY <1>3, <1>5, <1>6
<1> QED
  BY <1>2, <1>6, <1>8, <1>10, <1>11, WaitingKeeps DEF ItemsInv

LEMMA ConsumeKeeps ==
    ASSUME ItemsInv, ~spoilt, NEW p \in Player, ConsumePlacementItem(p)
    PROVE  ItemsInv'
<1> DEFINE l == <<p, selected[p]>>
           s == at[l]
           pays == Survival(p) /\ ~IsEmpty(s) /\ s.item = pending[p].item
           t == Written(Minus(s, 1))
<1>1. /\ ItemsType /\ at \in [Place -> Stack] /\ AreWaiting(pending) /\ shown = [q \in Player |-> shown[q]]
      /\ Holders(at, pending) /\ Informed(at, pending, shown) /\ GoneIsEmpty(at, chest)
  BY DEF ItemsInv, ItemsType
<1>2. /\ UNCHANGED <<ground, built, chest, window, selected, tossed, pick, listed>>
      /\ UNCHANGED <<online, creative, supply>>
      /\ pending[p].kind = "place" /\ pending' = [pending EXCEPT ![p] = Idle] /\ spoilt' = ~pays
      /\ at' = IF pays THEN [at EXCEPT ![l] = t] ELSE at
      /\ IF pays THEN Renumber(p) ELSE UNCHANGED shown
  BY DEF ConsumePlacementItem, world, hands, loop, people
<1>3. l \in Place /\ l \in Reach(p) /\ s \in Stack /\ l[1] = p
  BY <1>1, HandIn
<1>4. pays => /\ t \in Stack /\ t.by \subseteq s.by /\ (t.count = 0 => t = Nothing)
              /\ s.item \in Item /\ \A i \in Item : Of(t, i) = Of(s, i) - (IF s.item = i THEN 1 ELSE 0)
  <2> SUFFICES ASSUME pays
               PROVE  /\ t \in Stack /\ t.by \subseteq s.by /\ (t.count = 0 => t = Nothing)
                      /\ s.item \in Item /\ \A i \in Item : Of(t, i) = Of(s, i) - (IF s.item = i THEN 1 ELSE 0)
    OBVIOUS
  <2>1. s.item \in Item /\ s.count \in Nat /\ 1 <= s.count
    <3>1. s.count # 0
      BY DEF IsEmpty
    <3> HIDE DEF s
    <3> QED
      BY <1>3, <3>1, StackFields
  <2> HIDE DEF s
  <2>2. Minus(s, 1) \in Stack /\ Minus(s, 1).item = s.item /\ Minus(s, 1).count = s.count - 1 /\ Minus(s, 1).by = s.by
    BY <1>3, <2>1, MinusIn
  <2>3. t \in Stack /\ t.by \subseteq s.by /\ (IsEmpty(t) => t = Nothing)
        /\ \A i \in Item : Of(t, i) = Of(Minus(s, 1), i)
    BY <2>2, WrittenIn
  <2>4. \A i \in Item : Of(Minus(s, 1), i) = Of(s, i) - (IF s.item = i THEN 1 ELSE 0)
    BY <2>1, <2>2 DEF Of
  <2> HIDE DEF t
  <2> QED
    BY <2>1, <2>3, <2>4 DEF IsEmpty
<1>5. pays => s.item = pending[p].item
  OBVIOUS
<1> HIDE DEF l, pays, t
<1>6. /\ at' \in [Place -> Stack] /\ \A k \in Place : k # l => at'[k] = at[k]
      /\ IF pays THEN at'[l] = t ELSE at'[l] = s
  BY <1>1, <1>2, <1>3, <1>4
<1>7. AreWaiting(pending') /\ pending'[p] = Idle /\ \A q \in Player : q # p => pending'[q] = pending[q]
  <2>1. GoesOn(pending, pending', p, Idle)
    BY <1>2 DEF GoesOn
  <2>2. IsWaiting(Idle, p)
    BY DEF IsWaiting
  <2> QED
    BY <1>1, <2>1, <2>2, WaitingOne
<1>8. /\ shown' = [q \in Player |-> shown'[q]] /\ \A q \in Player : q # p => shown'[q] = shown[q]
      /\ shown'[p] = {} \/ (shown'[p] = shown[p] /\ at' = at)
  BY <1>1, <1>2, RenumberShows
<1>9. ItemsType'
  BY <1>1, <1>2, <1>6, <1>7, <1>8 DEF ItemsType
<1> HIDE DEF s
<1>10. Holders(at', pending')
  <2>1. \A k \in Place : at'[k].by \subseteq at[k].by
    BY <1>4, <1>6 DEF s
  <2>2. \A k \in Place : at'[k].count = 0 /\ k[2] # Cursor => at'[k] = at[k] \/ at'[k] = Nothing
    BY <1>4, <1>6 DEF s
  <2>3. /\ \A k \in Place : \A q \in at'[k].by : \E m \in Place : q \in at[m].by
        /\ OneHolder(at) => OneHolder(at')
    BY <1>1, <1>6, <2>1, HoldersKept
  <2>4. Holders(at', pending)
    BY <1>1, <1>6, <2>2, <2>3, HoldersStay
  <2>5. pending[p].kind # "drop"
    BY <1>2
  <2> QED
    BY <1>7, <2>4, <2>5, HoldersOther
<1>11. GoneIsEmpty(at', chest')
  BY <1>1, <1>2, <1>3, <1>6, Kinds DEF GoneIsEmpty
<1>12. Informed(at', pending', shown')
  <2>1. \A k \in Place \ Reach(p) : at'[k].item = at[k].item /\ at'[k].count = at[k].count
    BY <1>3, <1>6
  <2>2. \A q \in Player : q # p => shown'[q] = shown[q] /\ (pending'[q].kind = "drop" <=> pending[q].kind = "drop")
    BY <1>7, <1>8
  <2>3. shown'[p] \subseteq {View(at', p)}
    <3>1. shown[p] \subseteq {View(at, p)}
      BY <1>1, <1>2 DEF Informed
    <3> QED
      BY <1>8, <3>1
  <2> QED
    BY <1>1, <2>1, <2>2, <2>3, InformedOthers
<1>13. ASSUME ~spoilt', NEW i \in Item
       PROVE  Account(at', ground', built', pick', pending', tossed', i)
                  = Account(at, ground, built, pick, pending, tossed, i)
  <2> DEFINE one == IF s.item = i THEN 1 ELSE 0
  <2>1. pays
    BY <1>2, <1>13
  <2>2. Total(at', i) = Total(at, i) - one
    <3>1. Total(at', i) = Total(at, i) - Of(at[l], i) + Of(at'[l], i)
      BY <1>1, <1>3, <1>6, TotalSet
    <3>2. Of(at'[l], i) = Of(s, i) - one /\ s = at[l]
      BY <1>4, <1>6, <2>1 DEF s
    <3>3. Of(s, i) \in Int /\ Total(at, i) \in Int
      BY <1>1, <1>3, StackFields, TotalType DEF s
    <3> QED
      BY <3>1, <3>2, <3>3
  <2>3. Making(pending', i) = Making(pending, i) - Owed(pending[p], i) + Owed(pending'[p], i)
    BY <1>1, <1>7, MakingOne
  <2>4. Owed(pending[p], i) = one /\ Owed(pending'[p], i) = 0
    <3>1. Owed(pending[p], i) = IF pending[p].item = i THEN 1 ELSE 0
      BY <1>1, <1>2, OwedType DEF AreWaiting
    <3>2. Owed(pending'[p], i) = 0
      BY <1>7, OwedType DEF AreWaiting, Idle
    <3> QED
      BY <1>5, <2>1, <3>1, <3>2
  <2>5. /\ Total(at, i) \in Int /\ InBag(ground, i) \in Int /\ built[i] \in Int
        /\ Picked(pick, i) \in Int /\ Making(pending, i) \in Int /\ Throwing(tossed, i) \in Int
    BY <1>1, AccountType
  <2>6. InBag(ground', i) = InBag(ground, i) /\ built'[i] = built[i] /\ Picked(pick', i) = Picked(pick, i)
        /\ Throwing(tossed', i) = Throwing(tossed, i)
    BY <1>2
  <2> QED
    BY <2>2, <2>3, <2>4, <2>5, <2>6 DEF Account
<1>14. ItemsConserved'
  <2>1. spoilt' \/ Balanced
    BY <1>13 DEF Balanced
  <2> QED
    BY <1>2, <2>1, BalanceKeeps DEF ItemsInv
<1> QED
  BY <1>9, <1>10, <1>11, <1>12, <1>14 DEF ItemsInv

LEMMA MinIn == ASSUME NEW S \in SUBSET Nat, S # {} PROVE Min(S) \in S
<1>1. PICK n \in S : \A m \in S : ~(m < n)
  BY LeastNumber
<1>2. \A m \in S : n <= m
  BY <1>1
<1> QED
  BY <1>2 DEF Min

LEMMA PourKeeps ==
    ASSUME ItemsInv, ~spoilt, NEW p \in Player, DigPour(p)
    PROVE  ItemsInv'
<1> DEFINE done == IF pending[p].kind = "dig" THEN pending[p].done ELSE 0
           poured == IF pending[p].kind = "dig" THEN pending[p].poured ELSE EmptyBag
           full == {k \in (done + 1)..Len(Chest) : ~IsEmpty(at[<<Shared, Chest[k]>>])}
           s == at[<<Shared, Chest[Min(full)]>>]
           e == [item |-> s.item, count |-> s.count]
           r == [kind |-> "dig", done |-> Min(full), poured |-> poured (+) SetToBag({e})]
<1>1. ItemsType /\ at \in [Place -> Stack] /\ AreWaiting(pending) /\ IsEntities(ground)
  BY DEF ItemsInv, ItemsType
<1>2. /\ UNCHANGED <<at, built, chest, window, selected, tossed, pick, listed>>
      /\ UNCHANGED <<online, creative, supply, shown, spoilt>>
      /\ pending[p].kind \in {"idle", "dig"} /\ full # {}
      /\ ground' = ground (+) SetToBag({e}) /\ pending' = [pending EXCEPT ![p] = r]
  BY DEF DigPour, hands, loop, people
<1>3. IsWaiting(pending[p], p)
  BY <1>1 DEF AreWaiting
<1>4. done \in Nat /\ IsEntities(poured)
  BY <1>3, WaitingKinds, InNoBag DEF IsDigging
<1>5. \A i \in Item : Owed(pending[p], i) = InBag(poured, i)
  BY <1>2, <1>3, OwedType, InNoBag
<1> HIDE DEF done, poured
<1>6. Min(full) \in Nat /\ s \in Stack /\ ~IsEmpty(s)
  <2>1. full \in SUBSET Nat /\ Len(Chest) \in Nat
    BY <1>4, SlotsFinite
  <2>2. Min(full) \in full
    BY <1>2, <2>1, MinIn
  <2>3. Min(full) \in Nat /\ Min(full) \in 1..Len(Chest) /\ ~IsEmpty(s)
    BY <1>4, <2>1, <2>2
  <2>4. Chest[Min(full)] \in ToSet(Chest)
    <3>1. DOMAIN Chest = 1..Len(Chest)
      BY SlotsFinite
    <3> QED
      BY <2>3, <3>1 DEF ToSet
  <2> QED
    BY <1>1, <2>3, <2>4, PlaceIs
<1> HIDE DEF full, s
<1>7. e \in Entity
  <2>1. s.item \in Item /\ s.count \in Nat
    BY <1>6, StackFields DEF IsEmpty
  <2> QED
    BY <2>1 DEF Entity
<1> HIDE DEF e
<1>8. /\ IsEntities(ground') /\ IsEntities(poured (+) SetToBag({e}))
      /\ \A i \in Item : InBag(ground', i) = InBag(ground, i) + Of(e, i)
      /\ \A i \in Item : InBag(poured (+) SetToBag({e}), i) = InBag(poured, i) + Of(e, i)
  BY <1>1, <1>2, <1>4, <1>7, BagPlus
<1>9. IsWaiting(r, p) /\ r.kind = "dig" /\ r.poured = poured (+) SetToBag({e})
  BY <1>6, <1>8 DEF IsWaiting, IsDigging
<1> HIDE DEF r
<1>10. AreWaiting(pending') /\ pending'[p] = r /\ \A q \in Player : q # p => pending'[q] = pending[q]
  <2>1. GoesOn(pending, pending', p, r)
    BY <1>2 DEF GoesOn
  <2> QED
    BY <1>1, <1>9, <2>1, WaitingOne
<1>11. ItemsType'
  BY <1>1, <1>2, <1>8, <1>10 DEF ItemsType
<1>12. ASSUME NEW i \in Item
       PROVE  Account(at', ground', built', pick', pending', tossed', i)
                  = Account(at, ground, built, pick, pending, tossed, i)
  <2>1. Making(pending', i) = Making(pending, i) - Owed(pending[p], i) + Owed(pending'[p], i)
    BY <1>1, <1>10, MakingOne
  <2>2. Owed(pending'[p], i) = InBag(poured, i) + Of(e, i) /\ Owed(pending[p], i) = InBag(poured, i)
    <3>1. Owed(r, i) = InBag(r.poured, i)
      BY <1>9, OwedType
    <3> QED
      BY <1>5, <1>8, <1>9, <1>10, <3>1
  <2>3. Of(e, i) \in Int /\ InBag(poured, i) \in Int
    BY <1>4, <1>7, EntityOf, InBagType
  <2>4. /\ Total(at, i) \in Int /\ InBag(ground, i) \in Int /\ built[i] \in Int
        /\ Picked(pick, i) \in Int /\ Making(pending, i) \in Int /\ Throwing(tossed, i) \in Int
    BY <1>1, AccountType
  <2>5. Making(pending', i) = Making(pending, i) + Of(e, i)
    BY <2>1, <2>2, <2>3, <2>4
  <2>6. InBag(ground', i) = InBag(ground, i) + Of(e, i)
    BY <1>8
  <2> QED
    BY <1>2, <2>3, <2>4, <2>5, <2>6 DEF Account
<1>13. ItemsConserved'
  <2>1. Balanced
    BY <1>12 DEF Balanced
  <2> QED
    BY <1>2, <2>1, BalanceKeeps DEF ItemsInv
<1>14. pending[p].kind # "drop" /\ pending'[p].kind # "drop"
  BY <1>2, <1>9, <1>10
<1> QED
  BY <1>2, <1>10, <1>11, <1>13, <1>14, WaitingKeeps DEF ItemsInv

LEMMA DigKeeps ==
    ASSUME ItemsInv, ~spoilt, NEW p \in Player, DigDone(p)
    PROVE  ItemsInv'
<1> DEFINE poured == IF Survival(p) THEN pending[p].poured ELSE EmptyBag
<1>1. /\ ItemsType /\ at \in [Place -> Stack] /\ AreWaiting(pending)
      /\ Holders(at, pending) /\ Informed(at, pending, shown) /\ GoneIsEmpty(at, chest)
  BY DEF ItemsInv, ItemsType
<1>2. /\ UNCHANGED <<ground, built, window, selected, tossed, pick, listed>>
      /\ UNCHANGED <<online, creative, supply, shown>>
      /\ chest' = FALSE /\ pending' = [pending EXCEPT ![p] = Idle]
      /\ at' = [l \in Place |-> IF l[1] = Shared THEN Nothing ELSE at[l]]
      /\ ~spoilt' => Contents(at) = poured
      /\ IF Survival(p) THEN pending[p].kind = "dig" ELSE pending[p] = Idle
  BY DEF DigDone, hands, loop, people
<1>3. IsWaiting(pending[p], p) /\ pending[p].kind # "drop"
  BY <1>1, <1>2 DEF AreWaiting, Idle
<1>4. \A i \in Item : Owed(pending[p], i) = InBag(poured, i)
  <2>1. CASE Survival(p)
    BY <1>2, <1>3, <2>1, OwedType
  <2>2. CASE ~Survival(p)
    BY <1>2, <1>3, <2>2, OwedType, InNoBag DEF Idle
  <2> QED
    BY <2>1, <2>2
<1> HIDE DEF poured
<1>5. at' = Emptied(at, ToSet(Chest))
  BY <1>2, PlaceIs DEF Emptied
<1>6. /\ IsEntities(Contents(at)) /\ at' \in [Place -> Stack]
      /\ \A i \in Item : Total(at', i) = Total(at, i) - InBag(Contents(at), i)
  BY <1>1, <1>5, EmptiedTakes
<1>7. AreWaiting(pending') /\ pending'[p] = Idle /\ \A q \in Player : q # p => pending'[q] = pending[q]
  <2>1. GoesOn(pending, pending', p, Idle)
    BY <1>2 DEF GoesOn
  <2>2. IsWaiting(Idle, p)
    BY DEF IsWaiting
  <2> QED
    BY <1>1, <2>1, <2>2, WaitingOne
<1>8. ItemsType'
  BY <1>1, <1>2, <1>6, <1>7 DEF ItemsType
<1>9. Holders(at', pending')
  <2>1. \A k \in Place : at'[k].by \subseteq at[k].by
    BY <1>2, NothingIn
  <2>2. \A k \in Place : at'[k].count = 0 /\ k[2] # Cursor => at'[k] = at[k] \/ at'[k] = Nothing
    BY <1>2
  <2>3. /\ \A k \in Place : \A q \in at'[k].by : \E m \in Place : q \in at[m].by
        /\ OneHolder(at) => OneHolder(at')
    BY <1>1, <1>6, <2>1, HoldersKept
  <2>4. Holders(at', pending)
    BY <1>1, <1>6, <2>2, <2>3, HoldersStay
  <2> QED
    BY <1>3, <1>7, <2>4, HoldersOther
<1>10. GoneIsEmpty(at', chest')
  BY <1>2 DEF GoneIsEmpty
<1>11. Informed(at', pending', shown')
  <2>1. ASSUME NEW q \in Player PROVE View(at', q) = View(at, q)
    <3>1. \A k \in Place : k[1] = q => at'[k].item = at[k].item /\ at'[k].count = at[k].count
      BY <1>2, Kinds
    <3> QED
      BY <3>1, ViewSame
  <2> QED
    BY <1>1, <1>2, <1>3, <1>7, <2>1 DEF Informed
<1>12. ASSUME ~spoilt', NEW i \in Item
       PROVE  Account(at', ground', built', pick', pending', tossed', i)
                  = Account(at, ground, built, pick, pending, tossed, i)
  <2>1. Making(pending', i) = Making(pending, i) - Owed(pending[p], i) + Owed(pending'[p], i)
    BY <1>1, <1>7, MakingOne
  <2>2. Owed(pending'[p], i) = 0 /\ Owed(pending[p], i) = InBag(Contents(at), i)
    <3>1. Owed(pending'[p], i) = 0
      BY <1>7, OwedType DEF AreWaiting, Idle
    <3> QED
      BY <1>2, <1>4, <1>12, <3>1
  <2>3. Total(at', i) = Total(at, i) - InBag(Contents(at), i) /\ InBag(Contents(at), i) \in Int
    BY <1>6, InBagType
  <2>4. /\ Total(at, i) \in Int /\ InBag(ground, i) \in Int /\ built[i] \in Int
        /\ Picked(pick, i) \in Int /\ Making(pending, i) \in Int /\ Throwing(tossed, i) \in Int
    BY <1>1, AccountType
  <2>5. InBag(ground', i) = InBag(ground, i) /\ built'[i] = built[i] /\ Picked(pick', i) = Picked(pick, i)
        /\ Throwing(tossed', i) = Throwing(tossed, i)
    BY <1>2
  <2> QED
    BY <2>1, <2>2, <2>3, <2>4, <2>5 DEF Account
<1>13. ItemsConserved'
  <2>1. spoilt' \/ Balanced
    BY <1>12 DEF Balanced
  <2> QED
    BY <1>2, <2>1, BalanceKeeps DEF ItemsInv
<1> QED
  BY <1>8, <1>9, <1>10, <1>11, <1>13 DEF ItemsInv

LEMMA PickUpKeeps ==
    ASSUME ItemsInv, ~spoilt, NEW p \in Player, PickUp(p)
    PROVE  ItemsInv'
<1>1. /\ ItemsType /\ at \in [Place -> Stack] /\ AreWaiting(pending) /\ IsEntities(ground)
      /\ Holders(at, pending) /\ Informed(at, pending, shown) /\ GoneIsEmpty(at, chest)
  BY DEF ItemsInv, ItemsType
<1>2. /\ UNCHANGED <<built, chest, window, selected, tossed, pending, online, creative, supply>>
      /\ pick = Idle /\ listed' \in {listed, online} /\ Renumber(p)
  BY DEF PickUp, hands, people
<1>3. PICK e \in BagToSet(ground) :
          LET r == AddItem(at, p, e.item, e.count)
          IN /\ r.left < e.count /\ at' = r.at /\ ground' = ground (-) SetToBag({e})
             /\ pick' = [kind |-> "pick", by |-> p, item |-> e.item, left |-> r.left]
  BY DEF PickUp
<1> DEFINE r == AddItem(at, p, e.item, e.count)
           S == {l \in Place : l[1] = p}
<1>4. e \in DOMAIN ground /\ e \in Entity /\ e.item \in Item /\ e.count \in Nat
  BY <1>1, <1>3 DEF BagToSet, IsEntities, Entity
<1>5. r \in Filling(at, e.item, e.count, S)
  BY <1>1, <1>4, PickUpFills
<1>6. /\ at' = r.at /\ ground' = ground (-) SetToBag({e})
      /\ pick' = [kind |-> "pick", by |-> p, item |-> e.item, left |-> r.left]
  BY <1>3
<1> HIDE DEF r
<1>7. r.left \in Nat /\ r.left <= e.count /\ Filled(at, at', e.item, e.count - r.left, S)
  BY <1>5, <1>6 DEF Filling
<1>8. /\ at' \in [Place -> Stack] /\ \A l \in Place : at'[l].by \subseteq at[l].by
      /\ \A l \in Place : at'[l].count = 0 => at'[l] = at[l]
      /\ \A l \in Place \ S : at'[l] = at[l]
      /\ \A i \in Item : Total(at', i) = Total(at, i) + (IF i = e.item THEN e.count - r.left ELSE 0)
  BY <1>7 DEF Filled
<1>9. IsEntities(ground') /\ \A i \in Item : InBag(ground', i) = InBag(ground, i) - Of(e, i)
  BY <1>1, <1>4, <1>6, BagMinus
<1>10. pick' \in Picking /\ pick' # Idle /\ pick'.item = e.item /\ pick'.left = r.left
  BY <1>4, <1>6, <1>7 DEF Picking, Idle
<1>11. ItemsType'
  <2>1. shown' = [q \in Player |-> shown'[q]]
    BY <1>1, <1>2, RenumberShows
  <2> QED
    BY <1>1, <1>2, <1>8, <1>9, <1>10, <2>1 DEF ItemsType
<1>12. Holders(at', pending')
  <2>1. /\ \A k \in Place : \A q \in at'[k].by : \E m \in Place : q \in at[m].by
        /\ OneHolder(at) => OneHolder(at')
    BY <1>1, <1>8, HoldersKept
  <2>2. Holders(at', pending)
    BY <1>1, <1>8, <2>1, HoldersStay
  <2> QED
    BY <1>2, <2>2
<1>13. GoneIsEmpty(at', chest')
  BY <1>1, <1>2, <1>8, Kinds DEF GoneIsEmpty
<1>14. Informed(at', pending', shown')
  <2>1. \A k \in Place \ Reach(p) : at'[k].item = at[k].item /\ at'[k].count = at[k].count
    BY <1>8 DEF Reach
  <2>2. \A q \in Player : q # p => shown'[q] = shown[q] /\ (pending'[q].kind = "drop" <=> pending[q].kind = "drop")
    BY <1>1, <1>2, RenumberShows
  <2>3. shown'[p] \subseteq {View(at', p)}
    BY <1>1, <1>2, RenumberShows
  <2> QED
    BY <1>1, <2>1, <2>2, <2>3, InformedOthers
<1>15. ASSUME NEW i \in Item
       PROVE  Account(at', ground', built', pick', pending', tossed', i)
                  = Account(at, ground, built, pick, pending, tossed, i)
  <2>1. Total(at', i) = Total(at, i) + (IF i = e.item THEN e.count - r.left ELSE 0)
    BY <1>8
  <2>2. InBag(ground', i) = InBag(ground, i) - (IF i = e.item THEN e.count ELSE 0)
    BY <1>9 DEF Of
  <2>3. Picked(pick, i) = 0 /\ Picked(pick', i) = IF i = e.item THEN r.left ELSE 0
    BY <1>2, <1>10 DEF Picked
  <2>4. /\ Total(at, i) \in Int /\ InBag(ground, i) \in Int /\ built[i] \in Int
        /\ Making(pending, i) \in Int /\ Throwing(tossed, i) \in Int
    BY <1>1, AccountType
  <2> QED
    BY <1>2, <1>4, <1>7, <2>1, <2>2, <2>3, <2>4 DEF Account
<1>16. ItemsConserved'
  <2>1. Balanced
    BY <1>15 DEF Balanced
  <2> QED
    BY <1>2, <2>1, BalanceKeeps DEF ItemsInv
<1> QED
  BY <1>11, <1>12, <1>13, <1>14, <1>16 DEF ItemsInv

LEMMA PickedUpKeeps ==
    ASSUME ItemsInv, ~spoilt, PickedUp
    PROVE  ItemsInv'
<1> DEFINE e == [item |-> pick.item, count |-> pick.left]
<1>1. ItemsType /\ IsEntities(ground) /\ Informed(at, pending, shown) /\ shown = [q \in Player |-> shown[q]]
  BY DEF ItemsInv, ItemsType
<1>2. /\ UNCHANGED <<at, built, chest, window, selected, tossed, pending, online, creative, supply, spoilt>>
      /\ pick # Idle /\ pick' = Idle /\ listed' \subseteq listed
      /\ ground' = IF pick.left = 0 THEN ground ELSE ground (+) SetToBag({e})
      /\ shown' = [shown EXCEPT ![pick.by] = @ \cup {View(at, pick.by)}]
  BY DEF PickedUp, hands, people
<1>3. pick \in Picking /\ pick.by \in Player /\ pick.item \in Item /\ pick.left \in Nat
  BY <1>1, <1>2 DEF ItemsType, Picking
<1>4. e \in Entity /\ \A i \in Item : Of(e, i) = IF pick.item = i THEN pick.left ELSE 0
  BY <1>3 DEF Entity, Of
<1> HIDE DEF e
<1>5. IsEntities(ground')
      /\ \A i \in Item : InBag(ground', i) = InBag(ground, i) + (IF pick.item = i THEN pick.left ELSE 0)
  <2>1. CASE pick.left = 0
    BY <1>1, <1>2, <2>1, InBagType
  <2>2. CASE pick.left # 0
    BY <1>1, <1>2, <1>4, <2>2, BagPlus
  <2> QED
    BY <2>1, <2>2
<1>6. /\ shown' = [q \in Player |-> shown'[q]]
      /\ \A q \in Player : shown'[q] \subseteq shown[q] \cup {View(at, q)}
  BY <1>1, <1>2
<1>7. ItemsType'
  BY <1>1, <1>2, <1>5, <1>6 DEF ItemsType
<1>8. Informed(at', pending', shown')
  BY <1>1, <1>2, <1>6 DEF Informed
<1>9. ASSUME NEW i \in Item
      PROVE  Account(at', ground', built', pick', pending', tossed', i)
                 = Account(at, ground, built, pick, pending, tossed, i)
  <2>1. Picked(pick', i) = 0 /\ Picked(pick, i) = IF pick.item = i THEN pick.left ELSE 0
    BY <1>2 DEF Picked
  <2>2. /\ Total(at, i) \in Int /\ InBag(ground, i) \in Int /\ built[i] \in Int
        /\ Picked(pick, i) \in Int /\ Making(pending, i) \in Int /\ Throwing(tossed, i) \in Int
    BY <1>1, AccountType
  <2>3. InBag(ground', i) = InBag(ground, i) + Picked(pick, i)
    BY <1>5, <2>1
  <2> QED
    BY <1>2, <2>1, <2>2, <2>3 DEF Account
<1>10. ItemsConserved'
  <2>1. Balanced
    BY <1>9 DEF Balanced
  <2> QED
    BY <1>2, <2>1, BalanceKeeps DEF ItemsInv
<1> QED
  BY <1>2, <1>7, <1>8, <1>10, SlotsStay DEF ItemsInv

LEMMA LeaveKeeps ==
    ASSUME ItemsInv, ~spoilt, NEW p \in Player, Leave(p)
    PROVE  ItemsInv'
<1>1. /\ UNCHANGED <<at, ground, built, chest, window, selected, tossed, pending, pick, listed>>
      /\ UNCHANGED <<creative, supply, shown>> /\ online' \subseteq online
  BY DEF Leave, world, hands, loop
<1>2. ItemsType' /\ Informed(at', pending', shown')
  BY <1>1 DEF ItemsInv, ItemsType
<1>3. ItemsConserved'
  BY <1>1 DEF ItemsInv, ItemsConserved, Amount
<1> QED
  BY <1>1, <1>2, <1>3, SlotsStay DEF ItemsInv

-------------------------------------------------------------------------------
(* The theorems.                                                           *)

LEMMA ItemsStart == Init => ItemsInv
<1> SUFFICES ASSUME Init PROVE ItemsInv
  OBVIOUS
<1>1. PICK start \in Starts : at = start.at /\ creative = start.creative /\ window = start.window
  BY DEF Init
<1>2. /\ supply = [i \in Item |-> Total(at, i)] /\ ground = EmptyBag /\ built = [i \in Item |-> 0]
      /\ chest = TRUE /\ pending = [p \in Player |-> Idle] /\ tossed = [p \in Player |-> <<>>]
      /\ selected = [p \in Player |-> Hotbar[1]] /\ pick = Idle /\ listed = {} /\ online = Player
      /\ shown = [p \in Player |-> {View(at, p)}]
  BY DEF Init
<1>3. /\ at = [l \in Place |-> at[l]]
      /\ \A l \in Place : at[l] = Nothing \/ \E i \in Item : \E n \in 1..MaxStack[i] : at[l] = Fresh(i, n)
      /\ window \in [Player -> Windows]
  BY <1>1, InventoriesAssumption DEF Windows
<1>4. ASSUME NEW l \in Place PROVE at[l] \in Stack /\ at[l].by = {} /\ (at[l].count = 0 => at[l] = Nothing)
  <2>1. CASE at[l] = Nothing
    BY <2>1, NothingIn
  <2>2. CASE \E i \in Item : \E n \in 1..MaxStack[i] : at[l] = Fresh(i, n)
    <3>1. PICK i \in Item : \E n \in 1..MaxStack[i] : at[l] = Fresh(i, n)
      BY <2>2
    <3>2. PICK n \in 1..MaxStack[i] : at[l] = Fresh(i, n)
      BY <3>1
    <3>3. MaxStack[i] \in Nat
      BY InventoriesAssumption
    <3>4. n \in Nat /\ n <= MaxStack[i] /\ n # 0
      BY <3>3
    <3> QED
      BY <3>2, <3>4, FreshIn
  <2> QED
    BY <1>3, <2>1, <2>2
<1>5. at \in [Place -> Stack]
  BY <1>3, <1>4
<1>6. Hotbar[1] \in ToSet(Hotbar)
  <2>1. Hotbar \in Seq(Nat) /\ Hotbar # <<>>
    BY InventoriesAssumption
  <2>2. 1 \in DOMAIN Hotbar
    BY <2>1
  <2> QED
    BY <2>2 DEF ToSet
<1>7. AreWaiting(pending)
  BY <1>2 DEF AreWaiting, IsWaiting
<1>8. ItemsType
  BY <1>2, <1>3, <1>5, <1>6, <1>7, InNoBag DEF ItemsType
<1>9. Holders(at, pending)
  BY <1>4 DEF Holders, OneHolder
<1>10. GoneIsEmpty(at, chest) /\ Informed(at, pending, shown)
  BY <1>2 DEF GoneIsEmpty, Informed
<1>11. ASSUME NEW i \in Item PROVE Amount(i) = supply[i]
  <2>1. IsFiniteSet(Player)
    BY InventoriesAssumption
  <2>2. Making(pending, i) = 0
    <3>1. \A p \in Player : Owed(pending[p], i) = 0
      BY <1>2, <1>7, OwedType DEF AreWaiting, Idle
    <3>2. \A p \in Player : OwedBy(pending, i)[p] = 0
      BY <3>1 DEF OwedBy
    <3> QED
      BY <2>1, <3>2, SumZero DEF Making
  <2>3. Throwing(tossed, i) = 0
    <3>1. \A p \in Player : ThrownBy(tossed, i)[p] = 0
      BY <1>2, ThrownNone DEF ThrownBy
    <3> QED
      BY <2>1, <3>1, SumZero DEF Throwing
  <2>4. InBag(ground, i) = 0 /\ built[i] = 0 /\ Picked(pick, i) = 0 /\ supply[i] = Total(at, i)
    BY <1>2, InNoBag DEF Picked
  <2>5. Total(at, i) \in Int
    BY <1>5, TotalType
  <2> QED
    BY <2>2, <2>3, <2>4, <2>5, AmountIs DEF Account
<1>12. ItemsConserved
  BY <1>11 DEF ItemsConserved
<1> QED
  BY <1>8, <1>9, <1>10, <1>12 DEF ItemsInv

LEMMA ItemsStep == ItemsInv /\ [Next]_vars => ItemsInv'
<1> SUFFICES ASSUME ItemsInv, [Next]_vars PROVE ItemsInv'
  OBVIOUS
<1>1. CASE UNCHANGED vars
  <2>1. UNCHANGED <<at, ground, built, window, chest, pending, tossed, selected, pick>>
        /\ UNCHANGED <<listed, online, supply, shown, spoilt>>
    BY <1>1 DEF vars
  <2> QED
    BY <2>1 DEF ItemsInv, ItemsType, ItemsConserved, Amount
<1>2. ASSUME NEW p \in Player, ~spoilt, Packet(p) PROVE ItemsInv'
  BY <1>2, BasicKeeps, ShiftKeeps, NumberKeyKeeps, PickBlockKeeps, DragKeeps, DropKeeps, TossKeeps,
     StillKeeps, PlaceKeeps, PourKeeps, LeaveKeeps DEF Packet
<1>3. ASSUME NEW p \in Player, ~spoilt, Resumption(p) PROVE ItemsInv'
  BY <1>3, DropDoneKeeps, TossDoneKeeps, ConsumeKeeps, DigKeeps, PickUpKeeps DEF Resumption
<1>4. CASE ~spoilt /\ PickedUp
  BY <1>4, PickedUpKeeps
<1> QED
  BY <1>1, <1>2, <1>3, <1>4 DEF Next, Closed

LEMMA ItemsAlways == Spec => []ItemsInv
BY ItemsStart, ItemsStep, PTL DEF Spec

\* Clicks, drops, drags, pickups, digging and placing move items and never make or lose
\* one, in any number of slots, players and kinds, outside the races that are named.
THEOREM ItemsAreConserved == Spec => []ItemsConserved
<1>1. ItemsInv => ItemsConserved
  BY DEF ItemsInv
<1> QED
  BY <1>1, ItemsAlways, PTL

\* No stack outgrows its kind, and an emptied object stays where it was only while a
\* drop in flight holds it.
THEOREM StacksAreLegal == Spec => []StacksLegal
<1>1. ItemsInv => StacksLegal
  <2> SUFFICES ASSUME ItemsInv, NEW l \in Place
               PROVE  /\ at[l].item # NoItem => at[l].count <= MaxStack[at[l].item]
                      /\ IsEmpty(at[l]) /\ at[l] # Nothing => at[l].by # {} \/ l[2] = Cursor
    BY DEF StacksLegal
  <2>1. at[l] \in Stack
    BY DEF ItemsInv, ItemsType
  <2>2. at[l].item # NoItem => at[l].count <= MaxStack[at[l].item]
    BY <2>1 DEF Stack
  <2>3. IsEmpty(at[l]) /\ at[l] # Nothing => at[l].by # {} \/ l[2] = Cursor
    BY DEF ItemsInv, Holders, IsEmpty
  <2> QED
    BY <2>2, <2>3
<1> QED
  BY <1>1, ItemsAlways, PTL

\* A click that is accepted acts on what its client was shown.
THEOREM ClicksAreInformed == Spec => []ClicksInformed
<1>1. ItemsInv => ClicksInformed
  <2> SUFFICES ASSUME ItemsInv, NEW p \in online, pending[p] = Idle
               PROVE  shown[p] \subseteq {View(at, p)}
    BY DEF ClicksInformed
  <2>1. p \in Player /\ Informed(at, pending, shown)
    BY DEF ItemsInv, ItemsType
  <2>2. pending[p].kind # "drop"
    BY DEF Idle
  <2> QED
    BY <2>1, <2>2 DEF Informed
<1> QED
  BY <1>1, ItemsAlways, PTL

\* A behaviour of the suite is one of the inventories and one of the furnace, so what
\* holds of either holds in the run.
THEOREM SuiteKeepsAll ==
    BothSpec => [](ItemsConserved /\ StacksLegal /\ ClicksInformed /\ FurnaceHeatIsPaid)
<1>1. BothInit => Init /\ Oven!Init
  BY DEF BothInit
<1>2. [BothNext]_<<vars, ovenVars, part>> => [Next]_vars /\ [Oven!Next]_(Oven!vars)
  BY DEF BothNext, ovenVars, Oven!vars
<1>3. BothSpec => Spec /\ Oven!Spec
  BY <1>1, <1>2, PTL DEF BothSpec, Spec, Oven!Spec
<1> QED
  BY <1>3, ItemsAreConserved, StacksAreLegal, ClicksAreInformed, HeatPaid, PTL
==============================================================================

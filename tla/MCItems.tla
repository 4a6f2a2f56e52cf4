-------------------------------- MODULE MCItems --------------------------------
(***************************************************************************)
(* Inventories and furnaces for TLC.  A behaviour follows one of them,     *)
(* chosen at the start, and leaves the other in its initial state: what a  *)
(* click does to a furnace's slots is Furnace's Touch.                     *)
(***************************************************************************)
EXTENDS Inventories, TLC

CONSTANTS p1, p2, stone, helmet, ore, coal, ingot,
          FurnaceKind, CookTime, MaxTouches, MaxMade   \* constants of Furnace

VARIABLES part, fSlot, fBurn, fCook, fTotal, fTouches, fMade, fFired, fHeat, fCooled

Oven == INSTANCE Furnace WITH
    Item <- {ore, coal, ingot}, Smelted <- (ore :> ingot), Kind <- FurnaceKind,
    FuelTime <- (coal :> 5), MaxCount <- 2,
    slot <- fSlot, burn <- fBurn, cook <- fCook, total <- fTotal,
    touches <- fTouches, made <- fMade, fired <- fFired, heat <- fHeat,
    cooled <- fCooled

ASSUME OvenAssumption == Oven!FurnaceAssumption

ovenVars == <<fSlot, fBurn, fCook, fTotal, fTouches, fMade, fFired, fHeat, fCooled>>

BothNext ==
    \/ part = "items" /\ Next /\ UNCHANGED <<ovenVars, part>>
    \/ part = "furnace" /\ Oven!Next /\ UNCHANGED <<vars, part>>
    \/ part = "furnace" /\ fMade = MaxMade /\ UNCHANGED <<vars, ovenVars, part>>

BothInit ==
    /\ Init /\ Oven!Init
    /\ \/ part = "items"
       \/ part = "furnace" /\ at = (CHOOSE s \in Starts : TRUE).at

BothSpec == BothInit /\ [][BothNext]_<<vars, ovenVars, part>>

-------------------------------------------------------------------------------
MaxStackMC == (stone :> 2) @@ (helmet :> 1)
HotbarMC == <<0, 1>>
MainMC == <<9>>
EnderMC == <<101>>
ChestMC == <<1, 2>>

Stock(stacks) == [l \in Place |-> IF l \in DOMAIN stacks THEN stacks[l] ELSE Nothing]

\* Stones that fit on each other only in part, and a drag in progress ...
Stones == Stock((<<Shared, 1>> :> Fresh(stone, 2)) @@ (<<Shared, 2>> :> Fresh(stone, 1))
                @@ (<<p1, 0>> :> Fresh(stone, 1)) @@ (<<p2, Cursor>> :> Fresh(stone, 2)))
\* ... or armour, an ender chest and a player in creative mode.
Armoured == Stock((<<Shared, 1>> :> Fresh(stone, 1)) @@ (<<p1, 9>> :> Fresh(helmet, 1))
                  @@ (<<p2, 0>> :> Fresh(stone, 2)))
StartsMC == {[at |-> Stones, creative |-> {}, window |-> [r \in Player |-> "chest"]],
             [at |-> Armoured, creative |-> {p2}, window |-> (p1 :> "own") @@ (p2 :> "chest")]}

-------------------------------------------------------------------------------
\* Furnace.HeatIsPaid: everything made was cooked for the whole time with fuel.
FurnaceHeatIsPaid == Oven!HeatIsPaid
===============================================================================

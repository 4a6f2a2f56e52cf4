-------------------------------- MODULE Furnace --------------------------------
(***************************************************************************)
(* A furnace: ContainerManager.tick_furnaces of world/block_behavior.py,   *)
(* once a game tick, while players put items into its slots and take them  *)
(* out (the clicks of Inventories, here reduced to what they leave in a    *)
(* slot).  No click runs within a tick.                                    *)
(***************************************************************************)
EXTENDS Naturals

CONSTANTS Item,
          Smelted,      \* items with a recipe, and their results: a function
          Kind,         \* "furnace", "blast_furnace" or "smoker"
          FuelTime,     \* burn time of fuels: a function from items
          CookTime,     \* cook time of the recipes
          MaxCount,     \* the largest count of a stack
          MaxTouches, MaxMade   \* bounds: clicks, items made

VARIABLES slot,         \* items: input, fuel and output stacks
          burn,         \* burn_time
          cook,         \* cook_time
          total,        \* cook_time_total
          touches,
          made, fired, heat, cooled  \* ghosts: items made, fuel used, ticks that
                                     \* cooked, progress that was lost

vars == <<slot, burn, cook, total, touches, made, fired, heat, cooled>>

NoItem == "minecraft:air"
Nothing == [item |-> NoItem, count |-> 0]
Input == 0
Fuel == 1
Output == 2
Stacks == {Nothing} \cup [item : Item, count : 1..MaxCount]
Less(s) == IF s.count = 1 THEN Nothing ELSE [s EXCEPT !.count = @ - 1]

Speed == IF Kind = "furnace" THEN 1 ELSE 2
Needed == IF Kind = "furnace" THEN CookTime ELSE CookTime \div 2

\* What the constants must be; the suite that instantiates this module assumes it.
\* The cook time of a recipe is a whole number of ticks, at either speed.
FurnaceAssumption ==
    /\ FuelTime \in [DOMAIN FuelTime -> Nat]
    /\ CookTime \in Nat /\ Needed > 0 /\ Needed % Speed = 0

CanSmelt ==
    /\ slot[Input].item \in DOMAIN Smelted
    /\ \/ slot[Output] = Nothing
       \/ slot[Output].item = Smelted[slot[Input].item] /\ slot[Output].count < MaxCount

\* Variant: fuel is taken while the last one still burns.
LightsEarly == CanSmelt /\ slot[Fuel].item \in DOMAIN FuelTime
Lights == CanSmelt /\ burn = 0 /\ slot[Fuel].item \in DOMAIN FuelTime

Burning == IF Lights THEN FuelTime[slot[Fuel].item] ELSE burn

Init ==
    /\ slot = [k \in {Input, Fuel, Output} |-> Nothing]
    /\ burn = 0 /\ cook = 0 /\ total = 0
    /\ touches = 0 /\ made = 0 /\ fired = 0 /\ heat = 0
    /\ cooled = 0

\* One item is used up and its result laid into the output slot.
Finish(s) ==
    LET result == Smelted[s[Input].item]
    IN [s EXCEPT ![Input] = Less(s[Input]),
                 ![Output] = IF s[Output] = Nothing THEN [item |-> result, count |-> 1]
                             ELSE [s[Output] EXCEPT !.count = @ + 1]]

Tick ==
    LET lit == IF Lights THEN [slot EXCEPT ![Fuel] = Less(slot[Fuel])] ELSE slot
        cooked == cook + Speed
        due == IF total = 0 THEN Needed ELSE total
    IN /\ made < MaxMade
       /\ fired' = fired + (IF Lights THEN FuelTime[slot[Fuel].item] ELSE 0)
       /\ IF CanSmelt /\ Burning > 0
          THEN /\ burn' = Burning - 1
               /\ heat' = heat + 1
               /\ UNCHANGED cooled
               /\ IF cooked >= due
                  THEN /\ cook' = 0 /\ total' = 0
                       /\ slot' = Finish(lit)
                       /\ made' = made + 1
                  ELSE /\ cook' = cooked /\ total' = due
                       /\ slot' = lit
                       /\ UNCHANGED made
          ELSE /\ burn' = Burning
               /\ cook' = IF cook > 2 THEN cook - 2 ELSE 0
               /\ cooled' = cooled + (cook - cook')
               /\ slot' = lit
               /\ UNCHANGED <<total, made, heat>>
       /\ UNCHANGED touches

\* A click of a player leaves any stack in any slot, or takes it out.
Touch(k) ==
    /\ touches < MaxTouches
    /\ touches' = touches + 1
    /\ \E s \in Stacks : s # slot[k] /\ slot' = [slot EXCEPT ![k] = s]
    /\ UNCHANGED <<burn, cook, total, made, fired, heat, cooled>>

Next == Tick \/ \E k \in {Input, Fuel, Output} : Touch(k)

Spec == Init /\ [][Next]_vars

-------------------------------------------------------------------------------
\* Whatever is put in and taken out meanwhile, every tick that cooked was paid
\* with fuel, and all of its heat is in something made, in the progress of the
\* item at hand or lost by cooling down: a swap of the input while total is the
\* one of the old recipe neither gives heat for nothing nor gets the furnace
\* stuck (block_behavior.py:812-851).
HeatIsPaid ==
    /\ fired = heat + burn
    /\ heat * Speed = made * Needed + cook + cooled
===============================================================================

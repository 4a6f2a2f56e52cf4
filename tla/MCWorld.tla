-------------------------------- MODULE MCWorld ---------------------------------
(***************************************************************************)
(* The world for TLC: beside the chunks of MCChunks the two engines that   *)
(* change blocks, fluids and redstone.  They share nothing, so a behaviour *)
(* follows one part, chosen at the start, and leaves the others in their   *)
(* initial states.                                                         *)
(***************************************************************************)
EXTENDS MCChunks

CONSTANTS Cells, Worlds, Kinds, Diggable, Reach, Speed, MaxEdits, \* of Fluids
          RedCells, Layouts, Handy, Pieces, ButtonTime, Fuse, Threshold, Window, Burnout,
          PushLimit, MaxActions                                   \* of Redstone

VARIABLES fBlock, fPending, fTelling, fToTell, fEdit, fSeen, fEdits, fCrossed,
          fUnnoticed,                                    \* of Fluids
          rWorld, rComps, rOrder, rLevel, rStrong, rSched, rUpdates, rTold,
          rSeen, rEdit, rActions, rCrossed               \* of Redstone

Flow == INSTANCE Fluids WITH
    block <- fBlock, pending <- fPending, telling <- fTelling, toTell <- fToTell,
    edit <- fEdit, seen <- fSeen, edits <- fEdits, crossed <- fCrossed,
    unnoticed <- fUnnoticed

Red == INSTANCE Redstone WITH
    Cells <- RedCells,
    world <- rWorld, comps <- rComps, order <- rOrder, level <- rLevel,
    strong <- rStrong, sched <- rSched, updates <- rUpdates, told <- rTold,
    seen <- rSeen, edit <- rEdit, actions <- rActions, crossed <- rCrossed

ASSUME FlowAssumption == Flow!FluidsAssumption
ASSUME RedAssumption == Red!RedstoneAssumption

flowVars == <<fBlock, fPending, fTelling, fToTell, fEdit, fSeen, fEdits, fCrossed,
              fUnnoticed>>
redVars == <<rWorld, rComps, rOrder, rLevel, rStrong, rSched, rUpdates, rTold,
             rSeen, rEdit, rActions, rCrossed>>
worldVars == <<vars, editVars, part, flowVars, redVars>>

\* The initial state of what is not followed is one of its own.
WorldInit ==
    /\ ChunksInit /\ Flow!Init /\ Red!Init
    /\ part # "fluids" => fBlock = CHOOSE w \in Worlds : TRUE
    /\ part # "redstone" => rWorld = CHOOSE w \in Layouts : TRUE

EnginesNext ==
    \/ part = "fluids" /\ Flow!Next /\ UNCHANGED <<vars, editVars, part, redVars>>
    \/ part = "redstone" /\ Red!Next /\ UNCHANGED <<vars, editVars, part, flowVars>>

WorldNext ==
    \/ ChunksNext /\ UNCHANGED <<flowVars, redVars>>
    \/ EnginesNext

WorldSpec == WorldInit /\ [][WorldNext]_worldVars

EnginesInit == part \in {"fluids", "redstone"} /\ WorldInit
EnginesSpec == EnginesInit /\ [][EnginesNext]_worldVars /\ Flow!Fairness
RedstoneInit == part = "redstone" /\ WorldInit
RedstoneSpec == RedstoneInit /\ [][EnginesNext]_worldVars /\ Red!Fairness

-------------------------------------------------------------------------------
(* A shaft with a ledge for the fluids: a floor of stone, and two layers of  *)
(* three cells above it.                                                     *)

Liquids == {"water", "lava"}
ReachMC == [f \in Liquids |-> IF f = "water" THEN 7 ELSE 3]
SpeedMC == [f \in Liquids |-> IF f = "water" THEN 1 ELSE 2]

Layer(y) == {<<x, y, 0>> : x \in 0..2}
Room == UNION {Layer(y) : y \in 0..2}

\* Blocks as in Fluids.
Filled(kind, n) == [kind |-> kind, level |-> n]

\* Stone except for the cells of some sources and the free cells.
World(air, water, lava) ==
    [c \in Room |-> IF c \in water THEN Filled("water", 0)
                    ELSE IF c \in lava THEN Filled("lava", 0)
                    ELSE IF c \in air THEN Filled("air", -1) ELSE Filled("stone", -1)]

Flat == World(Layer(1) \cup Layer(2), {}, {})
Meeting == World(Layer(1) \cup Layer(2), {<<0, 1, 0>>}, {<<2, 1, 0>>})
Shaft == World({<<1, 1, 0>>, <<1, 2, 0>>, <<2, 2, 0>>}, {<<2, 2, 0>>}, {})
Pond == World({<<1, 1, 0>>}, {<<0, 1, 0>>, <<2, 1, 0>>}, {})
SomeWorlds == {Flat, Meeting, Shaft, Pond}

-------------------------------------------------------------------------------
(* Circuits of eight cells: a floor of four and four above it.               *)

Board == (0..3) \X (0..1) \X {0}
Circuit(floor, above) ==
    [c \in Board |-> IF c[2] = 0 THEN floor[c[1] + 1] ELSE above[c[1] + 1]]

East == <<1, 0, 0>>
West == <<-1, 0, 0>>
Up == <<0, 1, 0>>
\* Blocks as in Redstone.
Part(kind, facing, on) == [kind |-> kind, facing |-> facing, on |-> on, setting |-> 1]
Simple(kind) == Part(kind, <<0, 0, 0>>, FALSE)
Bare == Simple("air")
Lever == Simple("lever")
Wire == Simple("wire")
Lamp == Simple("lamp")
Stone == Simple("stone")
To(kind, facing) == Part(kind, facing, FALSE)
Torch == Part("torch", Up, TRUE)
Empty == <<Bare, Bare, Bare, Bare>>

SomeLayouts == {
    Circuit(<<Lever, Wire, Wire, Lamp>>, <<Lamp, Bare, Bare, Bare>>),
    Circuit(<<Lever, To("repeater", East), Wire, Simple("tnt")>>, Empty),
    Circuit(<<Simple("button"), To("comparator", East), To("repeater", East), Lamp>>, Empty),
    Circuit(<<To("sticky_piston", East), Stone, To("observer", West), Lamp>>,
            <<Lever, Bare, Bare, Bare>>),
    Circuit(<<Torch, Wire, Wire, Stone>>, <<Stone, Bare, Bare, Torch>>),
    Circuit(<<Lever, Wire, Stone, Wire>>, <<Bare, Lever, Wire, Wire>>),
    Circuit(<<To("piston", East), To("piston", East), Stone, Bare>>, <<Lever, Lever, Bare, Bare>>)}
LampLayouts == {Circuit(<<Lever, Lamp, Stone, Stone>>, Empty)}
SomePieces == {Stone, Simple("redstone_block")}

\* A world without cells, for the run that follows redstone only.
Nothing == {<<>>}

-------------------------------------------------------------------------------
(* Properties of the parts, under names of their own.                        *)

\* Fluids.UnfedIsPending: what nothing feeds is going to be looked at.
UnfedFluidIsPending == Flow!UnfedIsPending
\* Fluids.ToldAsItIs: clients see the fluids as they are.
FluidsToldAsTheyAre == Flow!ToldAsItIs
\* Fluids.SourcesStay: flowing takes no source away.
FluidSourcesStay == Flow!SourcesStay
\* Fluids.FlowEnds: flowing comes to an end.
FluidFlowEnds == Flow!FlowEnds
\* Redstone.TableInSync: the engine knows exactly the components in the world.
RedstoneTableInSync == Red!TableInSync
\* Redstone.ToldAsItIs: clients see the blocks the engine left.
RedstoneToldAsItIs == Red!ToldAsItIs
\* Both: clients see the world as the engines left it.
WorldToldAsItIs == FluidsToldAsTheyAre /\ RedstoneToldAsItIs
\* Redstone.WireLevels: the signal of wires is that of their shortest way.
RedstoneWireLevels == Red!WireLevels
\* Redstone.BlocksStay: pistons neither make nor lose blocks.
RedstoneBlocksStay == Red!BlocksStay
\* Both: the ticks of the engines keep what they have no reason to take away.
WorldBlocksStay == FluidSourcesStay /\ RedstoneBlocksStay
\* Redstone.LampsGoOut: a lamp goes out when nothing that gives power is on.
RedstoneLampsGoOut == Red!LampsGoOut
===============================================================================

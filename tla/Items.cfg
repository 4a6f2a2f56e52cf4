CONSTANTS
    p1 = p1
    p2 = p2
    stone = stone
    helmet = helmet
    ore = ore
    coal = coal
    ingot = ingot
    Player = {p1, p2}
    Item = {stone, helmet}
    Wearable = {helmet}
    Placeable = {stone}
    MaxStack <- MaxStackMC
    Hotbar <- HotbarMC
    Main <- MainMC
    Offhand = 40
    Armor = 39
    Ender <- EnderMC
    Chest <- ChestMC
    Starts <- StartsMC
    MaxTosses = 2
    MaxPackets = 3
    FurnaceKind = "blast_furnace"
    CookTime = 8
    MaxTouches = 4
    MaxMade = 3
SPECIFICATION BothSpec
INVARIANTS ItemsConserved StacksLegal  FurnaceHeatIsPaid

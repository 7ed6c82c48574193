------------------------------ MODULE MCWorld ------------------------------
(***************************************************************************)
(* What becomes of blocks: the players are told (ChunkView), light is      *)
(* spread (BlockLight), fluids flow (Fluids), pistons move (Pistons),      *)
(* plants grow and fires burn (Growth); of a player's body (Vitals); and   *)
(* what commands make of the world and of the players (WorldCommands,      *)
(* PlayerCommands).  They share no state here; a behaviour is one of the   *)
(* eight.                                                                  *)
(***************************************************************************)
EXTENDS Integers

CONSTANTS
  Viewers, Walkers, Dims, Spots, ViewDist, OneLane, MaxEdits, MaxMoves,
  MaxChanges,
  Width, Height, MaxWater, MaxLava, LavaStep, MaxPlaced,
  Last, Limit, MaxDone,
  MaxH, Thick, BambooMax, Moist, Trunks, Samples, MaxGrown,
  Fed, SlowFed, FastEvery, SlowEvery, Breath, Chill, Flames, RaiseTicks, StunTicks,
  Pulse, Often, Amps, Deep

VARIABLES part,
  world, cache, batch, at, sent, high, low, screen, untold, blank, edits, moves,
  solid, emission, light, removeQueue, addQueue, draining, changes, oddities,
  block, wake, ticking, placed, skipped,
  cell, power, queue, commits, changed, step, disk, barred, kept, done, trouble,
  slice, targets, due, grown, cut,
  scene, now, place, body, effects, attr, gear, todo, calls, shown, lives, asked, slips,
  case, row, loaded, inside, wanted, ticks, server, mirror, where, known, last, promise,
  silent, answer, misses, left,
  act, bag, seen, held, chest, pane, watching, order, before, spot, seat, up, down, home,
  compass, life, herd, gaps, spare

views  == <<world, cache, batch, at, sent, high, low, screen, untold, blank, edits, moves>>
lights == <<solid, emission, light, removeQueue, addQueue, draining, changes, oddities>>
fluids == <<block, wake, ticking, placed, skipped>>
pistons == <<cell, power, queue, commits, changed, step, disk, barred, kept, done, trouble>>
plants == <<slice, targets, due, grown, cut>>
bodies == <<scene, now, place, body, effects, attr, gear, todo, calls, shown, lives, asked,
            slips>>
edicts == <<case, row, loaded, inside, wanted, ticks, server, mirror, where, known, last,
            promise, silent, answer, misses, left>>
people == <<act, bag, seen, held, chest, pane, watching, order, before, spot, seat, up, down,
            home, compass, life, herd, gaps, spare>>

\* Two rows of three cells, and a slice of the world from its floor upwards.
Cells == 1 .. 6
Beside == {{1, 2}, {2, 3}, {4, 5}, {5, 6}, {1, 4}, {2, 5}, {3, 6}}
Emits == {2, 4}

Air == [k |-> "air", l |-> 0]
Rock == [k |-> "rock", l |-> 0]
Plant == [k |-> "plant", l |-> 0]
Fence == [k |-> "fence", l |-> 0]
Spring == [k |-> "water", l |-> 0]
LavaSpring == [k |-> "lava", l |-> 0]
Scenes ==
  {<< <<Rock, Air, Rock>>, <<Air, Spring, Air>> >>,
   << <<Plant, Rock, Air>>, <<LavaSpring, Air, Spring>> >>,
   << <<Fence, Air, Rock>>, <<Rock, Spring, LavaSpring>> >>}

Piston(dir, sticky) == [k |-> "piston", dir |-> dir, sticky |-> sticky, ext |-> FALSE]
Empty == [k |-> "air"]
Stone == [k |-> "stone"]
Layouts ==
  {<<Piston(1, TRUE), Stone, Empty, Stone, Piston(-1, FALSE)>>,
   <<Piston(1, TRUE), Empty, Stone, Empty, [k |-> "obsidian"]>>,
   <<Piston(1, FALSE), Stone, Stone, Stone, Empty>>,
   <<Piston(1, TRUE), Stone, Stone, Empty, Piston(-1, TRUE)>>,
   <<Piston(1, TRUE), Piston(1, TRUE), Stone, Empty, Empty>>}

\* Slices of the world from the bottom up, one for each way to grow or burn.
K(k) == [k |-> k, a |-> 0]
Void == K("air")
Hard == K("rock")
Sea == K("water")
Cane(s, l) == [k |-> "bamboo", a |-> 0, s |-> s, l |-> l]
Soil == [k |-> "farm", a |-> 1]
Slices ==
  {<< <<K("sand")>>, <<K("cane")>>, <<Void>>, <<Void>>, <<Void>>, <<Void>> >>,
   << <<Void, K("sand"), Void>>, <<Void, K("cactus"), Void>>, <<Void, Void, Void>>,
      <<Void, Void, Void>>, <<Void, Void, Void>>, <<Void, Void, Void>> >>,
   << <<K("dirt")>>, <<Cane(0, "none")>>, <<Void>>, <<Void>>, <<Void>>, <<Void>> >>,
   << <<Void, K("plant"), Void>>, <<Void, K("flower"), Void>>, <<Void, Void, Void>>,
      <<Void, Hard, Void>> >>,
   << <<Hard, Hard>>, <<K("kelp"), K("seagrass")>>, <<Sea, Sea>>, <<Sea, Void>> >>,
   << <<Soil, Sea, Soil>>, <<K("crop"), Void, K("torch")>> >>,
   << <<K("dirt"), K("soulsand")>>, <<K("sapling"), K("wart")>>, <<Void, K("berry")>>,
      <<K("chest"), Void>>, <<Void, Void>> >>,
   << <<K("plank"), K("netherrack")>>, <<Cane(1, "none"), K("fire")>>, <<Void, Void>> >>,
   << <<K("soulsand"), K("plank")>>, <<K("soulfire"), K("fire")>> >>,
   << <<K("grass"), K("cocoa"), K("jungle")>>, <<K("snow"), Void, Void>> >>}
Ripe == [crop |-> 2, torch |-> 2, berry |-> 2, wart |-> 1, cocoa |-> 1, cane |-> 1,
         cactus |-> 1, kelp |-> 1, flower |-> 3, fire |-> 1]
Held == [Ripe EXCEPT !.torch = 1]

\* A player's day, one way of suffering at a time.
Still == [kinds |-> {}, places |-> {}, difficulty |-> "hard", hardcore |-> FALSE, blows |-> {},
  verbs |-> {}, wear |-> {}, left |-> [ticks |-> 4, commands |-> 0, packets |-> 0, java |-> 0]]
Hit(a, s) == [amount |-> a, src |-> s]
BodyScenes == {
  [Still EXCEPT !.places = {"water", "snow", "fire", "void", "outside", "air"}, !.blows = {Hit(1900, "generic")},
     !.wear = {"leather"}, !.left.commands = 1, !.left.packets = 2, !.left.ticks = 4],
  [Still EXCEPT !.verbs = {"eat"}, !.blows = {Hit(1900, "drown")}, !.left.commands = 1, !.left.packets = 3, !.left.ticks = 6],
  [Still EXCEPT !.verbs = {"eat"}, !.blows = {Hit(1000, "drown")}, !.left.commands = 1, !.left.packets = 3, !.left.ticks = 6, !.difficulty="easy"],
  [Still EXCEPT !.verbs = {"mode"}, !.blows = {Hit(100000, "/kill"), Hit(500, "sonic_boom")}, !.hardcore = TRUE, !.wear = {"plain"},
     !.left.commands = 3, !.left.packets = 2, !.left.java = 1, !.left.ticks = 1],
  [Still EXCEPT !.verbs = {"fight"}, !.blows = {}, !.wear = {"plain","thorns"}, !.left.packets = 4, !.left.java = 1, !.left.ticks = 2, !.difficulty="peaceful"],
  [Still EXCEPT !.kinds = {"instant_health", "instant_damage", "regeneration", "poison", "wither"}, !.blows = {Hit(1500, "magic")},
     !.left.commands = 2, !.left.ticks = 2, !.left.packets = 1, !.difficulty = "normal"],
  [Still EXCEPT !.kinds = {"saturation", "hunger"}, !.verbs = {"eat"},
     !.left.commands = 2, !.left.ticks = 2, !.left.packets = 1],
  [Still EXCEPT !.kinds = {"resistance", "water_breathing"}, !.blows = {Hit(1500, "drown")}, !.verbs = {"beacon"}, !.places = {"water"},
     !.left.commands = 2, !.left.ticks = 2, !.left.packets = 1],
  [Still EXCEPT !.kinds = {"speed", "levitation", "fire_resistance"}, !.places = {"fire"},
     !.left.commands = 2, !.left.ticks = 2, !.left.packets = 1],
  [Still EXCEPT !.kinds = {"speed", "strength"}, !.verbs = {"attribute"},
     !.left.commands = 2, !.left.ticks = 4]}
Beats == [regeneration |-> 2, poison |-> 2, wither |-> 2, saturation |-> 1]

\* Commands on blocks, on settings (two players, one of them in the nether) and
\* searches with anything to find.
Row == [about |-> "blocks", row |-> <<"stone", "air", "chest", "stone">>, loaded |-> {0, 1},
        chests |-> {}, lerp |-> <<>>, home |-> <<>>, bed |-> <<>>, kinds |-> {},
        near |-> {}, commands |-> 2]
Day == [Row EXCEPT !.about = "settings", !.row = <<>>, !.loaded = {}, !.home = <<0, -1>>,
                   !.bed = << <<>>, <<0>> >>]
Search(near) == [Row EXCEPT !.about = "locate", !.row = <<>>, !.loaded = {}, !.commands = 1,
                            !.kinds = {"biome", "structure"}, !.near = near]
Edicts ==
  {[Row EXCEPT !.kinds = {"setblock", "fill", "clone"}],
   [Row EXCEPT !.kinds = {"setblock", "clone"}, !.loaded = {0}, !.chests = {3},
               !.row = <<"stone", "stone", "chest", "stone">>],
   [Row EXCEPT !.kinds = {"place", "clone"}, !.row = <<"air", "stone", "air", "air">>],
   [Day EXCEPT !.kinds = {"time", "gamerule", "difficulty"}],
   [Day EXCEPT !.kinds = {"border", "spawn", "restart"}, !.bed = << <<-1>>, <<>> >>],
   [Day EXCEPT !.kinds = {"border", "restart"}, !.lerp = <<24, 48, 3>>],
   [Day EXCEPT !.kinds = {"weather", "forceload", "restart"}]}
  \cup {Search(near) : near \in SUBSET {<<-1, 1>>, <<0, 1>>, <<1, -1>>, <<0, 2>>, <<2, 2>>,
                                        <<-2, 0>>}}

\* Commands on players: their bags, their places, and their lives.
Bag(first, second, third, fourth, result) ==
  [s \in {0, 8, 9, 10, 36, 37, 45} |->
     CASE s = 36 -> first [] s = 37 -> second [] s = 9 -> third [] s = 10 -> fourth
       [] s = 0 -> result [] OTHER -> [item |-> "none", n |-> 0, fine |-> FALSE]]
Gem(n) == [item |-> "gem", n |-> n, fine |-> FALSE]
Ore(n) == [item |-> "ore", n |-> n, fine |-> FALSE]
Zero == [item |-> "none", n |-> 0, fine |-> FALSE]
At(d, x) == [d |-> d, x |-> x]
Two == [about |-> "bags", verbs |-> {}, commands |-> 2, cursor |-> <<FALSE, FALSE>>,
        bag |-> <<Bag(Zero, Ore(1), Zero, Zero, Zero), Bag(Gem(1), Gem(2), Ore(2), Zero, Zero)>>,
        chest |-> <<Gem(2), Zero>>, at |-> <<At("over", 1), At("over", 1)>>,
        mode |-> <<"survival", "survival">>, team |-> <<"none", "none">>]
People ==
  {[Two EXCEPT !.verbs = {"give", "clear"}],
   [Two EXCEPT !.verbs = {"loot", "give"},
               !.bag = <<Bag(Ore(1), Gem(1), Ore(2), Zero, Zero),
                         Bag(Gem(1), Gem(2), Ore(2), Ore(1), Zero)>>],
   [Two EXCEPT !.verbs = {"clear", "give"}, !.cursor = <<TRUE, FALSE>>,
               !.bag = <<Bag(Ore(1), Zero, Ore(2), Zero, Zero),
                         Bag(Gem(1), Zero, Zero, Zero, Ore(1))>>],
   [Two EXCEPT !.verbs = {"item", "enchant"}, !.commands = 1],
   [Two EXCEPT !.verbs = {"modify"}],
   [Two EXCEPT !.verbs = {"data", "chest"}],
   [Two EXCEPT !.about = "places", !.verbs = {"tp"}, !.at = <<At("over", 1)>>],
   [Two EXCEPT !.about = "places", !.verbs = {"spread", "spawnpoint"}, !.commands = 1,
               !.team = <<"red", "red">>],
   [Two EXCEPT !.about = "places", !.verbs = {"spread", "spawnpoint"}, !.commands = 1,
               !.at = <<At("nether", 1)>>],
   [Two EXCEPT !.about = "lives", !.verbs = {"kill", "summon"}, !.commands = 3,
               !.mode = <<"survival", "creative">>],
   [Two EXCEPT !.about = "lives", !.verbs = {"xp"}, !.commands = 4, !.at = <<At("over", 1)>>]}
ItemFunctions ==
  {<<>>, <<[f |-> "count", n |-> 9], [f |-> "enchant"]>>, <<[f |-> "range", n |-> 0]>>,
   <<[f |-> "limit", n |-> 1], [f |-> "lore"]>>}

V == INSTANCE ChunkView
B == INSTANCE BlockLight
F == INSTANCE Fluids WITH Placed <- {Air, Rock, Spring, LavaSpring}
P == INSTANCE Pistons
G == INSTANCE Growth WITH block <- slice, queue <- due, edits <- grown, Holds <- Held,
                         MaxEdits <- MaxGrown, Placed <- {K("plank"), K("cane")}
D == INSTANCE Vitals WITH screen <- shown, leaks <- slips, Scenes <- BodyScenes,
                         Every <- Beats

C == INSTANCE WorldCommands WITH scene <- case, cell <- row, now <- ticks, view <- known,
       asked <- last, leaks <- misses, Scenes <- Edicts, ChunkWidth <- 2, Every <- 2,
       MaxTicks <- 5, MaxSessions <- 2, Times <- {3}, Sizes <- {12, 48}, Widest <- 96,
       Durations <- {1, 3}, Difficulties <- {"hard", "normal"}, Points <- {1, 2}
H == INSTANCE PlayerCommands WITH Acts <- People, Items <- {"gem", "ore"}, Full <- 2,
       Hotbar <- <<36, 37>>, Main <- <<9, 10>>, Result <- 0, Armor <- 8, Offhand <- 45,
       Rows <- {1, 2}, Counts <- {1, 2, 3}, Modifiers <- ItemFunctions, Edge <- 4,
       Walls <- {4}, Border <- 3, Stride <- 2, Apart <- 2, MaxMoves <- 2,
       Points <- {-16, -7, -1, 3, 7, 16}

ASSUME WorldConstants ==
  /\ V!ChunkViewConstants /\ B!BlockLightConstants /\ F!FluidsConstants
  /\ P!PistonsConstants /\ G!GrowthConstants /\ D!VitalsConstants
  /\ C!WorldCommandsConstants /\ H!PlayerCommandsConstants

None == <<>>
NoViews ==
  /\ world = None /\ cache = None /\ batch = None /\ at = None /\ sent = None
  /\ high = None /\ low = None /\ screen = None /\ edits = None /\ moves = None
  /\ untold = None /\ blank = None
NoLights ==
  /\ solid = None /\ emission = None /\ light = None /\ removeQueue = None
  /\ addQueue = None /\ draining = None /\ changes = None /\ oddities = None
NoFluids ==
  block = None /\ wake = None /\ ticking = None /\ placed = None /\ skipped = None
NoPistons ==
  /\ cell = None /\ power = None /\ queue = None /\ commits = None
  /\ changed = None /\ step = None /\ disk = None /\ barred = None
  /\ kept = None /\ done = None /\ trouble = None
NoPlants ==
  slice = None /\ targets = None /\ due = None /\ grown = None /\ cut = None
NoBodies ==
  /\ scene = None /\ now = None /\ place = None /\ body = None /\ effects = None
  /\ attr = None /\ gear = None /\ todo = None /\ calls = None /\ shown = None
  /\ lives = None /\ asked = None /\ slips = None
NoEdicts ==
  /\ case = None /\ row = None /\ loaded = None /\ inside = None /\ wanted = None
  /\ ticks = None /\ server = None /\ mirror = None /\ where = None /\ known = None
  /\ last = None /\ promise = None /\ silent = None /\ answer = None /\ misses = None
  /\ left = None
NoPeople ==
  /\ act = None /\ bag = None /\ seen = None /\ held = None /\ chest = None /\ pane = None
  /\ watching = None /\ order = None /\ before = None /\ spot = None /\ seat = None
  /\ up = None /\ down = None /\ home = None /\ compass = None /\ life = None
  /\ herd = None /\ gaps = None /\ spare = None

Init ==
  \/ /\ part = "views" /\ V!Init /\ NoLights /\ NoFluids /\ NoPistons
     /\ NoPlants /\ NoBodies /\ NoEdicts /\ NoPeople
  \/ /\ part = "lights" /\ B!Init /\ NoViews /\ NoFluids /\ NoPistons
     /\ NoPlants /\ NoBodies /\ NoEdicts /\ NoPeople
  \/ /\ part = "fluids" /\ F!Init /\ NoViews /\ NoLights /\ NoPistons
     /\ NoPlants /\ NoBodies /\ NoEdicts /\ NoPeople
  \/ /\ part = "pistons" /\ P!Init /\ NoViews /\ NoLights /\ NoFluids
     /\ NoPlants /\ NoBodies /\ NoEdicts /\ NoPeople
  \/ /\ part = "plants" /\ G!Init /\ NoViews /\ NoLights /\ NoFluids
     /\ NoPistons /\ NoBodies /\ NoEdicts /\ NoPeople
  \/ /\ part = "bodies" /\ D!Init /\ NoViews /\ NoLights /\ NoFluids
     /\ NoPistons /\ NoPlants /\ NoEdicts /\ NoPeople
  \/ /\ part = "edicts" /\ C!Init /\ NoViews /\ NoLights /\ NoFluids
     /\ NoPistons /\ NoPlants /\ NoBodies /\ NoPeople
  \/ /\ part = "people" /\ H!Init /\ NoViews /\ NoLights /\ NoFluids
     /\ NoPistons /\ NoPlants /\ NoBodies /\ NoEdicts

Next ==
  \/ /\ part = "views" /\ V!Next
     /\ UNCHANGED <<part, lights, fluids, pistons, plants, bodies, edicts, people>>
  \/ /\ part = "lights" /\ B!Next
     /\ UNCHANGED <<part, views, fluids, pistons, plants, bodies, edicts, people>>
  \/ /\ part = "fluids" /\ F!Next
     /\ UNCHANGED <<part, views, lights, pistons, plants, bodies, edicts, people>>
  \/ /\ part = "pistons" /\ P!Next
     /\ UNCHANGED <<part, views, lights, fluids, plants, bodies, edicts, people>>
  \/ /\ part = "plants" /\ G!Next
     /\ UNCHANGED <<part, views, lights, fluids, pistons, bodies, edicts, people>>
  \/ /\ part = "bodies" /\ D!Next
     /\ UNCHANGED <<part, views, lights, fluids, pistons, plants, edicts, people>>
  \/ /\ part = "edicts" /\ C!Next
     /\ UNCHANGED <<part, views, lights, fluids, pistons, plants, bodies, people>>
  \/ /\ part = "people" /\ H!Next
     /\ UNCHANGED <<part, views, lights, fluids, pistons, plants, bodies, edicts>>

Spec == Init /\ [][Next]_<<part, views, lights, fluids, pistons, plants, bodies, edicts, people>>

\* ChunkView: once all is delivered a player sees the blocks of his chunks as
\* they are, but for those whose last edit he was not told of.
SeesTheWorld == part = "views" => V!SeesTheWorld

\* BlockLight and Fluids: after a drain the light is the defined one, and after
\* a tick that returns no fluid would change if it ran again; but for the known
\* oddities.
SettledAsDefined ==
  (part = "lights" => B!LightAsDefined) /\ (part = "fluids" => F!RestIsStable)

\* Pistons: no block is lost or doubled, in the world or on disk.
StonesKept == part = "pistons" => P!StonesKept

\* WorldCommands and PlayerCommands: a command does what it answers, to blocks,
\* settings, bags, places and lives, and the clients know; but for the named
\* ways in which it does not.
AsCommanded ==
  (part = "edicts" => C!WorldAsCommanded) /\ (part = "people" => H!PlayersAsCommanded)

\* Growth: a tick makes of a block only what the block that is there becomes,
\* and no plant grows out of its form.
GrowthSound ==
  /\ [](part = "plants" => G!ColumnsSound)
  /\ [][part = "plants" => G!GrowsFromWhatIsThere]_<<part, slice, targets, due, grown, cut>>

\* Vitals: health, death, hunger, effects and attributes fit together, and the
\* client has been told of them, but for the named oddities; and whoever cannot
\* be hurt is not.
BodySound ==
  /\ [](part = "bodies" => D!VitalsInvariant)
  /\ [][part = "bodies" => D!SafeModesHold]_<<part, bodies>>
=============================================================================

------------------------------- MODULE MCItems -------------------------------
(***************************************************************************)
(* The places where items change hands: the screens (Menus), the devices   *)
(* (Automation), the worlds with their players (PlayerLife), the mobs that *)
(* die (Mobs) and the items in use (Using).  They share no state; a        *)
(* behaviour is one of them.                                               *)
(***************************************************************************)
EXTENDS Menus

CONSTANTS CookTotal, FuelTicks, FuelPerBlaze, BrewTicks,
          Leavers, Cap, Depth, Meddling, Drops, Turns,
          Ids, Flights, FuseTicks, MaxBabies,
          Height, Cooldown

VARIABLES part,
  kind, box, near, out, spent, pool, power, was, due, burn, cook, fuel, brew, total,
  block, session, life, mode, dim, dig, inv, xp, file, drops, pend, run, made, turns, meddled,
  mob, listed, fire, minds, quiver, shot, tnt, phase, todo, at, fallen, booms, hits, sky,
  owed, count,
  cell, hand, pack, sent, food, cool, survival, click, bed, night, worth, lost, left

S(x, k) == [item |-> x, n |-> k]
None == <<>>
MCBox == <<<<"chest", "b1">>>>
MCScreens == [p \in Players |-> IF p = "p1" THEN {"table", "cutter", "chest"} ELSE {"chest"}]
MCStarts ==
  {[held |-> [p \in Players |-> IF p = "p1" THEN S("log", 1) ELSE S("plank", 1)],
    drags |-> [p \in Players |-> IF p = "p1" THEN 2 ELSE 0]],
   [held |-> [p \in Players |-> IF p = "p1" THEN S("log", 2) ELSE S("plank", 1)],
    drags |-> [p \in Players |-> 0]]}

\* A column of Automation: the kinds and contents of its places, the item on the
\* ground.
Column(k, top, mid, low, front, lying) ==
  [kind |-> [top |-> k[1], mid |-> k[2], low |-> k[3], front |-> k[4]],
   box |-> [top |-> top, mid |-> mid, low |-> low, front |-> front],
   near |-> [x \in {"ore", "ingot", "coal", "log", "plank", "bucket", "filled", "tool",
                    "herb", "blaze", "potion"} |-> IF x = lying THEN 1 ELSE 0],
   pool |-> FALSE]
Columns ==
  {Column(<<"chest", "hopper", "chest", "none">>,
          <<S("ore", 2), S("coal", 1)>>, <<Air, S("coal", 2)>>, <<S("ore", 1), Air>>, None, "ore"),
   Column(<<"chest", "hopper", "furnace", "none">>, <<S("coal", 1), S("ore", 2)>>,
          <<S("ore", 1), Air>>, <<S("ore", 1), S("coal", 2), S("ingot", 1)>>, None, "ore"),
   Column(<<"furnace", "dropper", "chest", "furnace">>, <<Air, Air, S("ingot", 2)>>,
          <<S("coal", 2), Air>>, <<S("ingot", 2)>>, <<Air, S("coal", 1), Air>>, "coal"),
   Column(<<"chest", "hopper", "brewing", "none">>,
          <<S("herb", 2)>>, <<Air>>, <<S("potion", 1), Air, S("blaze", 1)>>, None, "herb"),
   Column(<<"brewing", "dropper", "none", "brewing">>, <<S("potion", 1), S("herb", 1), Air>>,
          <<S("blaze", 1), Air>>, None, <<Air, S("herb", 1), S("blaze", 1)>>, "herb"),
   Column(<<"chest", "hopper", "crafter", "chest">>, <<S("log", 1)>>, <<S("log", 1)>>,
          <<S("log", 2), S("log", 1), Air>>, <<S("plank", 1)>>, "log"),
   Column(<<"none", "dispenser", "none", "none">>,
          None, <<S("bucket", 1), S("tool", 1), S("ore", 1)>>, None, None, "filled"),
   Column(<<"chest", "dispenser", "none", "none">>,
          <<S("bucket", 2)>>, <<S("filled", 1), Air>>, None, None, "ore")}

\* The mobs of a start, what is still to come, ticks and tamperings.
Herd(m, q, n, k) == [mobs |-> m, quiver |-> q, turns |-> n, tampers |-> k]
Shot(k, p) == [what |-> "shot", kind |-> k, pierce |-> p]
Herds ==
  {Herd(<<"slime">>, {Shot("arrow", 0), Shot("arrow", 1)}, 1, 0),
   Herd(<<"creeper", "zombie">>, {}, 2, 1),
   Herd(<<"creeper", "zombie">>, {[what |-> "tnt"]}, 2, 0),
   Herd(<<"slime">>, {Shot("trident", 0)}, 1, 1),
   Herd(<<"creaking">>, {[what |-> "mob", kind |-> "pig"], Shot("pearl", 0)}, 1, 1),
   Herd(<<"zombie", "zombie">>, {Shot("arrow", 2)}, 1, 1)}

\* What a player clicks with, on which column, and the nights.
Block(k) == [k |-> k, open |-> FALSE]
Stack(k, n) == [k |-> k, n |-> n]
Use(column, h, n, m) ==
  [cell |-> [y \in 1 .. Height |-> Block(column[y])], hand |-> h, survival |-> TRUE,
   pack |-> [arrows |-> 1, bowls |-> 0, room |-> TRUE],
   survivors |-> Players, night |-> FALSE, uses |-> n, meddle |-> m]
Field == <<"stone", "air", "air", "air", "air">>
Gap == <<"stone", "air", "air", "stone", "air">>
Dark(s) == [Use(Field, Stack("none", 0), 4, 0) EXCEPT !.survivors = s, !.night = TRUE]
Clicks ==
  {Use(Gap, Stack("door", 2), 3, 1), Use(Gap, Stack("slab", 2), 3, 1),
   Use(<<"top", "air", "bottom", "stone", "air">>, Stack("slab", 2), 2, 1),
   Use(<<"stone", "water", "air", "air", "air">>, Stack("bucket", 2), 3, 0),
   Use(<<"stone", "water", "tnt", "young", "air">>, Stack("bucket", 1), 3, 0),
   Use(<<"obsidian", "air", "air", "air", "obsidian">>, Stack("flint", 1), 3, 1),
   Use(<<"tnt", "young", "lever", "air", "stone">>, Stack("flint", 1), 2, 0),
   Use(<<"chest", "young", "air", "cake", "stone">>, Stack("meal", 2), 2, 1),
   Use(Field, Stack("boat", 1), 2, 1), Use(Field, Stack("egg", 2), 2, 1),
   [Use(Field, Stack("stone", 2), 2, 1) EXCEPT !.survival = FALSE],
   Use(Field, Stack("pearl", 2), 4, 0), Use(Field, Stack("trident", 1), 2, 0),
   Use(Field, Stack("bow", 1), 3, 0), Use(Field, Stack("stew", 2), 3, 0),
   Dark(Players), Dark({"p1"})}

A == INSTANCE Automation WITH Starts <- Columns
L == INSTANCE PlayerLife
M == INSTANCE Mobs WITH Starts <- Herds, due <- owed
U == INSTANCE Using WITH Starts <- Clicks, at <- click, total <- worth

ASSUME A!AutomationConstants /\ L!PlayerLifeConstants /\ M!MobsConstants /\ U!UsingConstants

screens == <<start, stack, menu, drag, ground>>
devices == <<kind, box, near, out, spent, pool, power, was, due, burn, cook, fuel, brew, total>>
worlds  == <<block, session, life, mode, dim, dig, inv, xp, file, drops, pend, run, made,
             turns, meddled>>
mobs    == <<mob, listed, fire, minds, quiver, shot, tnt, phase, todo, at, fallen, booms,
             hits, sky, owed, count>>
uses    == <<cell, hand, pack, sent, food, cool, survival, click, bed, night, worth, lost, left>>
NoScreens ==
  /\ start = None /\ stack = None /\ menu = None /\ drag = None
  /\ ground = None
NoDevices ==
  /\ kind = None /\ box = None /\ near = None /\ out = None /\ spent = None
  /\ pool = None /\ power = None /\ was = None /\ due = None /\ burn = None
  /\ cook = None /\ fuel = None /\ brew = None /\ total = None
NoWorlds ==
  /\ block = None /\ session = None /\ life = None /\ mode = None
  /\ dim = None /\ dig = None /\ inv = None /\ xp = None /\ file = None
  /\ drops = None /\ pend = None /\ run = None /\ made = None
  /\ turns = None /\ meddled = None
NoMobs ==
  /\ mob = None /\ listed = None /\ fire = None /\ minds = None
  /\ quiver = None /\ shot = None /\ tnt = None /\ phase = None
  /\ todo = None /\ at = None /\ fallen = None /\ booms = None
  /\ hits = None /\ sky = None /\ owed = None /\ count = None

NoUses ==
  /\ cell = None /\ hand = None /\ pack = None /\ sent = None
  /\ food = None /\ cool = None /\ survival = None /\ click = None
  /\ bed = None /\ night = None /\ worth = None /\ lost = None
  /\ left = None

ItemsInit ==
  \/ part = "menus" /\ Init /\ NoDevices /\ NoWorlds /\ NoMobs /\ NoUses
  \/ part = "devices" /\ A!Init /\ NoScreens /\ NoWorlds /\ NoMobs /\ NoUses
  \/ part = "worlds" /\ L!Init /\ NoScreens /\ NoDevices /\ NoMobs /\ NoUses
  \/ part = "mobs" /\ M!Init /\ leaks = {} /\ NoScreens /\ NoDevices /\ NoWorlds /\ NoUses
  \/ part = "uses" /\ U!Init /\ leaks = {} /\ NoScreens /\ NoDevices /\ NoWorlds /\ NoMobs

ItemsNext ==
  \/ part = "menus" /\ Next /\ UNCHANGED <<part, devices, worlds, mobs, uses>>
  \/ part = "devices" /\ A!Next /\ UNCHANGED <<part, screens, worlds, mobs, uses>>
  \/ part = "worlds" /\ L!Next /\ UNCHANGED <<part, screens, devices, mobs, uses>>
  \/ part = "mobs" /\ M!Next /\ UNCHANGED <<part, leaks, screens, devices, worlds, uses>>
  \/ part = "uses" /\ U!Next /\ UNCHANGED <<part, leaks, screens, devices, worlds, mobs>>

ItemsSpec == ItemsInit /\ [][ItemsNext]_<<part, leaks, screens, devices, worlds, mobs, uses>>

\* Menus: no click, drag, recipe or close makes or loses items, and the result a
\* screen shows is that of its inputs.
ScreensSound == part = "menus" => ItemsKept /\ OutputCurrent

\* Automation: no device makes or loses worth.
FlowKept == part = "devices" => A!FlowKept

\* PlayerLife: no block, item or experience point is lost or doubled, and a
\* player dies once of one blow.  Mobs: a mob dies and pays once, and takes its
\* brain with it.  Using: what a click places is paid for, doors stay whole and
\* nights end when everyone sleeps.
MatterKept ==
  /\ part = "worlds" => L!MatterKept /\ L!DiesOnce
  /\ part = "mobs" => M!MobsSound
  /\ part = "uses" => U!UsingSound

\* PlayerLife: a dig breaks the block it began with.
BreaksWhatWasDug == L!BreaksWhatWasDug
=============================================================================

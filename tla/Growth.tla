------------------------------- MODULE Growth -------------------------------
(***************************************************************************)
(* What the random and the scheduled ticks of blocks do (BlockTickScheduler *)
(* and the block behaviours): plants that grow, farmland that dries, fire   *)
(* that spreads, and bone meal.  A tick first samples the blocks that will  *)
(* be ticked and then runs their behaviours one by one, each of which may   *)
(* change what a later one was sampled for.                                 *)
(*                                                                          *)
(* Abstracted: a slice of the world one block thick, rock beyond its edge   *)
(* and air in front and behind; chances, light, game rules and the          *)
(* simulation distance decide freely whether a behaviour does anything;     *)
(* ages count to less than in the code (Ripe).  Leaves (particles),         *)
(* campfires and portals (no behaviour) and the creaking heart (a mob)      *)
(* change no block and are left out.                                        *)
(***************************************************************************)
EXTENDS Integers, Sequences, FiniteSets

CONSTANTS
  Ripe,      \* the age a plant grows to, by kind
  Holds,     \* the greatest age the states of the kind have
  MaxH,      \* how high cane and cactus grow
  Thick,     \* the height from which bamboo is thick
  BambooMax, \* the height bamboo no longer grows from
  Moist,     \* the moisture of farmland near water
  Trunks,    \* heights of a tree's trunk
  Slices,    \* Bound: the slices explored
  Placed,    \* Bound: what players put in
  Samples,   \* Bound: blocks sampled in a tick
  MaxEdits   \* Bound: what players do

GrowthConstants ==
  /\ {MaxH, Thick, BambooMax, Moist, Samples} \subseteq Nat \ {0} /\ MaxEdits \in Nat
  /\ \A k \in DOMAIN Ripe : Ripe[k] \in Nat /\ Holds[k] \in 0 .. Ripe[k]
  /\ Trunks \subseteq 3 .. 6

LOCAL INSTANCE SequencesExt

VARIABLES
  block,     \* the block of each cell of the slice
  targets,   \* the sampled blocks whose behaviour is still to run
  queue,     \* pendingPos_: the cells with a scheduled tick
  edits,
  cut        \* fire or a player took from a column of plants, or a player put one there

growthVars == <<block, targets, queue, edits, cut>>

Is(k, a) == [k |-> k, a |-> a]
Bamboo(a, s, l) == [k |-> "bamboo", a |-> a, s |-> s, l |-> l]
Air == Is("air", 0)
Rock == Is("rock", 0)

Up(c, n) == <<c[1], c[2] + n>>
Side(c, n) == <<c[1] + n, c[2]>>
At(s, c) == IF c \in DOMAIN s THEN s[c] ELSE Rock
Kind(s, c) == At(s, c).k
Put(s, c, b) == IF c \in DOMAIN s THEN [s EXCEPT ![c] = b] ELSE s

\* withAge: an age the block has no state for leaves it at its default.
Aged(b, n) == [b EXCEPT !.a = IF n <= Holds[b.k] THEN n ELSE 0]

Init ==
  /\ \E s \in Slices :
       block = [c \in (1 .. Len(s[1])) \X (1 .. Len(s)) |-> s[c[2]][c[1]]]
  /\ targets = <<>> /\ queue = {} /\ edits = 0 /\ cut = FALSE

Outlives(k) == k \in {"crop", "torch", "berry", "wart", "cocoa", "cane", "cactus", "bamboo",
                      "kelp", "flower", "fire", "soulfire", "sapling", "farm", "grass"}
---------------------------------------------------------------------------
(* The behaviours: the slices that may result from ticking cell c.          *)

\* CropBehavior, SweetBerryBehavior
Older(s, c) == IF s[c].a < Ripe[s[c].k] THEN {Put(s, c, Aged(s[c], s[c].a + 1))} ELSE {}

\* NetherWartBehavior, CocoaBehavior: on soul sand, on a jungle log beside.
OlderOn(s, c, at, k) == IF Kind(s, at) = k THEN Older(s, c) ELSE {}

\* SaplingBehavior::fertilize: the trunk goes through whatever is there, the
\* leaves only where there is air.
Tree(s, c) ==
  LET Trunk(h) == FoldLeft(LAMBDA t, n : Put(t, Up(c, n - 1), Is("log", 0)), s, [n \in 1 .. h |-> n])
      Leaf(h) == {d \in DOMAIN s : LET dx == IF d[1] > c[1] THEN d[1] - c[1] ELSE c[1] - d[1]
                                       dy == d[2] - c[2]
                                   IN /\ dy \in h - 2 .. h + 1
                                      /\ dx <= (IF dy >= h THEN 1 ELSE 2)
                                      /\ dx # 0 \/ dy >= h}
      Whole(h) == [d \in DOMAIN s |-> IF d \in Leaf(h) /\ Trunk(h)[d] = Air THEN Is("leaves", 0)
                                      ELSE Trunk(h)[d]]
  IN IF Kind(s, Up(c, -1)) \in {"dirt", "grass"} THEN {Whole(h) : h \in Trunks} ELSE {}

\* The blocks of one kind above each other with c among them; only as many as
\* may still matter.
RunUp(s, c, k) == CHOOSE n \in 0 .. Cardinality(DOMAIN s) :
  /\ \A i \in 1 .. n : Kind(s, Up(c, i)) = k
  /\ Kind(s, Up(c, n + 1)) # k
RunDown(s, c, k) == CHOOSE n \in 0 .. Cardinality(DOMAIN s) :
  /\ \A i \in 1 .. n : Kind(s, Up(c, -i)) = k
  /\ Kind(s, Up(c, -n - 1)) # k
Tall(s, c) == 1 + RunUp(s, c, s[c].k) + RunDown(s, c, s[c].k)

\* StemBehavior, sugar cane and cactus: the block ages and then, grown old and
\* with air above, starts anew with another one on top.
Stem(s, c) ==
  IF Tall(s, c) >= MaxH THEN {}
  ELSE IF s[c].a < Ripe[s[c].k] THEN {Put(s, c, Aged(s[c], s[c].a + 1))}
  ELSE IF At(s, Up(c, 1)) = Air
       THEN {Put(Put(s, c, Is(s[c].k, 0)), Up(c, 1), Is(s[c].k, 0))}
  ELSE {}
Cactus(s, c) ==
  IF /\ Kind(s, Up(c, -1)) \in {"sand", "cactus"}
     /\ \A n \in {-1, 1} : Kind(s, Side(c, n)) \notin {"rock", "dirt", "sand", "log", "plank"}
  THEN Stem(s, c) ELSE {}

\* bambooLeavesFor
LeavesFor(h, below) ==
  CASE below = 0 -> IF h = 1 THEN "none" ELSE IF h = 2 THEN "small" ELSE "large"
    [] below = 1 -> IF h = 3 THEN "small" ELSE IF h >= 4 THEN "large" ELSE "none"
    [] below = 2 -> IF h >= 5 THEN "small" ELSE "none"
    [] OTHER -> "none"

\* bambooUpdateLeaves: from Thick on every block is made old, the one on top
\* with them, so that bamboo grows no higher.
Leafed(s, base, h) ==
  FoldLeft(LAMBDA t, n :
             LET d == Up(base, n - 1)
             IN IF Kind(t, d) # "bamboo" THEN t
                ELSE Put(t, d, [t[d] EXCEPT !.l = LeavesFor(h, h - n),
                                            !.a = IF h >= Thick THEN 1 ELSE @]),
           s, [n \in 1 .. h |-> n])

\* StemBehavior, bamboo: a young top readies itself, then puts one on top.
Shoot(s, c) ==
  IF s[c].s = 0 THEN {Put(s, c, [s[c] EXCEPT !.s = 1])}
  ELSE IF s[c].a = 0 /\ Tall(s, c) < BambooMax /\ At(s, Up(c, 1)) = Air
       THEN LET t == Put(Put(s, c, [s[c] EXCEPT !.a = 1, !.s = 0]),
                         Up(c, 1), Bamboo(0, 0, "small"))
            IN {Leafed(t, Up(c, -RunDown(t, c, "bamboo")), Tall(s, c) + 1)}
  ELSE {}

\* KelpBehavior
Kelp(s, c) ==
  IF s[c].a < Ripe["kelp"] /\ At(s, Up(c, 1)) = Is("water", 0)
  THEN {Put(Put(s, c, Aged(s[c], s[c].a + 1)), Up(c, 1), Is("kelp", 0))} ELSE {}

\* ChorusFlowerBehavior: up if it can, else sideways (0: out of the slice), else
\* older, and dead in the end.
Chorus(s, c) ==
  LET Branch(t, n) ==
        IF n = 0 THEN [t EXCEPT !.done = TRUE]
        ELSE LET d == Side(c, n)
             IN IF At(t.b, d) = Air /\ At(t.b, Up(d, -1)) = Air /\ At(t.b, Side(d, n)) = Air
                THEN [b |-> Put(t.b, d, Is("flower", s[c].a + 1)), done |-> TRUE]
                ELSE t
      Branched(ways) == FoldLeft(Branch, [b |-> s, done |-> FALSE], ways)
      Result(ways) == IF Branched(ways).done THEN Put(Branched(ways).b, c, Is("plant", 0))
                      ELSE Put(s, c, Is("flower", s[c].a + 1))
  IN CASE s[c].a >= Ripe["flower"] -> {}
       [] s[c].a < Ripe["flower"] /\ At(s, Up(c, 1)) = Air ->
            {Put(Put(s, c, Is("plant", 0)), Up(c, 1), s[c])}
       [] s[c].a = Ripe["flower"] - 1 /\ At(s, Up(c, 1)) # Air ->
            {Put(s, c, Is("flower", Ripe["flower"]))}
       [] OTHER -> {Result(w) : w \in {<<>>, <<0>>, <<1>>, <<-1>>, <<1, -1>>, <<-1, 1>>}}

\* FarmlandBehavior: dry, bare and far from water it turns to dirt.
Wet(s, c) == \E dx \in -1 .. 1, dy \in 0 .. 1 : Kind(s, <<c[1] + dx, c[2] + dy>>) = "water"
Farm(s, c) ==
  LET m == IF Wet(s, c) THEN Moist ELSE IF s[c].a = 0 THEN 0 ELSE s[c].a - 1
  IN IF m = 0 /\ Kind(s, Up(c, 1)) # "crop" THEN {Put(s, c, Is("dirt", 0))}
     ELSE {Put(s, c, Is("farm", m))}

\* GrassBlockBehavior: snow above shows.
Grass(s, c) == {Put(s, c, Is("grass", IF Kind(s, Up(c, 1)) = "snow" THEN 1 ELSE 0))}

Flammable(k) == k \in {"log", "leaves", "plank", "bamboo"}
Around(c) == {<<c[1] + dx, c[2] + dy>> : dx \in -1 .. 1, dy \in -1 .. 1}

\* FireBehavior: cells it may set alight, in the order it looks at them.  What
\* burns is replaced by fire; air burns beside what can.
Reached(c) == <<Side(c, 1), Side(c, -1), Up(c, 1), Up(c, 2), Up(c, 3), Up(c, 4)>>
Near(c) == [i \in 1 .. 8 |-> LET j == IF i <= 4 THEN i - 1 ELSE i
                           IN <<c[1] + (j \div 3) - 1, c[2] + (j % 3) - 1>>]
Alight(s, c, T, soul) ==
  LET Burns(t, d, F(_)) == Kind(t, d) = "air" /\ \E e \in Around(d) \ {d} : F(Kind(t, e))
      First(t, d) == IF d \in T /\ (Flammable(Kind(t, d)) \/ Burns(t, d, Flammable))
                     THEN Put(t, d, Is("fire", 0)) ELSE t
      Feeds(k) == IF soul THEN k = "soulsand" ELSE Flammable(k)
      Then(t, d) == IF d \in T /\ Burns(t, d, Feeds) THEN Put(t, d, Is("fire", 0)) ELSE t
  IN FoldLeft(Then, FoldLeft(First, s, Reached(c)), Near(c))
Tinder(s, c) == {d \in (Range(Reached(c)) \cup Around(c)) \ {c} :
                   \/ Flammable(Kind(s, d))
                   \/ Kind(s, d) = "air" /\ \E e \in Around(d) :
                        Flammable(Kind(s, e)) \/ Kind(s, e) = "soulsand"} \cap DOMAIN s

Fire(s, c) ==
  LET Older1 == {s} \cup Older(s, c)
      Spread == UNION {{Alight(t, c, T, FALSE) : T \in SUBSET Tinder(t, c)} : t \in Older1}
      Fuelled(t) == \/ Kind(t, Up(c, -1)) = "netherrack"
                    \/ \E dx \in -1 .. 1, dy \in -1 .. 0 : Flammable(Kind(t, <<c[1] + dx, c[2] + dy>>))
  IN Spread \cup {Put(t, c, Air) : t \in {t \in Spread : t[c].a >= Ripe["fire"] /\ ~Fuelled(t)}}

\* SoulFireBehavior: it has no age, and goes out without its base.
SoulFire(s, c) ==
  IF Kind(s, Up(c, -1)) # "soulsand" THEN {Put(s, c, Air)}
  ELSE {Alight(s, c, T, TRUE) : T \in SUBSET Tinder(s, c)}

Ticked(s, c) ==
  CASE Kind(s, c) \in {"crop", "torch", "berry"} -> Older(s, c)
    [] Kind(s, c) = "wart" -> OlderOn(s, c, Up(c, -1), "soulsand")
    [] Kind(s, c) = "cocoa" -> OlderOn(s, c, Side(c, 1), "jungle")
    [] Kind(s, c) = "sapling" -> Tree(s, c)
    [] Kind(s, c) = "cane" -> Stem(s, c)
    [] Kind(s, c) = "cactus" -> Cactus(s, c)
    [] Kind(s, c) = "bamboo" -> Shoot(s, c)
    [] Kind(s, c) = "kelp" -> Kelp(s, c)
    [] Kind(s, c) = "flower" -> Chorus(s, c)
    [] Kind(s, c) = "farm" -> Farm(s, c)
    [] Kind(s, c) = "grass" -> Grass(s, c)
    [] Kind(s, c) = "fire" -> Fire(s, c)
    [] Kind(s, c) = "soulfire" -> SoulFire(s, c)
    [] OTHER -> {}
---------------------------------------------------------------------------
(* The tick and the players.                                                *)

\* A plant that stands in a column is no longer there.
Stands(k) == k \in {"cane", "cactus", "bamboo"}
Noted == cut' = (cut \/ \E c \in DOMAIN block : Stands(block[c].k) /\ block'[c].k # block[c].k)

\* The positions drawn in the sections, with the blocks seen there.
Sample ==
  /\ targets = <<>>
  /\ \E n \in 1 .. Samples : \E cs \in [1 .. n -> {c \in DOMAIN block : Outlives(block[c].k)}] :
       targets' = [i \in 1 .. n |-> [at |-> cs[i], seen |-> block[cs[i]]]]
  /\ UNCHANGED <<block, queue, edits, cut>>

\* Faulty: the behaviour runs for the block that was sampled.
RunSampled ==
  /\ targets # <<>>
  /\ LET t == Head(targets)
     IN block' \in {block} \cup Ticked([block EXCEPT ![t.at] = t.seen], t.at)
  /\ targets' = Tail(targets) /\ Noted
  /\ UNCHANGED <<queue, edits>>

\* A block that is no longer what was sampled is passed over.
Run ==
  /\ targets # <<>>
  /\ LET t == Head(targets)
     IN IF block[t.at] = t.seen THEN block' \in {block} \cup Ticked(block, t.at)
        ELSE UNCHANGED block
  /\ targets' = Tail(targets) /\ Noted
  /\ UNCHANGED <<queue, edits>>

\* A scheduled tick, whatever is there by now; none in a chunk nobody is near.
Scheduled(c) ==
  /\ targets = <<>> /\ c \in queue
  /\ queue' = queue \ {c}
  /\ block' \in {block} \cup Ticked(block, c) /\ Noted
  /\ UNCHANGED <<targets, edits>>

\* Between ticks: bone meal by a player or a dispenser,
Fertilized(s, c) ==
  CASE Kind(s, c) \in {"crop", "torch"} /\ s[c].a < Ripe[Kind(s, c)] ->
         {Put(s, c, Aged(s[c], Ripe[s[c].k]))}
    [] Kind(s, c) = "cocoa" /\ s[c].a < Ripe["cocoa"] -> {Put(s, c, Is("cocoa", Ripe["cocoa"]))}
    [] Kind(s, c) = "berry" -> Older(s, c)
    [] Kind(s, c) = "sapling" -> Tree(s, c)
    [] Kind(s, c) = "kelp" -> Kelp(s, c)
    [] Kind(s, c) = "seagrass" /\ At(s, Up(c, 1)) = Is("water", 0) ->
         {Put(Put(s, c, Is("tall", 0)), Up(c, 1), Is("tall", 1))}
    [] OTHER -> {}

Edit == targets = <<>> /\ edits < MaxEdits /\ edits' = edits + 1

BoneMeal(c) ==
  /\ Edit
  /\ block' \in Fertilized(block, c)
  /\ UNCHANGED <<targets, queue, cut>>

\* a block placed in the air or taken away,
Place(c, b) ==
  /\ Edit /\ block[c] = Air
  /\ block' = [block EXCEPT ![c] = b]
  /\ cut' = (cut \/ Stands(b.k))
  /\ UNCHANGED <<targets, queue>>
Break(c) ==
  /\ Edit /\ block[c] # Air
  /\ block' = [block EXCEPT ![c] = Air]
  /\ Noted
  /\ UNCHANGED <<targets, queue>>

\* and a portal lit: its cells, which have no ages, are to be ticked once.
LightPortal(c) ==
  /\ Edit /\ block[c] = Air
  /\ block' = [block EXCEPT ![c] = Is("portal", 0)]
  /\ queue' = queue \cup {c}
  /\ UNCHANGED <<targets, cut>>

Next ==
  \/ Sample \/ Run
  \/ \E c \in DOMAIN block :
       Scheduled(c) \/ BoneMeal(c) \/ Break(c) \/ LightPortal(c) \/ \E b \in Placed : Place(c, b)

Spec == Init /\ [][Next]_growthVars
---------------------------------------------------------------------------
\* No plant has grown higher than it does, and bamboo carries the leaves of its
\* height, unless players or fire have taken from the plants (StemBehavior,
\* bambooUpdateLeaves).
ColumnsSound ==
  ~cut =>
    \A c \in DOMAIN block :
      /\ block[c].k \in {"cane", "cactus"} => Tall(block, c) <= MaxH
      /\ block[c].k = "bamboo" =>
           /\ Tall(block, c) <= Thick
           /\ block[c].l = LeavesFor(Tall(block, c), RunUp(block, c, "bamboo"))

\* What may become of a block by itself.  A trunk grows through anything, and
\* the crops that are grown to an age they have no state for begin again.
MayBecome(b, v) ==
  \/ b.k = v.k /\ (b.k \notin {"cane", "cactus", "bamboo", "farm", "grass", "torch"} => b.a <= v.a)
  \/ b = Air /\ v.k \in {"cane", "cactus", "bamboo", "leaves", "flower", "fire"}
  \/ b = Is("water", 0) /\ v = Is("kelp", 0)
  \/ b.k = "farm" /\ v.k = "dirt"
  \/ b.k = "flower" /\ v.k = "plant"
  \/ Flammable(b.k) /\ v.k = "fire"
  \/ b.k \in {"fire", "soulfire"} /\ v = Air
  \/ v.k = "log"

\* A tick changes a block only into what the block that is there becomes: no
\* behaviour acts on what was sampled and has changed since.
GrowsFromWhatIsThere ==
  targets # <<>> => \A c \in DOMAIN block : block'[c] # block[c] => MayBecome(block[c], block'[c])
=============================================================================

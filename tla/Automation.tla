----------------------------- MODULE Automation -----------------------------
(***************************************************************************)
(* A column of block entities that move and change items without a player: *)
(* a container on top, a hopper, dropper or dispenser in the middle, and   *)
(* below it a chest, furnace, brewing stand or crafter, with a container   *)
(* in front of the middle and of the crafter.                              *)
(*                                                                         *)
(* Each device's turn in a tick is one action: the tick holds the gate for *)
(* all of it.  How many turns one device has before another's (hoppers     *)
(* every eight ticks, cooking times) is left open.                         *)
(*                                                                         *)
(* A log is worth two planks, a smelted ingot its ore; what is burnt, brewed *)
(* in, shot or worn out is counted in `spent', so a correct device keeps the *)
(* total worth.  `leaks' names the ways in which the code does not.        *)
(*                                                                         *)
(* Abstracted: containers have fewer slots and one stack limit; the three  *)
(* bottles of a stand are one; a dispenser's many kinds of item are those  *)
(* that leave it (dropped, shot, worn, placed), tools and buckets.         *)
(***************************************************************************)
EXTENDS Naturals, Sequences, FiniteSets

CONSTANTS
  Limit,     \* how many items one stack holds
  Starts,    \* Bound: the columns explored: kinds, contents, items on the ground
  CookTotal, FuelTicks, FuelPerBlaze, BrewTicks

AutomationConstants ==
  /\ {Limit, CookTotal, FuelTicks, FuelPerBlaze, BrewTicks} \subseteq Nat \ {0}
  /\ \A s \in Starts : DOMAIN s.kind = {"top", "mid", "low", "front"}

LOCAL INSTANCE FiniteSetsExt

VARIABLES
  kind,      \* the kind of block at each place of the column
  box,       \* its slots
  near,      \* items lying where the middle picks up, per kind
  out,       \* worth of what was thrown out elsewhere
  spent,     \* worth of what was used up
  pool,      \* whether a source of water stands in front
  power,     \* the redstone signal at the middle and below, now
  was,       \* and when the device was last looked at
  due,       \* a crafter's pulse waits to be carried out
  burn, cook, \* the furnace's burning and cooking times
  fuel, brew, \* the stand's fuel and brewing time
  total,     \* the worth of the column at the start
  leaks

vars == <<kind, box, near, out, spent, pool, power, was, due, burn, cook, fuel, brew, total, leaks>>

Places == {"top", "mid", "low", "front"}
Air == [item |-> "air", n |-> 0]
Items == {"ore", "ingot", "coal", "log", "plank", "bucket", "filled", "tool", "herb", "blaze", "potion"}
Price(x) == IF x = "log" THEN 2 ELSE IF x = "air" THEN 0 ELSE 1

Filled(f, p) == {i \in DOMAIN f[p] : f[p][i].n > 0}
Held(f) == MapThenSumSet(LAMBDA p : MapThenSumSet(LAMBDA i : f[p][i].n * Price(f[p][i].item),
                                                  DOMAIN f[p]), Places)
Lying(g) == MapThenSumSet(LAMBDA x : g[x] * Price(x), Items)
Worth == Held(box) + Lying(near) + out + spent
---------------------------------------------------------------------------
(* Slots.                                                                   *)

\* The slots of a container that a hopper takes from.
Gives(k) == CASE k = "furnace" -> {3} [] k = "brewing" -> {1} [] OTHER -> 1 .. 5

\* The slots that take an item x which comes from above, from the side, or out
\* of a crafter.  The second slot of a crafter is disabled.
Takes(k, way, x) ==
  CASE k = "furnace" /\ way = "down" -> {1}
    [] k = "furnace" -> IF x = "coal" THEN {2} ELSE {}
    [] k = "brewing" -> CASE way = "down" -> {2} [] way = "side" -> {1, 3} [] OTHER -> {}
    [] k = "crafter" -> {1, 3}
    [] OTHER -> 1 .. 5

Fits(s, x) == s.n = 0 \/ (s.item = x /\ s.n < Limit)
Open(f, p, way, x) ==
  {i \in Takes(kind[p], way, x) \cap DOMAIN f[p] : Fits(f[p][i], x)}

\* One item x into the first slot that takes it, if one does.
PutOne(f, p, way, x) ==
  LET at == Open(f, p, way, x)
  IN  IF at = {} THEN f
      ELSE [f EXCEPT ![p][Min(at)] = [item |-> x, n |-> @.n + 1]]

Less(s) == IF s.n = 1 THEN Air ELSE [s EXCEPT !.n = @ - 1]
TakeOne(f, p, i) == [f EXCEPT ![p][i] = Less(@)]
---------------------------------------------------------------------------
(* A turn of the middle (hoppersTickFor): pull, pick up, push, dispense.     *)

\* From the first slot above whose item has room here.
Pulled(f) ==
  LET from == {i \in Gives(kind["top"]) \cap Filled(f, "top") :
                 Open(f, "mid", "down", f["top"][i].item) # {}}
  IN  IF from = {} THEN f
      ELSE TakeOne(PutOne(f, "mid", "down", f["top"][Min(from)].item), "top", Min(from))

\* Faulty: the item that did not fit is taken off all the same.
PushedBlind(f) ==
  LET i == Min(Filled(f, "mid"))
  IN  IF Filled(f, "mid") = {} THEN f
      ELSE TakeOne(PutOne(f, "low", "down", f["mid"][i].item), "mid", i)

\* From the first stack here, and from no other if that one does not fit.
Pushed(f) ==
  LET i == Min(Filled(f, "mid"))
  IN  IF Filled(f, "mid") = {} \/ Open(f, "low", "down", f["mid"][i].item) = {} THEN f
      ELSE TakeOne(PutOne(f, "low", "down", f["mid"][i].item), "mid", i)

\* What a dispenser does with the stack s it picked: the stack left behind, the
\* worth thrown out and used up, the water, and the leaks.  A tool that finds
\* no use is dropped as a copy and kept; a bucket that is filled or emptied
\* replaces its whole stack, and one that finds nothing to fill it stays.
Dispensed(s) ==
  LET p == Price(s.item)
      gone == [left |-> Less(s), out |-> p, spent |-> 0, pool |-> pool, how |-> {}]
      turned(x, water) ==
        [left |-> [item |-> x, n |-> 1], out |-> 0, spent |-> 0, pool |-> water,
         how |-> IF s.n > 1 THEN {"bucketStack"} ELSE {}]
  IN  CASE s.item = "tool" -> {[gone EXCEPT !.out = 0, !.spent = p],
                               [gone EXCEPT !.out = 0, !.left = s],
                               [gone EXCEPT !.left = s, !.how = {"copied"}]}
        [] s.item = "filled" /\ ~pool -> {turned("bucket", TRUE)}
        [] s.item = "bucket" /\ pool -> {turned("filled", FALSE)}
        [] s.item = "bucket" -> {[gone EXCEPT !.out = 0, !.left = s]}
        [] OTHER -> {gone, [gone EXCEPT !.out = 0, !.spent = p]}

\* The items a bolt of redstone throws out of the middle.
Threw(f) ==
  IF kind["mid"] = "hopper" \/ ~power["mid"] \/ was["mid"] \/ Filled(f, "mid") = {}
  THEN /\ box' = f /\ UNCHANGED <<out, spent, pool, leaks>>
  ELSE \E i \in Filled(f, "mid") :
         LET s == f["mid"][i]
             room == kind["front"] # "none" /\ Open(f, "front", "side", s.item) # {}
         IN  IF kind["mid"] = "dropper"
             THEN /\ box' = IF room THEN TakeOne(PutOne(f, "front", "side", s.item), "mid", i)
                            ELSE TakeOne(f, "mid", i)
                  /\ out' = IF room THEN out ELSE out + Price(s.item)
                  /\ UNCHANGED <<spent, pool, leaks>>
             ELSE \E r \in Dispensed(s) :
                    /\ box' = [f EXCEPT !["mid"][i] = r.left]
                    /\ out' = out + r.out /\ spent' = spent + r.spent
                    /\ pool' = r.pool /\ leaks' = leaks \cup r.how

\* A hopper with power rests; droppers and dispensers pull, pick up and push as
\* hoppers do, with power or without.
MidTurn ==
  LET f == Pulled(box)
      here == {x \in Items : near[x] > 0 /\ Open(f, "mid", "down", x) # {}}
  IN  /\ ~(kind["mid"] = "hopper" /\ power["mid"])
      /\ \/ here = {} /\ Threw(Pushed(f)) /\ UNCHANGED near
         \/ \E x \in here :
              /\ near' = [near EXCEPT ![x] = @ - 1]
              /\ Threw(Pushed(PutOne(f, "mid", "down", x)))
      /\ was' = [was EXCEPT !["mid"] = power["mid"]]
      /\ UNCHANGED <<kind, power, due, burn, cook, fuel, brew, total>>
---------------------------------------------------------------------------
(* A turn of the block below.                                               *)

Smelts(s) == s.item = "ore"

\* furnacesTickFor.  The output stack grows without a limit.
FurnaceTurn ==
  LET f == box["low"]
      lit == IF burn > 0 THEN burn - 1 ELSE 0
      kindle == lit = 0 /\ Smelts(f[1]) /\ f[2].item = "coal"
      burn1 == IF kindle THEN FuelTicks ELSE lit
      g == IF kindle THEN [f EXCEPT ![2] = Less(@)] ELSE f
      done == Smelts(g[1]) /\ burn1 > 0 /\ cook + 1 >= CookTotal
      free == g[3].n = 0 \/ g[3].item = "ingot"
  IN  /\ kind["low"] = "furnace"
      /\ burn' = burn1 /\ spent' = spent + (IF kindle THEN 1 ELSE 0)
      /\ box' = [box EXCEPT !["low"] =
           IF done /\ free THEN [g EXCEPT ![1] = Less(@), ![3] = [item |-> "ingot", n |-> @.n + 1]]
           ELSE g]
      /\ cook' = CASE ~(Smelts(g[1]) /\ burn1 > 0) -> 0
                   [] done /\ free -> 0
                   [] done -> CookTotal
                   [] OTHER -> cook + 1
      /\ UNCHANGED <<kind, near, out, pool, power, was, due, fuel, brew, total, leaks>>

\* brewingTickFor: fuel first; the ingredient goes when the time is up, whether
\* or not the bottles are still there.
BrewingTurn ==
  LET f == box["low"]
      refill == fuel = 0 /\ f[3].item = "blaze"
      g == IF refill THEN [f EXCEPT ![3] = Less(@)] ELSE f
      fuel1 == IF refill THEN FuelPerBlaze ELSE fuel
      start == brew = 0 /\ g[2].n > 0 /\ g[1].n > 0 /\ fuel1 > 0
      done == brew = 1 /\ g[2].n > 0
  IN  /\ kind["low"] = "brewing"
      /\ box' = [box EXCEPT !["low"] = IF done THEN [g EXCEPT ![2] = Less(@)] ELSE g]
      /\ spent' = spent + (IF refill THEN 1 ELSE 0) + (IF done THEN Price(g[2].item) ELSE 0)
      /\ fuel' = IF start THEN fuel1 - 1 ELSE fuel1
      /\ brew' = IF start THEN BrewTicks ELSE IF brew > 0 THEN brew - 1 ELSE 0
      /\ UNCHANGED <<kind, near, out, pool, power, was, due, burn, cook, total, leaks>>

\* The two planks a crafter makes: onto like stacks in front, then into empty
\* slots, the rest thrown out.
Ejected(f) ==
  LET at == IF kind["front"] = "none" THEN {} ELSE Takes(kind["front"], "craft", "plank")
      like(g) == {i \in at \cap Filled(g, "front") : Fits(g["front"][i], "plank")}
      empty(g) == (at \cap DOMAIN g["front"]) \ Filled(g, "front")
      one(r) == LET i == IF like(r.box) # {} THEN Min(like(r.box)) ELSE Min(empty(r.box))
                IN  IF like(r.box) \cup empty(r.box) = {} THEN [r EXCEPT !.out = @ + 1]
                    ELSE [r EXCEPT !.box["front"][i] = [item |-> "plank", n |-> @.n + 1]]
  IN  one(one([box |-> f, out |-> 0]))

\* Faulty: the craft goes ahead although its only log is in the disabled slot.
CraftsDisabled(f) ==
  LET used == Filled(f, "low")
      i == Min(used)
  IN  IF Cardinality(used) = 1 /\ f["low"][i].item = "log"
      THEN Ejected(IF i = 2 THEN f ELSE TakeOne(f, "low", i)) ELSE [box |-> f, out |-> 0]

\* craftOnRedstone: the recipe is one log in the enabled slots and nothing else.
Crafts(f) ==
  LET used == Filled(f, "low") \cap {1, 3}
      i == Min(used)
  IN  IF Cardinality(used) = 1 /\ f["low"][i].item = "log" THEN Ejected(TakeOne(f, "low", i))
      ELSE [box |-> f, out |-> 0]

\* craftersTickFor: a rising signal sets up a pulse, which is carried out a few
\* ticks later even when the signal has gone; one that rises again while a
\* pulse waits is only noticed after it.
CrafterTurn ==
  LET rises == power["low"] /\ ~was["low"] /\ ~due
      r == Crafts(box)
  IN  /\ kind["low"] = "crafter"
      /\ was' = [was EXCEPT !["low"] = (@ /\ power["low"]) \/ rises]
      /\ \/ due' = (due \/ rises) /\ UNCHANGED <<box, out>>
         \/ due /\ due' = FALSE /\ box' = r.box /\ out' = out + r.out
      /\ UNCHANGED <<kind, near, spent, pool, power, burn, cook, fuel, brew, total, leaks>>
---------------------------------------------------------------------------
\* The signal at a device changes.
Signal ==
  /\ \E p \in {"mid", "low"} : power' = [power EXCEPT ![p] = ~@]
  /\ UNCHANGED <<kind, box, near, out, spent, pool, was, due, burn, cook, fuel, brew, total, leaks>>

\* A player takes a stack out of a container he has open.
PlayerTakes ==
  /\ \E p \in Places : \E i \in Filled(box, p) :
       /\ box' = [box EXCEPT ![p][i] = Air]
       /\ out' = out + box[p][i].n * Price(box[p][i].item)
  /\ UNCHANGED <<kind, near, spent, pool, power, was, due, burn, cook, fuel, brew, total, leaks>>

Init ==
  /\ \E s \in Starts : kind = s.kind /\ box = s.box /\ near = s.near /\ pool = s.pool
  /\ out = 0 /\ spent = 0
  /\ power = [p \in {"mid", "low"} |-> FALSE] /\ was = power /\ due = FALSE
  /\ burn = 0 /\ cook = 0 /\ fuel = 0 /\ brew = 0
  /\ total = Worth
  /\ leaks = {}

\* Bound: nothing is explored past the first leak.
Next ==
  /\ leaks = {}
  /\ \/ MidTurn \/ FurnaceTurn \/ BrewingTurn \/ CrafterTurn \/ Signal \/ PlayerTakes

Spec == Init /\ [][Next]_vars
---------------------------------------------------------------------------
\* No chain of automatic transfers, crafts, smeltings and brewings, cut into by
\* players and signals, changes the worth of what is there, until a dispenser
\* does in one of its two ways: a copied tool, a stack replaced by one bucket.
FlowKept == leaks = {} => Worth = total
=============================================================================

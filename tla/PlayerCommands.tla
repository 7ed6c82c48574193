--------------------------- MODULE PlayerCommands ---------------------------
(***************************************************************************)
(* The commands that change players: what they carry (/give, /clear,       *)
(* /loot, /item, /enchant, /data), where they are (/tp, /spreadplayers,    *)
(* /spawnpoint, against the moves that their clients report meanwhile) and *)
(* what they are (/kill, /xp, /summon).  A scene says which of the three a *)
(* behaviour is about.                                                     *)
(*                                                                         *)
(* order is the last command with what it answered; before is what was     *)
(* carried when it began.  gaps names the known ways in which a command    *)
(* does not do what it answers; nothing is explored past the first.        *)
(***************************************************************************)
EXTENDS Integers, Sequences, FiniteSets
LOCAL INSTANCE SequencesExt
LOCAL INSTANCE FiniteSetsExt

CONSTANTS
    Acts,           \* the scenes
    Items, Full,    \* kinds of items, items of a full stack
    Hotbar, Main,   \* slots of a bag, in the order they are filled
    Result, Armor, Offhand, Rows,  \* the other slots; the slots of a chest
    Counts,         \* how many are given, how many taken at most
    Modifiers,      \* sequences of item functions; <<>> is an unknown modifier
    Edge, Walls, Border, Stride,   \* places are 0 .. Edge; a longer move is refused
    Apart,          \* how far spread players are
    MaxMoves, Points

VARIABLES
    act, bag, seen, held,                \* what is carried, what the client shows of it
    chest, pane, watching,               \* a chest, what its viewers see
    order, before,
    spot, seat, up, down, home, compass, \* places: server's, client's, the wires, respawning
    life, herd,                          \* bodies and mobs
    gaps, spare

bags == <<bag, seen, held, chest, pane, watching, before>>
places == <<spot, seat, up, down, home, compass>>
lives == <<life, herd>>
acts == <<act, bags, order, places, lives, gaps, spare>>

Users == DOMAIN act.at
Nothing == [item |-> "none", n |-> 0, fine |-> FALSE]
Stack(item, n) == [item |-> item, n |-> n, fine |-> FALSE]
MainOrder == Hotbar \o Main
BagOrder == <<Result, Armor>> \o Main \o Hotbar \o <<Offhand>>
Slots == ToSet(BagOrder)
Lanes == {"over", "nether"}
PlayerCommandsConstants ==
    /\ Full \in Nat \ {0} /\ Stride \in Nat /\ Edge \in Nat
    /\ IsInjective(BagOrder)

Init ==
    /\ act \in Acts
    /\ bag = act.bag /\ seen = act.bag /\ before = act.bag
    /\ held = [p \in Users |-> Hotbar[1]]
    /\ chest = act.chest /\ pane = [p \in Users |-> act.chest] /\ watching = {}
    /\ order = [verb |-> "none", who |-> {}, item |-> "none", n |-> 0, slot |-> 0, says |-> 0]
    /\ spot = act.at /\ seat = [p \in Users |-> act.at[p].x]
    /\ up = [p \in Users |-> <<>>] /\ down = [p \in Users |-> <<>>]
    /\ home = [p \in Users |-> <<>>] /\ compass = [p \in Users |-> <<>>]
    /\ life = [p \in Users |-> [mode |-> act.mode[p], dead |-> FALSE,
                                level |-> 0, points |-> 0, total |-> 0]]
    /\ herd = {} /\ gaps = {} /\ spare = [commands |-> act.commands, moves |-> MaxMoves]

Known == gaps = {}
Gaps(named) == gaps' = {g \in DOMAIN named : named[g]}
Command(verb) ==
    /\ Known /\ verb \in act.verbs /\ spare.commands > 0
    /\ spare' = [spare EXCEPT !.commands = @ - 1]
    /\ UNCHANGED act
Orders(verb, who, item, n, slot, says) ==
    order' = [verb |-> verb, who |-> who, item |-> item, n |-> n, slot |-> slot, says |-> says]
NoOrder == UNCHANGED order

-----------------------------------------------------------------------------
(* What players carry *)

Total(b, item) == MapThenSumSet(LAMBDA s : IF b[s].item = item THEN b[s].n ELSE 0, DOMAIN b)
Among(slots, b, Fits(_)) ==
    LET i == SelectInSeq(slots, LAMBDA s : Fits(b[s])) IN IF i = 0 THEN {} ELSE {slots[i]}
Free(b, slots) == Cardinality({s \in ToSet(slots) : b[s].n = 0})
Lesser(m, n) == IF m < n THEN m ELSE n

\* addToInventory: the hotbar's stacks of the item are filled up, then the empty
\* slots outside the hotbar; all is put or nothing.
Takes(b, s, item) ==
    IF s \in ToSet(Hotbar) THEN IF b[s].item = item THEN Full - b[s].n ELSE 0
    ELSE IF b[s].n = 0 THEN Full ELSE 0
Filled(b, item, n) ==
    FoldLeft(LAMBDA r, s :
               LET k == Lesser(Takes(r.b, s, item), r.n)
               IN  IF k <= 0 THEN r
                   ELSE [b |-> [r.b EXCEPT ![s] = [@ EXCEPT !.item = item, !.n = @ + k]],
                         n |-> r.n - k],
             [b |-> b, n |-> n], MainOrder)
AddToInventory(b, item, n) == LET r == Filled(b, item, n) IN IF r.n = 0 THEN r.b ELSE b
Room(b, item) == MapThenSumSet(LAMBDA s : Takes(b, s, item), ToSet(MainOrder))

\* /give without a count: into the first empty slot; when there is none, what
\* is there of the item makes place for a single one.
GiveOne(b, stack) ==
    LET free == Among(MainOrder, b, LAMBDA s : s.n = 0)
        added == AddToInventory(b, stack.item, 1)
        same == Among(MainOrder, added, LAMBDA s : s.n > 0 /\ s.item = stack.item)
    IN  IF free # {} THEN [b EXCEPT ![CHOOSE s \in free : TRUE] = stack]
        ELSE IF same # {} THEN [added EXCEPT ![CHOOSE s \in same : TRUE] = stack]
        ELSE added
\* /give with a count: one after the other, each into the first empty slot or,
\* without one, added.
GiveMany(b, stack, n) ==
    FoldLeft(LAMBDA r, i : IF Free(r, MainOrder) > 0 THEN GiveOne(r, stack)
                           ELSE AddToInventory(r, stack.item, 1),
             b, [i \in 1 .. n |-> i])
\* What /give with a count finds place for.
Places(b, item) ==
    Free(b, Main) + MapThenSumSet(LAMBDA s : IF b[s].n = 0 THEN Full ELSE Takes(b, s, item), ToSet(Hotbar))

\* Bags change and their owners are sent them, with nothing on the cursor.
Carry(who, new) ==
    /\ bag' = [p \in Users |-> IF p \in who THEN new[p] ELSE bag[p]]
    /\ seen' = [p \in Users |-> IF p \in who THEN new[p] ELSE seen[p]]
    /\ before' = bag
    /\ UNCHANGED <<held, chest, pane, watching, places, lives>>
Hides(who) == \E p \in who : act.cursor[p]

Give(who, item, fine) ==
    LET stack == [item |-> item, n |-> 1, fine |-> fine]
    IN  /\ Command("give")
        /\ Carry(who, [p \in Users |-> GiveOne(bag[p], stack)])
        /\ Orders("give", who, item, 1, 0, Cardinality(who))
        /\ Gaps([cut |-> \E p \in who : Free(bag[p], MainOrder) = 0, cursor |-> Hides(who)])
GiveCount(who, item, n) ==
    /\ Command("give")
    /\ Carry(who, [p \in Users |-> GiveMany(bag[p], Stack(item, 1), n)])
    /\ Orders("give", who, item, n, 0, Cardinality(who))
    /\ Gaps([lost |-> \E p \in who : Places(bag[p], item) < n, cursor |-> Hides(who)])

\* /clear of one's own bag counts stacks.
Held(b) == {s \in DOMAIN b : b[s].n > 0}
Bare == [s \in Slots |-> Nothing]
ClearSelf(p) ==
    /\ Command("clear")
    /\ Carry({p}, [q \in Users |-> Bare])
    /\ Orders("clear", {p}, "all", 0, 0, Cardinality(Held(bag[p])))
    /\ Gaps([countsStacks |-> \E s \in Slots : bag[p][s].n > 1, cursor |-> Hides({p})])
Amount(b) == MapThenSumSet(LAMBDA s : b[s].n, DOMAIN b)
ClearAll(who) ==
    /\ Command("clear")
    /\ Carry(who, [p \in Users |-> Bare])
    /\ Orders("clear", who, "all", 0, 0, MapThenSumSet(LAMBDA p : Amount(bag[p]), who))
    /\ Gaps([cursor |-> Hides(who)])
ClearItem(who, item) ==
    /\ Command("clear")
    /\ Carry(who, [p \in Users |-> [s \in Slots |-> IF bag[p][s].item = item THEN Nothing ELSE bag[p][s]]])
    /\ Orders("clear", who, item, 0, 0, MapThenSumSet(LAMBDA p : Total(bag[p], item), who))
    /\ Gaps([cursor |-> Hides(who)])

\* /clear with a number: one budget for all players, in the order of the slots.
TakeFrom(b, item, n) ==
    FoldLeft(LAMBDA r, s :
               LET k == IF r.b[s].item = item THEN Lesser(r.b[s].n, r.n) ELSE 0
               IN  [b |-> [r.b EXCEPT ![s] = IF k = 0 THEN @ ELSE IF k = @.n THEN Nothing
                                             ELSE [@ EXCEPT !.n = @ - k]],
                    n |-> r.n - k],
             [b |-> b, n |-> n], BagOrder)
ClearUpTo(line, item, n) ==
    LET end == FoldLeft(LAMBDA r, p :
                          LET t == TakeFrom(r.bags[p], item, r.n)
                          IN  [bags |-> [r.bags EXCEPT ![p] = t.b], n |-> t.n],
                        [bags |-> bag, n |-> n], line)
    IN  /\ Command("clear")
        /\ Carry(ToSet(line), end.bags)
        /\ Orders("clear", ToSet(line), item, n, 0, n - end.n)
        /\ Gaps([cursor |-> Hides(ToSet(line))])

\* /loot give adds the drops; replace entity writes the first slot of the hotbar
\* or else the one where crafting puts its result.
LootGive(who, item, n) ==
    /\ Command("loot")
    /\ Carry(who, [p \in Users |-> AddToInventory(bag[p], item, n)])
    /\ Orders("give", who, item, n, 0, Cardinality(who))
    /\ Gaps([lost |-> \E p \in who : Room(bag[p], item) < n, cursor |-> Hides(who)])
LootReplace(who, weapon, item) ==
    LET slot == IF weapon THEN Hotbar[1] ELSE Result
    IN  /\ Command("loot")
        /\ Carry(who, [p \in Users |-> [bag[p] EXCEPT ![slot] = Stack(item, 1)]])
        /\ Orders("put", who, item, 1, slot, Cardinality(who))
        /\ Gaps([misplaced |-> ~weapon, cursor |-> Hides(who)])

\* /item on players: the main hand is always the first slot of the hotbar.
SlotNamed(name) ==
    CASE name = "mainhand" -> Hotbar[1] [] name = "offhand" -> Offhand
      [] name = "armor" -> Armor [] name = "inventory" -> Main[1] [] name = "hotbar" -> Hotbar[2]
Misses(name, who) == name = "mainhand" /\ \E p \in who : held[p] # Hotbar[1]
Limited(n, lo, hi) == IF n < lo THEN lo ELSE IF n > hi THEN hi ELSE n
Parsed(item, n) == Stack(item, Limited(n, 1, Full))
ItemReplace(who, name, item, n) ==
    /\ Command("item")
    /\ Carry(who, [p \in Users |-> [bag[p] EXCEPT ![SlotNamed(name)] = Parsed(item, n)]])
    /\ Orders("put", who, item, Parsed(item, n).n, SlotNamed(name), Cardinality(who))
    /\ Gaps([notHeld |-> Misses(name, who), cursor |-> Hides(who)])
ItemRemove(who, name) ==
    /\ Command("item")
    /\ Carry(who, [p \in Users |-> [bag[p] EXCEPT ![SlotNamed(name)] = Nothing]])
    /\ Orders("put", who, "none", 0, SlotNamed(name), Cardinality(who))
    /\ Gaps([notHeld |-> Misses(name, who), cursor |-> Hides(who)])

\* An item modifier applies its functions in turn; one that is not known makes
\* the stack one larger.
Applied(s, f) ==
    CASE f.f = "count" -> [s EXCEPT !.n = Limited(f.n, 1, Full)]
      [] f.f = "range" -> [s EXCEPT !.n = f.n]
      [] f.f = "limit" -> [s EXCEPT !.n = Limited(@, 1, f.n)]
      [] f.f = "enchant" -> [s EXCEPT !.fine = TRUE]
      [] OTHER -> s
Modified(s, fs) ==
    IF fs = <<>> THEN [s EXCEPT !.n = Lesser(@ + 1, Full)] ELSE FoldLeft(Applied, s, fs)
\* What one would have it be: the last word on the number, and none of the rest.
Odd(fs) == fs = <<>> \/ \E i \in DOMAIN fs : fs[i].f = "range" /\ fs[i].n \notin 1 .. Full
ItemModify(who, name, fs) ==
    LET hit == {p \in who : bag[p][SlotNamed(name)].n > 0}
    IN  /\ Command("modify")
        /\ Carry(hit, [p \in Users |-> [bag[p] EXCEPT ![SlotNamed(name)] = Modified(@, fs)]])
        /\ Orders("modify", hit, "any", 0, SlotNamed(name), Cardinality(hit))
        /\ Gaps([notHeld |-> Misses(name, who), odd |-> hit # {} /\ Odd(fs), cursor |-> Hides(hit)])

\* /enchant: whatever is held.
Enchant(who) ==
    LET hit == {p \in who : bag[p][held[p]].n > 0}
    IN  /\ Command("enchant")
        /\ hit # {}
        /\ Carry(hit, [p \in Users |-> [bag[p] EXCEPT ![held[p]].fine = TRUE]])
        /\ Orders("modify", hit, "any", 0, held, Cardinality(hit))
        /\ Gaps([cursor |-> Hides(hit)])

\* /item on a chest: those who look into it are not told.
Stored(row, stack) ==
    /\ chest' = [chest EXCEPT ![row] = stack]
    /\ Gaps([unseen |-> watching # {} /\ chest[row] # stack,
             odd |-> stack.n \notin 0 .. Full])
    /\ before' = bag
    /\ UNCHANGED <<bag, seen, held, pane, watching, places, lives>>
ItemReplaceBlock(row, item, n) ==
    /\ Command("chest")
    /\ Stored(row, Parsed(item, n)) /\ Orders("store", {}, item, n, row, 1)
ItemRemoveBlock(row) ==
    /\ Command("chest")
    /\ Stored(row, Nothing) /\ Orders("store", {}, "none", 0, row, 1)
ItemModifyBlock(row, fs) ==
    /\ Command("chest") /\ chest[row].n > 0
    /\ Stored(row, Modified(chest[row], fs))
    /\ Orders("store", {}, chest[row].item, Modified(chest[row], fs).n, row, 1)

\* /data modify, remove and merge, /loot insert and replace block answer that
\* they have done it; /data get only looks.
Idle == before' = bag /\ UNCHANGED <<bag, seen, held, chest, pane, watching, places, lives>>
Pretend ==
    /\ Command("data") /\ Idle
    /\ Orders("pretend", {}, "none", 0, 0, 1) /\ Gaps([pretends |-> TRUE])
Look(who) ==
    /\ Command("data") /\ Idle
    /\ Orders("look", who, "none", 0, 0, Cardinality(who)) /\ UNCHANGED gaps

Moving == Known /\ spare.moves > 0 /\ spare' = [spare EXCEPT !.moves = @ - 1]
Open(p) ==
    /\ Moving /\ "chest" \in act.verbs /\ p \notin watching
    /\ watching' = watching \cup {p} /\ pane' = [pane EXCEPT ![p] = chest]
    /\ NoOrder /\ UNCHANGED <<act, bag, seen, held, chest, before, places, lives, gaps>>
Close(p) ==
    /\ Known /\ p \in watching
    /\ watching' = watching \ {p}
    /\ NoOrder /\ UNCHANGED <<act, bag, seen, held, chest, pane, before, places, lives, gaps, spare>>
HoldSlot(p, s) ==
    /\ Moving /\ act.verbs \cap {"item", "enchant"} # {} /\ s # held[p]
    /\ held' = [held EXCEPT ![p] = s]
    \* the last command was about the slot held then
    /\ order' = [order EXCEPT !.verb = "none"]
    /\ UNCHANGED <<act, bag, seen, chest, pane, watching, before, places, lives, gaps>>

-----------------------------------------------------------------------------
(* Where players are *)

\* A teleport puts the player there on the server and tells his client.
Put(who, x) ==
    /\ spot' = [p \in Users |-> IF p \in who THEN [spot[p] EXCEPT !.x = x[p]] ELSE spot[p]]
    /\ down' = [p \in Users |-> IF p \in who THEN Append(down[p], x[p]) ELSE down[p]]
    /\ UNCHANGED <<seat, up, home, compass, bags, lives>>
\* /tp, run in a lane: only the coordinates are taken from it.
Teleport(who, x, lane) ==
    /\ Command("tp")
    /\ Put(who, [p \in Users |-> x])
    /\ Orders("tp", who, "none", x, 0, Cardinality(who))
    /\ Gaps([wrongWorld |-> \E p \in who : spot[p].d # lane])

\* /spreadplayers: a place for every group, apart from the others unless none
\* was found in a thousand tries.
Groups(who, teams) ==
    IF teams THEN {{p \in who : act.team[p] = t} : t \in {act.team[p] : p \in who} \ {"none"}}
                    \cup {{p} : p \in {q \in who : act.team[q] = "none"}}
    ELSE {{p} : p \in who}
Far(x, y) == x - y >= Apart \/ y - x >= Apart
Spread(who, teams, lane) ==
    \E at \in [Groups(who, teams) -> 0 .. Edge] :
      LET group(p) == CHOOSE g \in DOMAIN at : p \in g
          x == [p \in Users |-> IF p \in who THEN at[group(p)] ELSE 0]
      IN  /\ Command("spread")
          /\ Put(who, x)
          /\ Orders("spread", who, IF teams THEN "teams" ELSE "each", 0, x, Cardinality(who))
          /\ Gaps([wrongWorld |-> \E p \in who : spot[p].d # lane,
                   crowded |-> \E g, h \in DOMAIN at : g # h /\ ~Far(at[g], at[h])])

\* /spawnpoint: here, or there in the lane of the command if it names one and
\* else in the player's; the data file is written with it.
SpawnPoint(who, where, lane) ==
    LET at(p) == IF where = {} THEN spot[p] ELSE [d |-> IF lane = "own" THEN spot[p].d ELSE lane,
                                                  x |-> CHOOSE x \in where : TRUE]
    IN  /\ Command("spawnpoint")
        /\ home' = [p \in Users |-> IF p \in who THEN at(p) ELSE home[p]]
        /\ compass' = [p \in Users |-> IF p \in who THEN at(p).x ELSE compass[p]]
        /\ Orders("spawnpoint", who, "none", 0, 0, Cardinality(who))
        /\ UNCHANGED <<spot, seat, up, down, bags, lives, gaps>>

\* A client walks, goes where it is told and reports both; the server takes a
\* report that is near and free and answers any other with where the player is.
Report(p, x) ==
    /\ seat' = [seat EXCEPT ![p] = x]
    /\ up' = [up EXCEPT ![p] = Append(@, x)]
    /\ NoOrder /\ UNCHANGED <<act, bags, spot, home, compass, lives, gaps>>
ClientWalks(p, x) ==
    /\ Moving /\ act.about = "places"
    /\ x - seat[p] \in {-1, 1} /\ x \notin Walls
    /\ Report(p, x) /\ UNCHANGED down
ClientTold(p) ==
    /\ Known /\ down[p] # <<>>
    /\ Report(p, Head(down[p])) /\ down' = [down EXCEPT ![p] = Tail(@)]
    /\ UNCHANGED spare
Refused(p, x) == x - spot[p].x > Stride \/ spot[p].x - x > Stride \/ x > Border \/ x \in Walls
\* Faulty: a refused move is dropped, and nobody is told.
ServerDrops(p) ==
    LET x == Head(up[p])
    IN  /\ Known /\ up[p] # <<>>
        /\ up' = [up EXCEPT ![p] = Tail(@)]
        /\ spot' = IF Refused(p, x) THEN spot ELSE [spot EXCEPT ![p].x = x]
        /\ UNCHANGED <<act, bags, order, down, seat, home, compass, lives, gaps, spare>>
ServerMoves(p) ==
    LET x == Head(up[p])
    IN  /\ Known /\ up[p] # <<>>
        /\ up' = [up EXCEPT ![p] = Tail(@)]
        /\ spot' = IF Refused(p, x) THEN spot ELSE [spot EXCEPT ![p].x = x]
        /\ down' = IF Refused(p, x) THEN [down EXCEPT ![p] = Append(@, spot[p].x)] ELSE down
        /\ Gaps([endless |-> Refused(p, x) /\ x = spot[p].x])
        /\ UNCHANGED <<act, bags, order, seat, home, compass, lives, spare>>

-----------------------------------------------------------------------------
(* What players are *)

\* /kill: a player is hurt beyond measure, unless a callback forbids it, and
\* counted in any case; mobs of the command's lane vanish.
Kill(who, mobs, lane, spared) ==
    LET dies == {p \in who \ spared : life[p].mode = "survival" /\ ~life[p].dead}
        gone == {m \in mobs : m.d = lane}
    IN  /\ Command("kill")
        /\ life' = [p \in Users |-> IF p \in dies THEN [life[p] EXCEPT !.dead = TRUE] ELSE life[p]]
        /\ herd' = herd \ gone
        /\ Orders("kill", who, "none", Cardinality(herd), lane, Cardinality(who) + Cardinality(gone))
        /\ Gaps([survived |-> dies # who])
        /\ UNCHANGED <<bags, places>>
Summon(lane) ==
    /\ Command("summon")
    /\ herd' = herd \cup {[id |-> spare.commands, d |-> lane]}
    /\ Orders("summon", {}, "none", 0, lane, 1)
    /\ UNCHANGED <<life, bags, places, gaps>>

\* Experience: points of the present level, whose bar may also be brimful.
Need(level) == IF level >= 31 THEN 62 + (level - 30) * 9
               ELSE IF level >= 16 THEN 37 + (level - 15) * 5 ELSE 2 * level + 7
Climb == 12  \* more levels than any scene goes up or down
Repeat(Step(_), s) == FoldLeft(LAMBDA r, i : Step(r), s, [i \in 1 .. Climb |-> i])
Rises(s) ==
    LET remain == Need(s.level) - s.points
    IN  IF s.rest = 0 THEN s
        ELSE IF s.rest >= remain /\ remain > 0
        THEN [s EXCEPT !.level = @ + 1, !.points = 0, !.rest = @ - remain]
        ELSE IF s.points + s.rest >= Need(s.level)
        THEN [s EXCEPT !.level = @ + 1, !.points = s.points + s.rest - Need(s.level), !.rest = 0]
        ELSE [s EXCEPT !.points = @ + s.rest, !.rest = 0]
AddPoints(s, n) == [Repeat(Rises, [s EXCEPT !.total = @ + n, !.rest = n]) EXCEPT !.rest = 0]
Falls(s) ==
    IF s.rest = 0 THEN s
    ELSE IF s.rest < s.points THEN [s EXCEPT !.points = @ - s.rest, !.rest = 0]
    ELSE IF s.level = 0 THEN [s EXCEPT !.points = 0, !.rest = 0]
    ELSE [s EXCEPT !.level = @ - 1, !.points = Need(s.level - 1), !.rest = @ - s.points]
TakePoints(s, n) ==
    LET less == [s EXCEPT !.total = IF @ > n THEN @ - n ELSE 0, !.rest = n]
        start == IF s.level > 0 /\ s.points = 0
                 THEN [less EXCEPT !.level = @ - 1, !.points = Need(s.level - 1) - 1, !.rest = n - 1]
                 ELSE less
    IN  Repeat(Falls, start)
Xp(p) == [level |-> life[p].level, points |-> life[p].points, total |-> life[p].total, rest |-> 0]
Gains(who, new) ==
    /\ life' = [p \in Users |-> IF p \in who
                  THEN [life[p] EXCEPT !.level = new[p].level, !.points = new[p].points,
                                       !.total = new[p].total]
                  ELSE life[p]]
    /\ Orders("xp", who, "none", 0, 0, 1)
    /\ UNCHANGED <<herd, bags, places>>
XpPoints(who, n) ==
    /\ Command("xp")
    /\ Gains(who, [p \in Users |-> IF n < 0 THEN TakePoints(Xp(p), -n) ELSE AddPoints(Xp(p), n)])
    /\ Gaps([brimful |-> \E p \in who : n > 0 /\ life[p].points = Need(life[p].level)])
\* The total grows by the cost of the new level, once for each level.
XpLevels(who, n) ==
    LET new(p) == IF life[p].level + n > 0 THEN life[p].level + n ELSE 0
        total(p) == life[p].total + n * Need(new(p))
    IN  /\ Command("xp")
        /\ Gains(who, [p \in Users |-> [Xp(p) EXCEPT !.level = new(p),
                                          !.total = IF total(p) > 0 THEN total(p) ELSE 0]])
        /\ Gaps([levels |-> TRUE])

-----------------------------------------------------------------------------

Some == SUBSET Users \ {{}}
Next ==
    \/ \E who \in Some, item \in Items :
         \/ \E fine \in BOOLEAN : Give(who, item, fine)
         \/ \E n \in Counts : GiveCount(who, item, n) \/ LootGive(who, item, n)
         \/ ClearItem(who, item)
         \/ \E weapon \in BOOLEAN : LootReplace(who, weapon, item)
    \/ \E line \in {<<p>> : p \in Users} \cup {s \in [1 .. 2 -> Users] : s[1] # s[2]},
          item \in Items, n \in Counts : ClearUpTo(line, item, n)
    \/ \E p \in Users : ClearSelf(p)
    \/ \E who \in Some : ClearAll(who) \/ Enchant(who) \/ Look(who)
    \/ \E who \in Some, name \in {"mainhand", "offhand", "armor", "inventory", "hotbar"} :
         \/ \E item \in Items, n \in Counts : ItemReplace(who, name, item, n)
         \/ ItemRemove(who, name)
         \/ \E fs \in Modifiers : ItemModify(who, name, fs)
    \/ \E row \in Rows :
         \/ \E item \in Items, n \in Counts : ItemReplaceBlock(row, item, n)
         \/ ItemRemoveBlock(row)
         \/ \E fs \in Modifiers : ItemModifyBlock(row, fs)
    \/ Pretend
    \/ \E p \in Users : Open(p) \/ Close(p) \/ \E s \in ToSet(Hotbar) : HoldSlot(p, s)
    \/ \E who \in Some, lane \in Lanes :
         \/ \E x \in 0 .. Edge : Teleport(who, x, lane)
         \/ \E teams \in BOOLEAN : Spread(who, teams, lane)
    \/ \E who \in Some, where \in {{}} \cup {{x} : x \in 0 .. Edge}, lane \in Lanes \cup {"own"} :
         SpawnPoint(who, where, lane)
    \/ \E p \in Users : ClientTold(p) \/ ServerMoves(p) \/ \E x \in 0 .. Edge : ClientWalks(p, x)
    \/ \E who, spared \in SUBSET Users, mobs \in SUBSET herd, lane \in Lanes :
         Kill(who, mobs, lane, spared)
    \/ \E lane \in Lanes : Summon(lane)
    \/ \E who \in Some, n \in Points : XpPoints(who, n) \/ XpLevels(who, n)

-----------------------------------------------------------------------------

More(p, item) == Total(bag[p], item) - Total(before[p], item)
Taken(item) == MapThenSumSet(LAMBDA p : -More(p, item), order.who)

\* What a command answers is what it has done to the bags and to nothing else:
\* as many given as told, as many taken as counted and never more than the
\* limit over all players, one slot replaced; the named exceptions are full
\* bags, the count of stacks, slots taken for others, and the commands that
\* only pretend.
DoneAsTold ==
    gaps = {} =>
      /\ \A p \in Users \ order.who : bag[p] = before[p]
      /\ order.verb = "give" => \A p \in order.who, i \in Items :
           More(p, i) = IF i = order.item THEN order.n ELSE 0
      /\ order.verb = "clear" /\ order.item # "all" =>
           /\ Taken(order.item) = order.says
           /\ order.n > 0 => order.says <= order.n
           /\ \/ order.n > 0 /\ order.says = order.n
              \/ \A p \in order.who : Total(bag[p], order.item) = 0
           /\ \A p \in order.who, i \in Items \ {order.item} : More(p, i) = 0
      /\ order.verb = "clear" /\ order.item = "all" =>
           /\ order.says = MapThenSumSet(Taken, Items)
           /\ \A p \in order.who : bag[p] = Bare
      /\ order.verb = "put" => \A p \in order.who, s \in Slots :
           bag[p][s] = IF s = order.slot THEN IF order.n = 0 THEN Nothing ELSE Stack(order.item, order.n)
                       ELSE before[p][s]
      /\ order.verb = "modify" => \A p \in order.who :
           \E s \in Slots : \A t \in Slots \ {s} : bag[p][t] = before[p][t]

\* No stack is larger than a full one, or empty and yet there.
StacksWhole ==
    gaps = {} => \A p \in Users, s \in Slots :
      bag[p][s].n \in 0 .. Full /\ (bag[p][s].n = 0 <=> bag[p][s].item = "none")

\* Every player sees his bag, and the chest he looks into, as they are; but for
\* what is on his cursor, and for a chest changed by a command.
SeesWhatHeHas ==
    gaps = {} => \A p \in Users : seen[p] = bag[p] /\ (p \in watching => pane[p] = chest)

\* Once all is delivered server and client agree on where a player is, whatever
\* moves were on their way when he was teleported.
PlacesAgree ==
    gaps = {} => \A p \in Users :
      /\ up[p] = <<>> /\ down[p] = <<>> => seat[p] = spot[p].x
      /\ home[p] # <<>> => compass[p] = home[p].x
\* Spread players are together with their team and apart from the others.
SpreadOut ==
    gaps = {} /\ order.verb = "spread" => \A p, q \in order.who :
      IF p = q \/ (order.item = "teams" /\ act.team[p] = act.team[q] /\ act.team[p] # "none")
      THEN order.slot[p] = order.slot[q] ELSE Far(order.slot[p], order.slot[q])

\* /kill kills whom it counts; level and points are those of the total.
Cost(level) == MapThenSumSet(Need, 0 .. (level - 1))
LivesAddUp ==
    gaps = {} =>
      /\ order.verb = "kill" =>
           /\ order.says = Cardinality(order.who) + order.n - Cardinality(herd)
           /\ \A p \in order.who : life[p].dead
      /\ \A p \in Users : /\ life[p].total = Cost(life[p].level) + life[p].points
                          /\ life[p].points \in 0 .. Need(life[p].level)

PlayersAsCommanded ==
    DoneAsTold /\ StacksWhole /\ SeesWhatHeHas /\ PlacesAgree /\ SpreadOut /\ LivesAddUp
=============================================================================

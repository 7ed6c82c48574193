-------------------------------- MODULE Using --------------------------------
(***************************************************************************)
(* What a player's right click does: to the block he clicks, with the item *)
(* he holds, to the cell before the block's face; and the beds.            *)
(*                                                                         *)
(* A request holds the simulation gate from its packet to its answer, but  *)
(* it asks listeners twice: before it does anything, and before it places  *)
(* a block.  A listener may refuse, set any block and change what the hand *)
(* holds.  The handlers look again at the cells they are going to fill;    *)
(* none of them looks again at the hand they take their price from.        *)
(*                                                                         *)
(* Abstracted: a column of cells, clicked from above or below (the frame of *)
(* a portal is taken to have its sides); the directions, hinges and shapes *)
(* of blocks; amounts of food and wear; where projectiles fly.  What lies  *)
(* below and above the column is rock.                                     *)
(***************************************************************************)
EXTENDS Naturals, Sequences, FiniteSets

CONSTANTS
  Players,     \* who may sleep
  Height,      \* cells of the column
  Starts,      \* Bound: the column, the hand and the beds to begin with, and how
               \* often something is asked of the server and listeners meddle
  Cooldown     \* ticks between two pearls

UsingConstants == Height \in Nat \ {0} /\ Cooldown \in Nat \ {0}

LOCAL INSTANCE FiniteSetsExt

VARIABLES
  cell,      \* the column, 1 the lowest
  hand,      \* the held stack
  pack,      \* the rest of the inventory: arrows, bowls, and room for one more
  sent,      \* entities that came out of the hand: boats, mobs, pearls
  food,      \* is there room for more
  cool,      \* ticks until the next pearl
  survival,  \* the mode of the player
  at,        \* the request at work
  bed,       \* per player: is he in play, his mode, his flag, is he in his bed
  night,
  total,     \* the worth of everything, per kind
  lost,      \* ways in which worth was lost or doubled, doors broken and
             \* sleepers miscounted
  left       \* turns and meddlings to come

vars == <<cell, hand, pack, sent, food, cool, survival, at, bed, night, total, lost, left>>
things == <<cell, hand, pack, sent>>
body == <<food, cool, survival>>
nights == <<bed, night>>

B(k) == [k |-> k, open |-> FALSE]
Air == B("air")
Sources == {"water"}
Half == {"lower", "upper"}
Cells == 1 .. Height
Look(y) == IF y \in Cells THEN cell[y] ELSE B("rock")

Nothing == [k |-> "none", n |-> 0]
Take(h) == IF h.n <= 1 THEN Nothing ELSE [h EXCEPT !.n = @ - 1]
Paid(h) == IF survival THEN Take(h) ELSE h
\* Flint and steel wears out; a fire charge would be used up.
Worn == IF survival THEN {hand, Nothing} ELSE {hand}

\* The cell before the clicked face.
Before(r) == IF r.up THEN r.y + 1 ELSE r.y - 1
Idle == [step |-> "idle"]

InHand(k) == IF hand.k = k THEN hand.n ELSE 0
InCells(k) == Cardinality({y \in Cells : cell[y].k = k})
\* Worth, per kind; a door is two halves.
Worth ==
  [door   |-> 2 * InHand("door") + InCells("lower") + InCells("upper"),
   slab   |-> InHand("slab") + InCells("bottom") + InCells("top") + 2 * InCells("double"),
   stone  |-> InHand("stone") + InCells("stone"),
   water  |-> InHand("full") + InCells("water"),
   bucket |-> InHand("full") + InHand("bucket"),
   stew   |-> InHand("stew") + pack.bowls,
   boat   |-> InHand("boat") + sent.boat,
   egg    |-> InHand("egg") + sent.egg,
   pearl  |-> InHand("pearl") + sent.pearl]

Init ==
  \E s \in Starts :
    /\ cell = s.cell /\ hand = s.hand
    /\ pack = s.pack /\ sent = [boat |-> 0, egg |-> 0, pearl |-> 0]
    /\ food = TRUE /\ cool = 0 /\ survival = s.survival
    /\ at = Idle /\ lost = {}
    /\ bed = [p \in Players |-> [plays |-> TRUE, survival |-> p \in s.survivors,
                                 flag |-> FALSE, lies |-> FALSE]]
    /\ night = s.night /\ total = Worth
    /\ left = [uses |-> s.uses, meddle |-> s.meddle]

\* A named leak: the worth of everything is taken anew.
Leak(ways) == lost' = lost \cup ways /\ total' = IF ways = {} THEN total ELSE Worth'
---------------------------------------------------------------------------
(* The listeners.                                                           *)

\* While it is asked, a listener sets a cell, or what the hand holds.
Meddle ==
  /\ at.step \in {"clicked", "asked"} /\ left.meddle > 0
  /\ left' = [left EXCEPT !.meddle = @ - 1]
  /\ \/ \E y \in Cells, b \in {Air, B("stone")} :
          /\ cell' = [cell EXCEPT ![y] = b]
          /\ lost' = IF cell[y].k \in Half THEN lost \cup {"broken"} ELSE lost
          /\ UNCHANGED hand
     \/ \E h \in {Nothing, [k |-> "stone", n |-> 1]} : hand' = h /\ UNCHANGED <<cell, lost>>
  /\ UNCHANGED <<pack, sent, body, at, nights>>
  /\ total' = Worth'

\* onUseItemOn: a click within reach; its listeners, and those of the block,
\* are asked first.
Click(y, up) ==
  /\ at = Idle /\ left.uses > 0
  /\ at' = [step |-> "clicked", y |-> y, up |-> up, held |-> Nothing, want |-> {}, twice |-> FALSE]
  /\ left' = [left EXCEPT !.uses = @ - 1]
  /\ UNCHANGED <<things, body, nights, total, lost>>

Over == at' = Idle /\ UNCHANGED <<nights, left>>
\* They refuse, or the place is protected.
Refuse == at.step = "clicked" /\ Over /\ UNCHANGED <<things, body, total, lost>>

\* The block of a menu opens it unless the player sneaks, and a lever, button or
\* comparator answers to a click from above.  Neither is pursued here.
Interact ==
  /\ at.step = "clicked"
  /\ \/ Look(at.y).k = "chest"
     \/ Look(at.y).k = "lever" /\ at.up
  /\ Over /\ UNCHANGED <<things, body, total, lost>>

\* A bite of a cake; the last one takes it away.
EatCake ==
  /\ at.step = "clicked" /\ Look(at.y).k = "cake" /\ food
  /\ \E last \in BOOLEAN : cell' = IF last THEN [cell EXCEPT ![at.y] = Air] ELSE cell
  /\ food' \in BOOLEAN
  /\ Over /\ UNCHANGED <<hand, pack, sent, cool, survival, total, lost>>

\* Otherwise the item in the hand is asked for: what it is now is what the
\* handlers go by.
Answer ==
  /\ at.step = "clicked"
  /\ at' = [at EXCEPT !.step = "using", !.held = hand]
  /\ ~(Look(at.y).k = "lever" /\ at.up)
  /\ ~(Look(at.y).k = "cake" /\ food)
  /\ UNCHANGED <<things, body, nights, total, lost, left>>
---------------------------------------------------------------------------
(* Which handler takes the request: the first of these whose condition      *)
(* holds.                                                                   *)

\* The bottom of a frame of obsidian around three empty cells that the clicked
\* block is part of.
Frames == {b \in Cells : /\ at.y \in {b, b + 4}
                         /\ Look(b).k = "obsidian" /\ Look(b + 4).k = "obsidian"
                         /\ \A i \in 1 .. 3 : Look(b + i) = Air}
\* A slab in the cell before the face; does the click meet its empty half?
Single(y) == Look(y).k \in {"bottom", "top"}
Meets(y) == IF Look(y).k = "bottom" THEN at.up ELSE ~at.up
\* A click on the side of a slab that has room.
Faces == IF at.up THEN Look(at.y).k = "bottom" ELSE Look(at.y).k = "top"

Handlers ==
  LET k == at.held.k
      t == Before(at)
      free == Look(t) = Air
  IN  <<<<"portal", k = "flint" /\ Look(at.y).k = "obsidian" /\ Frames # {}>>,
        <<"tnt", k = "flint" /\ Look(at.y).k = "tnt">>,
        <<"pour", k = "full" /\ free>>,
        <<"fill", k = "bucket" /\ {Look(at.y).k, Look(t).k} \cap Sources # {}>>,
        <<"fire", k = "flint" /\ free>>,
        <<"meal", k = "meal" /\ Look(at.y).k = "young">>,
        <<"door", k = "door" /\ free /\ Look(t + 1) = Air>>,
        <<"slab", k = "slab" /\ Single(t) /\ ~at.twice>>,
        <<"double", k = "slab" /\ Faces>>,
        <<"occupied", ~free \/ k = "none">>,
        <<"egg", k = "egg">>,
        <<"boat", k = "boat">>,
        <<"place", k \in {"stone", "slab", "door"}>>,
        <<"nothing", TRUE>>>>
Handler == Handlers[Min({i \in DOMAIN Handlers : Handlers[i][2]})][1]
Runs(h) == at.step = "using" /\ Handler = h
---------------------------------------------------------------------------
(* Handlers that ask nobody.                                                *)

LightPortal ==
  /\ Runs("portal")
  /\ LET b == Min(Frames) IN cell' = [y \in Cells |-> IF y \in b + 1 .. b + 3 THEN B("portal")
                                                      ELSE cell[y]]
  /\ hand' \in Worn
  /\ Over /\ UNCHANGED <<pack, sent, body>> /\ Leak({})

Ignite ==
  /\ Runs("tnt")
  /\ cell' = [cell EXCEPT ![at.y] = Air]
  /\ hand' \in Worn
  /\ Over /\ UNCHANGED <<pack, sent, body>> /\ Leak({})

Pour ==
  /\ Runs("pour")
  /\ cell' = [cell EXCEPT ![Before(at)] = B("water")]
  /\ hand' = IF survival THEN [k |-> "bucket", n |-> 1] ELSE hand
  /\ Over /\ UNCHANGED <<pack, sent, body>> /\ Leak(IF survival THEN {} ELSE {"creative"})

\* The whole stack of buckets becomes one full bucket.
Fill ==
  /\ Runs("fill")
  /\ LET y == IF Look(at.y).k \in Sources THEN at.y ELSE Before(at)
     IN  cell' = [cell EXCEPT ![y] = Air]
  /\ hand' = IF survival THEN [k |-> "full", n |-> 1] ELSE hand
  /\ Over /\ UNCHANGED <<pack, sent, body>>
  /\ Leak(IF ~survival THEN {"creative"} ELSE IF hand.n > 1 THEN {"buckets"} ELSE {})

\* Unless doFireTick is off.
SetFire ==
  /\ Runs("fire")
  /\ \/ cell' = [cell EXCEPT ![Before(at)] = B("fire")] /\ hand' \in Worn
     \/ UNCHANGED <<cell, hand>>
  /\ Over /\ UNCHANGED <<pack, sent, body>> /\ Leak({})

\* What fertilizing does is in Growth; it may not take.
Fertilize ==
  /\ Runs("meal")
  /\ \/ cell' = [cell EXCEPT ![at.y] = B("grown")] /\ hand' = Paid(hand)
     \/ UNCHANGED <<cell, hand>>
  /\ Over /\ UNCHANGED <<pack, sent, body>> /\ Leak({})

\* What is placed may go unpaid: in creative mode, and when a listener has
\* changed what the hand holds.
Price == IF ~survival THEN {"creative"} ELSE IF hand.k # at.held.k THEN {"unpaid"} ELSE {}

\* A clicked slab is doubled without asking anyone.
DoubleClicked ==
  /\ Runs("double")
  /\ cell' = [cell EXCEPT ![at.y] = B("double")]
  /\ hand' = Paid(hand)
  /\ Over /\ UNCHANGED <<pack, sent, body>> /\ Leak(Price)

\* The cell before the face is taken, or the hand is empty: a door that was
\* clicked turns, and its other half is written where it should be.
Turn ==
  /\ Runs("occupied")
  /\ LET b == Look(at.y)
         o == IF b.k = "upper" THEN at.y - 1 ELSE at.y + 1
         half(k) == [k |-> k, open |-> ~b.open]
         other == IF b.k = "upper" THEN "lower" ELSE "upper"
     IN  IF b.k \in Half
         THEN /\ cell' = [y \in Cells |-> CASE y = at.y -> half(b.k)
                                            [] y = o -> half(other)
                                            [] OTHER -> cell[y]]
              /\ UNCHANGED <<hand, pack, sent>>
              /\ Leak(IF Look(o).k = other THEN {} ELSE {"halves"})
         ELSE UNCHANGED <<things, lost, total>>
  /\ Over /\ UNCHANGED body

\* A spawn egg hatches unless the mob is refused; a boat is paid for either way.
Hatch ==
  /\ Runs("egg")
  /\ \/ sent' = [sent EXCEPT !.egg = @ + 1] /\ hand' = Paid(hand)
     \/ UNCHANGED <<sent, hand>>
  /\ Over /\ UNCHANGED <<cell, pack, body>>
  /\ Leak(IF survival \/ sent' = sent THEN {} ELSE {"creative"})
Launch ==
  /\ Runs("boat")
  /\ hand' = Paid(hand)
  /\ Over /\ UNCHANGED <<cell, pack, body>>
  /\ \E floats \in BOOLEAN :
       /\ sent' = IF floats THEN [sent EXCEPT !.boat = @ + 1] ELSE sent
       /\ Leak((IF survival THEN {} ELSE {"creative"}) \cup (IF floats THEN {} ELSE {"sunk"}))

Nought == Runs("nothing") /\ Over /\ UNCHANGED <<things, body, total, lost>>
---------------------------------------------------------------------------
(* Handlers that ask before they place.  want: the cells to be filled, each *)
(* with what was seen there and what is to be there.                        *)

Ask(w) ==
  /\ at' = [at EXCEPT !.step = "asked", !.want = w]
  /\ UNCHANGED <<things, body, nights, total, lost, left>>
Wish(y, b) == [y |-> y, seen |-> Look(y), to |-> b]

AskDoor ==
  /\ Runs("door")
  /\ \E open \in BOOLEAN :
       Ask({Wish(Before(at), [k |-> "lower", open |-> open]),
            Wish(Before(at) + 1, [k |-> "upper", open |-> open])})

\* The slab before the face is doubled, or, when the click met its full half,
\* a slab is put behind it if there is room.
AskSlab ==
  /\ Runs("slab")
  /\ LET t == Before(at)
         next == IF at.up THEN t + 1 ELSE t - 1
     IN  CASE Meets(t) -> Ask({Wish(t, B("double"))})
           [] ~Meets(t) /\ Look(next) = Air ->
                Ask({Wish(next, B(IF at.up THEN "bottom" ELSE "top"))})
           [] OTHER -> Over /\ UNCHANGED <<things, body, total, lost>>

\* Any other block; and a door that has no room for its upper half.
AskPlace ==
  /\ Runs("place")
  /\ Ask({Wish(Before(at), B(CASE at.held.k = "slab" -> IF at.up THEN "bottom" ELSE "top"
                               [] at.held.k = "door" -> "lower"
                               [] OTHER -> at.held.k))})

\* One that asked the events in vain to double a slab goes on to the clicked one.
Denied ==
  /\ at.step = "asked"
  /\ \/ Over
     \/ /\ \E w \in at.want : w.to = B("double")
        /\ at' = [at EXCEPT !.step = "using", !.twice = TRUE]
        /\ UNCHANGED <<nights, left>>
  /\ UNCHANGED <<things, body, total, lost>>

Untouched == \A w \in at.want : Look(w.y) = w.seen
\* Allowed: the cells are looked at again, and the hand pays, whatever it holds.
Place ==
  /\ at.step = "asked"
  /\ IF Untouched
     THEN /\ cell' = [y \in Cells |-> IF \E w \in at.want : w.y = y
                                      THEN (CHOOSE w \in at.want : w.y = y).to ELSE cell[y]]
          /\ hand' = Paid(hand) /\ UNCHANGED <<pack, sent>>
          /\ Leak(Price \cup (IF at.held.k = "door" /\ Cardinality(at.want) = 1 THEN {"lone"} ELSE {}))
     ELSE UNCHANGED <<things, lost, total>>
  /\ Over /\ UNCHANGED body
---------------------------------------------------------------------------
(* onUseItem: a click into the air.                                         *)

Begin == at = Idle /\ left.uses > 0 /\ left' = [left EXCEPT !.uses = @ - 1]
         /\ UNCHANGED <<cell, survival, at, nights>>

\* A trident wears, whether it flies or carries the player; it stays in the hand.
Throw == Begin /\ hand.k = "trident" /\ hand' \in Worn
         /\ UNCHANGED <<pack, sent, food, cool, total, lost>>

\* A bow or crossbow wants an arrow, unless the player is creative; infinity
\* keeps it (crossbows know no infinity).
Shoot ==
  /\ Begin /\ hand.k = "bow" /\ (pack.arrows > 0 \/ ~survival)
  /\ \E keeps \in BOOLEAN :
       pack' = IF survival /\ ~keeps THEN [pack EXCEPT !.arrows = @ - 1] ELSE pack
  /\ hand' \in Worn
  /\ UNCHANGED <<sent, food, cool, total, lost>>

Hurl ==
  /\ Begin /\ hand.k = "pearl" /\ UNCHANGED <<pack, food>>
  /\ IF cool > 0 THEN UNCHANGED <<hand, sent, cool, lost, total>>
     ELSE /\ sent' = [sent EXCEPT !.pearl = @ + 1]
          /\ hand' = Paid(hand) /\ cool' = Cooldown
          /\ Leak(IF survival THEN {} ELSE {"creative"})

\* Eaten if it did anything; stew leaves its bowl where there is room, before
\* the stack is taken from.
Eat ==
  /\ Begin /\ hand.k = "stew" /\ food
  /\ food' \in BOOLEAN
  /\ pack' = IF pack.room THEN [pack EXCEPT !.bowls = @ + 1, !.room = FALSE] ELSE pack
  /\ hand' = Take(hand) /\ UNCHANGED <<sent, cool>>
  /\ Leak(IF pack.room THEN {} ELSE {"bowl"})
---------------------------------------------------------------------------
(* Beds, nights and ticks.                                                  *)

Sleepers(b) == {p \in Players : b[p].plays /\ b[p].survival /\ b[p].flag}
Counted == {p \in Players : bed[p].plays /\ bed[p].survival}
Woken(b) == [p \in Players |-> IF b[p].plays /\ b[p].flag
                               THEN [b[p] EXCEPT !.flag = FALSE, !.lies = FALSE] ELSE b[p]]
\* A click on a bed, at night: when as many sleep as there are survival players
\* in play, it is morning and everyone with his flag set is woken.
Sleep(p) ==
  /\ at = Idle /\ night /\ left.uses > 0 /\ bed[p].plays
  /\ left' = [left EXCEPT !.uses = @ - 1]
  /\ LET b == [bed EXCEPT ![p].flag = TRUE, ![p].lies = TRUE]
         all == Cardinality(Sleepers(b)) >= Cardinality(Counted)
     IN  /\ bed' = (IF all THEN Woken(b) ELSE b) /\ night' = ~all
         /\ lost' = IF all /\ \E q \in Counted : ~b[q].lies THEN lost \cup {"awake"} ELSE lost
  /\ UNCHANGED <<things, body, at, total>>

\* A player gets up and goes, or leaves the server: his flag is not cleared, and
\* nobody counts again.
GetUp(p) ==
  /\ at = Idle /\ left.uses > 0 /\ bed[p].lies
  /\ left' = [left EXCEPT !.uses = @ - 1]
  /\ \E stays \in BOOLEAN : bed' = [bed EXCEPT ![p].lies = FALSE, ![p].plays = stays]
  /\ lost' = IF bed'[p].plays THEN lost \cup {"stale"} ELSE lost
  /\ UNCHANGED <<things, body, at, night, total>>

Tick ==
  /\ at = Idle /\ left.uses > 0
  /\ left' = [left EXCEPT !.uses = @ - 1]
  /\ cool' = IF cool = 0 THEN 0 ELSE cool - 1
  /\ night' \in BOOLEAN
  /\ lost' = IF \E p \in Players : bed[p].flag /\ night # night'
             THEN lost \cup {"stale"} ELSE lost
  /\ UNCHANGED <<things, food, survival, at, bed, total>>
---------------------------------------------------------------------------
Next ==
  \/ Meddle
  \/ \E y \in Cells, up \in BOOLEAN : Click(y, up)
  \/ Refuse \/ Interact \/ EatCake \/ Answer
  \/ LightPortal \/ Ignite \/ Pour \/ Fill \/ SetFire \/ Fertilize
  \/ DoubleClicked \/ Turn \/ Hatch \/ Launch \/ Nought
  \/ AskDoor \/ AskSlab \/ AskPlace \/ Denied \/ Place
  \/ Throw \/ Shoot \/ Hurl \/ Eat
  \/ \E p \in Players : Sleep(p) \/ GetUp(p)
  \/ Tick

Spec == Init /\ [][Next]_vars
---------------------------------------------------------------------------
\* What a click puts into the world left the hand, and what leaves the hand is
\* in the world, whatever listeners do while they are asked; but for the leaks
\* that are named where they happen.
HandsKept == Worth = total

\* The two halves of a door stand one upon the other and turn together, unless a
\* half was broken, written alone or put in the place of another block.
DoorsWhole ==
  lost \cap {"broken", "lone", "halves"} = {} =>
    \A y \in Cells :
      /\ cell[y].k = "lower" => Look(y + 1) = [cell[y] EXCEPT !.k = "upper"]
      /\ cell[y].k = "upper" => Look(y - 1) = [cell[y] EXCEPT !.k = "lower"]

\* When sleeping ends a night, everyone who plays in survival mode lies in his
\* bed, unless somebody got up or slept through a dawn and kept his flag.
NightsSlept == "awake" \in lost => "stale" \in lost

UsingSound == HandsKept /\ DoorsWhole /\ NightsSlept
=============================================================================

------------------------------- MODULE Menus -------------------------------
(***************************************************************************)
(* The screens through which players move items: the player's own          *)
(* inventory with its 2x2 grid, the crafting table, the stonecutter and a  *)
(* chest that several players may have open at once.  Every packet handler *)
(* runs under the locks of the block entity and of the player, so it is one *)
(* action; a drag is three packets, and another player may change the chest *)
(* between them.                                                           *)
(*                                                                         *)
(* The items are logs, each worth two, and planks, worth one: both the     *)
(* crafting and the cutting recipe make two planks of a log, so a correct  *)
(* handler keeps the total worth.  The handlers that do not are modelled as *)
(* they are; `leaks' names the way in which worth was made or lost.        *)
(*                                                                         *)
(* Abstracted: a grid is one cell, the hotbar and the main inventory are   *)
(* one slot each (armour and off-hand are left out), all items have the    *)
(* same stack limit.                                                       *)
(***************************************************************************)
EXTENDS Naturals, Sequences, FiniteSets

CONSTANTS
  Players,   \* the sessions
  Screens,   \* Bound: the screens each of them opens
  Box,       \* the slots of the shared chest, a sequence of places
  Limit,     \* how many items one stack holds
  Starts     \* Bound: what is in the hotbars at first (held) and how many slots
             \* a drag of each player has (drags, 0 if it does not drag)

ASSUME MenusAssumption ==
  /\ Limit \in Nat \ {0}
  /\ Screens \in [Players -> SUBSET {"table", "cutter", "chest"}]
  /\ \A s \in Starts :
       /\ s.held \in [Players -> [item : {"log", "plank"}, n : 1 .. Limit]]
       /\ s.drags \in [Players -> Nat]

LOCAL INSTANCE FiniteSetsExt
LOCAL INSTANCE SequencesExt

VARIABLES
  start,     \* the member of Starts this behaviour began with
  stack,     \* the stack in every place: each player's slots, the chest's
  menu,      \* the screen each player has open, "own" when there is none
  drag,      \* per player and screen: the button and slots of a drag
  ground,    \* the worth of what was thrown or dropped
  leaks      \* how worth was made or lost

vars == <<start, stack, menu, drag, ground, leaks>>

Air == [item |-> "air", n |-> 0]

\* The slots of player p: two of the inventory, the inventory's own grid cell,
\* the input and the output of the open screen, the stacks of a crafting
\* table's menu that no slot shows, the cursor, and a result in flight.
Own(p) == {p} \X {"hot", "main", "grid", "cell", "cut", "hidden", "cursor", "new"}
Places == UNION {Own(p) : p \in Players} \cup ToSet(Box)

Hot(p) == <<p, "hot">>
Main(p) == <<p, "main">>
Cell(p) == <<p, IF menu[p] = "own" THEN "grid" ELSE "cell">>
Cut(p) == <<p, "cut">>
Hidden(p) == <<p, "hidden">>
Cursor(p) == <<p, "cursor">>
New(p) == <<p, "new">>

\* The slots of the open screen a click can name, results left out.
Slots(p) ==
  {Hot(p), Main(p)} \cup (IF menu[p] = "chest" THEN ToSet(Box) ELSE {Cell(p)})

Worth(s) == IF s.item = "log" THEN 2 * s.n ELSE s.n
Total == ground + MapThenSumSet(LAMBDA x : Worth(stack[x]),
                                {x \in Places : x[2] # "cut"})

\* What the recipes make of an input.
Made(s) == IF s.item = "log" THEN [item |-> "plank", n |-> 2] ELSE Air

Less(s, k) == IF s.n = k THEN Air ELSE [s EXCEPT !.n = @ - k]

Same(f, a, b) == f[a].n > 0 /\ f[b].n > 0 /\ f[a].item = f[b].item
---------------------------------------------------------------------------
(* Moving stacks.  Each operator maps the stacks f to the stacks after it.  *)

\* Moves up to `most' items of a onto b as far as b has room.
Merge(f, a, b, most) ==
  LET room == IF f[b].n = 0 THEN Limit ELSE IF Same(f, a, b) THEN Limit - f[b].n ELSE 0
      take == Min({room, most, f[a].n})
  IN  IF take <= 0 THEN f
      ELSE [f EXCEPT ![b] = [item |-> f[a].item, n |-> f[b].n + take], ![a] = Less(@, take)]

All(f, a) == f[a].n
Swapped(f, a, b) == [f EXCEPT ![a] = f[b], ![b] = f[a]]

\* First onto the like stacks of the places in order, then into empty ones.
Poured(f, a, order) ==
  LET onto(g, b) == IF Same(g, a, b) THEN Merge(g, a, b, All(g, a)) ELSE g
      into(g, b) == IF g[b].n = 0 THEN Merge(g, a, b, All(g, a)) ELSE g
  IN  FoldLeft(into, FoldLeft(onto, f, order), order)

\* Faulty: what fits of the stack stays although the rest does not fit.
InsertedInPart(f, p, a) ==
  LET g == Poured(f, a, <<Hot(p), Main(p)>>) IN [g EXCEPT ![a] = f[a]]

\* Puts the whole stack of a into the inventory or leaves everything alone.
Inserted(f, p, a) ==
  LET g == Poured(f, a, <<Hot(p), Main(p)>>) IN IF g[a].n = 0 THEN g ELSE f

\* Stops at the first place that takes any of a: like stacks come first.
FirstTaker(f, a, order) ==
  LET takes(b) == Merge(f, a, b, All(f, a)) # f
      like == SelectSeq(order, LAMBDA b : Same(f, a, b) /\ takes(b))
      any == SelectSeq(order, takes)
      to == IF like # <<>> THEN like ELSE any
  IN  IF to = <<>> THEN f ELSE Merge(f, a, to[1], All(f, a))

LeftClick(f, c, s) == IF Same(f, c, s) THEN Merge(f, c, s, All(f, c)) ELSE Swapped(f, c, s)

RightClick(f, c, s) ==
  IF f[c].n = 0 THEN Merge(f, s, c, (f[s].n + 1) \div 2) ELSE Merge(f, c, s, 1)

\* Takes one item of the input for a result.
Consumed(f, s) == IF f[s].n = 0 THEN f ELSE [f EXCEPT ![s] = Less(@, 1)]

\* Faulty: an output that is still there is kept.
PreviewIfNone(p, f) ==
  IF menu[p] = "cutter" /\ f[Cut(p)].n = 0
  THEN [f EXCEPT ![Cut(p)] = Made(f[<<p, "cell">>])] ELSE f

\* The stonecutter's output is computed again from its input.
Preview(p, f) ==
  IF menu[p] = "cutter" THEN [f EXCEPT ![Cut(p)] = Made(f[<<p, "cell">>])] ELSE f
---------------------------------------------------------------------------
Init ==
  /\ start \in Starts
  /\ stack = [x \in Places |-> IF x[2] = "hot" THEN start.held[x[1]] ELSE Air]
  /\ menu = [p \in Players |-> "own"]
  /\ drag = [p \in Players |-> [m \in {"own", "open"} |-> [button |-> "none", slots |-> <<>>]]]
  /\ ground = 0
  /\ leaks = {}

\* The handler of player p leaves the stacks f behind, with the outputs
\* computed again; `lost' is the worth dropped, `how' the leaks.
Done(p, f, thrown, how) ==
  /\ stack' = Preview(p, f)
  /\ ground' = ground + thrown
  /\ leaks' = leaks \cup how

Click(p, f) == Done(p, f, 0, {}) /\ UNCHANGED <<menu, drag>>

Left(p) == \E s \in Slots(p) : Click(p, LeftClick(stack, Cursor(p), s))
Right(p) == \E s \in Slots(p) : Click(p, RightClick(stack, Cursor(p), s))

\* A click on the result of a grid takes what the cursor can hold of it and
\* consumes the inputs, whether or not all of the result was taken.
TakeCrafted(p, most) ==
  LET c == Cursor(p)
      f == [stack EXCEPT ![New(p)] = Made(stack[Cell(p)])]
      g == Merge(f, New(p), c, most)
  IN  /\ menu[p] \in {"own", "table"}
      /\ g # f
      /\ Done(p, Consumed([g EXCEPT ![New(p)] = Air], Cell(p)), 0,
              IF g[New(p)].n > 0 THEN {"partialTake"} ELSE {})
      /\ UNCHANGED <<menu, drag>>

\* Shift-clicking the result crafts until the inventory is full.  The last
\* result may fit in part: that part stays and no input is consumed for it.
CraftAll(p) ==
  LET in == Cell(p)
      put(f) == Poured([f EXCEPT ![New(p)] = Made(f[in])], New(p), <<Main(p), Hot(p)>>)
      fits(f) == f[in].n > 0 /\ Made(f[in]).n > 0 /\ put(f)[New(p)].n = 0
      craft[k \in 0 .. Limit] ==
        IF k = 0 THEN stack
        ELSE LET f == craft[k - 1] IN IF fits(f) THEN Consumed(put(f), in) ELSE f
      end == craft[Limit]
      last == [put(end) EXCEPT ![New(p)] = Air]
  IN  /\ menu[p] \in {"own", "table"}
      /\ Made(stack[in]).n > 0
      /\ Done(p, last, 0, IF last # end THEN {"partialCraft"} ELSE {})
      /\ UNCHANGED <<menu, drag>>

\* A plain click on the stonecutter's output hands all of it over or does nothing.
TakeCut(p) ==
  LET c == Cursor(p)
      f == [stack EXCEPT ![New(p)] = stack[Cut(p)]]
      toCursor == Merge(f, New(p), c, Limit)
      g == IF toCursor[New(p)].n = 0 THEN toCursor ELSE Inserted(f, p, New(p))
  IN  /\ menu[p] = "cutter" /\ stack[Cut(p)].n > 0
      /\ g[New(p)].n = 0
      /\ Click(p, Consumed(g, Cell(p)))

\* Any other click on it moves what fits on the cursor and consumes an input.
TakeCutLoosely(p) ==
  LET c == Cursor(p)
      g == Merge(stack, Cut(p), c, All(stack, Cut(p)))
  IN  /\ menu[p] = "cutter" /\ g # stack
      /\ Done(p, Consumed(g, Cell(p)), 0, IF g[Cut(p)].n > 0 THEN {"partialTake"} ELSE {})
      /\ UNCHANGED <<menu, drag>>

\* Shift-clicking the output while the cursor holds something that does not
\* stack with it is left to the general handler, which moves the output to the
\* inventory as if it were a stack of the screen.
ShiftResult(p) ==
  LET c == Cursor(p)
      onto(f, b) == Merge(f, Cut(p), b, All(f, Cut(p)))
      g == FoldLeft(onto, stack, <<Hot(p), Main(p)>>)
  IN  /\ menu[p] = "cutter" /\ stack[Cut(p)].n > 0
      /\ stack[c].n > 0 /\ Merge(stack, Cut(p), c, Limit) = stack
      /\ Done(p, g, 0, IF g # stack THEN {"shiftedResult"} ELSE {})
      /\ UNCHANGED <<menu, drag>>

\* Shift-clicking a slot of the screen moves its stack to the inventory.  The
\* stonecutter's handler takes every click on its input for a plain one.
ShiftOut(p) ==
  \E s \in Slots(p) \ {Hot(p), Main(p)} :
    /\ menu[p] # "cutter"
    /\ LET onto(f, b) == Merge(f, s, b, All(f, s))
       IN  Click(p, FoldLeft(onto, stack, <<Hot(p), Main(p)>>))

\* Where a shift-clicked stack of the inventory may go, in order.  The menu of a
\* crafting table offers stacks that none of its slots shows, the stonecutter's
\* its output as well as its input.
Destinations(p, s) ==
  CASE menu[p] = "own" -> <<IF s = Hot(p) THEN Main(p) ELSE Hot(p)>>
    [] menu[p] = "table" -> <<Hidden(p)>>
    [] menu[p] = "cutter" -> <<Cell(p), Cut(p)>>
    [] menu[p] = "chest" -> Box

ShiftIn(p) ==
  \E s \in {Hot(p), Main(p)} :
    LET g == FirstTaker(stack, s, Destinations(p, s))
    IN  /\ stack[s].n > 0
        /\ Done(p, g, 0, IF g[Cut(p)] # stack[Cut(p)] THEN {"intoResult"} ELSE {})
        /\ UNCHANGED <<menu, drag>>

\* A number key swaps a slot with the hotbar.
SwapWithHotbar(p) ==
  \E s \in Slots(p) \ {Hot(p)} :
    /\ ~(menu[p] = "cutter" /\ s = Cell(p))
    /\ Click(p, Swapped(stack, Hot(p), s))

\* Throwing one or all of a slot, or all of the cursor outside the screen.
Throw(p) ==
  \E s \in Slots(p) \cup {Cursor(p)}, all \in BOOLEAN :
    LET k == IF all THEN stack[s].n ELSE 1
    IN  /\ stack[s].n > 0
        /\ s = Cursor(p) => all
        /\ ~(menu[p] = "cutter" /\ s = Cell(p))
        /\ Done(p, [stack EXCEPT ![s] = Less(@, k)], Worth([stack[s] EXCEPT !.n = k]), {})
        /\ UNCHANGED <<menu, drag>>

\* A double click gathers like items of the screen onto the cursor; the slots
\* of a stonecutter that are gathered from include its output.
Gather(p) ==
  LET c == Cursor(p)
      from == CASE menu[p] = "chest" -> Box
                [] menu[p] = "cutter" -> <<Cell(p), Cut(p)>>
                [] OTHER -> <<Cell(p)>>
      onto(f, b) == IF Same(f, c, b) THEN Merge(f, b, c, All(f, b)) ELSE f
      g == FoldLeft(onto, stack, from)
  IN  /\ stack[c].n > 0
      /\ Done(p, g, 0, IF g[Cut(p)] # stack[Cut(p)] THEN {"gatheredResult"} ELSE {})
      /\ UNCHANGED <<menu, drag>>
---------------------------------------------------------------------------
(* A drag: the button goes down, slots are added, the button comes up.      *)

Screen(p) == IF menu[p] = "own" THEN "own" ELSE "open"

\* Bound: no second drag while one of another screen is unfinished.
DragStart(p, button) ==
  /\ stack[Cursor(p)].n > 0 /\ start.drags[p] > 0
  /\ \A m \in {"own", "open"} \ {Screen(p)} : drag[p][m].button = "none"
  /\ drag' = [drag EXCEPT ![p][Screen(p)] = [button |-> button, slots |-> <<>>]]
  /\ UNCHANGED <<stack, menu, ground, leaks>>

DragAdd(p, s) ==
  LET d == drag[p][Screen(p)]
  IN  /\ d.button # "none" /\ Len(d.slots) < start.drags[p]
      /\ s \in Slots(p) \ ToSet(d.slots)
      /\ ~(menu[p] = "cutter" /\ s = Cell(p))
      /\ stack[s].n = 0 \/ (Same(stack, Cursor(p), s) /\ stack[s].n < Limit)
      /\ drag' = [drag EXCEPT ![p][Screen(p)].slots = Append(@, s)]
      /\ UNCHANGED <<stack, menu, ground, leaks>>

\* The cursor is spread over the slots, evenly or one each, as the slots are now.
Spread(p) ==
  LET c == Cursor(p)
      d == drag[p][Screen(p)]
      parts == Len(d.slots)
      share(i) == IF d.button = "right" THEN 1
                  ELSE (stack[c].n \div parts) + (IF i <= stack[c].n % parts THEN 1 ELSE 0)
      paint(f, i) == Merge(f, c, d.slots[i], share(i))
  IN  FoldLeft(paint, stack, [i \in 1 .. parts |-> i])

DragEnd(p) ==
  LET d == drag[p][Screen(p)]
  IN  /\ d.button # "none"
      /\ Done(p, IF d.slots = <<>> THEN stack ELSE Spread(p), 0, {})
      /\ drag' = [drag EXCEPT ![p][Screen(p)] = [button |-> "none", slots |-> <<>>]]
      /\ UNCHANGED menu
---------------------------------------------------------------------------
(* The recipe book and the life of a screen.                                *)

\* Puts one item the recipe accepts in the input, or changes nothing when the
\* old input does not fit in the inventory or the item is missing.
PlaceRecipe(p) ==
  LET in == <<p, "cell">>
      f == Inserted(stack, p, in)
      logs == SelectSeq(<<Main(p), Hot(p)>>, LAMBDA s : f[s].item = "log")
  IN  /\ menu[p] \in {"table", "cutter"}
      /\ f[in].n = 0 /\ logs # <<>>
      /\ Click(p, Merge(f, logs[1], in, 1))

\* A place's stack goes to the inventory, or to the ground when it does not fit.
Returned(r, p, a) ==
  LET g == Inserted(r.stack, p, a)
  IN  [stack |-> [g EXCEPT ![a] = Air],
       thrown |-> r.thrown + IF g = r.stack THEN Worth(r.stack[a]) ELSE 0]

\* closeOpenMenu: input, then cursor are returned, the outputs cleared.
Closed(p) ==
  LET input == Returned([stack |-> stack, thrown |-> 0], p, <<p, "cell">>)
      all == Returned(input, p, Cursor(p))
  IN  [all EXCEPT !.stack = [@ EXCEPT ![Cut(p)] = Air, ![Hidden(p)] = Air]]

CloseLeaks(p) == IF stack[Hidden(p)].n > 0 THEN {"hidden"} ELSE {}

\* Opening a screen closes the one before it.
Open(p, kind) ==
  LET after == IF menu[p] = "own" THEN [stack |-> stack, thrown |-> 0] ELSE Closed(p)
  IN  /\ stack' = after.stack
      /\ ground' = ground + after.thrown
      /\ leaks' = leaks \cup CloseLeaks(p)
      /\ menu' = [menu EXCEPT ![p] = kind]
      /\ drag' = [drag EXCEPT ![p]["open"] = [button |-> "none", slots |-> <<>>]]

Close(p) == menu[p] # "own" /\ Open(p, "own")

\* A session that ends closes no screen: what its cursor and screen held is gone;
\* the inventory and its grid come back with the next session.
Leave(p) ==
  LET gone == {Cursor(p), <<p, "cell">>, Hidden(p), Cut(p)}
      kept == [x \in Places |-> IF x \in gone THEN Air ELSE stack[x]]
  IN  /\ stack' = kept
      /\ leaks' = IF \E x \in gone \ {Cut(p)} : stack[x].n > 0
                  THEN leaks \cup {"leaving"} ELSE leaks
      /\ menu' = [menu EXCEPT ![p] = "own"]
      /\ drag' = [drag EXCEPT ![p] = [m \in {"own", "open"} |->
                                        [button |-> "none", slots |-> <<>>]]]
      /\ UNCHANGED ground
---------------------------------------------------------------------------
\* Bound: nothing is explored past the first leak.
Next ==
  /\ leaks = {} /\ UNCHANGED start
  /\ \E p \in Players :
       \/ Left(p) \/ Right(p)
       \/ TakeCrafted(p, Limit) \/ TakeCrafted(p, 1) \/ CraftAll(p)
       \/ TakeCut(p) \/ TakeCutLoosely(p) \/ ShiftResult(p)
       \/ ShiftOut(p) \/ ShiftIn(p) \/ SwapWithHotbar(p) \/ Throw(p) \/ Gather(p)
       \/ \E button \in {"left", "right"} : DragStart(p, button)
       \/ \E s \in Slots(p) : DragAdd(p, s)
       \/ DragEnd(p)
       \/ PlaceRecipe(p)
       \/ \E kind \in Screens[p] : Open(p, kind)
       \/ Close(p) \/ Leave(p)

Spec == Init /\ [][Next]_vars
---------------------------------------------------------------------------
InitialWorth == MapThenSumSet(LAMBDA p : Worth(start.held[p]), Players)

\* No sequence of clicks, drags, recipe placements and screens of several
\* players on one chest makes or loses items, outside the named leaks; and
\* those that lose never make.
ItemsKept ==
  /\ leaks = {} => Total = InitialWorth
  /\ Total > InitialWorth => leaks \subseteq {"partialCraft", "gatheredResult", "shiftedResult"}
  /\ \A x \in Places : stack[x].n <= Limit

\* Between packets the stonecutter's output is the one its input makes: a
\* stale output could be taken for nothing (GameServer_session.cpp, the
\* recomputation at the end of handleMenuClick, and openMenuAt).
OutputCurrent ==
  \A p \in Players :
    stack[Cut(p)] = IF menu[p] = "cutter" THEN Made(stack[<<p, "cell">>]) ELSE Air

\* closeOpenMenu says that every input of a screen survives an explicit close
\* or a replacement by another screen.
CloseKeepsItems ==
  [][\A p \in Players : (Close(p) \/ \E k \in {"table", "cutter", "chest"} : Open(p, k))
                          => Total' = Total]_vars
=============================================================================

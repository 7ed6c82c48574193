------------------------------- MODULE Fluids -------------------------------
(***************************************************************************)
(* Flowing water and lava (FluidSim).  Every changed block wakes itself    *)
(* and its neighbours at once; a cell that is woken works out its own      *)
(* level, may dry up, turn to rock or spread, and every such change wakes  *)
(* cells again, within the same tick.                                      *)
(*                                                                         *)
(* A tick, its callbacks and the edits between two ticks hold the          *)
(* simulation gate; the cells of a tick are one action each.               *)
(*                                                                         *)
(* Abstracted: a slice of the world, one block thick, with rock around it; *)
(* all in one chunk; how long a cell waits that is not woken at once is    *)
(* left open.  Levels are as in the code, with the constants smaller.      *)
(***************************************************************************)
EXTENDS Integers, FiniteSets

CONSTANTS
  Width, Height,
  MaxWater,  \* the last level of flowing water; one more is a falling one
  MaxLava,   \* the same of lava
  LavaStep,  \* what lava loses from cell to cell
  Scenes,    \* Bound: the slices explored
  Placed,    \* Bound: what edits put in
  MaxPlaced  \* Bound: edits

FluidsConstants ==
  /\ {Width, Height, MaxWater, MaxLava, LavaStep} \subseteq Nat \ {0}
  /\ MaxLava <= MaxWater /\ MaxPlaced \in Nat

LOCAL INSTANCE FiniteSetsExt

VARIABLES
  block,     \* the block of each cell
  wake,      \* scheduledDue_: "no", "now" (0), "due" by this tick, or "later"
  ticking,   \* the tick is at it
  placed,
  skipped    \* a cell outside the simulation distance was taken off the queue

fluidVars == <<block, wake, ticking, placed, skipped>>

Cells == (1 .. Width) \X (1 .. Height)
Falling == MaxWater + 1
Is(k, l) == [k |-> k, l |-> l]
Air == Is("air", 0)
Rock == Is("rock", 0)
Fence == Is("fence", 0)       \* takes water in
WetFence == Is("fence", 1)
Plant == Is("plant", 0)       \* is washed away
Water(l) == Is("water", l)
Lava(l) == Is("lava", l)

Below(c) == <<c[1], c[2] - 1>>
Above(c) == <<c[1], c[2] + 1>>
Sides(c) == <<<<c[1] + 1, c[2]>>, <<c[1] - 1, c[2]>>>>
Beside(c) == {Sides(c)[1], Sides(c)[2]}

\* Faulty: the cell above is not woken.
AroundBelow(c) == ({c, Below(c)} \cup Beside(c)) \cap Cells

\* touch: a change wakes the cell and its six neighbours.
Around(c) == ({c, Below(c), Above(c)} \cup Beside(c)) \cap Cells

\* What a handler has changed so far: the blocks, the cells woken at once and
\* those to be looked at later.
At(s, c) == IF c \in Cells THEN s.b[c] ELSE Rock
Set(s, c, v) == IF c \notin Cells \/ At(s, c) = v THEN s
                ELSE [s EXCEPT !.b[c] = v, !.now = @ \cup Around(c)]
Later(s, C) == [s EXCEPT !.later = @ \cup (C \cap Cells)]

\* kindAt: a wet fence counts as a source of water.
Kind(v) == IF v = WetFence THEN "water" ELSE IF v.k \in {"water", "lava"} THEN v.k ELSE "none"
Level(v) == IF v = WetFence THEN 0 ELSE v.l
Source(v) == Kind(v) = "water" /\ Level(v) = 0
Replaceable(v) == v \in {Air, Plant}

Init ==
  /\ \E s \in Scenes : block = [c \in Cells |-> s[c[2]][c[1]]]
  /\ wake = [c \in Cells |-> "now"]
  /\ ticking = FALSE /\ placed = 0 /\ skipped = FALSE
---------------------------------------------------------------------------
(* apply: what a woken cell does.                                           *)

\* canConvertToSource: between two sources, above rock or a source.
BecomesSource(s, c) ==
  /\ At(s, Below(c)) = Rock \/ Source(At(s, Below(c)))
  /\ \A d \in Beside(c) : Source(At(s, d))

\* interactAt: lava beside or above water turns to rock itself, above it turns
\* the water to rock; water turns lava to rock.  The second part of the result
\* says that the flow has come to its end there.
Meet(s, c, kind, d, downward) ==
  LET v == At(s, d)
  IN  IF Kind(v) \in {"none", kind} THEN <<s, FALSE>>
      ELSE IF kind = "lava" /\ downward
           THEN <<IF v.k = "water" THEN Set(s, d, Rock) ELSE s, TRUE>>
      ELSE IF kind = "lava" THEN <<Set(s, c, Rock), TRUE>>
      ELSE <<Set(s, d, Rock), FALSE>>

Step(kind) == IF kind = "lava" THEN LavaStep ELSE 1
MaxLevel(kind) == IF kind = "lava" THEN MaxLava ELSE MaxWater

\* Flowing water between sources becomes one.
Converted(s, c, v) ==
  IF v.k = "water" /\ v.l \in 1 .. MaxWater /\ BecomesSource(s, c)
  THEN Later(Set(s, c, Water(0)), Beside(c) \cup {Above(c)})
  ELSE s

\* The cell below: rock where the two meet, a fence gets wet, air and flowing
\* fluid become a falling one.
Sunk(s, c, kind) ==
  LET d == Below(c)
      under == At(s, d)
      met == Meet(s, c, kind, d, TRUE)[1]
      wet == IF kind = "water" /\ under = Fence THEN Later(Set(met, d, WetFence), {d}) ELSE met
  IN  IF under = Air \/ (Kind(under) = kind /\ Level(under) \notin {0, Falling})
      THEN Later(Set(wet, d, Is(kind, Falling)), {d})
      ELSE wet

\* The level that the cells beside c give it; a source among them is a level
\* of -1 and one more of 1, and -2 stands for no fluid there.
FedBy(s, c, kind) ==
  LET near == {Level(At(s, d)) : d \in {e \in Beside(c) : Kind(At(s, e)) = kind}}
  IN  IF near = {} THEN -2 ELSE IF 0 \in near THEN 1 ELSE Min(near) + Step(kind)

\* One of the cells beside c, in their order; the result says whether the flow
\* came to its end.
Spread(r, c, kind, level, d) ==
  LET s == r[1]
      v == At(s, d)
      made == IF kind = "water" /\ level = 1 /\ BecomesSource(s, d) THEN 0 ELSE level
  IN  IF r[2] THEN r
      ELSE IF Kind(v) \notin {"none", kind} THEN Meet(s, c, kind, d, FALSE)
      ELSE IF kind = "water" /\ v = Fence THEN <<Later(Set(s, d, WetFence), {d}), FALSE>>
      ELSE IF Replaceable(v) THEN <<Later(Set(s, d, Is(kind, made)), {d}), FALSE>>
      ELSE r

\* The spreading, then lava's look at the cells above and beside it.
Flowed(s, c, kind, level) ==
  LET next == IF level = Falling THEN 1 ELSE level + Step(kind)
      goes == (level \in {0, Falling} \/ level < MaxLevel(kind)) /\ next <= MaxLevel(kind)
      r1 == Spread(<<s, FALSE>>, c, kind, next, Sides(c)[1])
      r2 == IF goes THEN Spread(r1, c, kind, next, Sides(c)[2]) ELSE <<s, FALSE>>
      look(r, d) == IF r[2] \/ kind = "water" THEN r ELSE Meet(r[1], c, kind, d, FALSE)
  IN  look(look(look(r2, Above(c)), Sides(c)[1]), Sides(c)[2])

Apply(b, c) ==
  LET s == [b |-> b, now |-> {}, later |-> {}]
      v == b[c]
      kind == v.k
      s1 == Converted(s, c, v)
      s2 == Sunk(s1, c, kind)
      level == Level(s1.b[c])
      want == IF level \in {0, Falling} THEN level ELSE FedBy(s2, c, kind)
      dry == want = -2 \/ (want > MaxLevel(kind) /\ want # Falling)
                       \/ (want = Falling /\ level # Falling)
      r == Flowed(Set(s2, c, Is(kind, want)), c, kind, want)
  IN  IF kind \notin {"water", "lava"} THEN s
      ELSE IF dry THEN Later(Set(s2, c, Air), Beside(c) \cup {Above(c)})
      ELSE IF ~r[2] /\ r[1].b # b THEN Later(r[1], {c})
      ELSE r[1]

\* touch and schedule: what is due already is not put off.
Woken(w, s) ==
  [c \in Cells |-> IF c \in s.now THEN "now"
                   ELSE IF c \in s.later /\ w[c] = "no" THEN "later" ELSE w[c]]
---------------------------------------------------------------------------
StartTick ==
  /\ ~ticking /\ \E c \in Cells : wake[c] # "no"
  /\ ticking' = TRUE
  /\ \E D \in SUBSET {c \in Cells : wake[c] = "later"} :
       wake' = [c \in Cells |-> IF c \in D THEN "due" ELSE wake[c]]
  /\ UNCHANGED <<block, placed, skipped>>

\* The next cell of the queue: those woken at once come first.
Next1 == LET now == {c \in Cells : wake[c] = "now"}
         IN  IF now # {} THEN now ELSE {c \in Cells : wake[c] = "due"}

Process(c) ==
  /\ ticking /\ c \in Next1
  /\ LET s == Apply(block, c)
     IN  /\ block' = s.b
         /\ wake' = Woken([wake EXCEPT ![c] = "no"], s)
  /\ UNCHANGED <<ticking, placed, skipped>>

\* The cell is not simulated: it is taken off the queue and that is all.
Skip(c) ==
  /\ ticking /\ c \in Next1
  /\ wake' = [wake EXCEPT ![c] = "no"]
  /\ skipped' = (skipped \/ Apply(block, c).b # block)
  /\ UNCHANGED <<block, ticking, placed>>

EndTick ==
  /\ ticking /\ Next1 = {}
  /\ ticking' = FALSE
  /\ UNCHANGED <<block, wake, placed, skipped>>

\* World::setBlock by a player, a command or another engine.
Place ==
  /\ ~ticking /\ placed < MaxPlaced /\ placed' = placed + 1
  /\ \E c \in Cells, v \in Placed :
       LET s == Set([b |-> block, now |-> {}, later |-> {}], c, v)
       IN  v # block[c] /\ block' = s.b /\ wake' = Woken(wake, s)
  /\ UNCHANGED <<ticking, skipped>>

\* Bound: nothing is explored once a cell has been skipped that had work to do.
Next ==
  /\ ~skipped
  /\ \/ StartTick \/ EndTick \/ Place
     \/ \E c \in Cells : Process(c) \/ Skip(c)

\* A tick that has begun goes on, and no cell that is next stays so for ever
\* because of others that were woken at the same time.
Fairness == WF_fluidVars(EndTick) /\ \A c \in Cells : WF_fluidVars(Process(c))
Spec == Init /\ [][Next]_fluidVars /\ Fairness
---------------------------------------------------------------------------
Resting == ~ticking /\ \A c \in Cells : wake[c] = "no"

\* No wake is lost: when nothing is scheduled, looking at any cell again would
\* change nothing, so no water is left without its feed and none fails to run
\* where it could; only what was skipped outside the simulation distance may.
RestIsStable == Resting /\ ~skipped => \A c \in Cells : Apply(block, c).b = block

\* A tick returns: "20 TPS tick ordering and per-tick scheduled
\* block/entity/projectile work" (docs/SPEC_GAMEPLAY.md).
TickReturns == ticking ~> ~ticking

\* A scene for a small instance: a spring above a floor, with one cell beside
\* them.
Waterfall == {<< <<Air, Air>>, <<Water(0), Rock>> >>}
=============================================================================

----------------------------- MODULE BlockLight -----------------------------
(***************************************************************************)
(* Block light (LightEngine): edits push nodes into a queue of removals    *)
(* and one of additions, and the tick drains both, removals first.  The    *)
(* result should be what the sources and the opacities of the blocks       *)
(* define, however light was spread and taken back on the way there.       *)
(*                                                                         *)
(* Edits and the drain hold the simulation gate; no edit falls into a      *)
(* drain, but several may fall between two.                                *)
(*                                                                         *)
(* Abstracted: a small graph of cells for the grid of the world; one       *)
(* opaque block, some that emit and one that does neither.  Sky light,     *)
(* which is computed anew for a chunk each time, is left out.              *)
(***************************************************************************)
EXTENDS Naturals, Sequences, FiniteSets

CONSTANTS
  Cells,
  Beside,    \* the pairs of neighbouring cells, each a set of two
  Emits,     \* what emissionOf gives for the blocks that emit
  MaxChanges \* Bound: edits

BlockLightConstants ==
  /\ Cells \subseteq Nat /\ \A b \in Beside : b \subseteq Cells /\ Cardinality(b) = 2
  /\ Emits # {} /\ Emits \subseteq 1 .. 15

LOCAL INSTANCE FiniteSetsExt
LOCAL INSTANCE SequencesExt

VARIABLES
  solid,     \* the opaque cells
  emission,  \* what the block of each cell emits
  light,     \* the stored light
  removeQueue, addQueue,
  draining,  \* the tick is at it
  changes,
  oddities   \* the edits for which the engine's answer is not the defined one

vars == <<solid, emission, light, removeQueue, addQueue, draining, changes, oddities>>

Node(c, l) == [c |-> c, level |-> l]
\* What light loses on its way into the cell c: max(1, opacityOf).
Dimming(c) == IF c \in solid THEN 15 ELSE 1
Less(l, d) == IF l > d THEN l - d ELSE 0
Neighbours(c) == {d \in Cells : {c, d} \in Beside}
Ordered(S) == SetToSortSeq(S, <)
Nodes(S, l) == LET s == Ordered(S) IN [i \in DOMAIN s |-> Node(s[i], l[s[i]])]

\* The light that sources and opacities define: the strongest of the source in
\* the cell and what comes from its neighbours, after as many
\* rounds as light can take.
Defined ==
  LET round[n \in 0 .. Max(Emits)] ==
        IF n = 0 THEN emission
        ELSE [c \in Cells |-> Max({emission[c]} \cup
               {Less(round[n - 1][d], Dimming(c)) : d \in Neighbours(c)})]
  IN  round[Max(Emits)]

Init ==
  /\ solid \in SUBSET Cells /\ emission = [c \in Cells |-> 0]
  /\ light = [c \in Cells |-> 0]
  /\ removeQueue = <<>> /\ addQueue = <<>> /\ draining = FALSE
  /\ changes = 0 /\ oddities = {}
---------------------------------------------------------------------------
\* onBlockChanged at c, which is then opaque, or emits new, or does neither.
\* When the opacity changed, or the chunk had no sky light yet, the neighbours
\* are darkened and run again; outside the simulation distance nothing is done.
Change(c) ==
  /\ ~draining /\ changes < MaxChanges /\ changes' = changes + 1
  /\ \E new \in Emits \cup {0} :
       /\ emission' = [emission EXCEPT ![c] = new]
       /\ \/ solid' = solid \ {c}
          \/ new = 0 /\ solid' = solid \cup {c}
       /\ <<solid', emission'>> # <<solid, emission>>
       /\ LET opacity == (c \in solid) # (c \in solid')
              l1 == IF new > 0 THEN [light EXCEPT ![c] = new] ELSE light
              gone == (IF emission[c] > 0 THEN <<Node(c, emission[c])>> ELSE <<>>)
                      \o (IF light[c] > new THEN <<Node(c, light[c])>> ELSE <<>>)
              come == IF new > 0 THEN <<Node(c, new)>> ELSE <<>>
              bright == {d \in Neighbours(c) : l1[d] > 1}
              lit == {d \in Neighbours(c) : l1[d] > 0}
              waits == removeQueue \o addQueue # <<>>
              apart == IF waits /\ emission' # emission
                       THEN oddities \cup {"unsettled"} ELSE oddities
          IN  \/ /\ ~opacity
                 /\ removeQueue' = removeQueue \o gone /\ addQueue' = addQueue \o come
                 /\ light' = l1 /\ oddities' = apart
              \/ /\ removeQueue' = removeQueue \o gone \o Nodes(bright, l1)
                 /\ addQueue' = addQueue \o come \o Nodes(lit, l1)
                 /\ light' = [d \in Cells |-> IF d \in bright THEN 0 ELSE l1[d]]
                 /\ oddities' = IF bright # {} \/ (opacity /\ light[c] > 0)
                                THEN apart \cup {"rerun"} ELSE apart
              \/ /\ oddities' = oddities \cup {"culled"}
                 /\ UNCHANGED <<light, removeQueue, addQueue>>
  /\ UNCHANGED draining

StartDrain ==
  /\ ~draining /\ removeQueue \o addQueue # <<>>
  /\ draining' = TRUE
  /\ UNCHANGED <<solid, emission, light, removeQueue, addQueue, changes, oddities>>

\* Faulty: what is as strong as the removed light does not shine back.
DarkenStrictly ==
  LET n == Head(removeQueue)
      l1 == IF light[n.c] = n.level THEN [light EXCEPT ![n.c] = 0] ELSE light
      weaker == {d \in Neighbours(n.c) : l1[d] > 0 /\ l1[d] < n.level}
      back == {d \in Neighbours(n.c) : l1[d] > n.level}
  IN  /\ draining /\ removeQueue # <<>>
      /\ removeQueue' = Tail(removeQueue) \o Nodes(weaker, l1)
      /\ addQueue' = addQueue \o Nodes(back, l1)
      /\ light' = [d \in Cells |-> IF d \in weaker THEN 0 ELSE l1[d]]
      /\ oddities' = IF \E d \in weaker : emission[d] > 0
                     THEN oddities \cup {"swallowed"} ELSE oddities
      /\ UNCHANGED <<solid, emission, draining, changes>>

\* One node of the removals: weaker neighbours lost their light with it, the
\* others shine back.
Darken ==
  LET n == Head(removeQueue)
      l1 == IF light[n.c] = n.level THEN [light EXCEPT ![n.c] = 0] ELSE light
      weaker == {d \in Neighbours(n.c) : l1[d] > 0 /\ l1[d] < n.level}
      back == {d \in Neighbours(n.c) : l1[d] > 0 /\ l1[d] >= n.level}
  IN  /\ draining /\ removeQueue # <<>>
      /\ removeQueue' = Tail(removeQueue) \o Nodes(weaker, l1)
      /\ addQueue' = addQueue \o Nodes(back, l1)
      /\ light' = [d \in Cells |-> IF d \in weaker THEN 0 ELSE l1[d]]
      /\ oddities' = IF \E d \in weaker : emission[d] > 0
                     THEN oddities \cup {"swallowed"} ELSE oddities
      /\ UNCHANGED <<solid, emission, draining, changes>>

\* One node of the additions, when there are no removals left.
Brighten ==
  LET n == Head(addQueue)
      reach == [d \in Cells |-> Less(n.level, Dimming(d))]
      up == {d \in Neighbours(n.c) : light[d] < reach[d]}
  IN  /\ draining /\ removeQueue = <<>> /\ addQueue # <<>>
      /\ addQueue' = Tail(addQueue) \o Nodes(up, reach)
      /\ light' = [d \in Cells |-> IF d \in up THEN reach[d] ELSE light[d]]
      /\ UNCHANGED <<solid, emission, removeQueue, draining, changes, oddities>>

EndDrain ==
  /\ draining /\ removeQueue = <<>> /\ addQueue = <<>>
  /\ draining' = FALSE
  /\ UNCHANGED <<solid, emission, light, removeQueue, addQueue, changes, oddities>>

\* Bound: nothing is explored past the first oddity.
Next ==
  /\ oddities = {}
  /\ \/ \E c \in Cells : Change(c)
     \/ StartDrain \/ Darken \/ Brighten \/ EndDrain

Spec == Init /\ [][Next]_vars
---------------------------------------------------------------------------
\* After a drain the stored light is the defined one: nothing glows without a
\* source, nothing is darker than it should be.  Four kinds of edit are not
\* covered, and break it: one that runs lit neighbours again, a source that
\* comes or goes while queues wait, a removal that swallows a weaker source on
\* its way, and an edit outside the simulation distance.
LightAsDefined ==
  ~draining /\ removeQueue = <<>> /\ addQueue = <<>> /\ oddities = {} => light = Defined

\* "opacity change: re-run neighbors through add queue so light flows back"
\* (LightEngine.cpp, onBlockChanged), were it so.
LightFlowsBack ==
  ~draining /\ removeQueue = <<>> /\ addQueue = <<>> /\ oddities \subseteq {"rerun"}
  => \A c \in Cells : light[c] >= Defined[c]
=============================================================================

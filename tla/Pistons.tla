------------------------------ MODULE Pistons ------------------------------
(***************************************************************************)
(* Pistons (RedstoneEngine) move blocks in three steps that lie ticks      *)
(* apart: a change of power or of a block nearby queues the piston; later  *)
(* it turns what it moves into moving_piston blocks and remembers them in  *)
(* pendingPistonCommits_; later still the blocks are put down.  Between    *)
(* the steps players build, other pistons move, and chunks are saved.      *)
(*                                                                         *)
(* A tick, an edit and saveChunkAsyncFor hold the simulation gate; the     *)
(* saving thread holds it for its barrier and lets it go before it takes   *)
(* the snapshot.  A crash forgets all that is not in the snapshot.         *)
(*                                                                         *)
(* Abstracted: a line of cells of one chunk with pistons along it; power   *)
(* comes and goes by itself; slime and honey, which pull at blocks beside  *)
(* the line, are left out.                                                 *)
(***************************************************************************)
EXTENDS Integers, FiniteSetsExt

CONSTANTS
  Last,      \* the line is 1 .. Last
  Limit,     \* how many blocks a piston moves: 12
  Layouts,   \* Bound: the lines explored
  MaxDone    \* Bound: changes of power, edits, saves, crashes

VARIABLES
  cell,      \* the block in each cell
  power,     \* whether a cell is powered
  queue,     \* pistonQueue_: per cell what it is to become, and when
  commits,   \* pendingPistonCommits_
  changed,   \* pendingBlockChanges_
  step,      \* "idle", or where the tick is: "pistons", "commits"
  disk,      \* the snapshot of the chunk
  barred,    \* the saving thread is between its barrier and its snapshot
  kept,      \* how many stones there should be, in the world and on disk
  done,
  trouble    \* what came between the steps of a move

pistonVars == <<cell, power, queue, commits, changed, step, disk, barred, kept, done, trouble>>

Line == 1 .. Last
Air == [k |-> "air"]
Stone == [k |-> "stone"]
Obsidian == [k |-> "obsidian"]
Moving == [k |-> "moving"]
Head == [k |-> "head"]
Piston(dir, sticky) == [k |-> "piston", dir |-> dir, sticky |-> sticky, ext |-> FALSE]
Unmovable == {"obsidian", "moving", "head", "edge"}
Edge == [k |-> "edge"]

\* What a cell may hold while nothing moves.
Standing ==
  {Air, Stone, Obsidian, Head}
    \cup [k : {"piston"}, dir : {1, -1}, sticky : BOOLEAN, ext : BOOLEAN]

PistonsConstants ==
  /\ Last \in Nat \ {0} /\ Limit \in Nat \ {0} /\ MaxDone \in Nat
  /\ Layouts \subseteq [Line -> Standing]

On(f, c) == IF c \in Line THEN f[c] ELSE Edge
Put(f, c, v) == IF c \in Line THEN [f EXCEPT ![c] = v] ELSE f

None == [on |-> FALSE, want |-> FALSE, left |-> 0]
Queued(want) == [on |-> TRUE, want |-> want, left |-> 2]

\* A move under way: the piston's cell and direction, the cells it moves with
\* what was in them, and for a retraction the cells it pulls.
Move(p, b, extend, moved, pulled, was) ==
  [p |-> p, dir |-> b.dir, extend |-> extend, left |-> 2,
   moved |-> [c \in moved |-> was[c]], pulled |-> [c \in pulled |-> was[c]]]

\* The cells a move will write when it is put down.
Targets(m) ==
  IF m.extend THEN {c + m.dir : c \in DOMAIN m.moved} \cup {m.p + m.dir}
  ELSE DOMAIN m.pulled \cup {m.p + m.dir}

Stones(f) == Cardinality({c \in DOMAIN f : f[c].k = "stone"})
\* The cells whose stones are under way.
Carried == {c \in Line : \E m \in commits : c \in DOMAIN m.moved /\ m.moved[c] = Stone}

Init ==
  /\ cell \in Layouts
  /\ power = [c \in Line |-> FALSE]
  /\ queue = [c \in Line |-> None] /\ commits = {} /\ changed = {}
  /\ step = "idle" /\ disk = cell /\ barred = FALSE
  /\ kept = [world |-> Stones(cell), disk |-> Stones(cell)]
  /\ done = 0 /\ trouble = {}
Does == done < MaxDone /\ done' = done + 1
---------------------------------------------------------------------------
(* What moves, and the queue.                                               *)

\* Faulty: the block beyond the last that moves is not looked at.
ReachUnbounded(f, p) ==
  LET d == f[p].dir
      stops == {i \in 1 .. Limit : On(f, p + d * i).k = "air"}
      n == IF stops = {} THEN Limit ELSE Min(stops) - 1
      run == {p + d * i : i \in 1 .. n}
  IN  [cells |-> run, valid |-> \A c \in run : On(f, c).k \notin Unmovable]

\* collectPistonExtension: the blocks in front, if all of them can be moved and
\* there is room beyond the last.
Reach(f, p) ==
  LET d == f[p].dir
      stops == {i \in 1 .. Limit + 1 : On(f, p + d * i).k = "air"}
      n == IF stops = {} THEN Limit ELSE Min(stops) - 1
      run == {p + d * i : i \in 1 .. n}
  IN  [cells |-> run, valid |-> stops # {} /\ \A c \in run : On(f, c).k \notin Unmovable]

\* handlePiston for the pistons at and beside changed cells.
Noticed(q, f, C) ==
  [c \in Line |->
    IF f[c].k # "piston" \/ C \cap {c - 1, c, c + 1} = {} THEN q[c]
    ELSE IF power[c] = f[c].ext THEN None
    ELSE IF q[c].on \/ (power[c] /\ ~Reach(f, c).valid) THEN q[c]
    ELSE Queued(power[c])]

\* handlePistonScheduled.
Start(p) ==
  LET b == cell[p]
      want == queue[p].want
      turned == [cell EXCEPT ![p] = [b EXCEPT !.ext = want]]
      front == p + b.dir
      far == front + b.dir
      r == Reach(cell, p)
      pulls == IF b.sticky /\ On(cell, far).k \notin Unmovable \cup {"air"} THEN {far} ELSE {}
      m == IF want THEN Move(p, b, TRUE, r.cells, {}, cell)
           ELSE Move(p, b, FALSE, {front}, pulls, cell)
      goes == b.k = "piston" /\ b.ext # want /\ (want => r.valid)
      meets == \E o \in commits : Targets(o) \cap (Targets(m) \cup DOMAIN m.moved) # {}
  IN  /\ step = "pistons" /\ queue[p].on /\ queue[p].left = 0
      /\ queue' = [queue EXCEPT ![p] = None]
      /\ \/ ~goes /\ UNCHANGED <<cell, commits, changed, trouble>>
         \/ /\ goes
            /\ changed' = changed \cup {p}
                  \cup (IF want THEN r.cells ELSE IF On(cell, front) = Head THEN {front} ELSE {})
            /\ IF ~want /\ On(cell, front) # Head
               THEN cell' = turned /\ UNCHANGED <<commits, trouble>>
               ELSE /\ cell' = [c \in Line |-> IF c \in DOMAIN m.moved THEN Moving ELSE turned[c]]
                    /\ commits' = commits \cup {m}
                    /\ trouble' = IF meets THEN trouble \cup {"met"} ELSE trouble
      /\ UNCHANGED <<power, step, disk, barred, kept, done>>

\* Faulty: the pulled blocks stay where they were as well.
PutDownTwice(f, m) ==
  LET src == IF m.extend THEN DOMAIN m.moved ELSE {m.p + m.dir}
      to == IF m.extend THEN m.dir ELSE -m.dir
      what == IF m.extend THEN m.moved ELSE m.pulled
      empty == [c \in Line |-> IF c \in src THEN Air ELSE f[c]]
      full == [c \in Line |-> IF c - to \in DOMAIN what THEN what[c - to] ELSE empty[c]]
  IN  IF m.extend THEN Put(full, m.p + m.dir, Head) ELSE full

\* processPendingPistonCommits for one move: the cells it took are emptied, the
\* blocks put one further, and the head; or the head taken and the pulled ones
\* put one nearer.
PutDown(f, m) ==
  LET src == IF m.extend THEN DOMAIN m.moved ELSE DOMAIN m.pulled \cup {m.p + m.dir}
      to == IF m.extend THEN m.dir ELSE -m.dir
      what == IF m.extend THEN m.moved ELSE m.pulled
      empty == [c \in Line |-> IF c \in src THEN Air ELSE f[c]]
      full == [c \in Line |-> IF c - to \in DOMAIN what THEN what[c - to] ELSE empty[c]]
  IN  IF m.extend THEN Put(full, m.p + m.dir, Head) ELSE full

Touched(m) == DOMAIN m.moved \cup DOMAIN m.pulled \cup Targets(m)
---------------------------------------------------------------------------
(* A tick.                                                                  *)

StartTick ==
  /\ step = "idle" /\ ((\E c \in Line : queue[c].on) \/ commits # {})
  /\ step' = "pistons"
  /\ queue' = [c \in Line |-> IF queue[c].left > 0 THEN [queue[c] EXCEPT !.left = @ - 1] ELSE queue[c]]
  /\ commits' = {[m EXCEPT !.left = IF @ > 0 THEN @ - 1 ELSE 0] : m \in commits}
  /\ UNCHANGED <<cell, power, changed, disk, barred, kept, done, trouble>>

PistonsStarted ==
  /\ step = "pistons" /\ \A c \in Line : ~(queue[c].on /\ queue[c].left = 0)
  /\ step' = "commits"
  /\ UNCHANGED <<cell, power, queue, commits, changed, disk, barred, kept, done, trouble>>

Commit ==
  /\ step = "commits"
  /\ \E m \in commits :
       /\ m.left = 0
       /\ cell' = PutDown(cell, m)
       /\ commits' = commits \ {m}
       /\ changed' = changed \cup (Touched(m) \cap Line)
  /\ UNCHANGED <<power, queue, step, disk, barred, kept, done, trouble>>

\* drainBlockChanges at the end of the tick.
EndTick ==
  /\ step = "commits" /\ \A m \in commits : m.left > 0
  /\ step' = "idle" /\ changed' = {}
  /\ queue' = Noticed(queue, cell, changed)
  /\ UNCHANGED <<cell, power, commits, disk, barred, kept, done, trouble>>
---------------------------------------------------------------------------
(* Between ticks.                                                           *)

Power(c) ==
  /\ step = "idle" /\ cell[c].k = "piston" /\ Does
  /\ power' = [power EXCEPT ![c] = ~@]
  /\ queue' = [queue EXCEPT ![c] =
       IF ~power[c] = cell[c].ext THEN None
       ELSE IF @.on \/ (~power[c] /\ ~Reach(cell, c).valid) THEN @ ELSE Queued(~power[c])]
  /\ UNCHANGED <<cell, commits, changed, step, disk, barred, kept, trouble>>

\* A player breaks a stone or builds one; it is put where a move will end, or
\* taken from where one will pull it.
Build(c) ==
  /\ step = "idle" /\ cell[c].k \in {"air", "stone"} /\ Does
  /\ LET v == IF cell[c] = Air THEN Stone ELSE Air
     IN  /\ cell' = [cell EXCEPT ![c] = v]
         /\ queue' = Noticed(queue, cell', {c})
         /\ kept' = [kept EXCEPT !.world = IF v = Stone THEN @ + 1 ELSE @ - 1]
  /\ trouble' = IF \E m \in commits : c \in Targets(m) THEN trouble \cup {"built"} ELSE trouble
  /\ UNCHANGED <<power, commits, changed, step, disk, barred>>

\* flushPendingPistons: every move is put down before its time (no two of them
\* write to one cell, or they had met).
Flushed(f) ==
  [c \in Line |->
     IF \E m \in commits : c \in Targets(m)
     THEN PutDown(f, CHOOSE m \in commits : c \in Targets(m))[c] ELSE f[c]]

Flush ==
  /\ cell' = Flushed(cell) /\ commits' = {}
  /\ queue' = Noticed(queue, cell', UNION {Touched(m) : m \in commits})

\* saveChunkAsyncFor: moves and snapshot under one hold of the gate.
SaveAsync ==
  /\ step = "idle" /\ Does
  /\ Flush /\ disk' = cell'
  /\ kept' = [kept EXCEPT !.disk = kept.world]
  /\ UNCHANGED <<power, changed, step, barred, trouble>>

\* flushOnce: the barrier, and the snapshot without the gate.
Barrier ==
  /\ step = "idle" /\ ~barred /\ Does
  /\ Flush /\ barred' = TRUE
  /\ UNCHANGED <<power, changed, step, disk, kept, trouble>>

Snapshot ==
  /\ barred /\ barred' = FALSE
  /\ disk' = cell
  /\ kept' = [kept EXCEPT !.disk = kept.world]
  /\ trouble' = IF commits # {} THEN trouble \cup {"gap"} ELSE trouble
  /\ UNCHANGED <<cell, power, queue, commits, changed, step, done>>

Crash ==
  /\ Does
  /\ cell' = disk /\ kept' = [kept EXCEPT !.world = kept.disk]
  /\ queue' = [c \in Line |-> None] /\ commits' = {} /\ changed' = {}
  /\ step' = "idle" /\ barred' = FALSE
  /\ UNCHANGED <<power, disk, trouble>>

\* Bound: nothing is explored past the first trouble.
Next ==
  /\ trouble = {}
  /\ \/ StartTick \/ PistonsStarted \/ Commit \/ EndTick
     \/ SaveAsync \/ Barrier \/ Snapshot \/ Crash
     \/ \E c \in Line : Start(c) \/ Power(c) \/ Build(c)

Spec == Init /\ [][Next]_pistonVars
---------------------------------------------------------------------------
\* Whatever pistons move, and whenever chunks are saved, edited and read back:
\* no stone is lost or doubled, in the world or on disk, and moving_piston
\* blocks are there only as long as a move is under way.  Three things break
\* it: two moves that meet, a block built or broken where one ends, and a
\* snapshot that falls between the barrier and a new move.
StonesKept ==
  trouble = {} =>
    /\ Stones(cell) + Cardinality(Carried) = kept.world /\ Stones(disk) = kept.disk
    /\ \A c \in Line : cell[c] = Moving => \E m \in commits : c \in DOMAIN m.moved
    /\ \A c \in Line : disk[c] # Moving

\* "Complete that transaction while the simulation gate is held, before
\* snapshotting the chunk; otherwise the moving block could outlive its
\* transient BE after restart" (GameServer_world.cpp, saveChunkAsyncFor), were
\* the saving thread's barrier enough for it.
NothingMovesOnDisk == \A c \in Line : disk[c] # Moving
=============================================================================

-------------------------- MODULE PersistenceProofs --------------------------
(***************************************************************************)
(* What the parts of MCPersistence keep, for every value of the constants: *)
(* the chunks on their way to the region files and back (ChunkStore),      *)
(* level.dat and its backup (L), the sectors of a region file (R), who may *)
(* play (A), and what the players have earned (P).                         *)
(***************************************************************************)
EXTENDS MCPersistence, FiniteSetTheorems, SequenceTheorems, WellFoundedInduction, TLAPS

\* Who holds what: the staged copy belongs to the flush or to the tick, shows
\* the chunk as it is, and its chunk stays loaded; a store in place is a task's.
Holders ==
    /\ stage # NoChunk =>
          /\ live[stage.c] # NoChunk /\ stage.data = live[stage.c].data
          /\ stage.by = "flush" => flush.step = "store"
          /\ stage.by = "tick" => gate = Saving(stage.c)
          /\ stage.step = "ready" => stage.copy[stage.c] = stage.data
    /\ flush.step = "store" => stage # NoChunk /\ stage.by = "flush"
    /\ gate.op = "cap" => stage # NoChunk /\ stage.by = "tick"
    /\ gate # Free => live[gate.c] # NoChunk
    /\ storing # NoChunk =>
          /\ busy[storing.w] # NoChunk /\ busy[storing.w].step = "write"
          /\ storing.orphan => <<"overlap", busy[storing.w].task.c>> \in races

\* Stamps are not shared: the entry of a chunk is no stamp of another's save.
Stamped ==
    /\ \A c, d \in Chunks : latest[c] = latest[d] /\ latest[c] # NoChunk => c = d
    /\ \A t \in Tasks, d \in Chunks :
          t.kind = "save" /\ latest[d] = t.stamp => t.c = d

\* The shutdown: who has stopped stays so, and each final pass that left
\* something dirty had a failure.
Stopping ==
    /\ phase # "running" => gate = Free
    /\ phase \in {"persist", "stopped"} =>
          /\ queue = <<>> /\ \A w \in Workers : busy[w] = NoChunk
          /\ passes <= fails + 1
          /\ dirty # {} => passes <= fails
    /\ phase \in {"running", "draining"} => passes = 0
    /\ phase = "stopped" => flush = Idle /\ PassesDone

Stored(c) == disk[c] = edits[c] \/ \E t \in Saves(c) : t.data = edits[c]

\* An edit that is not on disk yet is somebody's to save.
Covered(c) ==
    \/ c \in dirty \cup InFlush
    \/ stage # NoChunk /\ stage.c = c
    \/ gate = Editing(c) \/ gate = Erasing(c, TRUE)

\* A staged copy shows the other chunks as the disk does.
CopyFits(c) ==
    stage # NoChunk /\ stage.step # "copy" /\ stage.c # c => stage.copy[c] = disk[c]

\* A chunk without races: where its last edit is, whatever is under way.
EditKept(c) ==
    /\ live[c] # NoChunk => live[c].data = edits[c]
    /\ live[c] # NoChunk /\ disk[c] # edits[c] => Covered(c)
    /\ live[c] = NoChunk \/ gate = Erasing(c, TRUE) => Stored(c)
    /\ \A t \in Saves(c) :
          /\ t.data = edits[c] /\ ~Superseded(t)
          /\ live[c] = NoChunk \/ gate = Erasing(c, TRUE)
    /\ CopyFits(c)

SInv == /\ TypeOK /\ Holders /\ Stamped /\ Stopping
        /\ \A c \in Chunks : Unraced(c) => EditKept(c)

-----------------------------------------------------------------------------
(* Shapes.                                                                  *)

LEMMA Absent == /\ NoChunk \notin Loaded /\ NoChunk \notin Stages /\ NoChunk \notin Works
                /\ NoChunk \notin Stores /\ NoChunk \notin OnDisk /\ Waiting \notin OnDisk
                /\ NoChunk \notin Chunks /\ NoChunk \notin Stamps /\ NoChunk # Waiting
BY ChunkStoreAssumption, AbsenceAssumption DEF ChunkStoreAssumption, AbsenceAssumption

LEMMA Bounds == MaxEdits \in Nat /\ MaxFails \in Nat /\ FinalPasses \in Nat \ {0}
BY ChunkStoreAssumption DEF ChunkStoreAssumption

LEMMA ContentStored == Content \subseteq OnDisk /\ 0 \in Content /\ Torn \in OnDisk
BY Bounds DEF Content, OnDisk, Torn

\* A gate is free, or its operation is about a chunk.
LEMMA GateShape ==
  ASSUME NEW g \in Gates
  PROVE  /\ g.op \in {"free", "edit", "cap", "erase"}
         /\ g.op = "free" <=> g = Free
         /\ g # Free => g.c \in Chunks
         /\ g.op = "edit" => g = Editing(g.c)
         /\ g.op = "cap" => g = Saving(g.c)
         /\ g.op = "erase" => g.saved \in BOOLEAN /\ g = Erasing(g.c, g.saved)
<1>1. CASE g = Free
  BY <1>1 DEF Free
<1>2. CASE g \in [op : {"edit", "cap"}, c : Chunks]
  BY <1>2 DEF Free, Editing, Saving
<1>3. CASE g \in [op : {"erase"}, c : Chunks, saved : BOOLEAN]
  BY <1>3 DEF Free, Erasing
<1> QED BY <1>1, <1>2, <1>3 DEF Gates

LEMMA GateKinds ==
  ASSUME NEW c \in Chunks, NEW s \in BOOLEAN
  PROVE  /\ Free \in Gates /\ Editing(c) \in Gates /\ Saving(c) \in Gates
         /\ Erasing(c, s) \in Gates
         /\ Editing(c).op = "edit" /\ Saving(c).op = "cap" /\ Erasing(c, s).op = "erase"
         /\ Editing(c).c = c /\ Saving(c).c = c /\ Erasing(c, s).c = c
         /\ Erasing(c, s).saved = s
         /\ Free.op = "free"
BY DEF Gates, Free, Editing, Saving, Erasing

LEMMA FlushShape ==
  ASSUME NEW f \in Flushes
  PROVE  /\ f.step \in {"idle", "next", "barred", "store"}
         /\ f.step = "idle" <=> f = Idle
         /\ f.batch \subseteq Chunks
         /\ f.step \in {"barred", "store"} => f.c \in Chunks
<1>1. CASE f = Idle
  BY <1>1 DEF Idle
<1>2. CASE f \in [step : {"next"}, batch : SUBSET Chunks]
  BY <1>2 DEF Idle
<1>3. CASE f \in [step : {"barred", "store"}, batch : SUBSET Chunks, c : Chunks]
  BY <1>3 DEF Idle
<1> QED BY <1>1, <1>2, <1>3 DEF Flushes

LEMMA StageShape ==
  ASSUME NEW s \in Stages
  PROVE  /\ s # NoChunk
         /\ s.by \in {"flush", "tick"} /\ s.c \in Chunks /\ s.data \in Content
         /\ s.step \in {"copy", "staged", "ready"} /\ s.copy \in [Chunks -> OnDisk]
BY Absent DEF Stages

LEMMA WorkShape ==
  ASSUME NEW b \in Works
  PROVE  /\ b # NoChunk
         /\ b.task \in SaveTasks \cup LoadTasks
         /\ b.step \in {"taken", "write"}
         /\ b.step = "write" => b.task \in SaveTasks
         /\ b.task.c \in Chunks
         /\ b.task.kind = "save" => b.task \in SaveTasks
BY Absent DEF Works, SaveTasks, LoadTasks

LEMMA TaskShape ==
  ASSUME NEW t \in SaveTasks \cup LoadTasks
  PROVE  /\ t.c \in Chunks /\ t.kind \in {"save", "load"}
         /\ t.kind = "save" <=> t \in SaveTasks
         /\ t.kind = "save" => t.data \in Content /\ t.rev \in Revision /\ t.stamp \in Stamps
BY DEF SaveTasks, LoadTasks

\* What is waiting or running.
LEMMA TasksTyped ==
  ASSUME TypeOK
  PROVE  Tasks \subseteq SaveTasks \cup LoadTasks
<1>1. ToSet(queue) \subseteq SaveTasks \cup LoadTasks
  BY DEF TypeOK, ToSet
<1>2. ASSUME NEW w \in Workers, busy[w] # NoChunk
      PROVE  busy[w].task \in SaveTasks \cup LoadTasks
  BY <1>2, WorkShape DEF TypeOK
<1> QED BY <1>1, <1>2 DEF Tasks

-----------------------------------------------------------------------------
(* Tasks, as the queue and the threads change.                              *)

LEMMA AppendSet ==
  ASSUME NEW S, NEW q \in Seq(S), NEW e \in S
  PROVE  ToSet(Append(q, e)) = ToSet(q) \cup {e}
<1> DEFINE a == Append(q, e)
<1>1. Len(a) = Len(q) + 1 /\ Len(q) \in Nat /\ DOMAIN a = 1..Len(a) /\ DOMAIN q = 1..Len(q)
  BY AppendProperties
<1>2. \A i \in 1..Len(q) : a[i] = q[i]
  BY AppendProperties
<1>3. a[Len(q) + 1] = e
  BY AppendProperties
<1> HIDE DEF a
<1>4. ToSet(a) \subseteq ToSet(q) \cup {e}
  <2> SUFFICES ASSUME NEW i \in 1..Len(a) PROVE a[i] \in ToSet(q) \cup {e}
    BY <1>1 DEF ToSet
  <2>1. i \in 1..Len(q) \/ i = Len(q) + 1
    BY <1>1
  <2> QED BY <2>1, <1>1, <1>2, <1>3 DEF ToSet
<1>5. ToSet(q) \subseteq ToSet(a)
  <2> SUFFICES ASSUME NEW i \in 1..Len(q) PROVE q[i] \in ToSet(a)
    BY <1>1 DEF ToSet
  <2>1. i \in 1..Len(a)
    BY <1>1
  <2> QED BY <2>1, <1>1, <1>2 DEF ToSet
<1>6. e \in ToSet(a)
  <2>1. Len(q) + 1 \in 1..Len(a)
    BY <1>1
  <2> QED BY <2>1, <1>1, <1>3 DEF ToSet
<1>7. ToSet(a) = ToSet(q) \cup {e}
  BY <1>4, <1>5, <1>6
<1> QED BY <1>7 DEF a

LEMMA TailSet ==
  ASSUME NEW S, NEW q \in Seq(S), q # <<>>
  PROVE  /\ Head(q) \in S /\ Tail(q) \in Seq(S)
         /\ ToSet(q) = ToSet(Tail(q)) \cup {Head(q)}
<1> DEFINE r == Tail(q)
<1>1. Len(q) \in Nat /\ Len(q) # 0 /\ DOMAIN q = 1..Len(q)
  BY EmptySeq
<1>2. /\ r \in Seq(S) /\ Len(r) = Len(q) - 1 /\ DOMAIN r = 1..Len(r)
      /\ \A i \in 1..Len(r) : r[i] = q[i + 1]
      /\ Head(q) = q[1] /\ Head(q) \in S
  BY HeadTailProperties, <1>1
<1> HIDE DEF r
<1>3. ToSet(q) \subseteq ToSet(r) \cup {Head(q)}
  <2> SUFFICES ASSUME NEW i \in 1..Len(q) PROVE q[i] \in ToSet(r) \cup {Head(q)}
    BY <1>1 DEF ToSet
  <2>1. CASE i = 1
    BY <2>1, <1>2
  <2>2. CASE i # 1
    <3>1. i - 1 \in 1..Len(r) /\ (i - 1) + 1 = i
      BY <2>2, <1>1, <1>2
    <3>2. r[i - 1] = q[i]
      BY <3>1, <1>2
    <3> QED BY <3>1, <3>2, <1>2 DEF ToSet
  <2> QED BY <2>1, <2>2
<1>4. ToSet(r) \subseteq ToSet(q)
  <2> SUFFICES ASSUME NEW i \in 1..Len(r) PROVE r[i] \in ToSet(q)
    BY <1>2 DEF ToSet
  <2>1. i + 1 \in 1..Len(q)
    BY <1>1, <1>2
  <2> QED BY <2>1, <1>1, <1>2 DEF ToSet
<1>5. Head(q) \in ToSet(q)
  <2>1. 1 \in 1..Len(q)
    BY <1>1
  <2> QED BY <2>1, <1>1, <1>2 DEF ToSet
<1>6. ToSet(q) = ToSet(r) \cup {Head(q)}
  BY <1>3, <1>4, <1>5
<1> QED BY <1>2, <1>6 DEF r

\* A queued task is one more task.
LEMMA TasksAppend ==
  ASSUME TypeOK, NEW t \in SaveTasks \cup LoadTasks,
         queue' = Append(queue, t), busy' = busy
  PROVE  queue' \in Seq(SaveTasks \cup LoadTasks) /\ Tasks' = Tasks \cup {t}
<1>1. queue \in Seq(SaveTasks \cup LoadTasks)
  BY DEF TypeOK
<1>2. ToSet(Append(queue, t)) = ToSet(queue) \cup {t}
  BY <1>1, AppendSet
<1>3. Append(queue, t) \in Seq(SaveTasks \cup LoadTasks)
  BY <1>1, AppendProperties
<1> QED BY <1>2, <1>3 DEF Tasks

\* A thread that ends its task drops that one at most.
LEMMA TasksDrop ==
  ASSUME TypeOK, NEW w \in Workers, busy[w] # NoChunk,
         queue' = queue, busy' = [busy EXCEPT ![w] = NoChunk]
  PROVE  Tasks' \subseteq Tasks /\ Tasks \subseteq Tasks' \cup {busy[w].task}
<1>1. busy \in [Workers -> Works \cup {NoChunk}]
  BY DEF TypeOK
<1>2. \A v \in Workers : busy'[v] = IF v = w THEN NoChunk ELSE busy[v]
  BY <1>1
<1> QED BY <1>2 DEF Tasks

\* A thread that takes a task leaves the tasks as they are.
LEMMA TasksTake ==
  ASSUME TypeOK, NEW w \in Workers, busy[w] = NoChunk, queue # <<>>,
         busy' = [busy EXCEPT ![w] = [task |-> Head(queue), step |-> "taken"]],
         queue' = Tail(queue)
  PROVE  Tasks' = Tasks
<1> DEFINE h == Head(queue)
           b == [task |-> h, step |-> "taken"]
<1>1. busy \in [Workers -> Works \cup {NoChunk}] /\ queue \in Seq(SaveTasks \cup LoadTasks)
  BY DEF TypeOK
<1>2. h \in SaveTasks \cup LoadTasks /\ ToSet(queue) = ToSet(queue') \cup {h}
  BY <1>1, TailSet
<1> HIDE DEF h
<1>3. b \in Works
  BY <1>2 DEF Works
<1>4. b # NoChunk /\ b.task = h
  BY <1>3, Absent
<1>5. busy' = [busy EXCEPT ![w] = b]
  BY DEF h
<1> HIDE DEF b
<1>6. \A v \in Workers : busy'[v] = IF v = w THEN b ELSE busy[v]
  BY <1>1, <1>5
<1>7. {busy'[v].task : v \in {v \in Workers : busy'[v] # NoChunk}} =
        {busy[v].task : v \in {v \in Workers : busy[v] # NoChunk}} \cup {h}
  BY <1>4, <1>6
<1> QED BY <1>2, <1>7 DEF Tasks

\* Nor does one that goes on with its task.
LEMMA TasksGoOn ==
  ASSUME TypeOK, NEW w \in Workers, busy[w] # NoChunk, NEW b \in Works,
         b.task = busy[w].task, queue' = queue, busy' = [busy EXCEPT ![w] = b]
  PROVE  Tasks' = Tasks
<1>1. busy \in [Workers -> Works \cup {NoChunk}] /\ b # NoChunk
  BY Absent DEF TypeOK
<1>2. \A v \in Workers : busy'[v] = IF v = w THEN b ELSE busy[v]
  BY <1>1
<1>3. {busy'[v].task : v \in {v \in Workers : busy'[v] # NoChunk}} =
        {busy[v].task : v \in {v \in Workers : busy[v] # NoChunk}}
  BY <1>1, <1>2
<1> QED BY <1>3 DEF Tasks

-----------------------------------------------------------------------------
(* What every step keeps.                                                   *)

LEMMA SInvParts ==
  ASSUME SInv
  PROVE  TypeOK /\ Holders /\ Stamped /\ Stopping
BY DEF SInv

\* Races are remembered.
LEMMA RacesGrow ==
  ASSUME races \subseteq races', NEW c, Unraced(c)'
  PROVE  Unraced(c)
BY DEF Unraced

LEMMA RaceStep ==
  ASSUME TypeOK, NEW kind \in Kinds, NEW C, C \subseteq Chunks, Race(kind, C)
  PROVE  /\ races \subseteq races' /\ races' \subseteq Kinds \X Chunks
         /\ \A c : Unraced(c)' => Unraced(c) /\ c \notin C
         /\ \A c \in C : <<kind, c>> \in races'
<1>1. races' = races \cup {<<kind, c>> : c \in C}
  BY DEF Race
<1>2. {<<kind, c>> : c \in C} \subseteq Kinds \X Chunks
  OBVIOUS
<1> QED BY <1>1, <1>2 DEF Unraced, TypeOK

\* The saves of a chunk among the tasks there are.
LEMMA SavesOf ==
  ASSUME NEW c, Tasks' = Tasks
  PROVE  Saves(c)' = Saves(c)
BY DEF Saves

LEMMA SameTasks ==
  ASSUME queue' = queue, busy' = busy
  PROVE  Tasks' = Tasks /\ \A c : Saves(c)' = Saves(c)
<1>1. Tasks' = Tasks
  BY DEF Tasks
<1> QED BY <1>1 DEF Saves

\* A chunk to which nothing happened is where it was.
LEMMA KeptStep ==
  ASSUME NEW c, EditKept(c),
         edits'[c] = edits[c], live'[c] = live[c], disk'[c] = disk[c],
         Saves(c)' = Saves(c),
         \A t \in Saves(c) : Superseded(t)' => Superseded(t),
         Covered(c) => Covered(c)' \/ disk[c] = edits[c] \/ live[c] = NoChunk,
         (gate' = Erasing(c, TRUE)) <=> (gate = Erasing(c, TRUE)),
         CopyFits(c)'
  PROVE  EditKept(c)'
<1> DEFINE E(g) == g = Erasing(c, TRUE)
<1>1. E(gate') <=> E(gate)
  BY DEF E
<1>2. Erasing(c, TRUE)' = Erasing(c, TRUE)
  BY DEF Erasing
<1>3. Stored(c)' <=> Stored(c)
  BY DEF Stored
<1> QED BY <1>2, <1>3 DEF EditKept

-----------------------------------------------------------------------------
(* The threads of the pool.                                                 *)

\* They work only while the pool is up.
LEMMA PoolIsUp ==
  ASSUME SInv, NEW w \in Workers, busy[w] # NoChunk \/ queue # <<>>
  PROVE  phase \in {"running", "draining"}
BY DEF SInv, Stopping, TypeOK

LEMMA PoolStopping ==
  ASSUME SInv, phase \in {"running", "draining"}, phase' = phase, passes' = passes,
         gate' = gate
  PROVE  Stopping'
BY DEF SInv, Stopping

LEMMA TakeTaskStep ==
  ASSUME SInv, NEW w \in Workers, TakeTask(w)
  PROVE  SInv'
<1> USE DEF worldVars, poolVars, stampVars, stopVars
<1>u. UNCHANGED <<edits, live, dirty, gate, flush, stage, disk, pending, latest, stampRev,
                  storing, phase, passes, fails, races>>
  BY DEF TakeTask
<1>t. TypeOK /\ Holders /\ Stamped /\ Stopping
  BY SInvParts
<1> DEFINE b == [task |-> Head(queue), step |-> "taken"]
<1>1. /\ busy[w] = NoChunk /\ queue # <<>> /\ queue' = Tail(queue)
      /\ busy' = [busy EXCEPT ![w] = b]
  BY DEF TakeTask
<1>2. Tasks' = Tasks
  BY <1>1, <1>t, TasksTake
<1>3. queue \in Seq(SaveTasks \cup LoadTasks) /\ busy \in [Workers -> Works \cup {NoChunk}]
  BY <1>t DEF TypeOK
<1>4. Head(queue) \in SaveTasks \cup LoadTasks /\ queue' \in Seq(SaveTasks \cup LoadTasks)
  BY <1>1, <1>3, TailSet
<1>5. b \in Works
  BY <1>4 DEF Works
<1> HIDE DEF b
<1>6. busy' \in [Workers -> Works \cup {NoChunk}]
  BY <1>1, <1>3, <1>5
<1>7. TypeOK'
  BY <1>t, <1>u, <1>4, <1>6 DEF TypeOK
<1>8. Holders'
  <2>1. storing # NoChunk => storing.w # w /\ busy'[storing.w] = busy[storing.w]
    BY <1>t, <1>1, <1>3 DEF Holders
  <2> QED BY <2>1, <1>t, <1>u DEF Holders
<1>9. Stamped'
  BY <1>t, <1>u, <1>2 DEF Stamped
<1>10. Stopping'
  BY <1>u, <1>1, PoolIsUp, PoolStopping
<1>11. ASSUME NEW c \in Chunks, Unraced(c)'
       PROVE  EditKept(c)'
  <2>1. EditKept(c)
    BY <1>11, <1>u DEF SInv, Unraced
  <2>2. Covered(c)' <=> Covered(c)
    BY <1>u DEF Covered, InFlush, Editing, Erasing
  <2>3. CopyFits(c)'
    BY <2>1, <1>u DEF EditKept, CopyFits
  <2>4. Saves(c)' = Saves(c)
    BY <1>2, SavesOf
  <2> QED BY <2>1, <2>2, <2>3, <2>4, <1>u, KeptStep DEF Superseded
<1> QED BY <1>7, <1>8, <1>9, <1>10, <1>11 DEF SInv

\* A thread's task, and what ending it leaves of the tasks and of the stores.
LEMMA TaskEnds ==
  ASSUME SInv, NEW w \in Workers, busy[w] # NoChunk,
         queue' = queue, busy' = [busy EXCEPT ![w] = NoChunk]
  PROVE  /\ busy[w] \in Works /\ busy[w].task \in SaveTasks \cup LoadTasks
         /\ busy[w].task \in Tasks /\ busy[w].task.c \in Chunks
         /\ busy' \in [Workers -> Works \cup {NoChunk}]
         /\ \A v \in Workers : v # w => busy'[v] = busy[v]
         /\ Tasks' \subseteq Tasks
         /\ \A c : busy[w].task.c # c => Saves(c)' = Saves(c)
         /\ \A c : Saves(c)' \subseteq Saves(c)
         /\ \A c, t : t \in Saves(c) => t \in Saves(c)' \/ t = busy[w].task
<1>1. TypeOK /\ busy \in [Workers -> Works \cup {NoChunk}]
  BY SInvParts DEF TypeOK
<1>2. busy[w] \in Works
  BY <1>1
<1>3. Tasks' \subseteq Tasks /\ Tasks \subseteq Tasks' \cup {busy[w].task}
  BY <1>1, TasksDrop
<1>4. busy[w].task \in Tasks
  BY DEF Tasks
<1>5. busy[w].task \in SaveTasks \cup LoadTasks /\ busy[w].task.c \in Chunks
  BY <1>2, WorkShape
<1>6. busy' \in [Workers -> Works \cup {NoChunk}] /\ \A v \in Workers : v # w => busy'[v] = busy[v]
  BY <1>1
<1>7. \A c : busy[w].task.c # c => Saves(c)' = Saves(c)
  BY <1>3 DEF Saves
<1>8. \A c : Saves(c)' \subseteq Saves(c)
  BY <1>3 DEF Saves
<1>9. \A c, t : t \in Saves(c) => t \in Saves(c)' \/ t = busy[w].task
  BY <1>3 DEF Saves
<1> QED BY <1>2, <1>3, <1>4, <1>5, <1>6, <1>7, <1>8, <1>9

LEMMA LoadChunkStep ==
  ASSUME SInv, NEW w \in Workers, LoadChunk(w)
  PROVE  SInv'
<1> DEFINE k == busy[w].task.c
<1>u. UNCHANGED <<edits, live, dirty, gate, flush, stage, disk, queue, latest, stampRev,
                  storing, phase, passes, fails>>
  BY DEF LoadChunk, worldVars, stampVars, stopVars
<1>t. TypeOK /\ Holders /\ Stamped /\ Stopping
  BY SInvParts
<1>1. /\ busy[w] # NoChunk /\ busy[w].task.kind = "load" /\ storing = NoChunk
      /\ pending' = [pending EXCEPT ![k] = disk[k]]
      /\ Race("reload", IF Saves(k) # {} THEN {k} ELSE {})
      /\ busy' = [busy EXCEPT ![w] = NoChunk]
  BY DEF LoadChunk
<1>2. /\ busy[w] \in Works /\ k \in Chunks /\ Tasks' \subseteq Tasks
      /\ busy' \in [Workers -> Works \cup {NoChunk}]
      /\ \A v \in Workers : v # w => busy'[v] = busy[v]
      /\ \A c : Saves(c)' \subseteq Saves(c)
      /\ \A c, t : t \in Saves(c) => t \in Saves(c)' \/ t = busy[w].task
  BY <1>1, <1>u, TaskEnds
<1>3. \A c : Saves(c)' = Saves(c)
  BY <1>1, <1>2 DEF Saves
<1>4. /\ races \subseteq races' /\ races' \subseteq Kinds \X Chunks
      /\ \A c : Unraced(c)' => Unraced(c)
  <2>1. (IF Saves(k) # {} THEN {k} ELSE {}) \subseteq Chunks /\ "reload" \in Kinds
    BY <1>2 DEF Kinds
  <2> QED BY <2>1, <1>1, <1>t, RaceStep
<1>5. TypeOK'
  <2>1. pending' \in [Chunks -> OnDisk \cup {NoChunk, Waiting}]
    BY <1>t, <1>1, <1>2 DEF TypeOK
  <2> QED BY <2>1, <1>t, <1>u, <1>2, <1>4 DEF TypeOK
<1>6. Holders'
  BY <1>t, <1>u, <1>1 DEF Holders
<1>7. Stamped'
  BY <1>t, <1>u, <1>2 DEF Stamped
<1>8. Stopping'
  BY <1>u, <1>1, PoolIsUp, PoolStopping
<1>9. ASSUME NEW c \in Chunks, Unraced(c)'
      PROVE  EditKept(c)'
  <2>1. EditKept(c)
    BY <1>9, <1>4 DEF SInv
  <2>2. Covered(c)' <=> Covered(c)
    BY <1>u DEF Covered, InFlush, Editing, Erasing
  <2>3. CopyFits(c)'
    BY <2>1, <1>u DEF EditKept, CopyFits
  <2> QED BY <2>1, <2>2, <2>3, <1>3, <1>u, KeptStep DEF Superseded
<1> QED BY <1>5, <1>6, <1>7, <1>8, <1>9 DEF SInv

LEMMA CheckStampStep ==
  ASSUME SInv, NEW w \in Workers, CheckStamp(w)
  PROVE  SInv'
<1> DEFINE t == busy[w].task
           b == [busy[w] EXCEPT !.step = "write"]
<1>u. UNCHANGED <<edits, live, dirty, gate, flush, stage, disk, queue, pending, latest,
                  stampRev, storing, phase, passes, fails, races>>
  BY DEF CheckStamp, worldVars, stampVars, stopVars
<1>t. TypeOK /\ Holders /\ Stamped /\ Stopping /\ busy \in [Workers -> Works \cup {NoChunk}]
  BY SInvParts DEF TypeOK
<1>1. /\ busy[w] # NoChunk /\ busy[w].step = "taken" /\ t.kind = "save"
      /\ busy' = [busy EXCEPT ![w] = IF Superseded(t) THEN NoChunk ELSE b]
  BY DEF CheckStamp
<1>2. storing # NoChunk => storing.w # w
  BY <1>1, <1>t DEF Holders
<1>3. Stopping'
  BY <1>u, <1>1, PoolIsUp, PoolStopping
<1>4. CASE Superseded(t)
  <2>1. busy' = [busy EXCEPT ![w] = NoChunk]
    BY <1>1, <1>4
  <2>2. /\ t \in Tasks /\ t.c \in Chunks /\ Tasks' \subseteq Tasks
        /\ busy' \in [Workers -> Works \cup {NoChunk}]
        /\ \A v \in Workers : v # w => busy'[v] = busy[v]
        /\ \A c : t.c # c => Saves(c)' = Saves(c)
    BY <1>1, <1>u, <2>1, TaskEnds
  <2>3. TypeOK'
    BY <1>t, <1>u, <2>2 DEF TypeOK
  <2>4. Holders'
    BY <1>t, <1>u, <1>2, <2>2 DEF Holders, TypeOK, Stores
  <2>5. Stamped'
    BY <1>t, <1>u, <2>2 DEF Stamped
  <2>6. ASSUME NEW c \in Chunks, Unraced(c)'
        PROVE  EditKept(c)'
    <3>1. EditKept(c)
      BY <2>6, <1>u DEF SInv, Unraced
    <3>2. Covered(c)' <=> Covered(c)
      BY <1>u DEF Covered, InFlush, Editing, Erasing
    <3>3. CopyFits(c)'
      BY <3>1, <1>u DEF EditKept, CopyFits
    <3>4. t.c # c
      BY <3>1, <2>2, <1>1, <1>4 DEF EditKept, Saves
    <3> QED BY <3>1, <3>2, <3>3, <3>4, <2>2, <1>u, KeptStep DEF Superseded
  <2> QED BY <2>3, <2>4, <2>5, <2>6, <1>3 DEF SInv
<1>5. CASE ~Superseded(t)
  <2>1. busy' = [busy EXCEPT ![w] = b]
    BY <1>1, <1>5
  <2>2. t \in SaveTasks /\ b = [task |-> t, step |-> "write"]
    <3>1. busy[w] \in Works /\ t \in SaveTasks
      BY <1>1, <1>t, WorkShape
    <3> QED BY <3>1 DEF Works
  <2>3. b \in Works /\ b.task = t /\ b # NoChunk
    BY <2>2, Absent DEF Works
  <2> HIDE DEF b
  <2>4. busy' \in [Workers -> Works \cup {NoChunk}] /\ \A v \in Workers : v # w => busy'[v] = busy[v]
    BY <1>t, <2>1, <2>3
  <2>5. Tasks' = Tasks
    BY <1>t, <1>u, <1>1, <2>1, <2>3, TasksGoOn
  <2>6. TypeOK'
    BY <1>t, <1>u, <2>4 DEF TypeOK
  <2>7. Holders'
    BY <1>t, <1>u, <1>2, <2>4 DEF Holders, TypeOK, Stores
  <2>8. Stamped'
    BY <1>t, <1>u, <2>5 DEF Stamped
  <2>9. ASSUME NEW c \in Chunks, Unraced(c)'
        PROVE  EditKept(c)'
    <3>1. EditKept(c)
      BY <2>9, <1>u DEF SInv, Unraced
    <3>2. Covered(c)' <=> Covered(c)
      BY <1>u DEF Covered, InFlush, Editing, Erasing
    <3>3. CopyFits(c)'
      BY <3>1, <1>u DEF EditKept, CopyFits
    <3>4. Saves(c)' = Saves(c)
      BY <2>5, SavesOf
    <3> QED BY <3>1, <3>2, <3>3, <3>4, <1>u, KeptStep DEF Superseded
  <2> QED BY <2>6, <2>7, <2>8, <2>9, <1>3 DEF SInv
<1> QED BY <1>4, <1>5

LEMMA StoreBeginsStep ==
  ASSUME SInv, NEW w \in Workers, StoreBegins(w)
  PROVE  SInv'
<1>u. UNCHANGED <<edits, live, dirty, gate, flush, stage, disk, queue, busy, pending, latest,
                  stampRev, phase, passes, fails, races>>
  BY DEF StoreBegins, worldVars, stampVars, stopVars
<1>t. TypeOK /\ Holders /\ Stamped /\ Stopping
  BY SInvParts
<1>1. busy[w] # NoChunk /\ busy[w].step = "write" /\ storing' = [w |-> w, orphan |-> FALSE]
  BY DEF StoreBegins
<1>2. storing' \in Stores
  BY <1>1 DEF Stores
<1>3. TypeOK'
  BY <1>t, <1>u, <1>2 DEF TypeOK
<1>4. Holders'
  BY <1>t, <1>u, <1>1 DEF Holders
<1>5. Tasks' = Tasks
  BY <1>u DEF Tasks
<1>6. Stamped'
  BY <1>t, <1>u, <1>5 DEF Stamped
<1>7. Stopping'
  BY <1>u, <1>1, PoolIsUp, PoolStopping
<1>8. ASSUME NEW c \in Chunks, Unraced(c)'
      PROVE  EditKept(c)'
  <2>1. EditKept(c)
    BY <1>8, <1>u DEF SInv, Unraced
  <2>2. Covered(c)' <=> Covered(c)
    BY <1>u DEF Covered, InFlush, Editing, Erasing
  <2>3. CopyFits(c)'
    BY <2>1, <1>u DEF EditKept, CopyFits
  <2>4. Saves(c)' = Saves(c)
    BY <1>5, SavesOf
  <2> QED BY <2>1, <2>2, <2>3, <2>4, <1>u, KeptStep DEF Superseded
<1> QED BY <1>3, <1>4, <1>6, <1>7, <1>8 DEF SInv

LEMMA StoreEndsStep ==
  ASSUME SInv, NEW w \in Workers, StoreEnds(w)
  PROVE  SInv'
<1> DEFINE t == busy[w].task
<1>u. UNCHANGED <<edits, live, dirty, gate, flush, stage, queue, pending, stampRev, phase,
                  passes, fails>>
  BY DEF StoreEnds, worldVars, stopVars
<1>t. TypeOK /\ Holders /\ Stamped /\ Stopping
  BY SInvParts
<1>1. /\ storing # NoChunk /\ storing.w = w
      /\ disk' = IF storing.orphan THEN disk ELSE [disk EXCEPT ![t.c] = t.data]
      /\ latest' = ReleaseStamp(t)
      /\ Race("overlap", IF Outdated THEN {t.c} ELSE {})
      /\ storing' = NoChunk /\ busy' = [busy EXCEPT ![w] = NoChunk]
  BY DEF StoreEnds
<1>2. busy[w] # NoChunk /\ busy[w].step = "write" /\ (storing.orphan => <<"overlap", t.c>> \in races)
  BY <1>1, <1>t DEF Holders
<1>3. /\ t \in Tasks /\ t.c \in Chunks /\ Tasks' \subseteq Tasks /\ busy[w] \in Works
      /\ busy' \in [Workers -> Works \cup {NoChunk}]
      /\ \A c : t.c # c => Saves(c)' = Saves(c)
      /\ \A c : Saves(c)' \subseteq Saves(c)
  BY <1>1, <1>2, <1>u, TaskEnds
<1>4. t \in SaveTasks /\ t.kind = "save" /\ t.data \in Content /\ t.data \in OnDisk
  BY <1>2, <1>3, WorkShape, TaskShape, ContentStored
<1>5. /\ races \subseteq races' /\ races' \subseteq Kinds \X Chunks
      /\ \A c : Unraced(c)' => Unraced(c) /\ c \notin IF Outdated THEN {t.c} ELSE {}
  <2>1. (IF Outdated THEN {t.c} ELSE {}) \subseteq Chunks /\ "overlap" \in Kinds
    BY <1>3 DEF Kinds
  <2> QED BY <2>1, <1>1, <1>t, RaceStep
<1>6. /\ disk \in [Chunks -> OnDisk] /\ disk' \in [Chunks -> OnDisk]
      /\ \A c \in Chunks : c # t.c => disk'[c] = disk[c]
      /\ ~storing.orphan => disk'[t.c] = t.data
  BY <1>t, <1>1, <1>3, <1>4 DEF TypeOK
<1>7. /\ latest' \in [Chunks -> Stamps \cup {NoChunk}]
      /\ \A c \in Chunks : latest'[c] = latest[c] \/ latest'[c] = NoChunk
  BY <1>t, <1>1, <1>3 DEF TypeOK, ReleaseStamp
<1> HIDE DEF t
<1>8. TypeOK'
  BY <1>t, <1>u, <1>1, <1>3, <1>5, <1>6, <1>7 DEF TypeOK
<1>9. Holders'
  BY <1>t, <1>u, <1>1 DEF Holders
<1>10. Stamped'
  <2>1. ASSUME NEW c \in Chunks, NEW d \in Chunks, latest'[c] = latest'[d], latest'[c] # NoChunk
        PROVE  c = d
    BY <2>1, <1>7, <1>t DEF Stamped
  <2>2. ASSUME NEW s \in Tasks', NEW d \in Chunks, s.kind = "save", latest'[d] = s.stamp
        PROVE  s.c = d
    <3>1. s \in Tasks /\ s.stamp \in Stamps
      BY <2>2, <1>3, <1>t, TasksTyped, TaskShape
    <3>2. latest[d] = s.stamp
      BY <3>1, <2>2, <1>7, Absent
    <3> QED BY <3>1, <3>2, <2>2, <1>t DEF Stamped
  <2> QED BY <2>1, <2>2 DEF Stamped
<1>11. Stopping'
  BY <1>u, <1>2, PoolIsUp, PoolStopping
<1>12. ASSUME NEW c \in Chunks, Unraced(c)'
       PROVE  EditKept(c)'
  <2>1. EditKept(c) /\ Unraced(c)
    BY <1>12, <1>5 DEF SInv
  <2>2. Covered(c)' <=> Covered(c)
    BY <1>u DEF Covered, InFlush, Editing, Erasing
  <2>3. CASE c # t.c
    <3>1. CopyFits(c)'
      BY <2>1, <2>3, <1>u, <1>6 DEF EditKept, CopyFits
    <3> QED BY <2>1, <2>2, <2>3, <3>1, <1>3, <1>6, <1>u, KeptStep DEF Superseded
  <2>4. CASE c = t.c
    <3>1. t \in Saves(c)
      BY <2>4, <1>3, <1>4 DEF Saves
    <3>2. t.data = edits[c] /\ (live[c] = NoChunk \/ gate = Erasing(c, TRUE))
      BY <3>1, <2>1 DEF EditKept
    <3>3. ~storing.orphan
      BY <2>1, <2>4, <1>2 DEF Unraced, Kinds, t
    <3>4. disk'[c] = edits'[c]
      BY <3>2, <3>3, <2>4, <1>6, <1>u
    <3>5. CopyFits(c)'
      <4>1. ~Outdated
        BY <1>5, <1>12, <2>4
      <4> QED BY <4>1, <1>u DEF CopyFits, Outdated
    <3>6. \A s \in Saves(c)' : s.data = edits[c] /\ ~Superseded(s)
      BY <1>3, <2>1 DEF EditKept
    <3>7. \A s : Superseded(s)' <=> Superseded(s)
      BY <1>u DEF Superseded
    <3>8. Stored(c)'
      BY <3>4 DEF Stored
    <3>9. Erasing(c, TRUE)' = Erasing(c, TRUE)
      BY DEF Erasing
    <3> QED BY <3>2, <3>4, <3>5, <3>6, <3>7, <3>8, <3>9, <2>1, <1>u DEF EditKept
  <2> QED BY <2>3, <2>4
<1> QED BY <1>8, <1>9, <1>10, <1>11, <1>12 DEF SInv

LEMMA StoreFailsStep ==
  ASSUME SInv, NEW w \in Workers, StoreFails(w)
  PROVE  SInv'
<1> DEFINE k == busy[w].task.c
<1>u. UNCHANGED <<edits, live, dirty, gate, flush, stage, queue, pending, latest, stampRev,
                  phase, passes>>
  BY DEF StoreFails, worldVars, stampVars, stopVars
<1>t. TypeOK /\ Holders /\ Stamped /\ Stopping
  BY SInvParts
<1>1. /\ storing # NoChunk /\ storing.w = w /\ fails < MaxFails /\ fails' = fails + 1
      /\ disk' = disk \/ disk' = [disk EXCEPT ![k] = Torn]
      /\ Race("failed", {k})
      /\ storing' = NoChunk /\ busy' = [busy EXCEPT ![w] = NoChunk]
  BY DEF StoreFails
<1>2. busy[w] # NoChunk
  BY <1>1, <1>t DEF Holders
<1>3. /\ k \in Chunks /\ Tasks' \subseteq Tasks
      /\ busy' \in [Workers -> Works \cup {NoChunk}]
      /\ \A c : k # c => Saves(c)' = Saves(c)
  BY <1>1, <1>2, <1>u, TaskEnds
<1>4. /\ races \subseteq races' /\ races' \subseteq Kinds \X Chunks
      /\ \A c : Unraced(c)' => Unraced(c) /\ c # k
  <2>1. {k} \subseteq Chunks /\ "failed" \in Kinds
    BY <1>3 DEF Kinds
  <2> QED BY <2>1, <1>1, <1>t, RaceStep
<1>5. /\ disk' \in [Chunks -> OnDisk]
      /\ \A c \in Chunks : c # k => disk'[c] = disk[c]
  BY <1>t, <1>1, <1>3, ContentStored DEF TypeOK
<1>6. fails' \in 0..MaxFails
  BY <1>1, <1>t, Bounds DEF TypeOK
<1> HIDE DEF k
<1>7. TypeOK'
  BY <1>t, <1>u, <1>1, <1>3, <1>4, <1>5, <1>6 DEF TypeOK
<1>8. Holders'
  BY <1>t, <1>u, <1>1 DEF Holders
<1>9. Stamped'
  BY <1>t, <1>u, <1>3 DEF Stamped
<1>10. Stopping'
  BY <1>u, <1>2, PoolIsUp, PoolStopping
<1>11. ASSUME NEW c \in Chunks, Unraced(c)'
       PROVE  EditKept(c)'
  <2>1. EditKept(c) /\ c # k
    BY <1>11, <1>4 DEF SInv
  <2>2. Covered(c)' <=> Covered(c)
    BY <1>u DEF Covered, InFlush, Editing, Erasing
  <2>3. CopyFits(c)'
    BY <2>1, <1>u, <1>5 DEF EditKept, CopyFits
  <2> QED BY <2>1, <2>2, <2>3, <1>3, <1>5, <1>u, KeptStep DEF Superseded
<1> QED BY <1>7, <1>8, <1>9, <1>10, <1>11 DEF SInv

-----------------------------------------------------------------------------
(* The flush.                                                               *)

LEMMA SwapDirtyStep ==
  ASSUME SInv, SwapDirty
  PROVE  SInv'
<1>u. UNCHANGED <<edits, live, gate, stage, disk, queue, busy, pending, latest, stampRev,
                  storing, phase, fails, races>>
  BY DEF SwapDirty, poolVars, stampVars
<1>t. TypeOK /\ Holders /\ Stamped /\ Stopping
  BY SInvParts
<1>1. /\ flush = Idle /\ dirty # {}
      /\ \/ phase \in {"running", "draining"} /\ passes' = passes
         \/ phase = "persist" /\ passes < FinalPasses /\ passes' = passes + 1
      /\ flush' = [step |-> "next", batch |-> dirty]
      /\ dirty' = {}
  BY DEF SwapDirty
<1>2. flush' \in Flushes /\ dirty' \subseteq Chunks
  BY <1>1, <1>t DEF TypeOK, Flushes
<1>3. passes' \in 0..FinalPasses
  BY <1>1, <1>t, Bounds DEF TypeOK
<1>4. TypeOK'
  BY <1>t, <1>u, <1>2, <1>3 DEF TypeOK
<1>5. Holders'
  BY <1>t, <1>u, <1>1 DEF Holders, Idle
<1>6. Tasks' = Tasks /\ \A c : Saves(c)' = Saves(c)
  BY <1>u, SameTasks
<1>7. Stamped'
  BY <1>t, <1>u, <1>6 DEF Stamped
<1>8. Stopping'
  <2>1. passes \in Int /\ fails \in Int
    BY <1>t, Bounds DEF TypeOK
  <2> QED BY <2>1, <1>t, <1>u, <1>1 DEF Stopping
<1>9. ASSUME NEW c \in Chunks, Unraced(c)'
      PROVE  EditKept(c)'
  <2>1. EditKept(c)
    BY <1>9, <1>u DEF SInv, Unraced
  <2>2. InFlush = {} /\ InFlush' = dirty
    BY <1>1 DEF InFlush, Idle
  <2>3. Covered(c)' <=> Covered(c)
    BY <2>2, <1>u, <1>1 DEF Covered, Editing, Erasing
  <2>4. CopyFits(c)'
    BY <2>1, <1>u DEF EditKept, CopyFits
  <2> QED BY <2>1, <2>3, <2>4, <1>6, <1>u, KeptStep DEF Superseded
<1> QED BY <1>4, <1>5, <1>7, <1>8, <1>9 DEF SInv

\* The flush moves on to or past a chunk.
LEMMA FlushMoves ==
  ASSUME SInv, flush.step \in {"next", "barred"}, flush' \in Flushes, flush'.step # "store",
         UNCHANGED <<worldVars, stage, disk, poolVars, pending, stampVars, stopVars, fails,
                     races>>,
         \A c \in Chunks : c \in InFlush => c \in InFlush' \/ live[c] = NoChunk
  PROVE  SInv'
<1>u. UNCHANGED <<edits, live, dirty, gate, stage, disk, queue, busy, pending, latest,
                  stampRev, storing, phase, passes, fails, races>>
  BY DEF worldVars, poolVars, stampVars, stopVars
<1>t. TypeOK /\ Holders /\ Stamped /\ Stopping
  BY SInvParts
<1>1. TypeOK'
  BY <1>t, <1>u DEF TypeOK
<1>2. Holders'
  BY <1>t, <1>u DEF Holders
<1>3. Tasks' = Tasks /\ \A c : Saves(c)' = Saves(c)
  BY <1>u, SameTasks
<1>4. Stamped'
  BY <1>t, <1>u, <1>3 DEF Stamped
<1>5. Stopping'
  <2>1. phase # "stopped"
    BY <1>t DEF Stopping, Idle
  <2> QED BY <2>1, <1>t, <1>u DEF Stopping
<1>6. ASSUME NEW c \in Chunks, Unraced(c)'
      PROVE  EditKept(c)'
  <2>1. EditKept(c)
    BY <1>6, <1>u DEF SInv, Unraced
  <2>2. Covered(c) => Covered(c)' \/ live[c] = NoChunk
    BY <1>u DEF Covered, Editing, Erasing
  <2>3. CopyFits(c)'
    BY <2>1, <1>u DEF EditKept, CopyFits
  <2> QED BY <2>1, <2>2, <2>3, <1>3, <1>u, KeptStep DEF Superseded
<1> QED BY <1>1, <1>2, <1>4, <1>5, <1>6 DEF SInv

LEMMA SaveBarrierStep ==
  ASSUME SInv, NEW c \in Chunks, SaveBarrier(c)
  PROVE  SInv'
<1>1. /\ flush.step = "next" /\ c \in flush.batch
      /\ flush' = [step |-> "barred", batch |-> flush.batch \ {c}, c |-> c]
      /\ UNCHANGED <<worldVars, stage, disk, poolVars, pending, stampVars, stopVars, fails,
                     races>>
  BY DEF SaveBarrier
<1>2. flush.batch \subseteq Chunks
  BY SInvParts, FlushShape DEF TypeOK
<1>3. flush' \in Flushes
  BY <1>1, <1>2 DEF Flushes
<1>4. InFlush' = InFlush
  BY <1>1 DEF InFlush
<1> QED BY <1>1, <1>3, <1>4, FlushMoves

LEMMA ResumeShape ==
  ASSUME TypeOK
  PROVE  /\ Resume \in Flushes /\ Resume.step \in {"idle", "next"}
         /\ Resume.batch = flush.batch
<1>1. flush.batch \subseteq Chunks
  BY FlushShape DEF TypeOK
<1> QED BY <1>1 DEF Resume, Flushes, Idle

LEMMA FlushMissingStep ==
  ASSUME SInv, FlushMissing
  PROVE  SInv'
<1>1. /\ flush.step = "barred" /\ live[flush.c] = NoChunk /\ flush' = Resume
      /\ UNCHANGED <<worldVars, stage, disk, poolVars, pending, stampVars, stopVars, fails,
                     races>>
  BY DEF FlushMissing
<1>2. Resume \in Flushes /\ Resume.step \in {"idle", "next"} /\ Resume.batch = flush.batch
  BY SInvParts, ResumeShape
<1>3. \A c \in Chunks : c \in InFlush => c \in InFlush' \/ live[c] = NoChunk
  BY <1>1, <1>2 DEF InFlush
<1>4. flush' \in Flushes /\ flush'.step # "store"
  BY <1>1, <1>2
<1> QED BY <1>1, <1>3, <1>4, FlushMoves

LEMMA FlushFoundStep ==
  ASSUME SInv, FlushFound
  PROVE  SInv'
<1> DEFINE k == flush.c
           s == [by |-> "flush", c |-> k, data |-> live[k].data, step |-> "copy",
                 copy |-> disk]
<1>u. UNCHANGED <<edits, live, dirty, gate, disk, queue, busy, pending, latest, stampRev,
                  storing, phase, passes, fails, races>>
  BY DEF FlushFound, worldVars, poolVars, stampVars, stopVars
<1>t. TypeOK /\ Holders /\ Stamped /\ Stopping
  BY SInvParts
<1>1. /\ flush.step = "barred" /\ live[k] # NoChunk /\ stage = NoChunk
      /\ stage' = s /\ flush' = [flush EXCEPT !.step = "store"]
  BY DEF FlushFound
<1>2. flush \in Flushes /\ k \in Chunks
  BY <1>1, <1>t, FlushShape DEF TypeOK
<1>3. /\ flush \in [step : {"barred", "store"}, batch : SUBSET Chunks, c : Chunks]
      /\ flush' = [step |-> "store", batch |-> flush.batch, c |-> k]
  BY <1>1, <1>2 DEF Flushes, Idle
<1>4. flush' \in Flushes
  BY <1>3 DEF Flushes
<1>5. live[k].data \in Content /\ disk \in [Chunks -> OnDisk]
  BY <1>1, <1>2, <1>t DEF TypeOK, Loaded
<1>6. s \in Stages
  BY <1>2, <1>5 DEF Stages
<1>7. s # NoChunk /\ s.by = "flush" /\ s.c = k /\ s.data = live[k].data /\ s.step = "copy"
  BY <1>6, StageShape
<1> HIDE DEF s
<1>8. TypeOK'
  BY <1>t, <1>u, <1>1, <1>4, <1>6 DEF TypeOK
<1>9. Holders'
  BY <1>t, <1>u, <1>1, <1>3, <1>7 DEF Holders
<1>10. Tasks' = Tasks /\ \A c : Saves(c)' = Saves(c)
  BY <1>u, SameTasks
<1>11. Stamped'
  BY <1>t, <1>u, <1>10 DEF Stamped
<1>12. Stopping'
  <2>1. phase # "stopped"
    BY <1>t, <1>1 DEF Stopping, Idle
  <2> QED BY <2>1, <1>t, <1>u DEF Stopping
<1>13. ASSUME NEW c \in Chunks, Unraced(c)'
      PROVE  EditKept(c)'
  <2>1. EditKept(c)
    BY <1>13, <1>u DEF SInv, Unraced
  <2>2. Covered(c) => Covered(c)'
    <3>1. InFlush \subseteq InFlush' \cup {k}
      BY <1>1, <1>3 DEF InFlush
    <3>2. c = k => stage' # NoChunk /\ stage'.c = c
      BY <1>1, <1>7
    <3> QED BY <3>1, <3>2, <1>1, <1>u DEF Covered, Editing, Erasing
  <2>3. CopyFits(c)'
    BY <1>1, <1>7 DEF CopyFits
  <2> QED BY <2>1, <2>2, <2>3, <1>10, <1>u, KeptStep DEF Superseded
<1> QED BY <1>8, <1>9, <1>11, <1>12, <1>13 DEF SInv

-----------------------------------------------------------------------------
(* The staged copy.                                                         *)

\* While a copy is staged, the server has not stopped, and the tick makes
\* one only while it runs.
LEMMA StageWhileUp ==
  ASSUME SInv, stage # NoChunk
  PROVE  /\ stage \in Stages /\ stage.c \in Chunks
         /\ stage.by \in {"flush", "tick"}
         /\ stage.by = "flush" => flush.step = "store"
         /\ stage.by = "tick" => gate = Saving(stage.c) /\ phase = "running" /\ flush.step # "store"
         /\ phase # "stopped"
<1>1. TypeOK /\ Holders /\ Stopping
  BY SInvParts
<1>2. stage \in Stages
  BY <1>1 DEF TypeOK
<1>3. stage.c \in Chunks /\ stage.by \in {"flush", "tick"}
  BY <1>2, StageShape
<1>4. stage.by = "tick" => gate = Saving(stage.c) /\ gate # Free /\ flush.step # "store"
  <2>1. Saving(stage.c) # Free
    BY DEF Saving, Free
  <2> QED BY <2>1, <1>1 DEF Holders
<1>5. stage.by = "flush" => flush.step = "store" /\ flush # Idle
  BY <1>1 DEF Holders, Idle
<1> QED BY <1>1, <1>2, <1>3, <1>4, <1>5 DEF Stopping, TypeOK

LEMMA StageCopyStep ==
  ASSUME SInv, StageCopy
  PROVE  SInv'
<1>u. UNCHANGED <<edits, live, dirty, gate, flush, disk, queue, busy, pending, latest,
                  stampRev, storing, phase, passes, fails>>
  BY DEF StageCopy, worldVars, poolVars, stampVars, stopVars
<1>t. TypeOK /\ Holders /\ Stamped /\ Stopping
  BY SInvParts
<1>1. stage # NoChunk /\ stage.step = "copy"
  BY DEF StageCopy
<1>2. stage \in Stages /\ disk \in [Chunks -> OnDisk]
  BY <1>1, <1>t DEF TypeOK
<1>3. PICK f \in [Chunks -> OnDisk] :
        /\ stage' = [stage EXCEPT !.step = "staged", !.copy = f]
        /\ races \subseteq races' /\ races' \subseteq Kinds \X Chunks
        /\ \A c \in Chunks : Unraced(c)' => Unraced(c) /\ f[c] = disk[c]
  <2>1. CASE storing = NoChunk
    <3>1. stage' = [stage EXCEPT !.step = "staged", !.copy = disk] /\ races' = races
      BY <2>1 DEF StageCopy, RegionCopy
    <3> QED BY <3>1, <1>2, <1>t DEF Unraced, TypeOK
  <2>2. CASE storing # NoChunk
    <3> DEFINE t == busy[storing.w].task
    <3>1. /\ \E seen \in {disk[t.c], Torn, t.data} :
               stage' = [stage EXCEPT !.step = "staged", !.copy = [disk EXCEPT ![t.c] = seen]]
          /\ Race("overlap", {t.c})
      BY <2>2 DEF StageCopy
    <3>2. busy[storing.w] \in Works /\ busy[storing.w].step = "write"
      BY <2>2, <1>t DEF Holders, TypeOK, Stores
    <3>3. t.c \in Chunks /\ t.data \in OnDisk
      BY <3>2, WorkShape, TaskShape, ContentStored
    <3>4. PICK seen \in {disk[t.c], Torn, t.data} :
               stage' = [stage EXCEPT !.step = "staged", !.copy = [disk EXCEPT ![t.c] = seen]]
      BY <3>1
    <3>5. seen \in OnDisk
      BY <3>3, <3>4, <1>2, ContentStored
    <3> HIDE DEF t
    <3>6. [disk EXCEPT ![t.c] = seen] \in [Chunks -> OnDisk]
      BY <3>5, <1>2
    <3>7. \A c \in Chunks : c # t.c => [disk EXCEPT ![t.c] = seen][c] = disk[c]
      BY <1>2
    <3>8. /\ races \subseteq races' /\ races' \subseteq Kinds \X Chunks
          /\ \A c : Unraced(c)' => Unraced(c) /\ c \notin {t.c}
      <4>1. {t.c} \subseteq Chunks /\ "overlap" \in Kinds
        BY <3>3 DEF Kinds
      <4> QED BY <4>1, <3>1, <1>t, RaceStep DEF t
    <3> QED BY <3>4, <3>6, <3>7, <3>8
  <2> QED BY <2>1, <2>2
<1>4. stage' = [by |-> stage.by, c |-> stage.c, data |-> stage.data, step |-> "staged",
                copy |-> f]
  BY <1>2, <1>3 DEF Stages
<1>5. stage' \in Stages
  BY <1>4, <1>2, <1>3, StageShape DEF Stages
<1>6. /\ stage' # NoChunk /\ stage'.by = stage.by /\ stage'.c = stage.c
      /\ stage'.data = stage.data /\ stage'.step = "staged" /\ stage'.copy = f
  BY <1>4, <1>5, StageShape
<1>7. TypeOK'
  BY <1>t, <1>u, <1>3, <1>5 DEF TypeOK
<1>8. Holders'
  <2>1. stage' # NoChunk =>
          /\ live'[stage'.c] # NoChunk /\ stage'.data = live'[stage'.c].data
          /\ stage'.by = "flush" => flush'.step = "store"
          /\ stage'.by = "tick" => gate' = Saving(stage'.c)
          /\ stage'.step = "ready" => stage'.copy[stage'.c] = stage'.data
    BY <1>t, <1>u, <1>1, <1>6 DEF Holders
  <2>2. Saving(stage.c)' = Saving(stage'.c)
    BY DEF Saving
  <2> QED BY <2>1, <2>2, <1>t, <1>u, <1>1, <1>3, <1>6 DEF Holders, Saving
<1>9. Tasks' = Tasks /\ \A c : Saves(c)' = Saves(c)
  BY <1>u, SameTasks
<1>10. Stamped'
  BY <1>t, <1>u, <1>9 DEF Stamped
<1>11. Stopping'
  BY <1>t, <1>u DEF Stopping, PassesDone
<1>12. ASSUME NEW c \in Chunks, Unraced(c)'
       PROVE  EditKept(c)'
  <2>1. EditKept(c) /\ f[c] = disk[c]
    BY <1>12, <1>3 DEF SInv
  <2>2. Covered(c)' <=> Covered(c)
    BY <1>1, <1>6, <1>u DEF Covered, InFlush, Editing, Erasing
  <2>3. CopyFits(c)'
    BY <2>1, <1>6, <1>u DEF CopyFits
  <2> QED BY <2>1, <2>2, <2>3, <1>9, <1>u, KeptStep DEF Superseded
<1> QED BY <1>7, <1>8, <1>10, <1>11, <1>12 DEF SInv

LEMMA StageStoreStep ==
  ASSUME SInv, StageStore
  PROVE  SInv'
<1> DEFINE f == [stage.copy EXCEPT ![stage.c] = stage.data]
<1>u. UNCHANGED <<edits, live, dirty, gate, flush, disk, queue, busy, pending, latest,
                  stampRev, storing, phase, passes, fails, races>>
  BY DEF StageStore, worldVars, poolVars, stampVars, stopVars
<1>t. TypeOK /\ Holders /\ Stamped /\ Stopping
  BY SInvParts
<1>1. /\ stage # NoChunk /\ stage.step = "staged"
      /\ stage' = [stage EXCEPT !.step = "ready", !.copy[stage.c] = stage.data]
  BY DEF StageStore
<1>2. stage \in Stages /\ stage.c \in Chunks /\ stage.data \in OnDisk
      /\ stage.copy \in [Chunks -> OnDisk]
  BY <1>1, <1>t, StageShape, ContentStored DEF TypeOK
<1>3. f \in [Chunks -> OnDisk] /\ f[stage.c] = stage.data
      /\ \A c \in Chunks : c # stage.c => f[c] = stage.copy[c]
  BY <1>2
<1>4. stage' = [by |-> stage.by, c |-> stage.c, data |-> stage.data, step |-> "ready",
                copy |-> f]
  BY <1>1, <1>2 DEF Stages
<1> HIDE DEF f
<1>5. stage' \in Stages
  BY <1>4, <1>2, <1>3, StageShape DEF Stages
<1>6. /\ stage' # NoChunk /\ stage'.by = stage.by /\ stage'.c = stage.c
      /\ stage'.data = stage.data /\ stage'.step = "ready" /\ stage'.copy = f
  BY <1>4, <1>5, StageShape
<1>7. TypeOK'
  BY <1>t, <1>u, <1>5 DEF TypeOK
<1>8. Holders'
  <2>1. stage' # NoChunk =>
          /\ live'[stage'.c] # NoChunk /\ stage'.data = live'[stage'.c].data
          /\ stage'.by = "flush" => flush'.step = "store"
          /\ stage'.by = "tick" => gate' = Saving(stage'.c)
          /\ stage'.step = "ready" => stage'.copy[stage'.c] = stage'.data
    BY <1>t, <1>u, <1>1, <1>3, <1>6 DEF Holders
  <2> QED BY <2>1, <1>t, <1>u, <1>1, <1>6 DEF Holders, Saving
<1>9. Tasks' = Tasks /\ \A c : Saves(c)' = Saves(c)
  BY <1>u, SameTasks
<1>10. Stamped'
  BY <1>t, <1>u, <1>9 DEF Stamped
<1>11. Stopping'
  BY <1>t, <1>u DEF Stopping, PassesDone
<1>12. ASSUME NEW c \in Chunks, Unraced(c)'
       PROVE  EditKept(c)'
  <2>1. EditKept(c)
    BY <1>12, <1>u DEF SInv, Unraced
  <2>2. Covered(c)' <=> Covered(c)
    BY <1>1, <1>6, <1>u DEF Covered, InFlush, Editing, Erasing
  <2>3. CopyFits(c)'
    BY <2>1, <1>1, <1>3, <1>6, <1>u DEF EditKept, CopyFits
  <2> QED BY <2>1, <2>2, <2>3, <1>9, <1>u, KeptStep DEF Superseded
<1> QED BY <1>7, <1>8, <1>10, <1>11, <1>12 DEF SInv

\* Who goes on once the copy is gone: the flush with its batch, or the tick
\* with the eviction.
LEMMA StageLeaves ==
  ASSUME SInv, stage # NoChunk, StageDone, stage' = NoChunk,
         edits' = edits, live' = live, queue' = queue, busy' = busy
  PROVE  /\ gate' \in Gates /\ flush' \in Flushes
         /\ flush'.step # "store" /\ gate'.op # "cap"
         /\ gate' # Free => live'[gate'.c] # NoChunk
         /\ phase # "running" => gate' = Free
         /\ InFlush' = InFlush
         /\ \A c \in Chunks : c # stage.c =>
               /\ (gate' = Erasing(c, TRUE)) <=> (gate = Erasing(c, TRUE))
               /\ Covered(c) => gate' = Editing(c) \/ gate' = Erasing(c, TRUE)
                                \/ c \in dirty \cup InFlush
         /\ stage.by = "flush" => gate' = gate
         /\ stage.by = "tick" => gate' = Erasing(stage.c, TRUE) /\ gate = Saving(stage.c)
<1>t. TypeOK /\ Holders /\ Stamped /\ Stopping
  BY SInvParts
<1>1. /\ stage \in Stages /\ stage.c \in Chunks
      /\ stage.by \in {"flush", "tick"}
      /\ stage.by = "flush" => flush.step = "store"
      /\ stage.by = "tick" => gate = Saving(stage.c) /\ phase = "running" /\ flush.step # "store"
  BY StageWhileUp
<1>2. gate \in Gates /\ flush \in Flushes
  BY <1>t DEF TypeOK
<1>3. CASE stage.by = "flush"
  <2>1. flush' = Resume /\ gate' = gate
    BY <1>3 DEF StageDone
  <2>2. flush' \in Flushes /\ flush'.step \in {"idle", "next"} /\ flush'.batch = flush.batch
    BY <2>1, <1>t, ResumeShape
  <2>3. InFlush' = InFlush
    BY <2>2, <1>1, <1>3 DEF InFlush
  <2>4. gate.op # "cap"
    BY <1>t, <1>3 DEF Holders
  <2>5. gate # Free => live[gate.c] # NoChunk
    BY <1>t DEF Holders
  <2>6. phase # "running" => gate = Free
    BY <1>t DEF Stopping
  <2> QED BY <2>1, <2>2, <2>3, <2>4, <2>5, <2>6, <1>2, <1>3 DEF Covered
<1>4. CASE stage.by = "tick"
  <2>1. gate' = Erasing(stage.c, TRUE) /\ flush' = flush
    BY <1>4 DEF StageDone
  <2>2. gate' \in Gates /\ gate'.op = "erase" /\ gate'.c = stage.c
    BY <2>1, <1>1, GateKinds
  <2>3. live'[gate'.c] # NoChunk
    BY <2>2, <1>t DEF Holders
  <2>4. InFlush' = InFlush
    BY <2>1 DEF InFlush
  <2>5. ASSUME NEW c \in Chunks, c # stage.c
        PROVE  /\ gate' # Erasing(c, TRUE) /\ gate # Erasing(c, TRUE)
               /\ Covered(c) => c \in dirty \cup InFlush
    <3>1. gate' # Erasing(c, TRUE)
      BY <2>5, <2>1, <1>1 DEF Erasing
    <3>2. gate # Erasing(c, TRUE) /\ gate # Editing(c)
      BY <1>1, <1>4 DEF Erasing, Editing, Saving
    <3> QED BY <3>1, <3>2, <2>5 DEF Covered
  <2> QED BY <2>1, <2>2, <2>3, <2>4, <2>5, <1>1, <1>2, <1>4 DEF Covered
<1> QED BY <1>1, <1>3, <1>4

\* The rename leaves a chunk without races where it was; the staged one is on
\* disk now.
LEMMA StagePlaced ==
  ASSUME SInv, stage # NoChunk, stage.step = "ready", StageDone, stage' = NoChunk,
         disk' = stage.copy, dirty \subseteq dirty',
         edits' = edits, live' = live, queue' = queue, busy' = busy, stampRev' = stampRev,
         NEW c \in Chunks, EditKept(c)
  PROVE  EditKept(c)'
<1>t. TypeOK /\ Holders /\ Stamped /\ Stopping
  BY SInvParts
<1>1. /\ InFlush' = InFlush
      /\ c # stage.c =>
               /\ (gate' = Erasing(c, TRUE)) <=> (gate = Erasing(c, TRUE))
               /\ Covered(c) => gate' = Editing(c) \/ gate' = Erasing(c, TRUE)
                                \/ c \in dirty \cup InFlush
      /\ stage.by = "flush" => gate' = gate
      /\ stage.by = "tick" => gate' = Erasing(stage.c, TRUE) /\ gate = Saving(stage.c)
  BY StageLeaves
<1>2. /\ stage.c \in Chunks /\ stage.by \in {"flush", "tick"}
  BY StageWhileUp
<1>3. CopyFits(c)'
  BY DEF CopyFits
<1>4. Tasks' = Tasks /\ \A d : Saves(d)' = Saves(d)
  BY SameTasks
<1>5. CASE c # stage.c
  <2>1. disk'[c] = disk[c]
    BY <1>5 DEF EditKept, CopyFits
  <2>2. Covered(c) => Covered(c)'
    BY <1>1, <1>5 DEF Covered, Editing, Erasing
  <2> QED BY <2>1, <2>2, <1>1, <1>3, <1>4, <1>5, KeptStep DEF Superseded
<1>6. CASE c = stage.c
  <2>1. live[c] # NoChunk /\ stage.copy[c] = stage.data /\ stage.data = live[c].data
    BY <1>6, <1>t DEF Holders
  <2>2. disk'[c] = edits'[c]
    BY <2>1 DEF EditKept
  <2>3. \A t \in Saves(c) : gate' = gate
    BY <2>1, <1>1, <1>2, <1>6, GateKinds DEF EditKept
  <2>4. \A t \in Saves(c)' :
          /\ t.data = edits'[c] /\ ~Superseded(t)'
          /\ live'[c] = NoChunk \/ gate' = Erasing(c, TRUE)
    BY <2>3, <1>4 DEF EditKept, Superseded
  <2>5. Stored(c)'
    BY <2>2 DEF Stored
  <2>6. Erasing(c, TRUE)' = Erasing(c, TRUE)
    BY DEF Erasing
  <2> QED BY <2>1, <2>2, <2>4, <2>5, <2>6, <1>3 DEF EditKept
<1> QED BY <1>5, <1>6

\* A copy that is dropped leaves its chunk to be stored again.
LEMMA StageDropped ==
  ASSUME SInv, stage # NoChunk, StageDone, stage' = NoChunk, disk' = disk,
         dirty' = dirty \cup {stage.c},
         edits' = edits, live' = live, queue' = queue, busy' = busy, stampRev' = stampRev,
         NEW c \in Chunks, EditKept(c), c = stage.c => stage.by = "flush"
  PROVE  EditKept(c)'
<1>1. /\ InFlush' = InFlush
      /\ c # stage.c =>
               /\ (gate' = Erasing(c, TRUE)) <=> (gate = Erasing(c, TRUE))
               /\ Covered(c) => gate' = Editing(c) \/ gate' = Erasing(c, TRUE)
                                \/ c \in dirty \cup InFlush
      /\ stage.by = "flush" => gate' = gate
  BY StageLeaves
<1>2. CopyFits(c)'
  BY DEF CopyFits
<1>3. Tasks' = Tasks /\ \A d : Saves(d)' = Saves(d)
  BY SameTasks
<1>4. Covered(c) => Covered(c)'
  BY <1>1 DEF Covered, Editing, Erasing
<1>5. (gate' = Erasing(c, TRUE)) <=> (gate = Erasing(c, TRUE))
  BY <1>1
<1> QED BY <1>2, <1>3, <1>4, <1>5, KeptStep DEF Superseded

\* The store in place that was overtaken.
LEMMA OrphanShape ==
  ASSUME TypeOK
  PROVE  /\ Orphaned \in Stores \cup {NoChunk}
         /\ Orphaned = NoChunk <=> storing = NoChunk
         /\ storing # NoChunk => Orphaned.w = storing.w
<1>1. CASE storing = NoChunk
  BY <1>1 DEF Orphaned
<1>2. CASE storing # NoChunk
  <2>1. storing \in Stores
    BY <1>2 DEF TypeOK
  <2>2. Orphaned = [w |-> storing.w, orphan |-> TRUE] /\ storing.w \in Workers
    BY <1>2, <2>1 DEF Orphaned, Stores
  <2>3. Orphaned \in Stores
    BY <2>2 DEF Stores
  <2> QED BY <1>2, <2>2, <2>3, Absent
<1> QED BY <1>1, <1>2

\* A step that ends the staging.
LEMMA StageEnds ==
  ASSUME SInv, stage # NoChunk, StageDone, stage' = NoChunk,
         edits' = edits, live' = live, queue' = queue, busy' = busy, pending' = pending,
         latest' = latest, stampRev' = stampRev, phase' = phase, passes' = passes,
         \/ dirty' = dirty /\ fails' = fails
         \/ dirty' = dirty \cup {stage.c} /\ fails < MaxFails /\ fails' = fails + 1,
         disk' \in [Chunks -> OnDisk],
         storing' = storing \/ storing' = Orphaned,
         races \subseteq races', races' \subseteq Kinds \X Chunks,
         storing' = Orphaned /\ storing # NoChunk => <<"overlap", busy[storing.w].task.c>> \in races'
  PROVE  TypeOK' /\ Holders' /\ Stamped' /\ Stopping'
<1>t. TypeOK /\ Holders /\ Stamped /\ Stopping
  BY SInvParts
<1>1. stage.c \in Chunks /\ phase # "stopped"
  BY StageWhileUp
<1>2. /\ gate' \in Gates /\ flush' \in Flushes
      /\ flush'.step # "store" /\ gate'.op # "cap"
      /\ gate' # Free => live'[gate'.c] # NoChunk
      /\ phase # "running" => gate' = Free
  BY StageLeaves
<1>3. /\ Orphaned \in Stores \cup {NoChunk}
      /\ Orphaned = NoChunk <=> storing = NoChunk
      /\ storing # NoChunk => Orphaned.w = storing.w
  BY <1>t, OrphanShape
<1>4. TypeOK'
  <2>1. fails' \in 0..MaxFails
    BY <1>t, Bounds DEF TypeOK
  <2>2. dirty' \subseteq Chunks
    BY <1>t, <1>1 DEF TypeOK
  <2>3. storing' \in Stores \cup {NoChunk}
    BY <1>t, <1>3 DEF TypeOK
  <2> QED BY <2>1, <2>2, <2>3, <1>2, <1>t DEF TypeOK
<1>5. Holders'
  <2>1. storing' # NoChunk =>
          /\ busy'[storing'.w] # NoChunk /\ busy'[storing'.w].step = "write"
          /\ storing'.orphan => <<"overlap", busy'[storing'.w].task.c>> \in races'
    BY <1>t, <1>3 DEF Holders
  <2> QED BY <2>1, <1>2 DEF Holders
<1>6. Stamped'
  BY <1>t, SameTasks DEF Stamped
<1>7. Stopping'
  <2>1. passes \in Int /\ fails \in Int
    BY <1>t, Bounds DEF TypeOK
  <2>2. phase' \in {"persist", "stopped"} => passes' <= fails' + 1 /\ (dirty' # {} => passes' <= fails')
    BY <2>1, <1>t DEF Stopping
  <2> QED BY <2>2, <1>t, <1>1, <1>2 DEF Stopping
<1> QED BY <1>4, <1>5, <1>6, <1>7

LEMMA StageRenameStep ==
  ASSUME SInv, StageRename
  PROVE  SInv'
<1> DEFINE C == IF storing = NoChunk THEN {} ELSE {busy[storing.w].task.c}
<1>1. /\ stage # NoChunk /\ stage.step = "ready" /\ disk' = stage.copy
      /\ storing' = Orphaned /\ StageDone /\ stage' = NoChunk
      /\ Race("overlap", C)
      /\ UNCHANGED <<edits, live, dirty, queue, busy, pending, latest, stampRev, phase,
                     passes, fails>>
  BY DEF StageRename, stampVars, stopVars
<1>2. TypeOK /\ Holders
  BY SInvParts
<1>3. disk' \in [Chunks -> OnDisk]
  BY <1>1, <1>2, StageShape DEF TypeOK
<1>4. C \subseteq Chunks /\ "overlap" \in Kinds
  <2>1. storing # NoChunk => busy[storing.w] \in Works
    BY <1>2 DEF Holders, TypeOK, Stores
  <2> QED BY <2>1, WorkShape DEF Kinds
<1>5. /\ races \subseteq races' /\ races' \subseteq Kinds \X Chunks
      /\ \A c : Unraced(c)' => Unraced(c)
      /\ \A c \in C : <<"overlap", c>> \in races'
  BY <1>1, <1>2, <1>4, RaceStep
<1>6. storing # NoChunk => <<"overlap", busy[storing.w].task.c>> \in races'
  BY <1>5
<1> HIDE DEF C
<1>7. TypeOK' /\ Holders' /\ Stamped' /\ Stopping'
  BY <1>1, <1>3, <1>5, <1>6, StageEnds
<1>8. ASSUME NEW c \in Chunks, Unraced(c)'
      PROVE  EditKept(c)'
  <2>1. EditKept(c)
    BY <1>8, <1>5 DEF SInv
  <2> QED BY <2>1, <1>1, StagePlaced
<1> QED BY <1>7, <1>8 DEF SInv

LEMMA StageFailsStep ==
  ASSUME SInv, StageFails
  PROVE  SInv'
<1> DEFINE F == IF stage.by = "tick" THEN {stage.c} ELSE {}
<1>1. /\ stage # NoChunk /\ StageDone /\ stage' = NoChunk
      /\ fails < MaxFails /\ fails' = fails + 1 /\ dirty' = dirty \cup {stage.c}
      /\ UNCHANGED <<edits, live, queue, busy, pending, latest, stampRev, phase, passes>>
  BY DEF StageFails, PutBack, stampVars, stopVars
<1>2. TypeOK /\ Holders
  BY SInvParts
<1>3. stage \in Stages /\ stage.c \in Chunks /\ stage.by \in {"flush", "tick"}
  BY <1>1, StageWhileUp
<1>4. F \subseteq Chunks /\ "failed" \in Kinds /\ "overlap" \in Kinds
  BY <1>3 DEF Kinds
<1>5. CASE disk' = disk /\ storing' = storing /\ Race("failed", F)
  <2>1. /\ races \subseteq races' /\ races' \subseteq Kinds \X Chunks
        /\ \A c : Unraced(c)' => Unraced(c) /\ c \notin F
    BY <1>2, <1>4, <1>5, RaceStep
  <2> HIDE DEF F
  <2>2. disk' \in [Chunks -> OnDisk]
    BY <1>2, <1>5 DEF TypeOK
  <2>3. storing' = Orphaned /\ storing # NoChunk => <<"overlap", busy[storing.w].task.c>> \in races'
    BY <1>2, <1>5, <2>1 DEF Orphaned, Holders, TypeOK, Stores
  <2>4. TypeOK' /\ Holders' /\ Stamped' /\ Stopping'
    BY <1>1, <1>5, <2>1, <2>2, <2>3, StageEnds
  <2>5. ASSUME NEW c \in Chunks, Unraced(c)'
        PROVE  EditKept(c)'
    <3>1. EditKept(c)
      BY <2>1, <2>5 DEF SInv
    <3>2. c = stage.c => stage.by = "flush"
      BY <2>1, <2>5, <1>3 DEF F
    <3> QED BY <3>1, <3>2, <1>1, <1>5, StageDropped
  <2> QED BY <2>4, <2>5 DEF SInv
<1>6. ASSUME /\ stage.step = "ready" /\ disk' = stage.copy /\ storing' = Orphaned
             /\ races' = races \cup {<<"failed", c>> : c \in F}
                     \cup {<<"overlap", busy[v].task.c>> :
                             v \in {w \in Workers : storing # NoChunk /\ storing.w = w}}
      PROVE  SInv'
  <2>1. races \subseteq races'
    BY <1>6
  <2>2. storing # NoChunk => storing.w \in Workers /\ busy[storing.w] \in Works
    BY <1>2 DEF Holders, TypeOK, Stores
  <2>3. races' \subseteq Kinds \X Chunks
    <3>1. {<<"failed", c>> : c \in F} \subseteq Kinds \X Chunks
      BY <1>4
    <3>2. {<<"overlap", busy[v].task.c>> :
             v \in {w \in Workers : storing # NoChunk /\ storing.w = w}} \subseteq Kinds \X Chunks
      BY <1>4, <2>2, WorkShape
    <3> QED BY <3>1, <3>2, <1>6, <1>2 DEF TypeOK
  <2>4. storing # NoChunk => <<"overlap", busy[storing.w].task.c>> \in races'
    BY <1>6, <2>2
  <2>5. disk' \in [Chunks -> OnDisk]
    BY <1>3, <1>6, StageShape
  <2>6. TypeOK' /\ Holders' /\ Stamped' /\ Stopping'
    BY <1>1, <1>6, <2>1, <2>3, <2>4, <2>5, StageEnds
  <2>7. ASSUME NEW c \in Chunks, Unraced(c)'
        PROVE  EditKept(c)'
    <3>1. EditKept(c)
      BY <2>1, <2>7, RacesGrow DEF SInv
    <3>2. dirty \subseteq dirty'
      BY <1>1
    <3> QED BY <3>1, <3>2, <1>1, <1>6, StagePlaced
  <2> QED BY <2>6, <2>7 DEF SInv
<1>7. \/ disk' = disk /\ storing' = storing /\ Race("failed", F)
      \/ /\ stage.step = "ready" /\ disk' = stage.copy /\ storing' = Orphaned
         /\ races' = races \cup {<<"failed", c>> : c \in F}
                     \cup {<<"overlap", busy[v].task.c>> :
                             v \in {w \in Workers : storing # NoChunk /\ storing.w = w}}
  BY DEF StageFails
<1> QED BY <1>5, <1>6, <1>7

-----------------------------------------------------------------------------
(* The simulation.                                                          *)

\* Under the gate, and with the world not read-locked, nothing is staged.
LEMMA NothingStaged ==
  ASSUME SInv, ~ReadLocked, gate.op # "cap"
  PROVE  stage = NoChunk /\ flush.step # "store"
<1>1. stage # NoChunk => stage.by = "tick" /\ gate = Saving(stage.c)
  BY StageWhileUp DEF ReadLocked
<1>2. stage # NoChunk => gate.op = "cap"
  BY ZenonT(60), <1>1, StageWhileUp, GateKinds
<1> QED BY <1>2, SInvParts DEF Holders

LEMMA SimStopping ==
  ASSUME SInv, phase = "running", phase' = phase, passes' = passes
  PROVE  Stopping'
BY DEF SInv, Stopping

\* A gate in the middle of something belongs to a server that runs.
LEMMA GateMeansRunning ==
  ASSUME SInv, gate.op # "free"
  PROVE  phase = "running" /\ gate.c \in Chunks
<1>1. gate # Free /\ gate \in Gates
  BY SInvParts, GateShape DEF TypeOK
<1> QED BY <1>1, SInvParts, GateShape DEF Stopping

\* The gate of another chunk, or a free one, says nothing of this one.
LEMMA OtherGates ==
  ASSUME NEW c, NEW d, c # d, NEW s
  PROVE  /\ Free # Erasing(d, TRUE) /\ Free # Editing(d)
         /\ Editing(c) # Erasing(d, TRUE) /\ Saving(c) # Erasing(d, TRUE)
         /\ Erasing(c, s) # Erasing(d, TRUE)
         /\ Erasing(c, s) # Editing(d) /\ Editing(c) # Editing(d)
BY DEF Free, Editing, Erasing, Saving

LEMMA SameGate ==
  ASSUME NEW c
  PROVE  /\ Free # Erasing(c, TRUE) /\ Free # Editing(c) /\ Free # Saving(c)
         /\ Editing(c) # Erasing(c, TRUE) /\ Saving(c) # Erasing(c, TRUE)
         /\ Erasing(c, FALSE) # Erasing(c, TRUE)
         /\ Erasing(c, FALSE) # Editing(c)
         /\ Erasing(c, TRUE)' = Erasing(c, TRUE) /\ Editing(c)' = Editing(c)
BY DEF Free, Editing, Erasing, Saving

\* A chunk that nobody is working on.
LEMMA AtRest ==
  ASSUME SInv, Simulating, NEW c \in Chunks, Unraced(c)
  PROVE  /\ EditKept(c) /\ (live[c] # NoChunk => Saves(c) = {})
         /\ live[c] = NoChunk => Stored(c)
         /\ gate = Free /\ phase = "running"
<1>1. EditKept(c) /\ gate = Free /\ phase = "running"
  BY DEF SInv, Simulating
<1>2. gate # Erasing(c, TRUE)
  BY <1>1, SameGate
<1> QED BY <1>1, <1>2 DEF EditKept

\* What generating a missing chunk does.
LEMMA Generated ==
  ASSUME SInv, NEW c \in Chunks, GenerateIfMissing(c)
  PROVE  /\ live' \in [Chunks -> Loaded \cup {NoChunk}]
         /\ \A d \in Chunks : d # c => live'[d] = live[d]
         /\ live[c] # NoChunk => live' = live
         /\ live[c] = NoChunk =>
               /\ stage = NoChunk /\ storing = NoChunk /\ live'[c] # NoChunk
               /\ live'[c].data = IF disk[c] > 0 THEN disk[c] ELSE 0
         /\ races \subseteq races' /\ races' \subseteq Kinds \X Chunks
         /\ \A d : Unraced(d)' => Unraced(d)
         /\ Unraced(c)' => live[c] # NoChunk \/ Saves(c) = {}
<1>t. TypeOK /\ live \in [Chunks -> Loaded \cup {NoChunk}] /\ disk[c] \in OnDisk
  BY SInvParts DEF TypeOK
<1>1. CASE live[c] # NoChunk
  BY <1>1, <1>t DEF GenerateIfMissing, Unraced, TypeOK
<1>2. CASE live[c] = NoChunk
  <2> DEFINE e == [data |-> IF disk[c] > 0 THEN disk[c] ELSE 0, rev |-> 0]
             C == IF Saves(c) # {} THEN {c} ELSE {}
  <2>1. /\ stage = NoChunk /\ storing = NoChunk
        /\ live' = [live EXCEPT ![c] = e] /\ Race("reload", C)
    BY <1>2 DEF GenerateIfMissing
  <2>2. e \in Loaded
    <3>1. (IF disk[c] > 0 THEN disk[c] ELSE 0) \in Content
      BY <1>t, Bounds DEF OnDisk, Content, Torn
    <3> QED BY <3>1, Bounds DEF Loaded, Revision
  <2>3. e # NoChunk /\ e.data = IF disk[c] > 0 THEN disk[c] ELSE 0
    BY <2>2, Absent
  <2>4. C \subseteq Chunks /\ "reload" \in Kinds
    BY DEF Kinds
  <2> HIDE DEF e
  <2>5. live' \in [Chunks -> Loaded \cup {NoChunk}] /\ live'[c] = e
        /\ \A d \in Chunks : d # c => live'[d] = live[d]
    BY <2>1, <2>2, <1>t
  <2>6. /\ races \subseteq races' /\ races' \subseteq Kinds \X Chunks
        /\ \A d : Unraced(d)' => Unraced(d) /\ d \notin C
    BY <2>1, <2>4, <1>t, RaceStep
  <2> QED BY <1>2, <2>1, <2>3, <2>5, <2>6
<1> QED BY <1>1, <1>2

\* A chunk that was missing and unraced has its last edit on disk.
LEMMA GeneratedKept ==
  ASSUME SInv, Simulating, NEW c \in Chunks, GenerateIfMissing(c),
         edits' = edits, dirty' = dirty, gate' = gate, flush' = flush, stage' = stage,
         disk' = disk, stampRev' = stampRev,
         NEW d \in Chunks, Saves(d)' = Saves(d), Unraced(d)'
  PROVE  EditKept(d)'
<1>1. /\ \A e \in Chunks : e # c => live'[e] = live[e]
      /\ live[c] # NoChunk => live' = live
      /\ live[c] = NoChunk =>
               /\ stage = NoChunk /\ storing = NoChunk /\ live'[c] # NoChunk
               /\ live'[c].data = IF disk[c] > 0 THEN disk[c] ELSE 0
      /\ \A e : Unraced(e)' => Unraced(e)
      /\ Unraced(c)' => live[c] # NoChunk \/ Saves(c) = {}
  BY Generated
<1>2. Unraced(d)
  BY <1>1
<1>3. EditKept(d) /\ (live[d] = NoChunk => Stored(d)) /\ gate = Free
  BY <1>2, AtRest
<1>4. CopyFits(d)'
  BY <1>3 DEF EditKept, CopyFits
<1>5. CASE live'[d] = live[d]
  <2>1. Covered(d)' <=> Covered(d)
    BY DEF Covered, InFlush, Editing, Erasing
  <2> QED BY <2>1, <1>3, <1>4, <1>5, KeptStep DEF Superseded
<1>6. CASE d = c /\ live[c] = NoChunk
  <2>1. Saves(c) = {} /\ disk[c] = edits[c]
    BY <1>1, <1>3, <1>6 DEF Stored
  <2>2. edits[c] \in Nat
    BY SInvParts, Bounds DEF TypeOK, Content
  <2>3. live'[c].data = edits[c] /\ live'[c] # NoChunk
    BY <2>1, <2>2, <1>1, <1>6
  <2> QED BY <2>1, <2>3, <1>3, <1>4, <1>6, SameGate DEF EditKept
<1> QED BY <1>1, <1>5, <1>6

LEMMA SendChunkStep ==
  ASSUME SInv, NEW c \in Chunks, SendChunk(c)
  PROVE  SInv'
<1>u. UNCHANGED <<edits, dirty, gate, flush, stage, disk, busy, latest, stampRev, storing,
                  phase, passes, fails>>
  BY DEF SendChunk, stampVars, stopVars
<1>t. TypeOK /\ Holders /\ Stamped /\ Stopping
  BY SInvParts
<1>1. Simulating /\ live[c] = NoChunk /\ GenerateIfMissing(c)
  BY DEF SendChunk
<1>2. /\ live' \in [Chunks -> Loaded \cup {NoChunk}]
      /\ \A d \in Chunks : d # c => live'[d] = live[d]
      /\ stage = NoChunk /\ storing = NoChunk /\ live'[c] # NoChunk
      /\ races \subseteq races' /\ races' \subseteq Kinds \X Chunks
  BY <1>1, Generated
<1>3. /\ queue' \in Seq(SaveTasks \cup LoadTasks)
      /\ pending' \in [Chunks -> OnDisk \cup {NoChunk, Waiting}]
      /\ Tasks' = Tasks \/ Tasks' = Tasks \cup {LoadTask(c)}
  <2>1. CASE queue' = queue /\ pending' = pending
    BY <2>1, <1>t, <1>u, SameTasks DEF TypeOK
  <2>2. CASE queue' = Append(queue, LoadTask(c)) /\ pending' = [pending EXCEPT ![c] = Waiting]
    <3>1. LoadTask(c) \in SaveTasks \cup LoadTasks
      BY DEF LoadTask, LoadTasks
    <3> QED BY <3>1, <2>2, <1>t, <1>u, TasksAppend DEF TypeOK
  <2> QED BY <2>1, <2>2 DEF SendChunk
<1>4. \A d : Saves(d)' = Saves(d)
  BY <1>3 DEF Saves, LoadTask
<1>5. TypeOK'
  BY <1>t, <1>u, <1>2, <1>3 DEF TypeOK
<1>6. Holders'
  <2>1. gate = Free /\ gate' = Free
    BY <1>1, <1>u DEF Simulating
  <2> QED BY <2>1, <1>t, <1>u, <1>2 DEF Holders
<1>7. Stamped'
  BY <1>t, <1>u, <1>3 DEF Stamped, LoadTask
<1>8. Stopping'
  BY <1>u, <1>1, SimStopping DEF Simulating
<1>9. ASSUME NEW d \in Chunks, Unraced(d)'
      PROVE  EditKept(d)'
  BY <1>9, <1>u, <1>1, <1>4, GeneratedKept
<1> QED BY <1>5, <1>6, <1>7, <1>8, <1>9 DEF SInv

LEMMA SetBlockStep ==
  ASSUME SInv, NEW c \in Chunks, SetBlock(c)
  PROVE  SInv'
<1> DEFINE r == IF live[c] = NoChunk THEN 1 ELSE live[c].rev + 1
           e == [data |-> edits'[c], rev |-> r]
           C == IF live[c] = NoChunk /\ Saves(c) # {} THEN {c} ELSE {}
<1>u. UNCHANGED <<dirty, flush, stage, disk, queue, busy, storing, pending, latest, stampRev,
                  phase, passes, fails>>
  BY DEF SetBlock, poolVars, stampVars, stopVars
<1>t. /\ TypeOK /\ Holders /\ Stamped /\ Stopping
      /\ live \in [Chunks -> Loaded \cup {NoChunk}] /\ edits \in [Chunks -> Content]
  BY SInvParts DEF TypeOK
<1>1. /\ Simulating /\ ~ReadLocked /\ edits[c] < MaxEdits
      /\ live[c] # NoChunk => live[c].rev <= MaxEdits
      /\ edits' = [edits EXCEPT ![c] = edits[c] + 1]
      /\ live' = [live EXCEPT ![c] = e]
      /\ gate' = Editing(c)
  BY DEF SetBlock
<1>2. gate = Free /\ phase = "running" /\ stage = NoChunk /\ flush.step # "store"
  BY <1>1, NothingStaged, GateKinds DEF Simulating
<1>3. edits' \in [Chunks -> Content] /\ \A d \in Chunks : d # c => edits'[d] = edits[d]
  BY <1>t, <1>1, Bounds DEF Content
<1>4. r \in Revision
  <2>1. live[c] # NoChunk => live[c].rev \in Revision
    BY <1>t DEF Loaded
  <2> QED BY <2>1, <1>1, Bounds DEF Revision
<1> HIDE DEF r
<1>5. e \in Loaded /\ e # NoChunk /\ e.data = edits'[c]
  <2>1. e \in Loaded
    BY <1>3, <1>4 DEF Loaded
  <2> QED BY <2>1, Absent
<1> HIDE DEF e
<1>6. /\ live' \in [Chunks -> Loaded \cup {NoChunk}] /\ live'[c] = e
      /\ \A d \in Chunks : d # c => live'[d] = live[d]
  BY <1>t, <1>1, <1>5
<1>7. /\ races \subseteq races' /\ races' \subseteq Kinds \X Chunks
      /\ \A d : Unraced(d)' => Unraced(d) /\ d \notin C
  <2>1. CASE live[c] # NoChunk
    BY <2>1, <1>t DEF SetBlock, Unraced, TypeOK
  <2>2. CASE live[c] = NoChunk
    <3>1. Race("reload", C)
      BY <2>2 DEF SetBlock
    <3>2. C \subseteq Chunks /\ "reload" \in Kinds
      BY DEF Kinds
    <3> HIDE DEF C
    <3> QED BY <3>1, <3>2, <1>t, RaceStep
  <2> QED BY <2>1, <2>2
<1>8. TypeOK'
  BY <1>t, <1>u, <1>1, <1>3, <1>6, <1>7, GateKinds DEF TypeOK
<1>9. Holders'
  BY ZenonT(60), <1>t, <1>u, <1>1, <1>2, <1>5, <1>6, <1>7, GateKinds DEF Holders
<1>10. Tasks' = Tasks /\ \A d : Saves(d)' = Saves(d)
  BY <1>u, SameTasks
<1>11. Stamped'
  BY <1>t, <1>u, <1>10 DEF Stamped
<1>12. Stopping'
  BY <1>u, <1>2, SimStopping
<1>13. ASSUME NEW d \in Chunks, Unraced(d)'
       PROVE  EditKept(d)'
  <2>1. Unraced(d) /\ d \notin C
    BY <1>7, <1>13
  <2>2. EditKept(d) /\ (live[d] # NoChunk => Saves(d) = {})
    BY <2>1, <1>1, AtRest
  <2>3. CopyFits(d)'
    BY <1>2, <1>u DEF CopyFits
  <2>4. CASE d # c
    <3>1. Covered(d) => Covered(d)'
      BY <1>2, <1>u, SameGate DEF Covered, InFlush
    <3>2. (gate' = Erasing(d, TRUE)) <=> (gate = Erasing(d, TRUE))
      BY <2>4, <1>1, <1>2, OtherGates, SameGate
    <3> QED BY <3>1, <3>2, <2>2, <2>3, <2>4, <1>3, <1>6, <1>10, <1>u, KeptStep DEF Superseded
  <2>5. CASE d = c
    <3>1. Saves(c) = {}
      BY <2>1, <2>2, <2>5
    <3>2. live'[c] # NoChunk /\ live'[c].data = edits'[c]
      BY <1>5, <1>6
    <3>3. Covered(c)'
      BY <1>1, SameGate DEF Covered
    <3>4. gate' # Erasing(c, TRUE)
      BY <1>1, SameGate
    <3> QED BY <3>1, <3>2, <3>3, <3>4, <2>3, <2>5, <1>10, SameGate DEF EditKept
  <2> QED BY <2>4, <2>5
<1> QED BY <1>8, <1>9, <1>11, <1>12, <1>13 DEF SInv

LEMMA FireEditStep ==
  ASSUME SInv, FireEdit
  PROVE  SInv'
<1> DEFINE k == gate.c
<1>u. UNCHANGED <<edits, live, flush, stage, disk, queue, busy, storing, pending, latest,
                  stampRev, phase, passes, fails, races>>
  BY DEF FireEdit, poolVars, stampVars, stopVars
<1>t. TypeOK /\ Holders /\ Stamped /\ Stopping
  BY SInvParts
<1>1. gate.op = "edit" /\ dirty' = dirty \cup {k} /\ gate' = Free
  BY DEF FireEdit
<1>2. gate \in Gates /\ gate = Editing(k) /\ k \in Chunks /\ phase = "running"
  BY <1>1, <1>t, GateShape, GateMeansRunning DEF TypeOK
<1>3. TypeOK'
  BY <1>t, <1>u, <1>1, <1>2, GateKinds DEF TypeOK
<1>4. Holders'
  <2>1. \A c : gate # Saving(c)
    BY <1>2 DEF Editing, Saving
  <2>2. gate'.op = "free"
    BY <1>1 DEF Free
  <2> QED BY <2>1, <2>2, <1>t, <1>u, <1>1 DEF Holders
<1>5. Tasks' = Tasks /\ \A c : Saves(c)' = Saves(c)
  BY <1>u, SameTasks
<1>6. Stamped'
  BY <1>t, <1>u, <1>5 DEF Stamped
<1>7. Stopping'
  BY <1>u, <1>2, SimStopping
<1>8. ASSUME NEW c \in Chunks, Unraced(c)'
      PROVE  EditKept(c)'
  <2>1. EditKept(c)
    BY <1>8, <1>u DEF SInv, Unraced
  <2>2. gate # Erasing(c, TRUE) /\ gate' # Erasing(c, TRUE)
    <3>1. gate # Erasing(c, TRUE)
      BY <1>1 DEF Erasing
    <3> QED BY <3>1, <1>1, SameGate
  <2>3. gate = Editing(c) => c = k
    BY <1>2 DEF Editing
  <2>4. Covered(c) => Covered(c)'
    BY <2>2, <2>3, <1>1, <1>u DEF Covered, InFlush
  <2>5. CopyFits(c)'
    BY <2>1, <1>u DEF EditKept, CopyFits
  <2> QED BY <2>1, <2>2, <2>4, <2>5, <1>5, <1>u, KeptStep DEF Superseded
<1> QED BY <1>3, <1>4, <1>6, <1>7, <1>8 DEF SInv

LEMMA PollPendingLoadsStep ==
  ASSUME SInv, NEW c \in Chunks, PollPendingLoads(c)
  PROVE  SInv'
<1>u. UNCHANGED <<edits, dirty, flush, stage, disk, queue, busy, storing, latest, stampRev,
                  phase, passes, fails>>
  BY DEF PollPendingLoads, poolVars, stampVars, stopVars
<1>t. /\ TypeOK /\ Holders /\ Stamped /\ Stopping
      /\ live \in [Chunks -> Loaded \cup {NoChunk}]
  BY SInvParts DEF TypeOK
<1>1. Simulating /\ pending[c] \in OnDisk /\ pending' = [pending EXCEPT ![c] = NoChunk]
  BY DEF PollPendingLoads
<1>2. pending' \in [Chunks -> OnDisk \cup {NoChunk, Waiting}]
  BY <1>1, <1>t DEF TypeOK
<1>3. Tasks' = Tasks /\ \A d : Saves(d)' = Saves(d)
  BY <1>u, SameTasks
<1>4. Stamped'
  BY <1>t, <1>u, <1>3 DEF Stamped
<1>5. Stopping'
  BY <1>u, <1>1, SimStopping DEF Simulating
<1>6. CASE ~(pending[c] > 0)
  <2>1. GenerateIfMissing(c) /\ gate' = gate
    BY <1>6 DEF PollPendingLoads
  <2>2. /\ live' \in [Chunks -> Loaded \cup {NoChunk}]
        /\ \A d \in Chunks : d # c => live'[d] = live[d]
        /\ live[c] # NoChunk => live' = live
        /\ live[c] = NoChunk => stage = NoChunk /\ storing = NoChunk /\ live'[c] # NoChunk
        /\ races \subseteq races' /\ races' \subseteq Kinds \X Chunks
    BY <2>1, Generated
  <2>3. TypeOK'
    BY <1>t, <1>u, <1>2, <2>1, <2>2 DEF TypeOK
  <2>4. Holders'
    <3>1. gate = Free /\ gate' = Free
      BY <1>1, <2>1 DEF Simulating
    <3>2. stage # NoChunk => live' = live
      BY <2>2
    <3> QED BY <3>1, <3>2, <1>t, <1>u, <2>2 DEF Holders
  <2>5. ASSUME NEW d \in Chunks, Unraced(d)'
        PROVE  EditKept(d)'
    BY <2>5, <1>u, <1>1, <1>3, <2>1, GeneratedKept
  <2> QED BY <2>3, <2>4, <2>5, <1>4, <1>5 DEF SInv
<1>7. CASE pending[c] > 0
  <2> DEFINE e == [data |-> pending[c], rev |-> 1]
             C == IF \/ live[c] # NoChunk /\ live[c].data # pending[c]
                     \/ live[c] = NoChunk /\ disk[c] # pending[c]
                     \/ Saves(c) # {}
                    THEN {c} ELSE {}
  <2>1. ~ReadLocked /\ live' = [live EXCEPT ![c] = e] /\ gate' = Editing(c) /\ Race("late load", C)
    BY <1>7 DEF PollPendingLoads
  <2>2. gate = Free /\ phase = "running" /\ stage = NoChunk /\ flush.step # "store"
    BY <1>1, <2>1, NothingStaged, GateKinds DEF Simulating
  <2>3. e \in Loaded
    <3>1. pending[c] \in Content
      BY <1>1, <1>7, Bounds DEF OnDisk, Content, Torn
    <3> QED BY <3>1, Bounds DEF Loaded, Revision
  <2>4. e # NoChunk /\ e.data = pending[c]
    BY <2>3, Absent
  <2>5. C \subseteq Chunks /\ "late load" \in Kinds
    BY DEF Kinds
  <2> HIDE DEF e
  <2>6. /\ live' \in [Chunks -> Loaded \cup {NoChunk}] /\ live'[c] = e
        /\ \A d \in Chunks : d # c => live'[d] = live[d]
    BY <1>t, <2>1, <2>3
  <2>7. /\ races \subseteq races' /\ races' \subseteq Kinds \X Chunks
        /\ \A d : Unraced(d)' => Unraced(d) /\ d \notin C
    BY <2>1, <2>5, <1>t, RaceStep
  <2>8. TypeOK'
    BY <1>t, <1>u, <1>2, <2>1, <2>6, <2>7, GateKinds DEF TypeOK
  <2>9. Holders'
    BY ZenonT(60), <1>t, <1>u, <2>1, <2>2, <2>4, <2>6, <2>7, GateKinds DEF Holders
  <2>10. ASSUME NEW d \in Chunks, Unraced(d)'
         PROVE  EditKept(d)'
    <3>1. Unraced(d) /\ d \notin C
      BY <2>7, <2>10
    <3>2. EditKept(d) /\ (live[d] = NoChunk => Stored(d))
      BY <3>1, <1>1, AtRest
    <3>3. CopyFits(d)'
      BY <2>2, <1>u DEF CopyFits
    <3>4. CASE d # c
      <4>1. Covered(d) => Covered(d)'
        BY <2>2, <1>u, SameGate DEF Covered, InFlush
      <4>2. (gate' = Erasing(d, TRUE)) <=> (gate = Erasing(d, TRUE))
        BY <3>4, <2>1, <2>2, OtherGates, SameGate
      <4> QED BY <4>1, <4>2, <3>2, <3>3, <3>4, <2>6, <1>3, <1>u, KeptStep DEF Superseded
    <3>5. CASE d = c
      <4>1. Saves(c) = {} /\ pending[c] = edits[c]
        <5>1. /\ Saves(c) = {} /\ live[c] # NoChunk => live[c].data = pending[c]
              /\ live[c] = NoChunk => disk[c] = pending[c]
          BY <3>1, <3>5
        <5> QED BY <5>1, <3>1, <3>2, <3>5 DEF EditKept, Stored
      <4>2. live'[c] # NoChunk /\ live'[c].data = edits'[c]
        BY <4>1, <2>4, <2>6, <1>u
      <4>3. Covered(c)'
        BY <2>1, SameGate DEF Covered
      <4>4. gate' # Erasing(c, TRUE)
        BY <2>1, SameGate
      <4> QED BY <4>1, <4>2, <4>3, <4>4, <3>3, <3>5, <1>3, SameGate DEF EditKept
    <3> QED BY <3>4, <3>5
  <2> QED BY <2>8, <2>9, <2>10, <1>4, <1>5 DEF SInv
<1> QED BY <1>6, <1>7

\* The tick begins to evict a chunk.
LEMMA EvictionHolds ==
  ASSUME SInv, gate = Free, NEW c \in Chunks, live[c] # NoChunk, NEW stored \in BOOLEAN,
         gate' = Erasing(c, stored), live' = live, flush' = flush, stage' = stage,
         busy' = busy, storing' = storing, races \subseteq races'
  PROVE  Holders'
<1>1. gate'.op = "erase" /\ gate'.c = c
  BY GateKinds
<1>2. gate # Saving(stage.c)
  BY SameGate
<1> QED BY <1>1, <1>2, SInvParts DEF Holders

LEMMA UnloadCleanStep ==
  ASSUME SInv, NEW c \in Chunks, UnloadClean(c)
  PROVE  SInv'
<1>u. UNCHANGED <<edits, live, dirty, flush, stage, disk, queue, busy, storing, pending,
                  latest, stampRev, phase, passes, fails, races>>
  BY DEF UnloadClean, poolVars, stampVars, stopVars
<1>t. TypeOK /\ Holders /\ Stamped /\ Stopping
  BY SInvParts
<1>1. Simulating /\ live[c] # NoChunk /\ gate' = Erasing(c, FALSE) /\ gate = Free
  BY DEF UnloadClean, Simulating
<1>2. TypeOK'
  BY <1>t, <1>u, <1>1, GateKinds DEF TypeOK
<1>3. Holders'
  BY <1>u, <1>1, EvictionHolds
<1>4. Tasks' = Tasks /\ \A d : Saves(d)' = Saves(d)
  BY <1>u, SameTasks
<1>5. Stamped'
  BY <1>t, <1>u, <1>4 DEF Stamped
<1>6. Stopping'
  BY <1>u, <1>1, SimStopping DEF Simulating
<1>7. ASSUME NEW d \in Chunks, Unraced(d)'
      PROVE  EditKept(d)'
  <2>1. EditKept(d)
    BY <1>7, <1>u DEF SInv, Unraced
  <2>2. gate # Erasing(d, TRUE) /\ gate' # Erasing(d, TRUE)
    BY <1>1, SameGate, OtherGates
  <2>3. Covered(d) => Covered(d)'
    BY <1>1, <1>u, SameGate DEF Covered, InFlush
  <2>4. CopyFits(d)'
    BY <2>1, <1>u DEF EditKept, CopyFits
  <2> QED BY <2>1, <2>2, <2>3, <2>4, <1>4, <1>u, KeptStep DEF Superseded
<1> QED BY <1>2, <1>3, <1>5, <1>6, <1>7 DEF SInv

LEMMA UnloadSnapshotFailsStep ==
  ASSUME SInv, NEW c \in Chunks, UnloadSnapshotFails(c)
  PROVE  SInv'
<1>u. UNCHANGED <<edits, live, flush, stage, disk, queue, busy, storing, pending,
                  latest, stampRev, phase, passes>>
  BY DEF UnloadSnapshotFails, poolVars, stampVars, stopVars
<1>t. TypeOK /\ Holders /\ Stamped /\ Stopping
  BY SInvParts
<1>1. /\ Simulating /\ live[c] # NoChunk /\ gate' = Erasing(c, FALSE) /\ gate = Free
      /\ fails < MaxFails /\ fails' = fails + 1 /\ dirty' = dirty \ {c}
      /\ Race("failed", {c})
  BY DEF UnloadSnapshotFails, Simulating
<1>2. /\ races \subseteq races' /\ races' \subseteq Kinds \X Chunks
      /\ \A d : Unraced(d)' => Unraced(d) /\ d # c
  <2>1. {c} \subseteq Chunks /\ "failed" \in Kinds
    BY DEF Kinds
  <2> QED BY <2>1, <1>1, <1>t, RaceStep
<1>3. TypeOK'
  <2>1. fails' \in 0..MaxFails /\ dirty' \subseteq Chunks
    BY <1>1, <1>t, Bounds DEF TypeOK
  <2> QED BY <2>1, <1>t, <1>u, <1>1, <1>2, GateKinds DEF TypeOK
<1>4. Holders'
  BY <1>u, <1>1, <1>2, EvictionHolds
<1>5. Tasks' = Tasks /\ \A d : Saves(d)' = Saves(d)
  BY <1>u, SameTasks
<1>6. Stamped'
  BY <1>t, <1>u, <1>5 DEF Stamped
<1>7. Stopping'
  BY <1>u, <1>1, SimStopping DEF Simulating
<1>8. ASSUME NEW d \in Chunks, Unraced(d)'
      PROVE  EditKept(d)'
  <2>1. EditKept(d) /\ d # c
    BY <1>8, <1>2 DEF SInv
  <2>2. gate # Erasing(d, TRUE) /\ gate' # Erasing(d, TRUE)
    BY <2>1, <1>1, SameGate, OtherGates
  <2>3. Covered(d) => Covered(d)'
    BY <2>1, <1>1, <1>u, SameGate DEF Covered, InFlush
  <2>4. CopyFits(d)'
    BY <2>1, <1>u DEF EditKept, CopyFits
  <2> QED BY <2>1, <2>2, <2>3, <2>4, <1>5, <1>u, KeptStep DEF Superseded
<1> QED BY <1>3, <1>4, <1>6, <1>7, <1>8 DEF SInv

LEMMA UnloadOverCapStep ==
  ASSUME SInv, NEW c \in Chunks, UnloadOverCap(c)
  PROVE  SInv'
<1> DEFINE s == [by |-> "tick", c |-> c, data |-> live[c].data, step |-> "copy",
                 copy |-> disk]
<1>u. UNCHANGED <<edits, live, flush, disk, queue, busy, storing, pending, latest, stampRev,
                  phase, passes, fails, races>>
  BY DEF UnloadOverCap, poolVars, stampVars, stopVars
<1>t. TypeOK /\ Holders /\ Stamped /\ Stopping
  BY SInvParts
<1>1. /\ Simulating /\ live[c] # NoChunk /\ stage = NoChunk /\ gate = Free
      /\ dirty' = dirty \ {c} /\ gate' = Saving(c) /\ stage' = s
  BY DEF UnloadOverCap, Simulating
<1>2. s \in Stages
  <2>1. live[c].data \in Content /\ disk \in [Chunks -> OnDisk]
    BY <1>1, <1>t DEF TypeOK, Loaded
  <2> QED BY <2>1 DEF Stages
<1>3. s # NoChunk /\ s.by = "tick" /\ s.c = c /\ s.data = live[c].data /\ s.step = "copy"
  BY <1>2, StageShape
<1> HIDE DEF s
<1>4. TypeOK'
  BY <1>t, <1>u, <1>1, <1>2, GateKinds DEF TypeOK
<1>5. Holders'
  <2>1. gate'.op = "cap" /\ gate'.c = c
    BY <1>1, GateKinds
  <2>2. Saving(stage'.c) = Saving(c)
    BY <1>1, <1>3
  <2>3. flush.step # "store"
    BY <1>t, <1>1 DEF Holders
  <2>4. gate' = Saving(stage'.c)
    BY <1>1, <2>2
  <2> QED BY <2>1, <2>3, <2>4, <1>t, <1>u, <1>1, <1>3 DEF Holders, Saving
<1>6. Tasks' = Tasks /\ \A d : Saves(d)' = Saves(d)
  BY <1>u, SameTasks
<1>7. Stamped'
  BY <1>t, <1>u, <1>6 DEF Stamped
<1>8. Stopping'
  BY <1>u, <1>1, SimStopping DEF Simulating
<1>9. ASSUME NEW d \in Chunks, Unraced(d)'
      PROVE  EditKept(d)'
  <2>1. EditKept(d)
    BY <1>9, <1>u DEF SInv, Unraced
  <2>2. gate # Erasing(d, TRUE) /\ gate' # Erasing(d, TRUE)
    BY <1>1, SameGate, OtherGates
  <2>3. Covered(d) => Covered(d)'
    BY <1>1, <1>3, <1>u, SameGate DEF Covered, InFlush
  <2>4. CopyFits(d)'
    BY <1>1, <1>3 DEF CopyFits
  <2> QED BY <2>1, <2>2, <2>3, <2>4, <1>6, <1>u, KeptStep DEF Superseded
<1> QED BY <1>4, <1>5, <1>7, <1>8, <1>9 DEF SInv

\* The stamp of a save is the chunk's own.
LEMMA OwnStamp ==
  ASSUME SInv, NEW c \in Chunks, latest[c] # NoChunk \/ FreeStamps # {}
  PROVE  /\ StampFor(c) \in Stamps /\ StampFor(c) # NoChunk
         /\ \A d \in Chunks : latest[d] = StampFor(c) => d = c
         /\ \A t \in Tasks : t.kind = "save" /\ t.stamp = StampFor(c) => t.c = c
<1>t. TypeOK /\ Stamped
  BY SInvParts
<1>1. CASE latest[c] # NoChunk
  <2>1. StampFor(c) = latest[c] /\ latest[c] \in Stamps
    BY <1>1, <1>t DEF StampFor, TypeOK
  <2> QED BY <2>1, <1>1, <1>t DEF Stamped
<1>2. CASE latest[c] = NoChunk
  <2>1. StampFor(c) \in FreeStamps
    BY <1>2 DEF StampFor
  <2> QED BY <2>1, Absent DEF FreeStamps
<1> QED BY <1>1, <1>2

LEMMA UnloadDirtyStep ==
  ASSUME SInv, NEW c \in Chunks, UnloadDirty(c)
  PROVE  SInv'
<1> DEFINE s == StampFor(c)
<1>u. UNCHANGED <<edits, live, flush, stage, disk, busy, storing, pending, phase, passes,
                  fails, races>>
  BY DEF UnloadDirty, stopVars
<1>t. TypeOK /\ Holders /\ Stamped /\ Stopping
  BY SInvParts
<1>1. /\ Simulating /\ live[c] # NoChunk /\ (latest[c] # NoChunk \/ FreeStamps # {})
      /\ gate = Free /\ queue' = Append(queue, SaveTask(c, s)) /\ latest' = [latest EXCEPT ![c] = s]
      /\ stampRev' = [stampRev EXCEPT ![s] = live[c].rev]
      /\ dirty' = dirty \ {c} /\ gate' = Erasing(c, TRUE)
  BY DEF UnloadDirty, Simulating
<1>2. /\ s \in Stamps /\ s # NoChunk
      /\ \A d \in Chunks : latest[d] = s => d = c
      /\ \A u \in Tasks : u.kind = "save" /\ u.stamp = s => u.c = c
  BY <1>1, OwnStamp
<1> HIDE DEF s
<1>3. live[c] \in Loaded /\ live[c].data \in Content /\ live[c].rev \in Revision
  BY <1>1, <1>t DEF TypeOK, Loaded
<1>4. PICK t \in SaveTasks :
        /\ t = SaveTask(c, s) /\ t.kind = "save" /\ t.c = c /\ t.data = live[c].data
        /\ t.rev = live[c].rev /\ t.stamp = s
  <2>1. SaveTask(c, s) \in SaveTasks
    BY <1>2, <1>3 DEF SaveTask, SaveTasks
  <2>2. /\ SaveTask(c, s).kind = "save" /\ SaveTask(c, s).c = c
        /\ SaveTask(c, s).data = live[c].data /\ SaveTask(c, s).rev = live[c].rev
        /\ SaveTask(c, s).stamp = s
    BY DEF SaveTask
  <2> QED BY <2>1, <2>2
<1>5. queue' \in Seq(SaveTasks \cup LoadTasks) /\ Tasks' = Tasks \cup {t}
  BY <1>1, <1>4, <1>t, <1>u, TasksAppend
<1>6. /\ latest' \in [Chunks -> Stamps \cup {NoChunk}] /\ latest'[c] = s
      /\ \A d \in Chunks : d # c => latest'[d] = latest[d]
      /\ stampRev' \in [Stamps -> Revision] /\ stampRev'[s] = live[c].rev
      /\ \A r \in Stamps : r # s => stampRev'[r] = stampRev[r]
  BY <1>t, <1>1, <1>2, <1>3 DEF TypeOK
<1>7. TypeOK'
  BY <1>t, <1>u, <1>1, <1>5, <1>6, GateKinds DEF TypeOK
<1>8. Holders'
  BY <1>u, <1>1, EvictionHolds
<1>9. Stamped'
  <2>1. ASSUME NEW d \in Chunks, NEW e \in Chunks, latest'[d] = latest'[e], latest'[d] # NoChunk
        PROVE  d = e
    BY <2>1, <1>2, <1>6, <1>t DEF Stamped
  <2>2. ASSUME NEW u \in Tasks', NEW d \in Chunks, u.kind = "save", latest'[d] = u.stamp
        PROVE  u.c = d
    BY <2>2, <1>2, <1>4, <1>5, <1>6, <1>t DEF Stamped
  <2> QED BY <2>1, <2>2 DEF Stamped
<1>10. Stopping'
  BY <1>u, <1>1, SimStopping DEF Simulating
<1>11. ASSUME NEW d \in Chunks, Unraced(d)'
       PROVE  EditKept(d)'
  <2>1. Unraced(d)
    BY <1>11, <1>u DEF Unraced
  <2>2. EditKept(d) /\ (live[d] # NoChunk => Saves(d) = {})
    BY <2>1, <1>1, AtRest
  <2>3. CopyFits(d)'
    BY <2>2, <1>u DEF EditKept, CopyFits
  <2>4. CASE d # c
    <3>1. Saves(d)' = Saves(d)
      BY <2>4, <1>4, <1>5 DEF Saves
    <3>2. ASSUME NEW u \in Saves(d)
          PROVE  Superseded(u)' <=> Superseded(u)
      <4>1. u \in Tasks /\ u.kind = "save" /\ u.c = d /\ u.stamp \in Stamps
        BY <1>t, TasksTyped, TaskShape DEF Saves
      <4>2. u.stamp # s
        BY <4>1, <2>4, <1>2
      <4> QED BY <4>1, <4>2, <1>6 DEF Superseded
    <3>3. gate # Erasing(d, TRUE) /\ gate' # Erasing(d, TRUE)
      BY <2>4, <1>1, SameGate, OtherGates
    <3>4. Covered(d) => Covered(d)'
      BY <2>4, <1>1, <1>u, SameGate DEF Covered, InFlush
    <3> QED BY <3>1, <3>2, <3>3, <3>4, <2>2, <2>3, <1>u, KeptStep
  <2>5. CASE d = c
    <3>1. Saves(c)' = {t}
      BY <2>2, <2>5, <1>1, <1>4, <1>5 DEF Saves
    <3>2. t.data = edits'[c] /\ live'[c] # NoChunk /\ live'[c].data = edits'[c]
      BY <2>2, <2>5, <1>1, <1>4, <1>u DEF EditKept
    <3>3. ~Superseded(t)'
      BY <1>4, <1>6 DEF Superseded
    <3>4. Stored(c)'
      BY <3>1, <3>2 DEF Stored
    <3>5. gate' = Erasing(c, TRUE)' /\ Covered(c)'
      BY <1>1, SameGate DEF Covered
    <3> QED BY <3>1, <3>2, <3>3, <3>4, <3>5, <2>3, <2>5 DEF EditKept
  <2> QED BY <2>4, <2>5
<1> QED BY <1>7, <1>8, <1>9, <1>10, <1>11 DEF SInv

LEMMA EraseChunkStep ==
  ASSUME SInv, EraseChunk
  PROVE  SInv'
<1>0. PICK k : k = gate.c
  OBVIOUS
<1> DEFINE C == IF ~gate.saved /\ k \in InFlush \cup dirty THEN {k} ELSE {}
<1>u. UNCHANGED <<edits, dirty, flush, stage, disk, queue, busy, storing, pending, latest,
                  stampRev, phase, passes, fails>>
  BY DEF EraseChunk, poolVars, stampVars, stopVars
<1>t. TypeOK /\ Holders /\ Stamped /\ Stopping
  BY SInvParts
<1>1. /\ gate.op = "erase" /\ ~ReadLocked /\ live' = [live EXCEPT ![k] = NoChunk]
      /\ Race("window", C) /\ gate' = Free
  BY <1>0 DEF EraseChunk
<1>2. /\ gate \in Gates /\ gate.saved \in BOOLEAN /\ gate = Erasing(k, gate.saved)
      /\ k \in Chunks /\ phase = "running"
  BY <1>0, <1>1, <1>t, GateShape, GateMeansRunning DEF TypeOK
<1>3. stage = NoChunk /\ flush.step # "store"
  BY <1>1, NothingStaged
<1>4. C \subseteq Chunks /\ "window" \in Kinds
  BY <1>2 DEF Kinds
<1>5. /\ races \subseteq races' /\ races' \subseteq Kinds \X Chunks
      /\ \A d : Unraced(d)' => Unraced(d) /\ d \notin C
  BY <1>1, <1>4, <1>t, RaceStep
<1>6. /\ live' \in [Chunks -> Loaded \cup {NoChunk}] /\ live'[k] = NoChunk
      /\ \A d \in Chunks : d # k => live'[d] = live[d]
  BY <1>t, <1>1, <1>2 DEF TypeOK
<1>7. TypeOK'
  BY ZenonT(60), <1>t, <1>u, <1>1, <1>5, <1>6, GateKinds DEF TypeOK
<1>8. Holders'
  <2>1. gate'.op = "free"
    BY <1>1 DEF Free
  <2> QED BY <2>1, <1>t, <1>u, <1>1, <1>3, <1>5 DEF Holders
<1>9. Tasks' = Tasks /\ \A d : Saves(d)' = Saves(d)
  BY <1>u, SameTasks
<1>10. Stamped'
  BY <1>t, <1>u, <1>9 DEF Stamped
<1>11. Stopping'
  BY <1>u, <1>2, SimStopping
<1>12. ASSUME NEW d \in Chunks, Unraced(d)'
       PROVE  EditKept(d)'
  <2>1. EditKept(d) /\ d \notin C
    BY <1>5, <1>12 DEF SInv
  <2>2. CopyFits(d)'
    BY <1>3, <1>u DEF CopyFits
  <2>3. gate # Editing(d)
    BY <1>1 DEF Editing
  <2>4. CASE d # k
    <3>1. gate # Erasing(d, TRUE) /\ gate' # Erasing(d, TRUE)
      BY <2>4, <1>1, <1>2, SameGate, OtherGates
    <3>2. Covered(d) => Covered(d)'
      BY <3>1, <2>3, <1>3, <1>u DEF Covered, InFlush
    <3> QED BY <3>1, <3>2, <2>1, <2>2, <2>4, <1>6, <1>9, <1>u, KeptStep DEF Superseded
  <2>5. CASE d = k
    <3>1. Stored(k)
      <4>1. CASE gate.saved = TRUE
        BY <4>1, <2>1, <2>5, <1>2 DEF EditKept
      <4>2. CASE gate.saved = FALSE
        <5>1. k \notin InFlush \cup dirty
          BY <4>2, <2>1, <2>5
        <5>2. gate # Erasing(k, TRUE)
          BY <4>2, <1>2, SameGate
        <5>3. ~Covered(k)
          BY <5>1, <5>2, <2>3, <2>5, <1>3 DEF Covered
        <5>4. live[k] # NoChunk
          BY <1>0, <1>2, <1>t DEF Holders, Erasing, Free
        <5> QED BY <5>3, <5>4, <2>1, <2>5 DEF EditKept, Stored
      <4> QED BY <4>1, <4>2, <1>2
    <3>2. Stored(k)'
      BY <3>1, <1>9, <1>u DEF Stored
    <3>3. \A t \in Saves(k)' : t.data = edits'[k] /\ ~Superseded(t)'
      BY <2>1, <2>5, <1>9, <1>u DEF EditKept, Superseded
    <3> QED BY <3>2, <3>3, <2>2, <2>5, <1>6 DEF EditKept
  <2> QED BY <2>4, <2>5
<1> QED BY <1>7, <1>8, <1>10, <1>11, <1>12 DEF SInv

-----------------------------------------------------------------------------
(* The shutdown.                                                            *)

\* The shutdown moves on, or nothing happens at all.
LEMMA PhaseStep ==
  ASSUME SInv, phase' \in {"running", "draining", "persist", "stopped"}, Stopping',
         UNCHANGED <<edits, live, dirty, gate, flush, stage, disk, queue, busy, pending,
                     latest, stampRev, storing, passes, fails, races>>
  PROVE  SInv'
<1>t. TypeOK /\ Holders /\ Stamped
  BY SInvParts
<1>1. TypeOK'
  BY <1>t DEF TypeOK
<1>2. Holders'
  BY <1>t DEF Holders
<1>3. Tasks' = Tasks /\ \A c : Saves(c)' = Saves(c)
  BY SameTasks
<1>4. Stamped'
  BY <1>t, <1>3 DEF Stamped
<1>5. ASSUME NEW c \in Chunks, Unraced(c)'
      PROVE  EditKept(c)'
  <2>1. EditKept(c)
    BY <1>5 DEF SInv, Unraced
  <2>2. Covered(c)' <=> Covered(c)
    BY DEF Covered, InFlush, Editing, Erasing
  <2>3. CopyFits(c)'
    BY <2>1 DEF EditKept, CopyFits
  <2> QED BY <2>1, <2>2, <2>3, <1>3, KeptStep DEF Superseded
<1> QED BY <1>1, <1>2, <1>4, <1>5 DEF SInv

LEMMA StopStep ==
  ASSUME SInv, StopSteps
  PROVE  SInv'
<1> USE DEF worldVars, poolVars, stampVars
<1>t. TypeOK /\ Stopping /\ passes \in Int /\ fails \in Nat
  BY SInvParts, Bounds DEF TypeOK
<1>1. CASE StopSimulation
  BY <1>1, <1>t, PhaseStep DEF StopSimulation, Simulating, Stopping
<1>2. CASE ShutdownPool
  BY <1>2, <1>t, PhaseStep DEF ShutdownPool, Stopping
<1>3. CASE StopPersistence
  BY <1>3, <1>t, PhaseStep DEF StopPersistence, Stopping, PassesDone
<1> QED BY <1>1, <1>2, <1>3 DEF StopSteps

LEMMA StutterStep ==
  ASSUME SInv, UNCHANGED vars
  PROVE  SInv'
<1>1. Stopping'
  BY SInvParts DEF vars, Stopping, PassesDone
<1> QED BY <1>1, SInvParts, PhaseStep DEF vars, TypeOK

-----------------------------------------------------------------------------
(* The invariant and what follows from it.                                  *)

LEMMA SInvInit == Init => SInv
<1> SUFFICES ASSUME Init PROVE SInv
  OBVIOUS
<1>1. TypeOK
  <2>1. Idle \in Flushes /\ Free \in Gates /\ <<>> \in Seq(SaveTasks \cup LoadTasks)
    BY DEF Flushes, Gates
  <2>2. 0 \in Content /\ 0 \in OnDisk /\ 0 \in Revision /\ 0 \in 0..FinalPasses /\ 0 \in 0..MaxFails
    BY Bounds, ContentStored DEF Content, OnDisk, Revision
  <2> QED BY <2>1, <2>2 DEF Init, TypeOK
<1>2. Tasks = {}
  BY DEF Init, Tasks, ToSet
<1>3. Holders
  BY DEF Init, Holders, Idle, Free
<1>4. Stamped
  BY <1>2 DEF Init, Stamped
<1>5. Stopping
  BY DEF Init, Stopping
<1>6. ASSUME NEW c \in Chunks
      PROVE  EditKept(c)
  BY <1>2, SameGate DEF Init, EditKept, Stored, Saves, CopyFits
<1> QED BY <1>1, <1>3, <1>4, <1>5, <1>6 DEF SInv

LEMMA SInvNext == SInv /\ [Next]_vars => SInv'
<1> SUFFICES ASSUME SInv, [Next]_vars PROVE SInv'
  OBVIOUS
<1>1. ASSUME NEW c \in Chunks,
             \/ SendChunk(c) \/ SetBlock(c) \/ PollPendingLoads(c)
             \/ UnloadClean(c) \/ UnloadDirty(c)
             \/ UnloadSnapshotFails(c) \/ UnloadOverCap(c)
      PROVE  SInv'
  BY <1>1, SendChunkStep, SetBlockStep, PollPendingLoadsStep, UnloadCleanStep,
     UnloadDirtyStep, UnloadSnapshotFailsStep, UnloadOverCapStep
<1>2. CASE FireEdit \/ EraseChunk
  BY <1>2, FireEditStep, EraseChunkStep
<1>3. CASE FlushSteps
  BY <1>3, SwapDirtyStep, FlushMissingStep, FlushFoundStep, StageCopyStep, StageStoreStep,
     StageRenameStep, StageFailsStep, SaveBarrierStep DEF FlushSteps
<1>4. ASSUME NEW w \in Workers, PoolSteps(w)
      PROVE  SInv'
  BY <1>4, TakeTaskStep, LoadChunkStep, CheckStampStep, StoreBeginsStep, StoreEndsStep,
     StoreFailsStep DEF PoolSteps
<1>5. CASE StopSteps
  BY <1>5, StopStep
<1>6. CASE Stopped \/ UNCHANGED vars
  BY <1>6, StutterStep DEF Stopped
<1> QED BY <1>1, <1>2, <1>3, <1>4, <1>5, <1>6 DEF Next

\* What a chunk has been through is never forgotten.
LEMMA RacesKept ==
  ASSUME SInv, [Next]_vars
  PROVE  races \subseteq races'
<1> USE DEF Race
<1>1. ASSUME NEW c \in Chunks,
             \/ SendChunk(c) \/ SetBlock(c) \/ PollPendingLoads(c)
             \/ UnloadClean(c) \/ UnloadDirty(c)
             \/ UnloadSnapshotFails(c) \/ UnloadOverCap(c)
      PROVE  races \subseteq races'
  BY <1>1 DEF SendChunk, SetBlock, PollPendingLoads, GenerateIfMissing, UnloadClean,
              UnloadDirty, UnloadSnapshotFails, UnloadOverCap
<1>2. CASE FireEdit \/ EraseChunk
  BY <1>2 DEF FireEdit, EraseChunk
<1>3. CASE FlushSteps
  BY <1>3 DEF FlushSteps, SwapDirty, FlushMissing, FlushFound, StageCopy, StageStore,
              StageRename, StageFails, SaveBarrier
<1>4. ASSUME NEW w \in Workers, PoolSteps(w)
      PROVE  races \subseteq races'
  BY <1>4 DEF PoolSteps, TakeTask, LoadChunk, CheckStamp, StoreBegins, StoreEnds, StoreFails
<1>5. CASE StopSteps \/ Stopped \/ UNCHANGED vars
  BY <1>5 DEF StopSteps, StopSimulation, ShutdownPool, StopPersistence, Stopped, vars
<1> QED BY <1>1, <1>2, <1>3, <1>4, <1>5 DEF Next

\* Every structure holds what its type allows, holders and stamps are as the
\* code keeps them, and each chunk without races has its last edit somewhere.
THEOREM StoreInvariant == Spec => []SInv
BY SInvInit, SInvNext, PTL DEF Spec

\* Edits, evictions, reloads, both savers and shutdown together lose an edit
\* of a chunk only through one of the five races.
THEOREM EditsKept == Spec => []UnracedKeepsEdits
<1>1. SInv => UnracedKeepsEdits
  <2> SUFFICES ASSUME SInv, NEW c \in Chunks, Unraced(c)
      PROVE  IF live[c] # NoChunk
               THEN live[c].data = edits[c] /\ (disk[c] # edits[c] => Accounted(c))
               ELSE disk[c] = edits[c] \/ \E t \in Saves(c) : t.data = edits[c]
    BY DEF UnracedKeepsEdits
  <2>1. EditKept(c)
    BY DEF SInv
  <2>2. Covered(c) => Accounted(c)
    <3>1. gate = Editing(c) \/ gate = Erasing(c, TRUE) => gate # Free /\ gate.c = c
      <4>1. Editing(c).c = c /\ Erasing(c, TRUE).c = c
        BY DEF Editing, Erasing
      <4> QED BY <4>1, SameGate
    <3> QED BY <3>1 DEF Covered, Accounted
  <2> QED BY <2>1, <2>2 DEF EditKept, Stored
<1> QED BY <1>1, StoreInvariant, PTL

\* After a stop with fewer failures than final passes, the last edit of every
\* chunk without races is on disk.
THEOREM StopSaves == Spec => []StoppedIsSaved
<1>1. SInv => StoppedIsSaved
  <2> SUFFICES ASSUME SInv, phase = "stopped", fails < FinalPasses, NEW c \in Chunks, Unraced(c)
      PROVE  disk[c] = edits[c]
    BY DEF StoppedIsSaved
  <2>t. TypeOK /\ Holders /\ Stopping /\ EditKept(c)
    BY DEF SInv
  <2>1. /\ queue = <<>> /\ \A w \in Workers : busy[w] = NoChunk
        /\ dirty # {} => passes <= fails
        /\ flush = Idle /\ PassesDone /\ gate = Free
    BY <2>t DEF Stopping
  <2>2. dirty = {}
    BY <2>1, <2>t, Bounds DEF PassesDone, TypeOK
  <2>3. stage = NoChunk
    BY StageWhileUp
  <2>4. Saves(c) = {}
    BY <2>1 DEF Saves, Tasks, ToSet
  <2>5. ~Covered(c)
    BY <2>1, <2>2, <2>3, SameGate DEF Covered, InFlush, Idle
  <2> QED BY <2>4, <2>5, <2>t DEF EditKept, Stored
<1> QED BY <1>1, StoreInvariant, PTL

\* While stores succeed, the coordinator keeps a stamp of a chunk only as
\* long as a save carrying it is queued or running: it leaks nothing.
THEOREM StampsAreReleased == Spec => []StampsHaveSaves
<1>1. Init => StampsHaveSaves
  BY DEF Init, StampsHaveSaves
<1>2. SInv /\ StampsHaveSaves /\ [Next]_vars => StampsHaveSaves'
  <2> SUFFICES ASSUME SInv, StampsHaveSaves, [Next]_vars, NEW c \in Chunks,
                      latest'[c] # NoChunk, <<"failed", c>> \notin races'
      PROVE  \E t \in Saves(c)' : t.stamp = latest'[c] /\ t.rev = stampRev'[t.stamp]
    BY DEF StampsHaveSaves
  <2>t. TypeOK /\ Stamped /\ Holders
    BY SInvParts
  <2>g. ASSUME races \subseteq races', latest'[c] = latest[c]
        PROVE  \E t \in Saves(c) : t.stamp = latest[c] /\ t.rev = stampRev[t.stamp]
    BY <2>g DEF StampsHaveSaves
  <2>u. ASSUME races \subseteq races', latest' = latest, stampRev' = stampRev,
               \A t \in Saves(c) : Superseded(t) \/ t \in Saves(c)'
        PROVE  \E t \in Saves(c)' : t.stamp = latest'[c] /\ t.rev = stampRev'[t.stamp]
    BY <2>u, <2>g DEF Superseded
  <2>r. races \subseteq races'
    BY RacesKept
  <2>1. CASE latest' = latest /\ stampRev' = stampRev /\ Tasks \subseteq Tasks'
    BY <2>1, <2>r, <2>u DEF Saves
  <2>2. ASSUME NEW w \in Workers, PoolSteps(w)
        PROVE  \E t \in Saves(c)' : t.stamp = latest'[c] /\ t.rev = stampRev'[t.stamp]
    <3> DEFINE k == busy[w].task
    <3>1. CASE TakeTask(w)
      <4>1. Tasks' = Tasks /\ latest' = latest /\ stampRev' = stampRev
        BY <3>1, <2>t, TasksTake DEF TakeTask, stampVars
      <4> QED BY <4>1, <2>1
    <3>2. CASE LoadChunk(w)
      <4>1. /\ latest' = latest /\ stampRev' = stampRev /\ k.kind = "load"
            /\ \A t : t \in Saves(c) => t \in Saves(c)' \/ t = k
        BY <3>2, TaskEnds DEF LoadChunk, stampVars
      <4>2. k \notin Saves(c)
        BY <4>1 DEF Saves
      <4> QED BY <4>1, <4>2, <2>r, <2>u
    <3>3. CASE CheckStamp(w)
      <4>1. latest' = latest /\ stampRev' = stampRev /\ busy[w] # NoChunk
            /\ queue' = queue
        BY <3>3 DEF CheckStamp, stampVars
      <4>2. CASE Superseded(k)
        <5>1. busy' = [busy EXCEPT ![w] = NoChunk]
          BY <3>3, <4>2 DEF CheckStamp
        <5>2. \A t : t \in Saves(c) => t \in Saves(c)' \/ t = k
          BY <4>1, <5>1, TaskEnds
        <5> QED BY <4>1, <4>2, <5>2, <2>r, <2>u
      <4>3. CASE ~Superseded(k)
        <5> DEFINE b == [busy[w] EXCEPT !.step = "write"]
        <5>1. busy' = [busy EXCEPT ![w] = b] /\ k.kind = "save"
          BY <3>3, <4>3 DEF CheckStamp
        <5>2. k \in SaveTasks /\ b = [task |-> k, step |-> "write"]
          <6>1. busy[w] \in Works /\ k \in SaveTasks
            BY <4>1, <5>1, <2>t, WorkShape DEF TypeOK
          <6> QED BY <6>1 DEF Works
        <5>3. b \in Works /\ b.task = k
          BY <5>2 DEF Works
        <5> HIDE DEF b
        <5>4. Tasks' = Tasks
          BY <2>t, <4>1, <5>1, <5>3, TasksGoOn
        <5> QED BY <4>1, <5>4, <2>1
      <4> QED BY <4>2, <4>3
    <3>4. CASE StoreBegins(w)
      BY <3>4, SameTasks, <2>1 DEF StoreBegins, stampVars
    <3>5. CASE StoreEnds(w)
      <4>1. /\ storing # NoChunk /\ storing.w = w /\ latest' = ReleaseStamp(k)
            /\ stampRev' = stampRev /\ queue' = queue /\ busy' = [busy EXCEPT ![w] = NoChunk]
        BY <3>5 DEF StoreEnds
      <4>2. busy[w] # NoChunk
        BY <4>1, <2>t DEF Holders
      <4>3. /\ k.c \in Chunks /\ \A t : t \in Saves(c) => t \in Saves(c)' \/ t = k
        BY <4>1, <4>2, TaskEnds
      <4> HIDE DEF k
      <4>4. latest'[c] = latest[c] /\ (k.c = c => latest[c] # k.stamp \/ Superseded(k))
        BY <4>1, <4>3, <2>t DEF ReleaseStamp, TypeOK
      <4>5. PICK t \in Saves(c) : t.stamp = latest[c] /\ t.rev = stampRev[t.stamp]
        BY <4>4, <2>r, <2>g
      <4>6. t # k
        BY <4>4, <4>5 DEF Saves, Superseded
      <4> QED BY <4>1, <4>3, <4>4, <4>5, <4>6
    <3>6. CASE StoreFails(w)
      <4>1. /\ storing # NoChunk /\ storing.w = w /\ latest' = latest
            /\ stampRev' = stampRev /\ queue' = queue /\ busy' = [busy EXCEPT ![w] = NoChunk]
            /\ Race("failed", {k.c})
        BY <3>6 DEF StoreFails, stampVars
      <4>2. busy[w] # NoChunk
        BY <4>1, <2>t DEF Holders
      <4>3. \A d : k.c # d => Saves(d)' = Saves(d)
        BY <4>1, <4>2, TaskEnds
      <4>4. k.c # c
        BY <4>1 DEF Race
      <4> QED BY <4>1, <4>3, <4>4, <2>r, <2>u
    <3> QED BY <2>2, <3>1, <3>2, <3>3, <3>4, <3>5, <3>6 DEF PoolSteps
  <2>3. ASSUME NEW d \in Chunks, UnloadDirty(d)
        PROVE  \E t \in Saves(c)' : t.stamp = latest'[c] /\ t.rev = stampRev'[t.stamp]
    <3> DEFINE s == StampFor(d)
               k == SaveTask(d, s)
    <3>1. /\ latest[d] # NoChunk \/ FreeStamps # {}
          /\ live[d] # NoChunk /\ queue' = Append(queue, k) /\ latest' = [latest EXCEPT ![d] = s]
          /\ stampRev' = [stampRev EXCEPT ![s] = live[d].rev] /\ busy' = busy
      BY <2>3 DEF UnloadDirty
    <3>2. s \in Stamps /\ \A e \in Chunks : latest[e] = s => e = d
      BY <3>1, OwnStamp
    <3> HIDE DEF s
    <3>3. /\ k \in SaveTasks /\ k.kind = "save" /\ k.c = d /\ k.rev = live[d].rev /\ k.stamp = s
      <4>1. live[d].data \in Content /\ live[d].rev \in Revision
        BY <3>1, <2>t DEF TypeOK, Loaded
      <4>2. k \in SaveTasks
        BY <4>1, <3>2 DEF SaveTask, SaveTasks
      <4> QED BY <4>2 DEF SaveTask
    <3> HIDE DEF k
    <3>4. Tasks' = Tasks \cup {k}
      BY <3>1, <3>3, <2>t, TasksAppend
    <3>5. CASE c = d
      <4>1. k \in Saves(c)' /\ latest'[c] = s /\ stampRev'[s] = live[d].rev
        BY <3>1, <3>2, <3>3, <3>4, <3>5, <2>t DEF Saves, TypeOK
      <4> QED BY <4>1, <3>3
    <3>6. CASE c # d
      <4>1. latest'[c] = latest[c] /\ latest[c] # s /\ latest[c] \in Stamps
        BY <3>1, <3>2, <3>6, <2>t DEF TypeOK
      <4>2. PICK t \in Saves(c) : t.stamp = latest[c] /\ t.rev = stampRev[t.stamp]
        BY <4>1, <2>r, <2>g
      <4>3. stampRev'[t.stamp] = stampRev[t.stamp] /\ t \in Saves(c)'
        BY <4>1, <4>2, <3>1, <3>2, <3>4, <2>t DEF Saves, TypeOK
      <4> QED BY <4>1, <4>2, <4>3
    <3> QED BY <3>5, <3>6
  <2>4. ASSUME NEW d \in Chunks, SendChunk(d)
        PROVE  Tasks \subseteq Tasks' /\ latest' = latest /\ stampRev' = stampRev
    <3>1. \/ queue' = queue /\ busy' = busy
          \/ queue' = Append(queue, LoadTask(d)) /\ busy' = busy
      BY <2>4 DEF SendChunk
    <3>2. LoadTask(d) \in SaveTasks \cup LoadTasks
      BY DEF LoadTask, LoadTasks
    <3> QED BY <3>1, <3>2, <2>t, <2>4, SameTasks, TasksAppend DEF SendChunk, stampVars
  <2>5. CASE \/ \E d \in Chunks : \/ SetBlock(d) \/ PollPendingLoads(d) \/ UnloadClean(d)
                                  \/ UnloadSnapshotFails(d) \/ UnloadOverCap(d)
             \/ FireEdit \/ EraseChunk
    BY <2>5, <2>1, SameTasks
       DEF SetBlock, PollPendingLoads, UnloadClean, UnloadSnapshotFails, UnloadOverCap,
           FireEdit, EraseChunk, poolVars, stampVars
  <2>6. CASE FlushSteps
    BY <2>6, <2>1, SameTasks
       DEF FlushSteps, SwapDirty, FlushMissing, FlushFound, StageCopy, StageStore, StageRename,
           StageFails, SaveBarrier, poolVars, stampVars
  <2>7. CASE StopSteps \/ Stopped \/ UNCHANGED vars
    BY <2>7, <2>1, SameTasks
       DEF StopSteps, StopSimulation, ShutdownPool, StopPersistence, Stopped, vars, poolVars,
           stampVars
  <2> QED BY <2>1, <2>2, <2>3, <2>4, <2>5, <2>6, <2>7 DEF Next
<1> QED BY <1>1, <1>2, StoreInvariant, PTL DEF Spec

\* Whatever part a behaviour of the run has, its chunks behave as ChunkStore says.
LEMMA ChunksRun == PersistenceSpec => Spec
<1>1. PersistenceInit => Init
  BY DEF PersistenceInit
<1>2. PersistenceNext => [Next]_vars
  BY DEF PersistenceNext, chunks
<1>3. UNCHANGED <<part, chunks, region, levels, door, progress>> => UNCHANGED vars
  BY DEF chunks
<1> QED BY <1>1, <1>2, <1>3, PTL DEF PersistenceSpec, Spec

-----------------------------------------------------------------------------
allVars == <<part, chunks, region, levels, door, progress>>

\* A behaviour stays in its part.
LEMMA PartStays == PersistenceNext \/ UNCHANGED allVars => part' = part
BY DEF PersistenceNext, allVars

-----------------------------------------------------------------------------
(* level.dat: what survives a crash of the process, or a level.dat that    *)
(* the disk spoils, for any number of saves.                               *)

LevelFiles == [dat : -saves..saves, new : -saves..saves, old : -saves..saves]

LevelTypes ==
    /\ saves \in Nat /\ floor \in 0..saves /\ backup \in 0..floor /\ exposed \in BOOLEAN
    /\ \A v \in L!Views : v \in LevelFiles

\* How far the save, or the recovery, has come.
LevelStaged ==
    /\ pc = "off" => earlier = {}
    /\ pc \in L!Saving => saves > 0
    /\ pc = "writing" => level.new = -saves
    /\ pc \in {"written", "backedUp", "ready"} => level.new = saves
    /\ pc = "renamed" => level.dat = saves /\ level.new = L!Absent
    /\ pc = "promote" =>
          L!Whole(level.new) /\ \A v \in L!Views : v.new = level.new /\ ~L!Whole(v.dat)
    /\ pc = "promoted" =>
          /\ L!Whole(level.dat) /\ level.new = L!Absent
          /\ \A v \in L!Views : L!Recovered(v) = level.dat

\* What the process, which promoted what it runs on, has beside its staged file.
LevelRunning ==
    pc \in L!Saving \cup {"up"} /\ ~exposed =>
        /\ \/ L!Whole(level.dat) /\ level.dat >= floor
           \/ level.dat = L!Absent /\ level.old = floor
        /\ pc = "up" /\ level.new # L!Absent => L!Whole(level.dat) /\ earlier = {}
        /\ pc \in {"backedUp", "ready", "renamed"} /\ level.old # L!Absent => level.old >= floor

\* After any crash the last committed level is in level.dat, the one before it in
\* level.dat_old, and a staged file that can be read is no older.
LevelBacked ==
    backup > 0 =>
        /\ ~exposed /\ pc \notin L!Booting
        /\ \A v \in L!Views : /\ L!Whole(v.dat) /\ v.old >= backup
                              /\ L!Whole(v.new) => v.new >= backup

LevelInv == LevelTypes /\ LevelStaged /\ LevelRunning /\ LevelBacked /\ L!LevelSurvives

-----------------------------------------------------------------------------
(* Files and views. *)

LEMMA LevelInView == level \in L!Views /\ level' \in L!Views'
BY DEF L!Views

LEMMA Fields ==
    ASSUME NEW k \in Nat, NEW v \in [dat : -k..k, new : -k..k, old : -k..k], NEW x \in -k..k
    PROVE  /\ v.dat \in -k..k /\ v.new \in -k..k /\ v.old \in -k..k
           /\ [v EXCEPT !.new = x] \in [dat : -k..k, new : -k..k, old : -k..k]
           /\ [v EXCEPT !.dat = x] \in [dat : -k..k, new : -k..k, old : -k..k]
           /\ [v EXCEPT !.old = x] \in [dat : -k..k, new : -k..k, old : -k..k]
           /\ [v EXCEPT !.new = x].dat = v.dat /\ [v EXCEPT !.new = x].old = v.old
           /\ [v EXCEPT !.new = x].new = x
           /\ [v EXCEPT !.dat = x].new = v.new /\ [v EXCEPT !.dat = x].old = v.old
           /\ [v EXCEPT !.dat = x].dat = x
           /\ [v EXCEPT !.old = x].dat = v.dat /\ [v EXCEPT !.old = x].new = v.new
           /\ [v EXCEPT !.old = x].old = x
OBVIOUS

\* A file that some save wrote was written by a save that was begun.
LEMMA Wider ==
    ASSUME NEW k \in Nat, NEW m \in Nat, k <= m,
           NEW v \in [dat : -k..k, new : -k..k, old : -k..k]
    PROVE  v \in [dat : -m..m, new : -m..m, old : -m..m]
OBVIOUS

LEMMA RenamedViews ==
    ASSUME NEW d, L!Renames(d)
    PROVE  level' = d /\ L!Views' = L!Views \cup {d}
BY DEF L!Renames, L!Views

\* After the staged file was written, a view is one from before with the new
\* content in its staged file, or one that had another staged file.
LEMMA RewrittenViews ==
    ASSUME NEW to, L!Rewrites(level.new, to), NEW v \in L!Views'
    PROVE  \E u \in L!Views : v = u \/ (u.new = level.new /\ v = [u EXCEPT !.new = to])
BY DEF L!Rewrites, L!Views

LEMMA FromWhole ==
    ASSUME NEW v
    PROVE  /\ L!Whole(v.dat) => L!Recovered(v) = v.dat
           /\ ~L!Whole(v.dat) /\ L!Whole(v.new) => L!Recovered(v) = v.new
           /\ ~L!Whole(v.dat) /\ ~L!Whole(v.new) /\ L!Whole(v.old) => L!Recovered(v) = v.old
           /\ ~L!Whole(v.dat) /\ ~L!Whole(v.new) /\ ~L!Whole(v.old) => L!Recovered(v) = L!Absent
BY DEF L!Recovered

-----------------------------------------------------------------------------
(* The steps of a save. *)

LEMMA OpenTempKeeps ==
    ASSUME LevelInv, L!OpenTemp
    PROVE  LevelInv'
<1> DEFINE k == saves + 1
<1>1. /\ pc = "up" /\ pc' = "writing" /\ saves' = k /\ k \in Nat /\ saves \in Nat /\ k > 0
      /\ floor' = floor /\ backup' = backup /\ exposed' = exposed
      /\ floor \in 0..saves /\ backup \in 0..floor /\ exposed \in BOOLEAN
  BY DEF LevelInv, LevelTypes, L!OpenTemp, L!Goes
<1>2. \A v \in L!Views : v \in [dat : -k..k, new : -k..k, old : -k..k]
  BY <1>1, Wider DEF LevelInv, LevelTypes, LevelFiles
<1>3. \A v \in L!Views : /\ [v EXCEPT !.new = -k] \in [dat : -k..k, new : -k..k, old : -k..k]
                       /\ [v EXCEPT !.new = -k].dat = v.dat /\ [v EXCEPT !.new = -k].old = v.old
                       /\ [v EXCEPT !.new = -k].new = -k
                       /\ v.dat \in -k..k /\ v.new \in -k..k /\ v.old \in -k..k
  BY <1>1, <1>2, Fields
<1>4. level' = [level EXCEPT !.new = -k]
  BY <1>1 DEF L!OpenTemp, L!Renames, L!Rewrites
<1>5. ASSUME NEW v \in L!Views'
      PROVE  \/ v \in L!Views
             \/ v = [level EXCEPT !.new = -k] /\ level.new = L!Absent
             \/ level.new # L!Absent /\ \E u \in L!Views : v = [u EXCEPT !.new = -k]
  <2>1. CASE level.new = L!Absent
    BY <2>1, <1>1, RenamedViews DEF L!OpenTemp
  <2>2. CASE level.new # L!Absent
    BY <2>2, <1>1, RewrittenViews DEF L!OpenTemp
  <2> QED BY <2>1, <2>2
<1>6. \A v \in L!Views' : v \in [dat : -k..k, new : -k..k, old : -k..k]
  BY <1>2, <1>3, <1>5, LevelInView
<1>7. LevelTypes'
  BY <1>1, <1>6 DEF LevelTypes, LevelFiles
<1>8. LevelStaged'
  BY <1>1, <1>3, <1>4, LevelInView DEF LevelStaged, L!Saving, L!Booting
<1>9. LevelRunning'
  BY <1>1, <1>3, <1>4, LevelInView DEF LevelInv, LevelRunning, L!Saving
<1>10. LevelBacked'
  <2>1. ASSUME NEW v \in L!Views', backup > 0
        PROVE  L!Whole(v.dat) /\ v.old >= backup /\ (L!Whole(v.new) => v.new >= backup)
    <3>1. ~L!Whole(-k)
      BY <1>1 DEF L!Whole
    <3> QED BY <2>1, <3>1, <1>3, <1>5, LevelInView DEF LevelInv, LevelBacked
  <2> QED BY <2>1, <1>1 DEF LevelInv, LevelBacked, L!Booting
<1>11. L!LevelSurvives'
  <2>1. ASSUME NEW v \in L!Views', ~exposed
        PROVE  L!Recovered(v) >= floor
    <3>1. CASE v \in L!Views
      BY <3>1, <2>1 DEF LevelInv, L!LevelSurvives, L!BootedLevelSurvives
    <3>2. CASE v = [level EXCEPT !.new = -k] /\ level.new = L!Absent
      <4>1. v.dat = level.dat /\ v.old = level.old /\ v.new = -k /\ ~L!Whole(-k) /\ ~L!Whole(level.new)
        BY <3>2, <1>1, <1>3, LevelInView DEF L!Whole, L!Absent
      <4>2. L!Recovered(v) = L!Recovered(level)
        BY <4>1 DEF L!Recovered
      <4> QED BY <4>2, <2>1, LevelInView DEF LevelInv, L!LevelSurvives, L!BootedLevelSurvives
    <3>3. CASE level.new # L!Absent /\ \E u \in L!Views : v = [u EXCEPT !.new = -k]
      <4>1. L!Whole(level.dat) /\ level.dat >= floor /\ earlier = {}
        BY <3>3, <2>1, <1>1 DEF LevelInv, LevelRunning, L!Whole, L!Absent
      <4>2. v.dat = level.dat
        BY <3>3, <4>1, <1>3 DEF L!Views
      <4> QED BY <4>1, <4>2, FromWhole
    <3> QED BY <3>1, <3>2, <3>3, <1>5
  <2> QED BY <2>1, <1>1 DEF L!LevelSurvives, L!BootedLevelSurvives
<1> QED BY <1>7, <1>8, <1>9, <1>10, <1>11 DEF LevelInv

LEMMA WriteTempKeeps ==
    ASSUME LevelInv, L!WriteTemp
    PROVE  LevelInv'
<1>1. /\ pc = "writing" /\ pc' = "written" /\ saves \in Nat /\ saves > 0 /\ level.new = -saves
      /\ UNCHANGED <<saves, floor, backup, exposed>> /\ L!Rewrites(level.new, saves)
      /\ floor \in 0..saves /\ backup \in 0..floor /\ exposed \in BOOLEAN
  BY DEF LevelInv, LevelTypes, LevelStaged, L!Saving, L!WriteTemp, L!Goes, L!Same
<1>2. \A v \in L!Views : v \in [dat : -saves..saves, new : -saves..saves, old : -saves..saves]
  BY DEF LevelInv, LevelTypes, LevelFiles
<1>3. \A v \in L!Views :
         /\ [v EXCEPT !.new = saves] \in [dat : -saves..saves, new : -saves..saves, old : -saves..saves]
         /\ [v EXCEPT !.new = saves].dat = v.dat /\ [v EXCEPT !.new = saves].old = v.old
         /\ [v EXCEPT !.new = saves].new = saves
         /\ v.dat \in -saves..saves /\ v.new \in -saves..saves /\ v.old \in -saves..saves
  BY <1>1, <1>2, Fields
<1>4. level' = [level EXCEPT !.new = saves]
  BY <1>1 DEF L!Rewrites
<1>5. \A v \in L!Views' :
         \E u \in L!Views : v = u \/ (u.new = -saves /\ v = [u EXCEPT !.new = saves])
  BY <1>1, RewrittenViews
<1>6. LevelTypes'
  BY <1>1, <1>2, <1>3, <1>5 DEF LevelTypes, LevelFiles
<1>7. LevelStaged'
  BY <1>1, <1>3, <1>4, LevelInView DEF LevelStaged, L!Saving, L!Booting
<1>8. LevelRunning'
  BY <1>1, <1>3, <1>4, LevelInView DEF LevelInv, LevelRunning, L!Saving
<1>9. LevelBacked'
  <2>1. ASSUME NEW v \in L!Views', backup > 0
        PROVE  L!Whole(v.dat) /\ v.old >= backup /\ (L!Whole(v.new) => v.new >= backup)
    <3>1. saves >= backup
      BY <1>1
    <3> QED BY <2>1, <3>1, <1>3, <1>5 DEF LevelInv, LevelBacked
  <2> QED BY <2>1, <1>1 DEF LevelInv, LevelBacked, L!Booting
<1>10. L!LevelSurvives'
  <2>1. ASSUME NEW v \in L!Views', ~exposed
        PROVE  L!Recovered(v) >= floor
    <3>1. PICK u \in L!Views : v = u \/ (u.new = -saves /\ v = [u EXCEPT !.new = saves])
      BY <1>5
    <3>2. L!Recovered(u) >= floor
      BY <2>1 DEF LevelInv, L!LevelSurvives, L!BootedLevelSurvives
    <3>3. CASE v = u
      BY <3>2, <3>3
    <3>4. CASE u.new = -saves /\ v = [u EXCEPT !.new = saves]
      <4>1. v.dat = u.dat /\ v.new = saves /\ L!Whole(v.new)
        BY <3>4, <1>1, <1>3 DEF L!Whole
      <4> QED BY <4>1, <3>2, <1>1, FromWhole
    <3> QED BY <3>1, <3>3, <3>4
  <2> QED BY <2>1, <1>1 DEF L!LevelSurvives, L!BootedLevelSurvives
<1> QED BY <1>6, <1>7, <1>8, <1>9, <1>10 DEF LevelInv

LEMMA ReplaceBackupKeeps ==
    ASSUME LevelInv, L!ReplaceBackup
    PROVE  LevelInv'
<1> DEFINE d == [level EXCEPT !.old = level.dat]
<1>1. /\ pc = "written" /\ pc' = "backedUp" /\ saves \in Nat /\ saves > 0 /\ level.new = saves
      /\ UNCHANGED <<saves, floor, backup, exposed>> /\ level.dat # L!Absent
      /\ level' = d /\ L!Views' = L!Views \cup {d}
      /\ floor \in 0..saves /\ backup \in 0..floor /\ exposed \in BOOLEAN
  BY RenamedViews DEF LevelInv, LevelTypes, LevelStaged, L!Saving, L!ReplaceBackup, L!Goes,
     L!Same
<1>2. level \in [dat : -saves..saves, new : -saves..saves, old : -saves..saves]
  BY LevelInView DEF LevelInv, LevelTypes, LevelFiles
<1>3. /\ d \in [dat : -saves..saves, new : -saves..saves, old : -saves..saves]
      /\ d.dat = level.dat /\ d.new = level.new /\ d.old = level.dat
      /\ level.dat \in -saves..saves
  BY <1>1, <1>2, Fields
<1>4. ~exposed => L!Whole(level.dat) /\ level.dat >= floor
  BY <1>1 DEF LevelInv, LevelRunning, L!Saving, L!Absent
<1>5. LevelTypes'
  BY <1>1, <1>3 DEF LevelInv, LevelTypes, LevelFiles
<1>6. LevelStaged'
  BY <1>1, <1>3 DEF LevelStaged, L!Saving, L!Booting
<1>7. LevelRunning'
  BY <1>1, <1>3, <1>4 DEF LevelRunning, L!Saving
<1>8. LevelBacked'
  BY <1>1, <1>3, <1>4 DEF LevelInv, LevelBacked, L!Booting
<1>9. L!LevelSurvives'
  <2>1. ~exposed => L!Recovered(d) >= floor
    BY <1>3, <1>4, FromWhole
  <2> QED BY <2>1, <1>1 DEF LevelInv, L!LevelSurvives, L!BootedLevelSurvives
<1> QED BY <1>5, <1>6, <1>7, <1>8, <1>9 DEF LevelInv

LEMMA SyncKeeps ==
    ASSUME LevelInv, L!SyncBackup \/ L!NoBackup
    PROVE  LevelInv'
<1>1. /\ pc' = "ready" /\ saves \in Nat /\ saves > 0 /\ level.new = saves
      /\ UNCHANGED <<saves, floor, backup, exposed, level>> /\ L!Views' \subseteq L!Views
  BY DEF LevelInv, LevelTypes, LevelStaged, L!Saving, L!SyncBackup, L!NoBackup, L!Goes,
     L!Same, L!Views
<1>2. LevelTypes'
  BY <1>1 DEF LevelInv, LevelTypes, LevelFiles
<1>3. LevelStaged'
  BY <1>1 DEF LevelStaged, L!Saving, L!Booting
<1>4. LevelRunning'
  <2>1. CASE L!SyncBackup
    BY <1>1, <2>1 DEF LevelInv, LevelRunning, L!SyncBackup, L!Goes, L!Saving
  <2>2. CASE L!NoBackup
    <3>1. floor \in Nat /\ pc = "written" /\ level.dat = L!Absent
      BY <2>2 DEF L!NoBackup, L!Goes, LevelInv, LevelTypes
    <3>2. ~exposed => level.old = floor
      BY <3>1 DEF LevelInv, LevelRunning, L!Saving, L!Absent, L!Whole
    <3> QED BY <1>1, <3>1, <3>2 DEF LevelRunning
  <2> QED BY <2>1, <2>2
<1>5. LevelBacked'
  <2>1. pc \notin L!Booting
    BY DEF L!SyncBackup, L!NoBackup, L!Goes, L!Booting
  <2> QED BY <1>1, <2>1 DEF LevelInv, LevelBacked, L!Booting
<1>6. L!LevelSurvives'
  BY <1>1 DEF LevelInv, L!LevelSurvives, L!BootedLevelSurvives
<1> QED BY <1>2, <1>3, <1>4, <1>5, <1>6 DEF LevelInv

LEMMA ReplaceLevelKeeps ==
    ASSUME LevelInv, L!ReplaceLevel
    PROVE  LevelInv'
<1> DEFINE d == [level EXCEPT !.dat = level.new, !.new = L!Absent]
<1>1. /\ pc = "ready" /\ pc' = "renamed" /\ saves \in Nat /\ saves > 0 /\ level.new = saves
      /\ UNCHANGED <<saves, floor, backup, exposed>>
      /\ level' = d /\ L!Views' = L!Views \cup {d}
      /\ floor \in 0..saves /\ backup \in 0..floor /\ exposed \in BOOLEAN
  BY RenamedViews DEF LevelInv, LevelTypes, LevelStaged, L!Saving, L!ReplaceLevel, L!Goes,
     L!Same
<1>2. level \in [dat : -saves..saves, new : -saves..saves, old : -saves..saves]
  BY LevelInView DEF LevelInv, LevelTypes, LevelFiles
<1>3. /\ d \in [dat : -saves..saves, new : -saves..saves, old : -saves..saves]
      /\ d.dat = saves /\ d.new = L!Absent /\ d.old = level.old /\ level.old \in -saves..saves
  <2>1. saves \in -saves..saves /\ L!Absent \in -saves..saves
    BY <1>1 DEF L!Absent
  <2> QED BY <2>1, <1>1, <1>2
<1>4. LevelTypes'
  BY <1>1, <1>3 DEF LevelInv, LevelTypes, LevelFiles
<1>5. LevelStaged'
  BY <1>1, <1>3 DEF LevelStaged, L!Saving, L!Booting
<1>6. LevelRunning'
  BY <1>1, <1>3 DEF LevelInv, LevelRunning, L!Saving, L!Whole
<1>7. LevelBacked'
  <2>1. L!Whole(d.dat) /\ ~L!Whole(d.new)
    BY <1>1, <1>3 DEF L!Whole, L!Absent
  <2>2. backup > 0 => ~exposed /\ d.old >= backup
    BY <1>3, LevelInView DEF LevelInv, LevelBacked
  <2>3. backup > 0 => \A v \in L!Views' : /\ L!Whole(v.dat) /\ v.old >= backup
                                          /\ L!Whole(v.new) => v.new >= backup
    BY <2>1, <2>2, <1>1 DEF LevelInv, LevelBacked
  <2> QED BY <2>2, <2>3, <1>1 DEF LevelBacked, L!Booting
<1>8. L!LevelSurvives'
  <2>1. L!Recovered(d) = saves
    BY <1>1, <1>3 DEF L!Recovered, L!Whole
  <2> QED BY <2>1, <1>1 DEF LevelInv, L!LevelSurvives, L!BootedLevelSurvives
<1> QED BY <1>4, <1>5, <1>6, <1>7, <1>8 DEF LevelInv

LEMMA CommitKeeps ==
    ASSUME LevelInv, L!Commit
    PROVE  LevelInv'
<1>1. /\ pc = "renamed" /\ pc' = "up" /\ saves \in Nat /\ saves > 0
      /\ level.dat = saves /\ level.new = L!Absent /\ exposed' = FALSE /\ floor' = saves
      /\ saves' = saves /\ level' = level /\ L!Views' = {level}
      /\ floor \in 0..saves
  BY DEF LevelInv, LevelTypes, LevelStaged, L!Saving, L!Commit, L!Goes, L!Views
<1>2. level \in [dat : -saves..saves, new : -saves..saves, old : -saves..saves]
  BY LevelInView DEF LevelInv, LevelTypes, LevelFiles
<1>3. /\ backup' \in 0..saves
      /\ backup' > 0 => level.old >= backup'
  BY <1>1, <1>2 DEF L!Commit, LevelInv, LevelRunning, L!Saving
<1>4. LevelTypes'
  <2>1. level \in LevelFiles'
    BY <1>1, <1>2 DEF LevelFiles
  <2>2. \A v \in L!Views' : v \in LevelFiles'
    BY <2>1, <1>1
  <2>3. saves' \in Nat /\ floor' \in 0..saves' /\ backup' \in 0..floor'
    BY <1>1, <1>3
  <2>4. exposed' \in BOOLEAN
    BY <1>1
  <2> QED BY <2>2, <2>3, <2>4 DEF LevelTypes
<1>5. LevelStaged'
  BY <1>1 DEF LevelStaged, L!Saving, L!Booting
<1>6. LevelRunning'
  BY <1>1 DEF LevelRunning, L!Whole
<1>7. LevelBacked'
  BY <1>1, <1>3 DEF LevelBacked, L!Booting, L!Whole, L!Absent
<1>8. L!LevelSurvives'
  BY <1>1, FromWhole DEF L!LevelSurvives, L!BootedLevelSurvives, L!Whole
<1> QED BY <1>4, <1>5, <1>6, <1>7, <1>8 DEF LevelInv

LEMMA SaveFailsKeeps ==
    ASSUME LevelInv, L!SaveFails
    PROVE  LevelInv'
<1> DEFINE d == [level EXCEPT !.new = L!Absent]
<1>1. /\ pc \in L!Saving /\ pc' = "up" /\ saves \in Nat
      /\ UNCHANGED <<saves, floor, backup, exposed>>
      /\ level' = d /\ L!Views' = L!Views \cup {d}
      /\ floor \in 0..saves /\ backup \in 0..floor /\ exposed \in BOOLEAN
  BY RenamedViews DEF LevelInv, LevelTypes, L!SaveFails, L!Same
<1>2. level \in [dat : -saves..saves, new : -saves..saves, old : -saves..saves]
  BY LevelInView DEF LevelInv, LevelTypes, LevelFiles
<1>3. /\ d \in [dat : -saves..saves, new : -saves..saves, old : -saves..saves]
      /\ d.dat = level.dat /\ d.new = L!Absent /\ d.old = level.old
      /\ level.dat \in -saves..saves /\ level.old \in -saves..saves
  BY <1>1, <1>2, Fields DEF L!Absent
<1>4. LevelTypes'
  BY <1>1, <1>3 DEF LevelInv, LevelTypes, LevelFiles
<1>5. LevelStaged'
  BY <1>1, <1>3 DEF LevelStaged, L!Saving, L!Booting
<1>6. LevelRunning'
  BY <1>1, <1>3 DEF LevelInv, LevelRunning, L!Saving
<1>7. LevelBacked'
  BY <1>1, <1>3, LevelInView DEF LevelInv, LevelBacked, L!Booting, L!Whole, L!Absent
<1>8. L!LevelSurvives'
  <2>1. ASSUME ~exposed
        PROVE  L!Recovered(d) >= floor
    <3>1. \/ L!Whole(d.dat) /\ d.dat >= floor
          \/ d.dat = L!Absent /\ d.old = floor
      BY <1>1, <1>3, <2>1 DEF LevelInv, LevelRunning
    <3> QED BY <3>1, <1>1, <1>3, FromWhole DEF L!Whole, L!Absent
  <2> QED BY <2>1, <1>1 DEF LevelInv, L!LevelSurvives, L!BootedLevelSurvives
<1> QED BY <1>4, <1>5, <1>6, <1>7, <1>8 DEF LevelInv

-----------------------------------------------------------------------------
(* The steps of a boot. *)

LEMMA BootFromDatKeeps ==
    ASSUME LevelInv, L!BootFromDat
    PROVE  LevelInv'
<1>1. /\ pc = "off" /\ pc' = "up" /\ L!Whole(level.dat) /\ earlier = {} /\ saves \in Nat
      /\ UNCHANGED <<saves, backup, level, earlier>> /\ floor' = level.dat /\ exposed' = FALSE
      /\ L!Views = {level} /\ L!Views' = {level}
      /\ floor \in 0..saves /\ backup \in 0..floor
  BY DEF LevelInv, LevelTypes, LevelStaged, L!BootFromDat, L!Goes, L!Runs, L!Views
<1>2. level \in LevelFiles
  BY <1>1 DEF LevelInv, LevelTypes
<1>3. level.dat \in 1..saves
  BY <1>1, <1>2 DEF LevelFiles, L!Whole
<1>4. backup > 0 => level.dat >= floor
  BY <1>1, FromWhole DEF LevelInv, LevelBacked, L!LevelSurvives, L!BootedLevelSurvives
<1>5. LevelTypes'
  <2>1. \A v \in L!Views' : v \in LevelFiles'
    BY <1>1, <1>2 DEF LevelFiles
  <2>2. saves' \in Nat /\ floor' \in 0..saves' /\ backup' \in 0..floor'
    BY <1>1, <1>3, <1>4
  <2>3. exposed' \in BOOLEAN
    BY <1>1
  <2> QED BY <2>1, <2>2, <2>3 DEF LevelTypes
<1>6. LevelStaged'
  BY <1>1 DEF LevelStaged, L!Saving, L!Booting
<1>7. LevelRunning'
  BY <1>1, <1>3 DEF LevelRunning
<1>8. LevelBacked'
  BY <1>1 DEF LevelInv, LevelBacked, L!Booting
<1>9. L!LevelSurvives'
  BY <1>1, <1>3, FromWhole DEF L!LevelSurvives, L!BootedLevelSurvives
<1> QED BY <1>5, <1>6, <1>7, <1>8, <1>9 DEF LevelInv

\* A process that runs on what is not in level.dat has no older level to keep.
LEMMA NoBackupWithoutLevel ==
    ASSUME LevelInv, ~L!Whole(level.dat) \/ pc \in L!Booting
    PROVE  backup = 0
BY LevelInView DEF LevelInv, LevelTypes, LevelBacked

LEMMA BootFromNewKeeps ==
    ASSUME LevelInv, L!BootFromNew \/ L!PromoteFails
    PROVE  LevelInv'
<1>1. /\ pc' = "up" /\ L!Whole(level.new) /\ saves \in Nat
      /\ UNCHANGED <<saves, backup, level, earlier>> /\ floor' = level.new /\ exposed' = TRUE
      /\ L!Views' = L!Views /\ backup = 0
  BY NoBackupWithoutLevel DEF LevelInv, LevelTypes, LevelStaged, L!BootFromNew,
     L!PromoteFails, L!Goes, L!Runs, L!Views,
     L!Booting, L!Whole, L!Absent
<1>2. level \in LevelFiles
  BY LevelInView DEF LevelInv, LevelTypes
<1>3. level.new \in 1..saves
  BY <1>1, <1>2 DEF LevelFiles, L!Whole
<1>4. LevelTypes'
  <2>1. \A v \in L!Views' : v \in LevelFiles'
    BY <1>1 DEF LevelInv, LevelTypes, LevelFiles
  <2>2. saves' \in Nat /\ floor' \in 0..saves' /\ backup' \in 0..floor'
    BY <1>1, <1>3
  <2>3. exposed' \in BOOLEAN
    BY <1>1
  <2> QED BY <2>1, <2>2, <2>3 DEF LevelTypes
<1>5. LevelStaged' /\ LevelRunning' /\ LevelBacked' /\ L!LevelSurvives'
  BY <1>1 DEF LevelStaged, LevelRunning, LevelBacked, L!LevelSurvives, L!Saving, L!Booting
<1> QED BY <1>4, <1>5 DEF LevelInv

LEMMA QuarantineDatKeeps ==
    ASSUME LevelInv, L!QuarantineDat
    PROVE  LevelInv'
<1>1. PICK dat \in {level.dat, L!Absent} : L!Renames([level EXCEPT !.dat = dat])
  BY DEF L!QuarantineDat
<1> DEFINE d == [level EXCEPT !.dat = dat]
<1>2. /\ pc = "off" /\ pc' = "promote" /\ level.dat < 0 /\ L!Whole(level.new) /\ earlier = {}
      /\ UNCHANGED <<saves, floor, backup, exposed>> /\ saves \in Nat
      /\ level' = d /\ L!Views = {level} /\ L!Views' = {level, d}
      /\ floor \in 0..saves /\ backup \in 0..floor /\ exposed \in BOOLEAN
  BY <1>1, RenamedViews DEF LevelInv, LevelTypes, LevelStaged, L!QuarantineDat, L!Goes,
     L!Same, L!Views
<1>3. level \in [dat : -saves..saves, new : -saves..saves, old : -saves..saves]
  BY LevelInView DEF LevelInv, LevelTypes, LevelFiles
<1>4. /\ d \in [dat : -saves..saves, new : -saves..saves, old : -saves..saves]
      /\ d.dat = dat /\ d.new = level.new /\ d.old = level.old /\ ~L!Whole(d.dat) /\ ~L!Whole(level.dat)
  <2>1. dat \in -saves..saves /\ level.dat \in -saves..saves /\ dat <= 0
    BY <1>2, <1>3 DEF L!Absent
  <2>2. /\ d \in [dat : -saves..saves, new : -saves..saves, old : -saves..saves]
        /\ d.dat = dat /\ d.new = level.new /\ d.old = level.old
    BY <2>1, <1>2, <1>3, Fields
  <2> QED BY <2>1, <2>2, <1>2 DEF L!Whole
<1>5. backup = 0
  BY <1>4, NoBackupWithoutLevel
<1>6. LevelTypes'
  BY <1>2, <1>3, <1>4 DEF LevelTypes, LevelFiles
<1>7. LevelStaged'
  BY <1>2, <1>4 DEF LevelStaged, L!Saving, L!Booting
<1>8. LevelRunning' /\ LevelBacked'
  BY <1>2, <1>5 DEF LevelRunning, LevelBacked, L!Saving
<1>9. L!LevelSurvives'
  <2>1. L!Recovered(d) = level.new /\ L!Recovered(level) = level.new
    BY <1>2, <1>4, FromWhole
  <2> QED BY <2>1, <1>2 DEF LevelInv, L!LevelSurvives, L!BootedLevelSurvives
<1> QED BY <1>6, <1>7, <1>8, <1>9 DEF LevelInv

LEMMA PromoteKeeps ==
    ASSUME LevelInv, L!Promote
    PROVE  LevelInv'
<1> DEFINE d == [level EXCEPT !.dat = level.new, !.new = L!Absent]
<1>1. /\ pc = "promote" /\ pc' = "promoted" /\ L!Whole(level.new) /\ saves \in Nat
      /\ UNCHANGED <<saves, floor, backup, exposed>>
      /\ level' = d /\ L!Views' = L!Views \cup {d}
      /\ \A v \in L!Views : v.new = level.new /\ ~L!Whole(v.dat)
      /\ floor \in 0..saves /\ backup \in 0..floor /\ exposed \in BOOLEAN
  BY RenamedViews DEF LevelInv, LevelTypes, LevelStaged, L!Promote, L!Goes, L!Same
<1>2. level \in [dat : -saves..saves, new : -saves..saves, old : -saves..saves]
  BY LevelInView DEF LevelInv, LevelTypes, LevelFiles
<1>3. /\ d \in [dat : -saves..saves, new : -saves..saves, old : -saves..saves]
      /\ d.dat = level.new /\ d.new = L!Absent /\ d.old = level.old
  <2>1. L!Absent \in -saves..saves /\ level.new \in -saves..saves
    BY <1>1, <1>2 DEF L!Absent
  <2> QED BY <2>1, <1>2
<1>4. backup = 0
  BY <1>1, NoBackupWithoutLevel DEF L!Booting
<1>5. \A v \in L!Views' : L!Recovered(v) = level.new
  BY <1>1, <1>3, FromWhole
<1>6. LevelTypes'
  BY <1>1, <1>3 DEF LevelInv, LevelTypes, LevelFiles
<1>7. LevelStaged'
  BY <1>1, <1>3, <1>5 DEF LevelStaged, L!Saving, L!Booting
<1>8. LevelRunning' /\ LevelBacked'
  BY <1>1, <1>4 DEF LevelRunning, LevelBacked, L!Saving
<1>9. L!LevelSurvives'
  <2>1. ~exposed => level.new >= floor
    BY <1>1, FromWhole, LevelInView DEF LevelInv, L!LevelSurvives, L!BootedLevelSurvives
  <2> QED BY <2>1, <1>1, <1>5 DEF L!LevelSurvives, L!BootedLevelSurvives
<1> QED BY <1>6, <1>7, <1>8, <1>9 DEF LevelInv

LEMMA SyncPromotedKeeps ==
    ASSUME LevelInv, L!SyncPromoted
    PROVE  LevelInv'
<1>1. /\ pc = "promoted" /\ pc' = "up" /\ L!Whole(level.dat) /\ level.new = L!Absent /\ saves \in Nat
      /\ UNCHANGED <<saves, backup, level>> /\ floor' = level.dat /\ exposed' = FALSE
      /\ L!Views' \subseteq L!Views /\ \A v \in L!Views : L!Recovered(v) = level.dat
  BY DEF LevelInv, LevelTypes, LevelStaged, L!SyncPromoted, L!Goes, L!Runs, L!Views
<1>2. level \in LevelFiles
  BY LevelInView DEF LevelInv, LevelTypes
<1>3. level.dat \in 1..saves
  BY <1>1, <1>2 DEF LevelFiles, L!Whole
<1>4. backup = 0
  BY <1>1, NoBackupWithoutLevel DEF L!Booting
<1>5. LevelTypes'
  <2>1. \A v \in L!Views' : v \in LevelFiles'
    BY <1>1 DEF LevelInv, LevelTypes, LevelFiles
  <2>2. saves' \in Nat /\ floor' \in 0..saves' /\ backup' \in 0..floor'
    BY <1>1, <1>3, <1>4
  <2>3. exposed' \in BOOLEAN
    BY <1>1
  <2> QED BY <2>1, <2>2, <2>3 DEF LevelTypes
<1>6. LevelStaged' /\ LevelBacked'
  BY <1>1, <1>4 DEF LevelStaged, LevelBacked, L!Saving, L!Booting
<1>7. LevelRunning'
  BY <1>1, <1>3 DEF LevelRunning
<1>8. L!LevelSurvives'
  BY <1>1, <1>3 DEF L!LevelSurvives, L!BootedLevelSurvives
<1> QED BY <1>5, <1>6, <1>7, <1>8 DEF LevelInv

LEMMA BootFromOldKeeps ==
    ASSUME LevelInv, L!BootFromOld
    PROVE  LevelInv'
<1> DEFINE d == [level EXCEPT !.dat = L!Absent]
           e == [level EXCEPT !.dat = L!Absent, !.new = L!Absent]
<1>1. /\ pc = "off" /\ pc' = "up" /\ saves \in Nat /\ L!Whole(level.old)
      /\ ~L!Whole(level.dat) /\ ~L!Whole(level.new)
      /\ UNCHANGED <<saves, backup>> /\ floor' = level.old /\ exposed' = FALSE
      /\ level' = e /\ L!Views = {level} /\ L!Views' = {level, d, e}
  BY DEF LevelInv, LevelTypes, LevelStaged, L!BootFromOld, L!Goes, L!Runs, L!Views
<1>2. level \in [dat : -saves..saves, new : -saves..saves, old : -saves..saves]
  BY LevelInView DEF LevelInv, LevelTypes, LevelFiles
<1>3. L!Absent \in -saves..saves /\ level.old \in 1..saves /\ ~L!Whole(L!Absent)
  BY <1>1, <1>2 DEF L!Absent, L!Whole
<1>4. /\ d \in [dat : -saves..saves, new : -saves..saves, old : -saves..saves]
      /\ e \in [dat : -saves..saves, new : -saves..saves, old : -saves..saves]
      /\ d.dat = L!Absent /\ d.new = level.new /\ d.old = level.old
      /\ e.dat = L!Absent /\ e.new = L!Absent /\ e.old = level.old
  BY <1>2, <1>3
<1>5. backup = 0
  BY <1>1, NoBackupWithoutLevel
<1>6. LevelTypes'
  <2>1. \A v \in L!Views' : v \in LevelFiles'
    BY <1>1, <1>2, <1>4 DEF LevelFiles
  <2>2. saves' \in Nat /\ floor' \in 0..saves' /\ backup' \in 0..floor'
    BY <1>1, <1>3, <1>5
  <2>3. exposed' \in BOOLEAN
    BY <1>1
  <2> QED BY <2>1, <2>2, <2>3 DEF LevelTypes
<1>7. LevelStaged' /\ LevelBacked'
  BY <1>1, <1>5 DEF LevelStaged, LevelBacked, L!Saving, L!Booting
<1>8. LevelRunning'
  BY <1>1, <1>4 DEF LevelRunning
<1>9. L!LevelSurvives'
  <2>1. \A v \in L!Views' : L!Recovered(v) = level.old
    BY <1>1, <1>3, <1>4, FromWhole
  <2> QED BY <2>1, <1>1, <1>3 DEF L!LevelSurvives, L!BootedLevelSurvives
<1> QED BY <1>6, <1>7, <1>8, <1>9 DEF LevelInv

LEMMA BootFreshKeeps ==
    ASSUME LevelInv, L!BootFresh
    PROVE  LevelInv'
<1> DEFINE e == [dat |-> L!Absent, new |-> L!Absent, old |-> L!Absent]
<1>1. /\ pc = "off" /\ pc' = "up" /\ saves \in Nat /\ L!Recovered(level) = L!Absent
      /\ UNCHANGED <<saves, backup>> /\ floor' = L!Absent /\ exposed' = FALSE
      /\ level' = e /\ L!Views = {level} /\ L!Views' = {level, e}
  BY DEF LevelInv, LevelTypes, LevelStaged, L!BootFresh, L!Goes, L!Runs, L!Views
<1>2. level \in [dat : -saves..saves, new : -saves..saves, old : -saves..saves]
  BY LevelInView DEF LevelInv, LevelTypes, LevelFiles
<1>3. L!Absent \in -saves..saves /\ ~L!Whole(L!Absent) /\ ~L!Whole(level.dat) /\ L!Absent = 0
  BY <1>1, <1>2, FromWhole DEF L!Absent, L!Whole
<1>4. /\ e \in [dat : -saves..saves, new : -saves..saves, old : -saves..saves]
      /\ e.dat = L!Absent /\ e.new = L!Absent /\ e.old = L!Absent
  BY <1>3
<1>5. backup = 0
  BY <1>3, NoBackupWithoutLevel
<1>6. LevelTypes'
  <2>1. \A v \in L!Views' : v \in LevelFiles'
    BY <1>1, <1>2, <1>4 DEF LevelFiles
  <2>2. saves' \in Nat /\ floor' \in 0..saves' /\ backup' \in 0..floor'
    BY <1>1, <1>3, <1>5
  <2>3. exposed' \in BOOLEAN
    BY <1>1
  <2> QED BY <2>1, <2>2, <2>3 DEF LevelTypes
<1>7. LevelStaged' /\ LevelBacked'
  BY <1>1, <1>5 DEF LevelStaged, LevelBacked, L!Saving, L!Booting
<1>8. LevelRunning'
  BY <1>1, <1>4 DEF LevelRunning
<1>9. L!LevelSurvives'
  <2>1. \A v \in L!Views' : L!Recovered(v) = 0
    BY <1>1, <1>3, <1>4, FromWhole
  <2> QED BY <2>1, <1>1, <1>3 DEF L!LevelSurvives, L!BootedLevelSurvives
<1> QED BY <1>6, <1>7, <1>8, <1>9 DEF LevelInv

-----------------------------------------------------------------------------
(* Crashes and rot. *)

LEMMA CrashKeeps ==
    ASSUME LevelInv, L!Crash
    PROVE  LevelInv'
<1>1. /\ pc' = "off" /\ level' \in L!Views /\ earlier' = {} /\ L!Views' = {level'}
      /\ UNCHANGED <<saves, floor, backup, exposed>>
  BY DEF L!Crash, L!Same, L!Views
<1>2. LevelTypes'
  BY <1>1 DEF LevelInv, LevelTypes, LevelFiles
<1>3. LevelStaged' /\ LevelRunning'
  BY <1>1 DEF LevelStaged, LevelRunning, L!Saving
<1>4. LevelBacked'
  BY <1>1 DEF LevelInv, LevelBacked, L!Booting
<1>5. L!LevelSurvives'
  BY <1>1 DEF LevelInv, L!LevelSurvives, L!BootedLevelSurvives
<1> QED BY <1>2, <1>3, <1>4, <1>5 DEF LevelInv

LEMMA RotKeeps ==
    ASSUME LevelInv, L!Rot
    PROVE  LevelInv'
<1> DEFINE d == [level EXCEPT !.dat = -level.dat]
<1>1. /\ pc = "off" /\ pc' = pc /\ saves \in Nat /\ L!Whole(level.dat)
      /\ UNCHANGED <<saves, exposed, earlier>> /\ exposed \in BOOLEAN /\ earlier = {}
      /\ floor' = L!Recovered(d) /\ backup' = 0
      /\ level' = d /\ L!Views' = {d}
  BY DEF LevelInv, LevelTypes, LevelStaged, L!Rot, L!Views
<1>2. level \in [dat : -saves..saves, new : -saves..saves, old : -saves..saves]
  BY LevelInView DEF LevelInv, LevelTypes, LevelFiles
<1>3. d \in [dat : -saves..saves, new : -saves..saves, old : -saves..saves]
  <2>1. level.dat \in -saves..saves /\ -level.dat \in -saves..saves
    BY <1>1, <1>2
  <2> QED BY <2>1, <1>1, <1>2, Fields
<1>4. L!Recovered(d) \in 0..saves
  <2> HIDE DEF d
  <2>1. d.dat \in -saves..saves /\ d.new \in -saves..saves /\ d.old \in -saves..saves
    BY <1>3
  <2> QED BY <2>1, <1>1, FromWhole DEF L!Whole, L!Absent
<1>5. LevelTypes'
  <2>1. \A v \in L!Views' : v \in LevelFiles'
    BY <1>1, <1>3 DEF LevelFiles
  <2>2. saves' \in Nat /\ floor' \in 0..saves' /\ backup' \in 0..floor'
    BY <1>1, <1>4
  <2> QED BY <2>1, <2>2, <1>1 DEF LevelTypes
<1>6. LevelStaged' /\ LevelRunning' /\ LevelBacked'
  BY <1>1 DEF LevelStaged, LevelRunning, LevelBacked, L!Saving
<1>7. L!LevelSurvives'
  BY <1>1, <1>4 DEF L!LevelSurvives, L!BootedLevelSurvives
<1> QED BY <1>5, <1>6, <1>7 DEF LevelInv

-----------------------------------------------------------------------------

LEMMA LevelInit == L!Init => LevelInv
<1> SUFFICES ASSUME L!Init PROVE LevelInv
  OBVIOUS
<1> DEFINE e == [dat |-> L!Absent, new |-> L!Absent, old |-> L!Absent]
<1>1. /\ pc = "off" /\ saves = 0 /\ floor = 0 /\ backup = 0 /\ exposed = FALSE
      /\ level = e /\ earlier = {} /\ L!Views = {e}
      /\ e.dat = 0 /\ e.new = 0 /\ e.old = 0
  BY DEF L!Init, L!Views, L!Absent
<1>2. LevelTypes
  <2>1. 0 \in -saves..saves
    BY <1>1
  <2>2. e \in [dat : -saves..saves, new : -saves..saves, old : -saves..saves]
    BY <2>1 DEF L!Absent
  <2>3. \A v \in L!Views : v \in LevelFiles
    BY <2>2, <1>1 DEF LevelFiles
  <2>4. saves \in Nat /\ floor \in 0..saves /\ backup \in 0..floor
    BY <1>1
  <2>5. exposed \in BOOLEAN
    BY <1>1
  <2> QED BY <2>3, <2>4, <2>5 DEF LevelTypes
<1>3. LevelStaged /\ LevelRunning /\ LevelBacked
  BY <1>1 DEF LevelStaged, LevelRunning, LevelBacked, L!Saving
<1>4. L!LevelSurvives
  BY <1>1 DEF L!LevelSurvives, L!BootedLevelSurvives, L!Recovered, L!Whole, L!Absent
<1> QED BY <1>2, <1>3, <1>4 DEF LevelInv

LEMMA LevelNext ==
    ASSUME LevelInv, L!Next \/ UNCHANGED levels
    PROVE  LevelInv'
<1>1. CASE L!Save
  BY <1>1, OpenTempKeeps, WriteTempKeeps, ReplaceBackupKeeps, SyncKeeps, ReplaceLevelKeeps,
     CommitKeeps, SaveFailsKeeps DEF L!Save
<1>2. CASE L!Boot
  BY <1>2, BootFromDatKeeps, BootFromNewKeeps, QuarantineDatKeeps, PromoteKeeps,
     SyncPromotedKeeps, BootFromOldKeeps, BootFreshKeeps DEF L!Boot
<1>3. CASE UNCHANGED levels
  BY <1>3 DEF levels, LevelInv, LevelTypes, LevelFiles, LevelStaged, LevelRunning,
     LevelBacked, L!LevelSurvives,
     L!BootedLevelSurvives, L!Views, L!Saving, L!Booting
<1> QED BY <1>1, <1>2, <1>3, CrashKeeps, RotKeeps DEF L!Next

LEMMA LevelBacksUp == LevelInv => L!BackupHolds
<1> SUFFICES ASSUME LevelInv, NEW v \in L!Views, ~exposed
             PROVE  L!Recovered([v EXCEPT !.dat = L!Absent]) >= backup
  BY DEF L!BackupHolds
<1> DEFINE d == [v EXCEPT !.dat = L!Absent]
<1>1. saves \in Nat /\ backup \in Nat /\ v \in LevelFiles
  BY DEF LevelInv, LevelTypes
<1>2. d.dat = 0 /\ d.new = v.new /\ d.old = v.old
  BY <1>1 DEF LevelFiles, L!Absent
<1>3. v.new \in Int /\ v.old \in Int
  BY <1>1 DEF LevelFiles
<1>4. CASE backup = 0
  BY <1>2, <1>3, <1>4 DEF L!Recovered, L!Whole, L!Absent
<1>5. CASE backup > 0
  <2>1. v.old >= backup /\ (L!Whole(v.new) => v.new >= backup)
    BY <1>5 DEF LevelInv, LevelBacked
  <2> QED BY <2>1, <1>1, <1>2, <1>3, <1>5 DEF L!Recovered, L!Whole
<1> QED BY <1>1, <1>4, <1>5


-----------------------------------------------------------------------------
(* The sectors of a region file.                                           *)

Parts == [chunk : RegionChunks, version : Nat, part : Nat, of : Nat]
Entries == [off : Nat, count : Nat]

RegionTypes ==
    /\ header \in [RegionChunks -> Entries]
    /\ sector \in [R!Sectors -> {NoData} \cup Parts]
    /\ size \in Nat /\ stores \in 0 .. MaxStores
    /\ expected \in [RegionChunks -> (RegionChunks \cup {NoData}) \X Nat]

\* Two ranges of sectors that do not meet.
Apart(off, end, e) == R!EndOf(e) <= off \/ end <= e.off

StoreTypes(s) ==
    /\ s \in [chunk : RegionChunks, off : Nat, need : 1 .. MaxCount, written : Nat]
    /\ s.written <= s.need /\ s.off >= 2
    /\ s.off + s.need <= MaxSector /\ s.off + s.need <= size

\* A store in progress writes into sectors that no entry of another chunk claims, and
\* none of its own either unless it uses again what it has for itself.
StoreFree(s) ==
    /\ \A d \in RegionChunks \ {s.chunk} :
          R!ValidRange(header[d]) => Apart(s.off, s.off + s.need, header[d])
    /\ R!ValidRange(header[s.chunk]) =>
          R!Alone(s.chunk) \/ R!EndOf(header[s.chunk]) <= s.off

StoreWritten(s) ==
    \A i \in 0 .. s.written - 1 :
       sector[s.off + i] = R!Part(s.chunk, stores, i, s.need)

RegionStore == store # R!Idle => StoreTypes(store) /\ StoreFree(store) /\ StoreWritten(store)

\* Data that was stored is only in sectors that one entry claims, or none.
NewParts ==
    \A d \in RegionChunks : R!ValidRange(header[d]) =>
       \A i \in header[d].off .. R!EndOf(header[d]) - 1 :
          sector[i] # NoData /\ sector[i].version > 0 => R!Alone(d)

RegionInv == RegionTypes /\ RegionStore /\ NewParts /\ R!ChunksIntact /\ R!StoredAlone

LEMMA RegionFacts ==
    /\ MaxSector \in Nat /\ MaxCount \in Nat /\ MaxStores \in Nat
    /\ NoData \notin RegionChunks
    /\ \A c \in RegionChunks, version \in 0 .. MaxStores, i \in 0 .. MaxCount,
          n \in 0 .. MaxCount : R!Part(c, version, i, n) # NoData
BY FileConstants DEF R!RegionConstants

\* A set of numbers has a least one.
LEMMA LeastExists ==
    ASSUME NEW T \in SUBSET Nat, T # {}
    PROVE  \E x \in T : \A y \in T : x <= y
<1> DEFINE Less == {p \in Nat \X Nat : p[1] < p[2]}
<1>1. IsWellFoundedOn(Less, Nat)
  BY NatLessThanWellFounded DEF OpToRel
<1>2. PICK x \in T : \A y \in T : ~(<<y, x>> \in Less)
  <2>1. T \subseteq Nat
    OBVIOUS
  <2> HIDE DEF Less
  <2> QED BY <1>1, <2>1, WFMin
<1>3. ASSUME NEW y \in T
      PROVE  x <= y
  <2>1. x \in Nat /\ y \in Nat
    OBVIOUS
  <2>2. ~(y < x)
    BY <1>2, <2>1
  <2> QED BY <2>1, <2>2
<1> QED BY <1>3

\* The greatest of some numbers that have a bound.
LEMMA GreatestExists ==
    ASSUME NEW m \in Nat, NEW S \in SUBSET (0 .. m), S # {}
    PROVE  R!Max(S) \in S /\ \A x \in S : x <= R!Max(S)
<1> DEFINE T == {m - x : x \in S}
<1>1. T \in SUBSET Nat /\ T # {}
  <2>1. \A x \in S : m - x \in Nat
    OBVIOUS
  <2> QED BY <2>1
<1>2. PICK least \in T : \A y \in T : least <= y
  <2> HIDE DEF T
  <2> QED BY <1>1, LeastExists
<1>4. PICK x \in S : least = m - x
  BY <1>2
<1>5. \A y \in S : y <= x
  <2> SUFFICES ASSUME NEW y \in S PROVE y <= x
    OBVIOUS
  <2>1. m - y \in T
    OBVIOUS
  <2>2. m - x <= m - y
    BY <2>1, <1>2, <1>4
  <2>3. x \in 0 .. m /\ y \in 0 .. m
    OBVIOUS
  <2> HIDE DEF T
  <2> QED BY <2>2, <2>3
<1>6. \E z \in S : \A y \in S : z >= y
  BY <1>5
<1>7. R!Max(S) \in S /\ \A y \in S : R!Max(S) >= y
  BY <1>6 DEF R!Max
<1> QED BY <1>7

\* Nothing is claimed behind the last entry.
LEMMA AfterTheLast ==
    ASSUME header \in [RegionChunks -> Entries]
    PROVE  /\ R!MaxEnd(header) \in Nat /\ R!MaxEnd(header) >= 2
           /\ \A d \in RegionChunks :
                 R!ValidRange(header[d]) => R!EndOf(header[d]) <= R!MaxEnd(header)
<1> DEFINE S == {2} \cup {R!EndOf(header[c]) : c \in {d \in RegionChunks : R!ValidRange(header[d])}}
           m == MaxSector + 2
<1>1. m \in Nat
  BY RegionFacts
<1>2. \A d \in RegionChunks : R!ValidRange(header[d]) => R!EndOf(header[d]) \in 0 .. m
  BY RegionFacts DEF Entries, R!ValidRange, R!EndOf
<1>3. S \in SUBSET (0 .. m) /\ S # {}
  <2>1. 2 \in 0 .. m
    BY RegionFacts
  <2> QED BY <2>1, <1>2
<1>4. R!MaxEnd(header) = R!Max(S)
  BY DEF R!MaxEnd
<1>5. R!Max(S) \in S /\ \A x \in S : x <= R!Max(S)
  <2> HIDE DEF S, m
  <2> QED BY <1>1, <1>3, GreatestExists, Zenon
<1>6. R!Max(S) \in 0 .. m /\ 2 \in S
  BY <1>3, <1>5
<1>7. \A d \in RegionChunks : R!ValidRange(header[d]) => R!EndOf(header[d]) \in S
  OBVIOUS
<1> HIDE DEF S, m
<1> QED BY <1>1, <1>4, <1>5, <1>6, <1>7

\* What load asks of the sectors.
Readable(c) ==
    /\ R!ValidRange(header[c]) /\ R!EndOf(header[c]) <= size
    /\ sector[header[c].off] # NoData
    /\ sector[header[c].off].part = 0 /\ sector[header[c].off].of <= header[c].count
    /\ \A i \in 0 .. sector[header[c].off].of - 1 :
          sector[header[c].off + i] = [sector[header[c].off] EXCEPT !.part = i]

LEMMA LoadReads ==
    ASSUME NEW c
    PROVE  /\ Readable(c) =>
                 R!Load(c) = <<sector[header[c].off].chunk, sector[header[c].off].version>>
           /\ ~Readable(c) => R!Load(c) = <<NoData, 0>>
           /\ Readable(c)' =>
                 R!Load(c)' = <<sector'[header'[c].off].chunk, sector'[header'[c].off].version>>
           /\ ~Readable(c)' => R!Load(c)' = <<NoData, 0>>
BY DEF R!Load, Readable

\* A chunk that can be read is read as before when its sectors and its entry are as
\* they were and the file is no shorter.
LEMMA ReadAsBefore ==
    ASSUME RegionTypes, NEW c \in RegionChunks, Readable(c), header'[c] = header[c],
           size' \in Nat, size <= size',
           \A i \in header[c].off .. R!EndOf(header[c]) - 1 : sector'[i] = sector[i]
    PROVE  Readable(c)' /\ R!Load(c)' = R!Load(c)
<1> DEFINE o == header[c].off
<1>1. /\ o \in Nat /\ o >= 2 /\ header[c].count \in Nat /\ header[c].count > 0
      /\ o \in R!Sectors /\ R!EndOf(header[c]) = o + header[c].count
      /\ size \in Nat
  BY RegionFacts DEF Readable, RegionTypes, Entries, R!ValidRange, R!EndOf, R!Sectors
<1>2. sector[o] \in Parts
  BY <1>1 DEF Readable, RegionTypes
<1>3. sector[o].of \in Nat /\ sector[o].of <= header[c].count
  BY <1>2 DEF Readable, Parts
<1>4. sector'[o] = sector[o]
  BY <1>1
<1>5. \A i \in 0 .. sector[o].of - 1 : sector'[o + i] = sector[o + i]
  BY <1>1, <1>3
<1>6. Readable(c)'
  BY <1>1, <1>4, <1>5 DEF Readable, R!ValidRange, R!EndOf
<1> QED BY <1>4, <1>6, LoadReads

-----------------------------------------------------------------------------
(* The steps of a store. *)

LEMMA SameEntriesAlone ==
    ASSUME header' = header, NEW c
    PROVE  R!Alone(c)' = R!Alone(c)
BY DEF R!Alone

\* A chunk that is as expected can be read.
LEMMA ExpectedIsReadable ==
    ASSUME NEW c, R!Load(c) = expected[c], expected[c][1] # NoData
    PROVE  Readable(c)
<1> SUFFICES ASSUME ~Readable(c) PROVE FALSE
  OBVIOUS
<1>1. expected[c] = <<NoData, 0>>
  BY LoadReads
<1> QED BY <1>1

\* newSectorOffset: a place that no other entry claims.
LEMMA NewOffsetIsFree ==
    ASSUME header \in [RegionChunks -> Entries], NEW c \in RegionChunks, NEW need \in Nat, need > 0
    PROVE  LET off == R!NewOffset(c, need) IN
           /\ off \in Nat /\ off >= 2
           /\ \A d \in RegionChunks \ {c} :
                 R!ValidRange(header[d]) => Apart(off, off + need, header[d])
           /\ R!ValidRange(header[c]) => R!Alone(c) \/ R!EndOf(header[c]) <= off
<1> DEFINE off == R!NewOffset(c, need)
<1>1. \A d \in RegionChunks : header[d].off \in Nat /\ header[d].count \in Nat
  BY DEF Entries
<1>2. CASE R!Alone(c) /\ need <= header[c].count
  <2>1. off = header[c].off
    BY <1>2 DEF R!NewOffset
  <2>2. off \in Nat /\ off >= 2
    BY <1>1, <1>2, <2>1 DEF R!Alone, R!ValidRange
  <2>3. ASSUME NEW d \in RegionChunks \ {c}, R!ValidRange(header[d])
        PROVE  Apart(off, off + need, header[d])
    <3>1. ~R!Overlap(header[c], header[d])
      BY <1>2, <2>3 DEF R!Alone
    <3> QED BY <1>1, <1>2, <2>1, <2>2, <3>1 DEF Apart, R!Overlap, R!EndOf
  <2> QED BY <2>2, <2>3, <1>2
<1>3. CASE ~(R!Alone(c) /\ need <= header[c].count)
  <2>1. off = R!MaxEnd(header)
    BY <1>3 DEF R!NewOffset
  <2> QED BY <2>1, AfterTheLast DEF Apart
<1> QED BY <1>2, <1>3

LEMMA StoreBeginsKeeps ==
    ASSUME RegionInv, NEW c \in RegionChunks, NEW need \in 1 .. MaxCount, R!StoreBegins(c, need)
    PROVE  RegionInv'
<1> DEFINE off == R!NewOffset(c, need)
           s == [chunk |-> c, off |-> off, need |-> need, written |-> 0]
<1>1. /\ store = R!Idle /\ store' = s /\ stores' = stores + 1 /\ stores < MaxStores
      /\ off + need <= MaxSector /\ size' = R!Max({size, off + need})
      /\ header' = header /\ sector' = sector /\ expected' = expected
  BY DEF R!StoreBegins
<1>2. /\ header \in [RegionChunks -> Entries] /\ size \in Nat /\ stores \in 0 .. MaxStores
      /\ need \in Nat /\ need > 0 /\ MaxStores \in Nat
  BY RegionFacts DEF RegionInv, RegionTypes
<1>3. /\ off \in Nat /\ off >= 2
      /\ \A d \in RegionChunks \ {c} :
            R!ValidRange(header[d]) => Apart(off, off + need, header[d])
      /\ R!ValidRange(header[c]) => R!Alone(c) \/ R!EndOf(header[c]) <= off
  <2> HIDE DEF off
  <2> QED BY <1>2, NewOffsetIsFree DEF off
<1> HIDE DEF off
<1>4. size' \in Nat /\ size <= size' /\ off + need <= size'
  <2> DEFINE m == size + off + need
  <2>1. m \in Nat /\ {size, off + need} \in SUBSET (0 .. m) /\ {size, off + need} # {}
    BY <1>2, <1>3
  <2>2. R!Max({size, off + need}) \in {size, off + need}
        /\ \A x \in {size, off + need} : x <= R!Max({size, off + need})
    <3> HIDE DEF m
    <3> QED BY <2>1, GreatestExists
  <2> QED BY <2>2, <1>1, <1>2, <1>3
<1>5. /\ store'.chunk = c /\ store'.off = off /\ store'.need = need /\ store'.written = 0
      /\ store' \in [chunk : RegionChunks, off : Nat, need : 1 .. MaxCount, written : Nat]
  BY <1>1, <1>3
<1>6. RegionTypes'
  BY <1>1, <1>2, <1>4 DEF RegionInv, RegionTypes, R!Sectors
<1>7. RegionStore'
  <2>1. StoreTypes(store)'
    BY <1>1, <1>2, <1>3, <1>4, <1>5 DEF StoreTypes
  <2>2. StoreFree(store)'
    BY <1>1, <1>3, <1>5, SameEntriesAlone DEF StoreFree
  <2>3. StoreWritten(store)'
    BY <1>5 DEF StoreWritten
  <2> QED BY <1>1, <2>1, <2>2, <2>3 DEF RegionStore
<1>8. NewParts'
  BY <1>1, SameEntriesAlone DEF RegionInv, NewParts
<1>9. R!ChunksIntact'
  <2> SUFFICES ASSUME NEW d \in RegionChunks, expected[d][1] # NoData
               PROVE  R!Load(d)' = expected[d]
    BY <1>1 DEF R!ChunksIntact
  <2>1. R!Load(d) = expected[d]
    BY <1>1, RegionFacts DEF RegionInv, R!ChunksIntact, R!Idle
  <2> QED BY <2>1, <1>1, <1>4, ExpectedIsReadable, ReadAsBefore DEF RegionInv
<1>10. R!StoredAlone'
  <2>1. \A d \in RegionChunks : expected[d][2] > 0 => R!Alone(d)
    BY <1>1, RegionFacts DEF RegionInv, R!StoredAlone, R!Idle
  <2> QED BY <2>1, <1>1, SameEntriesAlone DEF R!StoredAlone
<1> QED BY <1>6, <1>7, <1>8, <1>9, <1>10 DEF RegionInv

\* The sector that is written is the store's alone.
LEMMA WrittenSector ==
    ASSUME RegionInv, store # R!Idle, store.written < store.need
    PROVE  LET p == store.off + store.written IN
           /\ p \in R!Sectors
           /\ \A d \in RegionChunks : R!ValidRange(header[d]) =>
                 (p \in header[d].off .. R!EndOf(header[d]) - 1 =>
                     d = store.chunk /\ R!Alone(d))
<1> DEFINE p == store.off + store.written
<1>1. /\ store.chunk \in RegionChunks /\ store.off \in Nat /\ store.need \in Nat
      /\ store.written \in Nat /\ store.off >= 2 /\ store.off + store.need <= MaxSector
  BY RegionFacts DEF RegionInv, RegionStore, StoreTypes
<1>2. p \in Nat /\ p >= store.off /\ p < store.off + store.need
  BY <1>1
<1>3. p \in R!Sectors
  BY <1>1, <1>2, RegionFacts DEF R!Sectors
<1>4. ASSUME NEW d \in RegionChunks, R!ValidRange(header[d]),
             p \in header[d].off .. R!EndOf(header[d]) - 1
      PROVE  d = store.chunk /\ R!Alone(d)
  <2>1. header[d].off \in Nat /\ R!EndOf(header[d]) \in Nat
    BY <1>4 DEF RegionInv, RegionTypes, Entries, R!EndOf
  <2>2. header[d].off <= p /\ p < R!EndOf(header[d])
    BY <1>2, <1>4, <2>1
  <2>3. d = store.chunk
    BY <1>1, <1>2, <1>4, <2>1, <2>2 DEF RegionInv, RegionStore, StoreFree, Apart
  <2>4. ~(R!EndOf(header[d]) <= store.off)
    BY <1>1, <1>2, <2>1, <2>2
  <2> QED BY <1>4, <2>3, <2>4 DEF RegionInv, RegionStore, StoreFree
<1> QED BY <1>3, <1>4

LEMMA WriteSectorKeeps ==
    ASSUME RegionInv, R!WriteSector
    PROVE  RegionInv'
<1> DEFINE p == store.off + store.written
           data == R!Part(store.chunk, stores, store.written, store.need)
<1>1. /\ store # R!Idle /\ store.written < store.need
      /\ sector' = [sector EXCEPT ![p] = data]
      /\ store' = [store EXCEPT !.written = store.written + 1]
      /\ header' = header /\ size' = size /\ expected' = expected /\ stores' = stores
  BY DEF R!WriteSector
<1>2. /\ store \in [chunk : RegionChunks, off : Nat, need : 1 .. MaxCount, written : Nat]
      /\ store.off >= 2 /\ store.off + store.need <= MaxSector /\ store.off + store.need <= size
  BY <1>1 DEF RegionInv, RegionStore, StoreTypes
<1>3. /\ store.chunk \in RegionChunks /\ store.off \in Nat /\ store.need \in 1 .. MaxCount
      /\ store.need \in Nat /\ store.written \in Nat /\ size \in Nat /\ stores \in Nat
  BY <1>2, RegionFacts DEF RegionInv, RegionTypes
<1>4. /\ p \in R!Sectors
      /\ \A d \in RegionChunks : R!ValidRange(header[d]) =>
            (p \in header[d].off .. R!EndOf(header[d]) - 1 => d = store.chunk /\ R!Alone(d))
  <2> HIDE DEF p
  <2> QED BY <1>1, WrittenSector DEF p
<1>5. data \in Parts
  BY <1>3 DEF Parts, R!Part
<1>6. /\ sector'[p] = data
      /\ \A i : i # p => sector'[i] = sector[i]
  BY <1>1, <1>4 DEF RegionInv, RegionTypes
<1>7. /\ store'.chunk = store.chunk /\ store'.off = store.off /\ store'.need = store.need
      /\ store'.written = store.written + 1 /\ store' # R!Idle
      /\ store' \in [chunk : RegionChunks, off : Nat, need : 1 .. MaxCount, written : Nat]
  <2>1. /\ store'.chunk = store.chunk /\ store'.off = store.off /\ store'.need = store.need
        /\ store'.written = store.written + 1
        /\ store' \in [chunk : RegionChunks, off : Nat, need : 1 .. MaxCount, written : Nat]
    BY <1>1, <1>2, <1>3
  <2> QED BY <2>1, <1>3, RegionFacts DEF R!Idle
<1>8. RegionTypes'
  BY <1>1, <1>5 DEF RegionInv, RegionTypes, R!Sectors
<1>9. RegionStore'
  <2>1. StoreTypes(store)'
    BY <1>1, <1>2, <1>3, <1>7 DEF StoreTypes
  <2>2. StoreFree(store)'
    BY <1>1, <1>7, SameEntriesAlone DEF RegionInv, RegionStore, StoreFree
  <2>3. StoreWritten(store)'
    <3> SUFFICES ASSUME NEW i \in 0 .. store.written
                 PROVE  sector'[store.off + i] = R!Part(store.chunk, stores, i, store.need)
      BY <1>1, <1>3, <1>7 DEF StoreWritten, R!Part
    <3>1. CASE i = store.written
      BY <3>1, <1>6
    <3>2. CASE i # store.written
      <4>1. i \in 0 .. store.written - 1 /\ store.off + i # p
        BY <3>2, <1>3
      <4> HIDE DEF p
      <4> QED BY <4>1, <1>1, <1>6 DEF RegionInv, RegionStore, StoreWritten
    <3> QED BY <3>1, <3>2
  <2> QED BY <2>1, <2>2, <2>3 DEF RegionStore
<1> HIDE DEF p, data
<1>10. NewParts'
  <2> SUFFICES ASSUME NEW d \in RegionChunks, R!ValidRange(header[d]),
                      NEW i \in header[d].off .. R!EndOf(header[d]) - 1,
                      sector'[i] # NoData, sector'[i].version > 0
               PROVE  R!Alone(d)
    BY <1>1, SameEntriesAlone DEF NewParts
  <2>1. CASE i = p
    BY <2>1, <1>4
  <2>2. CASE i # p
    BY <2>2, <1>6 DEF RegionInv, NewParts
  <2> QED BY <2>1, <2>2
<1>11. R!ChunksIntact'
  <2> SUFFICES ASSUME NEW d \in RegionChunks \ {store.chunk}, expected[d][1] # NoData
               PROVE  R!Load(d)' = expected[d]
    BY <1>1, <1>7 DEF R!ChunksIntact
  <2>1. R!Load(d) = expected[d]
    BY DEF RegionInv, R!ChunksIntact
  <2>2. Readable(d)
    BY <2>1, ExpectedIsReadable
  <2>3. \A i \in header[d].off .. R!EndOf(header[d]) - 1 : sector'[i] = sector[i]
    BY <2>2, <1>4, <1>6 DEF Readable
  <2> QED BY <2>1, <2>2, <2>3, <1>1, <1>3, ReadAsBefore DEF RegionInv
<1>12. R!StoredAlone'
  BY <1>1, <1>7, SameEntriesAlone DEF RegionInv, R!StoredAlone
<1> QED BY <1>8, <1>9, <1>10, <1>11, <1>12 DEF RegionInv

LEMMA WriteHeaderKeeps ==
    ASSUME RegionInv, R!WriteHeader
    PROVE  RegionInv'
<1>0. PICK c \in RegionChunks : c = store.chunk
  BY DEF RegionInv, RegionStore, StoreTypes, R!WriteHeader
<1> DEFINE e == [off |-> store.off, count |-> store.need]
<1>1. /\ store # R!Idle /\ store.written = store.need
      /\ header' = [header EXCEPT ![c] = e]
      /\ expected' = [expected EXCEPT ![c] = <<c, stores>>]
      /\ store' = R!Idle /\ sector' = sector /\ size' = size /\ stores' = stores
  BY <1>0 DEF R!WriteHeader
<1>2. /\ c \in RegionChunks /\ store.off \in Nat /\ store.need \in 1 .. MaxCount
      /\ store.need \in Nat /\ store.need > 0 /\ size \in Nat /\ stores \in 0 .. MaxStores
      /\ stores \in Nat
      /\ store.off >= 2 /\ store.off + store.need <= MaxSector /\ store.off + store.need <= size
  BY <1>0, <1>1, RegionFacts DEF RegionInv, RegionStore, StoreTypes, RegionTypes
<1>3. /\ header'[c] = e /\ e.off = store.off /\ e.count = store.need /\ e \in Entries
      /\ R!EndOf(e) = store.off + store.need /\ R!ValidRange(e)
      /\ \A d \in RegionChunks \ {c} : header'[d] = header[d]
  BY <1>1, <1>2 DEF RegionInv, RegionTypes, Entries, R!EndOf, R!ValidRange
<1>4. \A d \in RegionChunks : header[d].off \in Nat /\ header[d].count \in Nat
  BY DEF RegionInv, RegionTypes, Entries
<1>5. \A d \in RegionChunks \ {c} : R!ValidRange(header[d]) => ~R!Overlap(e, header[d])
                                                           /\ ~R!Overlap(header[d], e)
  <2> SUFFICES ASSUME NEW d \in RegionChunks \ {c}, R!ValidRange(header[d])
               PROVE  ~R!Overlap(e, header[d]) /\ ~R!Overlap(header[d], e)
    OBVIOUS
  <2>1. Apart(store.off, store.off + store.need, header[d])
    BY <1>0, <1>1 DEF RegionInv, RegionStore, StoreFree
  <2> HIDE DEF e
  <2> QED BY <2>1, <1>2, <1>3, <1>4 DEF Apart, R!Overlap, R!EndOf
<1> HIDE DEF e
<1>6. R!Alone(c)'
  <2>1. \A d \in RegionChunks \ {c} : R!ValidRange(header'[d]) => ~R!Overlap(header'[c], header'[d])
    BY <1>3, <1>5
  <2> QED BY <2>1, <1>3 DEF R!Alone
<1>7. \A d \in RegionChunks \ {c} : R!Alone(d) => R!Alone(d)'
  <2> SUFFICES ASSUME NEW d \in RegionChunks \ {c}, R!Alone(d)
               PROVE  R!Alone(d)'
    OBVIOUS
  <2>1. R!ValidRange(header'[d]) /\ header'[d] = header[d]
    BY <1>3 DEF R!Alone
  <2>2. ASSUME NEW b \in RegionChunks \ {d}, R!ValidRange(header'[b])
        PROVE  ~R!Overlap(header'[d], header'[b])
    <3>1. CASE b = c
      BY <3>1, <2>1, <1>3, <1>5
    <3>2. CASE b # c
      BY <3>2, <2>1, <2>2, <1>3 DEF R!Alone
    <3> QED BY <3>1, <3>2
  <2> QED BY <2>1, <2>2 DEF R!Alone
<1>8. RegionTypes'
  BY <1>1, <1>2, <1>3 DEF RegionInv, RegionTypes, R!Sectors
<1>9. RegionStore'
  BY <1>1 DEF RegionStore, R!Idle
<1>10. NewParts'
  <2> SUFFICES ASSUME NEW d \in RegionChunks, R!ValidRange(header'[d]),
                      NEW i \in header'[d].off .. R!EndOf(header'[d]) - 1,
                      sector[i] # NoData, sector[i].version > 0
               PROVE  R!Alone(d)'
    BY <1>1 DEF NewParts
  <2>1. CASE d = c
    BY <2>1, <1>6
  <2>2. CASE d # c
    BY <2>2, <1>3, <1>7 DEF RegionInv, NewParts
  <2> QED BY <2>1, <2>2
<1>11. R!ChunksIntact'
  <2> SUFFICES ASSUME NEW d \in RegionChunks, expected'[d][1] # NoData
               PROVE  R!Load(d)' = expected'[d]
    BY DEF R!ChunksIntact
  <2>1. CASE d # c
    <3>1. R!Load(d) = expected[d] /\ expected'[d] = expected[d]
      BY <2>1, <1>0, <1>1 DEF RegionInv, R!ChunksIntact, RegionTypes
    <3> QED BY <2>1, <3>1, <1>1, <1>2, <1>3, ExpectedIsReadable, ReadAsBefore DEF RegionInv
  <2>2. CASE d = c
    <3>1. \A i \in 0 .. store.need - 1 :
             sector[store.off + i] = R!Part(c, stores, i, store.need)
      BY <1>0, <1>1 DEF RegionInv, RegionStore, StoreWritten
    <3>2. sector[store.off] = R!Part(c, stores, 0, store.need)
      BY <3>1, <1>2
    <3>3. R!Part(c, stores, 0, store.need) # NoData
      BY <1>2, RegionFacts
    <3>4. Readable(c)'
      BY <3>1, <3>2, <3>3, <1>1, <1>2, <1>3 DEF Readable, R!Part
    <3>5. R!Load(c)' = <<c, stores>>
      BY <3>2, <3>4, <1>1, <1>3, LoadReads DEF R!Part
    <3>6. expected'[c] = <<c, stores>>
      BY <1>1, <1>2 DEF RegionInv, RegionTypes
    <3> QED BY <2>2, <3>5, <3>6
  <2> QED BY <2>1, <2>2
<1>12. R!StoredAlone'
  <2> SUFFICES ASSUME NEW d \in RegionChunks, expected'[d][2] > 0
               PROVE  R!Alone(d)'
    BY DEF R!StoredAlone
  <2>1. CASE d = c
    BY <2>1, <1>6
  <2>2. CASE d # c
    <3>1. expected'[d] = expected[d]
      BY <2>2, <1>1 DEF RegionInv, RegionTypes
    <3> QED BY <2>2, <3>1, <1>0, <1>7 DEF RegionInv, R!StoredAlone
  <2> QED BY <2>1, <2>2
<1> QED BY <1>8, <1>9, <1>10, <1>11, <1>12 DEF RegionInv

\* What load returns is the data of some chunk, in the first sector of the entry.
LEMMA LoadReturns ==
    ASSUME header \in [RegionChunks -> Entries],
           sector \in [R!Sectors -> {NoData} \cup Parts], NEW c \in RegionChunks
    PROVE  /\ R!Load(c) \in (RegionChunks \cup {NoData}) \X Nat
           /\ Readable(c) =>
                 /\ header[c].off \in header[c].off .. R!EndOf(header[c]) - 1
                 /\ sector[header[c].off] \in Parts
<1>1. ASSUME Readable(c)
      PROVE  /\ header[c].off \in header[c].off .. R!EndOf(header[c]) - 1
             /\ sector[header[c].off] \in Parts
  <2>1. header[c].off \in Nat /\ header[c].count \in Nat /\ R!ValidRange(header[c])
    BY <1>1 DEF Entries, Readable
  <2>2. header[c].off \in R!Sectors /\ header[c].off \in header[c].off .. R!EndOf(header[c]) - 1
    BY <2>1, RegionFacts DEF R!ValidRange, R!EndOf, R!Sectors
  <2> QED BY <1>1, <2>2 DEF Readable
<1>2. Readable(c) => R!Load(c) \in (RegionChunks \cup {NoData}) \X Nat
  BY <1>1, LoadReads DEF Parts
<1>3. ~Readable(c) => R!Load(c) \in (RegionChunks \cup {NoData}) \X Nat
  BY LoadReads
<1> QED BY <1>1, <1>2, <1>3

LEMMA InterruptedKeeps ==
    ASSUME RegionInv, R!Interrupted
    PROVE  RegionInv'
<1>0. PICK c \in RegionChunks : c = store.chunk
  BY DEF RegionInv, RegionStore, StoreTypes, R!Interrupted
<1>1. /\ store # R!Idle /\ store' = R!Idle /\ header' = header /\ sector' = sector
      /\ size' = size /\ stores' = stores
      /\ expected' = [expected EXCEPT ![c] = R!Load(c)]
  BY <1>0 DEF R!Interrupted
<1>2. /\ expected'[c] = R!Load(c)
      /\ \A d \in RegionChunks \ {c} : expected'[d] = expected[d]
  BY <1>1 DEF RegionInv, RegionTypes
<1>3. RegionTypes'
  <2>1. R!Load(c) \in (RegionChunks \cup {NoData}) \X Nat
    BY LoadReturns DEF RegionInv, RegionTypes
  <2> QED BY <1>1, <2>1 DEF RegionInv, RegionTypes, R!Sectors
<1>4. RegionStore'
  BY <1>1 DEF RegionStore, R!Idle
<1>5. NewParts'
  BY <1>1, SameEntriesAlone DEF RegionInv, NewParts
<1>6. R!ChunksIntact'
  <2>1. \A d \in RegionChunks : R!Load(d)' = R!Load(d)
    BY <1>1 DEF R!Load
  <2> QED BY <2>1, <1>0, <1>2 DEF RegionInv, R!ChunksIntact
<1>7. R!StoredAlone'
  <2>1. R!Load(c)[2] > 0 => R!Alone(c)
    <3> SUFFICES ASSUME R!Load(c)[2] > 0 PROVE R!Alone(c)
      OBVIOUS
    <3>1. Readable(c)
      BY LoadReads
    <3>2. /\ header[c].off \in header[c].off .. R!EndOf(header[c]) - 1
          /\ sector[header[c].off].version > 0
      BY <3>1, LoadReads, LoadReturns DEF RegionInv, RegionTypes
    <3> QED BY <3>1, <3>2 DEF RegionInv, NewParts, Readable
  <2>2. ASSUME NEW d \in RegionChunks, expected'[d][2] > 0
        PROVE  R!Alone(d)
    <3>1. CASE d = c
      BY <3>1, <2>1, <2>2, <1>2
    <3>2. CASE d # c
      BY <3>2, <2>2, <1>0, <1>2 DEF RegionInv, R!StoredAlone
    <3> QED BY <3>1, <3>2
  <2> QED BY <2>2, <1>1, SameEntriesAlone DEF R!StoredAlone
<1> QED BY <1>3, <1>4, <1>5, <1>6, <1>7 DEF RegionInv

LEMMA RegionBegins == R!Init => RegionInv
<1> SUFFICES ASSUME R!Init PROVE RegionInv
  OBVIOUS
<1>1. PICK owner \in [2 .. 4 -> RegionChunks \cup {NoData}] :
         /\ \A i \in 2 .. 4 : owner[i] # NoData => i < size /\ R!Claims(owner[i], i)
         /\ sector = [i \in R!Sectors |->
               IF i > 4 \/ owner[i] = NoData THEN NoData
               ELSE R!Part(owner[i], 0, i - header[owner[i]].off, header[owner[i]].count)]
  BY DEF R!Init
<1>2. /\ header \in [RegionChunks -> Entries] /\ size \in Nat /\ store = R!Idle /\ stores = 0
      /\ expected = [c \in RegionChunks |-> R!Load(c)]
  <2>1. R!Found \subseteq Entries
    BY DEF R!Found, Entries
  <2> QED BY <2>1 DEF R!Init
<1>3. ASSUME NEW i \in R!Sectors
      PROVE  /\ sector[i] \in {NoData} \cup Parts
             /\ sector[i] # NoData => sector[i].version = 0
  <2>1. CASE i > 4 \/ owner[i] = NoData
    BY <2>1, <1>1
  <2>2. CASE ~(i > 4 \/ owner[i] = NoData)
    <3>1. i \in 2 .. 4 /\ owner[i] \in RegionChunks
      BY <2>2, <1>1 DEF R!Sectors
    <3>2. header[owner[i]].off \in Nat /\ header[owner[i]].count \in Nat
      BY <3>1, <1>2 DEF Entries
    <3>3. header[owner[i]].off <= i
      BY <1>1, <2>2, <3>1, <3>2 DEF R!Claims, R!EndOf
    <3>4. sector[i] = R!Part(owner[i], 0, i - header[owner[i]].off, header[owner[i]].count)
      BY <1>1, <2>2
    <3>5. i - header[owner[i]].off \in Nat
      BY <3>1, <3>2, <3>3
    <3> QED BY <3>1, <3>2, <3>4, <3>5 DEF R!Part, Parts
  <2> QED BY <2>1, <2>2
<1>4. sector \in [R!Sectors -> {NoData} \cup Parts]
  BY <1>1, <1>3
<1>5. \A c \in RegionChunks : R!Load(c) \in (RegionChunks \cup {NoData}) \X Nat /\ R!Load(c)[2] = 0
  <2> SUFFICES ASSUME NEW c \in RegionChunks
               PROVE  R!Load(c) \in (RegionChunks \cup {NoData}) \X Nat /\ R!Load(c)[2] = 0
    OBVIOUS
  <2>1. R!Load(c) \in (RegionChunks \cup {NoData}) \X Nat
    BY <1>2, <1>4, LoadReturns
  <2>2. CASE Readable(c)
    <3>1. header[c].off \in Nat /\ header[c].count \in Nat /\ R!ValidRange(header[c])
      BY <2>2, <1>2 DEF Entries, Readable
    <3>2. header[c].off \in R!Sectors
      BY <3>1, RegionFacts DEF R!ValidRange, R!Sectors
    <3>3. sector[header[c].off].version = 0
      BY <2>2, <3>2, <1>3 DEF Readable
    <3> QED BY <2>1, <2>2, <3>3, LoadReads
  <2>3. CASE ~Readable(c)
    BY <2>1, <2>3, LoadReads
  <2> QED BY <2>2, <2>3
<1>6. RegionTypes
  <2>1. stores \in 0 .. MaxStores
    BY <1>2, RegionFacts
  <2> QED BY <2>1, <1>2, <1>4, <1>5 DEF RegionTypes
<1>7. RegionStore
  BY <1>2 DEF RegionStore
<1>8. NewParts
  <2> SUFFICES ASSUME NEW d \in RegionChunks, R!ValidRange(header[d]),
                      NEW i \in header[d].off .. R!EndOf(header[d]) - 1, sector[i] # NoData
               PROVE  ~(sector[i].version > 0)
    BY DEF NewParts
  <2>1. header[d].off \in Nat /\ header[d].count \in Nat
    BY <1>2 DEF Entries
  <2>2. i \in R!Sectors
    BY <2>1, RegionFacts DEF R!ValidRange, R!EndOf, R!Sectors
  <2> QED BY <2>2, <1>3
<1>9. R!ChunksIntact /\ R!StoredAlone
  BY <1>2, <1>5 DEF R!ChunksIntact, R!StoredAlone
<1> QED BY <1>6, <1>7, <1>8, <1>9 DEF RegionInv

LEMMA RegionNext ==
    ASSUME RegionInv, R!Next \/ UNCHANGED region
    PROVE  RegionInv'
<1>1. CASE R!Next
  BY <1>1, StoreBeginsKeeps, WriteSectorKeeps, WriteHeaderKeeps, InterruptedKeeps DEF R!Next
<1>2. CASE UNCHANGED region
  <2>1. /\ header' = header /\ sector' = sector /\ size' = size /\ store' = store
        /\ expected' = expected /\ stores' = stores
    BY <1>2 DEF region
  <2>2. RegionTypes' /\ NewParts' /\ R!StoredAlone'
    BY <2>1, SameEntriesAlone DEF RegionInv, RegionTypes, R!Sectors, NewParts, R!StoredAlone
  <2>3. RegionStore'
    BY <2>1, SameEntriesAlone DEF RegionInv, RegionStore, R!Idle, StoreTypes, StoreFree, StoreWritten
  <2>4. R!ChunksIntact'
    BY <2>1 DEF RegionInv, R!ChunksIntact, R!Load
  <2> QED BY <2>2, <2>3, <2>4 DEF RegionInv
<1> QED BY <1>1, <1>2

\* Whatever the moment of a crash, and whichever saves failed before it, a boot
\* finds the last committed level or a newer one, unless the process runs on a
\* staged file, and level.dat_old is no older than the level committed before the
\* last one (atomicWrite, loadWithRecovery); and a crash in the middle of a store in
\* a region file leaves every other chunk as it was stored, in sectors that no other
\* has (writeChunk).
THEOREM FilesAreSound == PersistenceSpec => []FilesSound
<1> DEFINE Inv == (part = "level" => LevelInv) /\ (part = "region" => RegionInv)
<1>1. PersistenceInit => Inv
  BY LevelInit, RegionBegins DEF PersistenceInit
<1>2. Inv /\ [PersistenceNext]_allVars => Inv'
  <2> SUFFICES ASSUME Inv, [PersistenceNext]_allVars
               PROVE  Inv'
    OBVIOUS
  <2>1. part' = part
    BY PartStays
  <2>2. ASSUME part = "level" PROVE LevelInv'
    <3>1. PersistenceNext => L!Next
      BY <2>2 DEF PersistenceNext
    <3>2. UNCHANGED allVars => UNCHANGED levels
      BY DEF allVars
    <3>3. L!Next \/ UNCHANGED levels
      BY <3>1, <3>2
    <3> QED BY <2>2, <3>3, LevelNext
  <2>3. ASSUME part = "region" PROVE RegionInv'
    <3>1. PersistenceNext => R!Next
      BY <2>3 DEF PersistenceNext
    <3>2. UNCHANGED allVars => UNCHANGED region
      BY DEF allVars
    <3>3. R!Next \/ UNCHANGED region
      BY <3>1, <3>2
    <3> QED BY <2>3, <3>3, RegionNext
  <2> QED BY <2>1, <2>2, <2>3
<1>3. Inv => FilesSound
  BY LevelBacksUp DEF FilesSound, LevelInv, RegionInv
<1> QED BY <1>1, <1>2, <1>3, PTL DEF PersistenceSpec, allVars

-----------------------------------------------------------------------------
(* Who may play.                                                           *)

Ways == {"handshake", "status", "hello", "key", "auth", "ack", "packs", "config", "play", "over"}
Wires == [zips : BOOLEAN, unzips : BOOLEAN, enc : BOOLEAN, dec : BOOLEAN, unread : BOOLEAN]

\* The wire of a session at each point of its way.
WireFits(f, w) ==
    /\ w.zips = w.unzips
    /\ f \in {"handshake", "status", "hello", "key"} => ~w.enc /\ ~w.dec /\ ~w.unread
    /\ f = "key" => Online
    /\ f = "auth" => Online /\ w.dec /\ ~w.enc /\ ~w.unread
    /\ f \in {"ack", "packs", "config", "play"} => ~w.unread /\ w.enc = Online /\ w.dec = Online

DoorTypes ==
    /\ way \in [Sessions -> Ways] /\ peer \in [Sessions -> Wires]
    /\ loaded \subseteq Sessions /\ roster \subseteq Sessions

WiresFit == \A s \in Sessions : WireFits(way[s], peer[s])

\* Only who is in play is in the roster, and nobody gets there without the pack.
Rostered ==
    /\ \A s \in roster : way[s] = "play"
    /\ \A s \in Sessions : way[s] = "play" /\ PackForced => s \in loaded

ListTypes ==
    /\ lists \in [op : SUBSET A!Users, ban : SUBSET A!Users,
                  ip : SUBSET (A!Users \cup A!Addresses), white : SUBSET A!Users, on : BOOLEAN]
    /\ meant \in [op : SUBSET A!Users, ban : SUBSET A!Users,
                  ip : SUBSET (A!Users \cup A!Addresses), white : SUBSET A!Users, on : BOOLEAN]
    /\ files \in [op : SUBSET A!Users, ban : SUBSET A!Users,
                  ip : SUBSET (A!Users \cup A!Addresses), white : SUBSET A!Users, exists : BOOLEAN]

\* What is not lost is in the file too, and in the file ops.txt it adds to.
ListsFiled ==
    /\ "op" \notin lost => lists.op = meant.op /\ lists.op = files.op \cup Txt
    /\ "ban" \notin lost => lists.ban = meant.ban /\ lists.ban = files.ban
    /\ "ip" \notin lost => lists.ip = meant.ip /\ lists.ip = files.ip
    /\ "white" \notin lost => lists.white = meant.white /\ lists.white = files.white

\* Also on the way into the roster, who is on a list was past its check.
Watched ==
    \A s \in Sessions :
       (A!Past(s) \/ (s \in roster /\ s \in open)) /\ (User[s] \in lists.ban \/ From[s] \in lists.ip)
          => s \in raced

DoorInv == DoorTypes /\ WiresFit /\ Rostered /\ ListTypes /\ ListsFiled /\ Watched

LEMMA DoorFacts ==
    /\ Txt \subseteq A!Users
    /\ Online \in BOOLEAN /\ Zips \in BOOLEAN /\ PackForced \in BOOLEAN /\ Whitelisted \in BOOLEAN
BY FileConstants DEF A!AdmissionConstants

-----------------------------------------------------------------------------
(* The wire.                                                               *)

LEMMA SentOver ==
    ASSUME NEW w \in Wires, w.zips = w.unzips
    PROVE  /\ A!Sent(w) \in Wires
           /\ A!Sent(w).zips = A!Sent(w).unzips
           /\ A!Sent(w).enc = w.enc /\ A!Sent(w).dec = w.dec
           /\ w.enc = w.dec /\ ~w.unread => ~A!Sent(w).unread
BY DEF A!Sent, Wires

LEMMA CompressedOver ==
    ASSUME NEW w \in Wires, w.zips = w.unzips
    PROVE  /\ A!Compressed(w) \in Wires
           /\ A!Compressed(w).zips = A!Compressed(w).unzips
           /\ A!Compressed(w).enc = w.enc /\ A!Compressed(w).dec = w.dec
           /\ w.enc = w.dec /\ ~w.unread => ~A!Compressed(w).unread
<1> DEFINE v == A!Sent(w)
<1>1. /\ v \in Wires /\ v.enc = w.enc /\ v.dec = w.dec
      /\ w.enc = w.dec /\ ~w.unread => ~v.unread
  BY SentOver
<1>2. A!Compressed(w) = [v EXCEPT !.zips = TRUE, !.unzips = TRUE]
  BY DEF A!Compressed
<1> HIDE DEF v
<1> QED BY <1>1, <1>2 DEF Wires

-----------------------------------------------------------------------------
(* The steps of a session.                                                 *)

Passing == {"key", "auth", "ack", "packs", "config"}

\* A step of one session that puts nobody into the roster.
Steps(s, f, w) ==
    /\ way' = [way EXCEPT ![s] = f] /\ peer' = [peer EXCEPT ![s] = w]
    /\ f \in Ways /\ w \in Wires /\ WireFits(f, w)
    /\ loaded \subseteq loaded' /\ loaded' \subseteq Sessions
    /\ roster' \subseteq roster /\ open' \subseteq open /\ raced' = raced
    /\ lists' = lists /\ files' = files /\ meant' = meant /\ lost' = lost
    /\ f = "play" => way[s] = "play"
    /\ s \in roster' => f = way[s]
    /\ f \in Passing => way[s] \in Passing \/ A!Allowed(s)

LEMMA SameLists ==
    ASSUME ListTypes, ListsFiled, lists' = lists, files' = files, meant' = meant, lost' = lost
    PROVE  ListTypes' /\ ListsFiled'
BY DEF ListTypes, ListsFiled, A!Users, A!Addresses

LEMMA StepsKeep ==
    ASSUME DoorInv, NEW s \in Sessions, NEW f, NEW w, Steps(s, f, w)
    PROVE  DoorInv'
<1>1. /\ way' = [way EXCEPT ![s] = f] /\ peer' = [peer EXCEPT ![s] = w]
      /\ f \in Ways /\ w \in Wires /\ WireFits(f, w)
      /\ way \in [Sessions -> Ways] /\ peer \in [Sessions -> Wires]
  BY DEF Steps, DoorInv, DoorTypes
<1>2. /\ way'[s] = f /\ peer'[s] = w
      /\ \A t \in Sessions \ {s} : way'[t] = way[t] /\ peer'[t] = peer[t]
  BY <1>1
<1>3. DoorTypes'
  <2>1. way' \in [Sessions -> Ways] /\ peer' \in [Sessions -> Wires]
    BY <1>1
  <2> QED BY <2>1 DEF Steps, DoorInv, DoorTypes
<1>4. WiresFit'
  <2>1. \A t \in Sessions : WireFits(way'[t], peer'[t])
    BY <1>1, <1>2 DEF DoorInv, WiresFit
  <2> QED BY <2>1 DEF WiresFit, WireFits
<1>5. Rostered'
  <2>1. \A t \in roster' : t \in roster /\ t \in Sessions /\ way[t] = "play" /\ way'[t] = way[t]
    BY <1>2 DEF Steps, DoorInv, DoorTypes, Rostered
  <2>2. \A t \in Sessions : way'[t] = "play" => way[t] = "play"
    BY <1>2 DEF Steps
  <2> QED BY <2>1, <2>2 DEF Steps, DoorInv, Rostered
<1>6. ListTypes' /\ ListsFiled'
  BY SameLists DEF Steps, DoorInv
<1>7. Watched'
  <2> SUFFICES ASSUME NEW t \in Sessions, A!Past(t)' \/ (t \in roster' /\ t \in open'),
                      User[t] \in lists.ban \/ From[t] \in lists.ip
               PROVE  t \in raced
    BY DEF Watched, Steps
  <2>1. A!Past(t)' => way'[t] \in Passing
    BY DEF A!Past, Passing
  <2>2. way[t] \in Passing => A!Past(t)
    BY DEF A!Past, Passing
  <2>3. t = s => ~(f \in Passing /\ way[s] \notin Passing)
    BY DEF Steps, A!Allowed
  <2>4. CASE A!Past(t)'
    BY <2>1, <2>2, <2>3, <2>4, <1>2 DEF DoorInv, Watched
  <2>5. CASE t \in roster' /\ t \in open'
    BY <2>5 DEF Steps, DoorInv, Watched
  <2> QED BY <2>4, <2>5
<1> QED BY <1>3, <1>4, <1>5, <1>6, <1>7 DEF DoorInv

\* A session that is refused, or goes.
LEMMA OverSteps ==
    ASSUME DoorInv, NEW s \in Sessions, A!Over(s), NEW w \in Wires, w.zips = w.unzips,
           peer' = [peer EXCEPT ![s] = w], way[s] = "play" => WireFits("play", w),
           UNCHANGED <<lists, files, meant, lost, loaded, roster, raced>>
    PROVE  DoorInv'
<1>1. way[s] \in Ways /\ way \in [Sessions -> Ways]
  BY DEF DoorInv, DoorTypes
<1>2. CASE way[s] = "play"
  <2>1. way' = [way EXCEPT ![s] = "play"] /\ open' \subseteq open
    BY <1>1, <1>2 DEF A!Over
  <2>2. Steps(s, "play", w)
    BY <2>1, <1>2 DEF Steps, Ways, Passing, DoorInv, DoorTypes
  <2> QED BY <2>2, StepsKeep
<1>3. CASE way[s] # "play"
  <2>1. way' = [way EXCEPT ![s] = "over"] /\ open' \subseteq open
    BY <1>3 DEF A!Over, A!Moves
  <2>2. WireFits("over", w) /\ s \notin roster
    BY <1>3 DEF WireFits, DoorInv, Rostered
  <2>3. Steps(s, "over", w)
    BY <2>1, <2>2 DEF Steps, Ways, Passing, DoorInv, DoorTypes
  <2> QED BY <2>3, StepsKeep
<1> QED BY <1>2, <1>3

LEMMA RefuseKeeps ==
    ASSUME DoorInv, NEW s \in Sessions, NEW w \in Wires, w.zips = w.unzips, A!Refuse(s, w),
           way[s] = "play" => WireFits("play", w),
           UNCHANGED <<lists, files, meant, lost, loaded, roster, raced>>
    PROVE  DoorInv'
<1>1. A!Over(s) /\ peer' = [peer EXCEPT ![s] = A!Sent(w)]
  BY DEF A!Refuse, A!Writes
<1>2. A!Sent(w) \in Wires /\ A!Sent(w).zips = A!Sent(w).unzips
  BY SentOver
<1>3. way[s] = "play" => WireFits("play", A!Sent(w))
  <2> SUFFICES ASSUME way[s] = "play" PROVE WireFits("play", A!Sent(w))
    OBVIOUS
  <2>1. ~w.unread /\ w.enc = Online /\ w.dec = Online
    BY DEF WireFits
  <2>2. ~A!Sent(w).unread /\ A!Sent(w).enc = Online /\ A!Sent(w).dec = Online
    BY <2>1, SentOver
  <2> QED BY <2>2, <1>2 DEF WireFits
<1> QED BY <1>1, <1>2, <1>3, OverSteps

LEMMA WireNow ==
    ASSUME DoorInv, NEW s \in Sessions
    PROVE  /\ way[s] \in Ways /\ peer[s] \in Wires /\ WireFits(way[s], peer[s])
           /\ peer[s].zips = peer[s].unzips
           /\ way = [way EXCEPT ![s] = way[s]] /\ peer = [peer EXCEPT ![s] = peer[s]]
BY DEF DoorInv, DoorTypes, WiresFit, WireFits

LEMMA FieldsOf ==
    ASSUME NEW w \in Wires
    PROVE  /\ w.zips \in BOOLEAN /\ w.unzips \in BOOLEAN /\ w.enc \in BOOLEAN
           /\ w.dec \in BOOLEAN /\ w.unread \in BOOLEAN
BY DEF Wires

\* A session that goes on, with what it may have been sent.
LEMMA MovesKeeps ==
    ASSUME DoorInv, NEW s \in Sessions, NEW f \in Ways, A!Moves(s, f), NEW w \in Wires,
           peer' = [peer EXCEPT ![s] = w], WireFits(f, w),
           f \notin {"play"}, way[s] # "play",
           f \in Passing => way[s] \in Passing \/ A!Allowed(s),
           UNCHANGED <<lists, files, meant, lost, loaded, roster, raced, open>>
    PROVE  DoorInv'
<1>1. way' = [way EXCEPT ![s] = f] /\ s \notin roster
  BY DEF A!Moves, DoorInv, Rostered
<1>2. Steps(s, f, w)
  BY <1>1 DEF Steps, DoorInv, DoorTypes
<1> QED BY <1>2, StepsKeep

LEMMA HandshakeKeeps ==
    ASSUME DoorInv, NEW s \in Sessions, A!Handshake(s) \/ A!Status(s)
    PROVE  DoorInv'
<1>1. /\ way[s] \in {"handshake", "status"}
      /\ UNCHANGED <<lists, files, meant, lost, loaded, roster, raced>>
  BY DEF A!Handshake, A!Status, A!Packet, A!admin
<1>2. /\ peer[s] \in Wires /\ peer[s].zips = peer[s].unzips /\ WireFits(way[s], peer[s])
      /\ peer = [peer EXCEPT ![s] = peer[s]]
  BY WireNow
<1>3. WireFits("status", peer[s]) /\ WireFits("hello", peer[s])
  BY <1>1, <1>2 DEF WireFits
<1>4. CASE A!Over(s) /\ UNCHANGED peer
  BY <1>1, <1>2, <1>4, OverSteps
<1>5. CASE A!Refuse(s, peer[s])
  BY <1>1, <1>2, <1>5, RefuseKeeps
<1>6. ASSUME NEW f \in {"status", "hello"}, A!Moves(s, f), UNCHANGED <<open, peer>>
      PROVE  DoorInv'
  <2>1. f \in Ways /\ f \notin Passing /\ f # "play" /\ way[s] # "play" /\ WireFits(f, peer[s])
    BY <1>1, <1>3 DEF Ways, Passing
  <2>2. peer' = [peer EXCEPT ![s] = peer[s]]
    BY <1>2, <1>6
  <2> QED BY <1>1, <1>2, <1>6, <2>1, <2>2, MovesKeeps
<1> QED BY <1>4, <1>5, <1>6 DEF A!Handshake, A!Status

\* Whoever gets a slot is told so over a wire that he reads.
LEMMA ReserveKeeps ==
    ASSUME DoorInv, NEW s \in Sessions, NEW w \in Wires, A!Reserve(s, w), WireFits("ack", w),
           way[s] # "play", way[s] \in Passing \/ A!Allowed(s),
           UNCHANGED <<lists, files, meant, lost, loaded, roster, raced>>
    PROVE  DoorInv'
<1>1. w.zips = w.unzips /\ ~w.unread /\ w.enc = Online /\ w.dec = Online
  BY DEF WireFits
<1>2. CASE A!Refuse(s, w)
  BY <1>1, <1>2, RefuseKeeps
<1>3. CASE A!Moves(s, "ack") /\ A!Writes(s, A!Sent(w)) /\ UNCHANGED open
  <2>1. /\ A!Sent(w) \in Wires /\ A!Sent(w).zips = A!Sent(w).unzips
        /\ ~A!Sent(w).unread /\ A!Sent(w).enc = Online /\ A!Sent(w).dec = Online
    BY <1>1, SentOver
  <2>2. WireFits("ack", A!Sent(w))
    BY <2>1 DEF WireFits
  <2>3. "ack" \in Ways /\ "ack" # "play"
    BY DEF Ways
  <2>4. peer' = [peer EXCEPT ![s] = A!Sent(w)]
    BY <1>3 DEF A!Writes
  <2> QED BY <1>3, <2>1, <2>2, <2>3, <2>4, MovesKeeps
<1> QED BY <1>2, <1>3 DEF A!Reserve

LEMMA HelloKeeps ==
    ASSUME DoorInv, NEW s \in Sessions, A!Hello(s)
    PROVE  DoorInv'
<1> DEFINE w == IF Zips THEN A!Compressed(peer[s]) ELSE peer[s]
<1>1. /\ way[s] = "hello" /\ UNCHANGED <<lists, files, meant, lost, loaded, roster, raced>>
      /\ peer[s] \in Wires /\ peer[s].zips = peer[s].unzips /\ WireFits(way[s], peer[s])
  BY WireNow DEF A!Hello, A!Packet, A!admin
<1>2. ~peer[s].enc /\ ~peer[s].dec /\ ~peer[s].unread
  BY <1>1 DEF WireFits
<1>3. /\ w \in Wires /\ w.zips = w.unzips /\ ~w.enc /\ ~w.dec /\ ~w.unread
  <2>1. A!Compressed(peer[s]) \in Wires
        /\ A!Compressed(peer[s]).zips = A!Compressed(peer[s]).unzips
        /\ A!Compressed(peer[s]).enc = peer[s].enc /\ A!Compressed(peer[s]).dec = peer[s].dec
        /\ ~A!Compressed(peer[s]).unread
    BY <1>1, <1>2, CompressedOver, FieldsOf
  <2> QED BY <2>1, <1>1, <1>2
<1>4. \/ A!Refuse(s, peer[s])
      \/ A!Refuse(s, w)
      \/ Online /\ A!Allowed(s) /\ A!Moves(s, "key") /\ A!Writes(s, A!Sent(w)) /\ UNCHANGED open
      \/ ~Online /\ A!Allowed(s) /\ A!Reserve(s, w)
  BY DEF A!Hello
<1> HIDE DEF w
<1>5. CASE A!Refuse(s, peer[s])
  BY <1>1, <1>5, RefuseKeeps
<1>6. CASE A!Refuse(s, w)
  BY <1>1, <1>3, <1>6, RefuseKeeps
<1>7. CASE Online /\ A!Allowed(s) /\ A!Moves(s, "key") /\ A!Writes(s, A!Sent(w)) /\ UNCHANGED open
  <2>1. /\ A!Sent(w) \in Wires /\ A!Sent(w).zips = A!Sent(w).unzips
        /\ ~A!Sent(w).unread /\ ~A!Sent(w).enc /\ ~A!Sent(w).dec
    BY <1>3, SentOver, FieldsOf
  <2>2. WireFits("key", A!Sent(w)) /\ "key" \in Ways
    BY <1>7, <2>1 DEF WireFits, Ways
  <2>3. peer' = [peer EXCEPT ![s] = A!Sent(w)]
    BY <1>7 DEF A!Writes
  <2> QED BY <1>1, <1>7, <2>1, <2>2, <2>3, MovesKeeps
<1>8. CASE ~Online /\ A!Allowed(s) /\ A!Reserve(s, w)
  <2>1. w.enc = Online /\ w.dec = Online
    BY <1>3, <1>8, DoorFacts, FieldsOf, Zenon
  <2>2. WireFits("ack", w)
    BY <1>3, <2>1 DEF WireFits
  <2> QED BY <1>1, <1>3, <1>8, <2>2, ReserveKeeps
<1> QED BY <1>4, <1>5, <1>6, <1>7, <1>8

LEMMA KeyKeeps ==
    ASSUME DoorInv, NEW s \in Sessions, A!Key(s)
    PROVE  DoorInv'
<1> DEFINE w == [peer[s] EXCEPT !.dec = TRUE]
<1>1. /\ way[s] = "key" /\ UNCHANGED <<lists, files, meant, lost, loaded, roster, raced>>
      /\ peer[s] \in Wires /\ peer[s].zips = peer[s].unzips /\ WireFits(way[s], peer[s])
  BY WireNow DEF A!Key, A!Packet, A!admin
<1>2. Online /\ ~peer[s].enc /\ ~peer[s].unread
  BY <1>1 DEF WireFits
<1>3. w \in Wires /\ w.zips = w.unzips /\ w.dec /\ w.enc = peer[s].enc /\ w.unread = peer[s].unread
  BY <1>1 DEF Wires
<1>4. A!Refuse(s, w) \/ (A!Moves(s, "auth") /\ UNCHANGED open /\ A!Writes(s, w))
  BY DEF A!Key
<1> HIDE DEF w
<1>5. CASE A!Refuse(s, w)
  BY <1>1, <1>3, <1>5, RefuseKeeps
<1>6. CASE A!Moves(s, "auth") /\ UNCHANGED open /\ A!Writes(s, w)
  <2>1. WireFits("auth", w) /\ "auth" \in Ways /\ way[s] \in Passing
    BY <1>1, <1>2, <1>3 DEF WireFits, Ways, Passing
  <2>2. peer' = [peer EXCEPT ![s] = w]
    BY <1>6 DEF A!Writes
  <2> QED BY <1>1, <1>3, <1>6, <2>1, <2>2, MovesKeeps
<1> QED BY <1>4, <1>5, <1>6

LEMMA AnsweredKeeps ==
    ASSUME DoorInv, NEW s \in Sessions, A!Answered(s)
    PROVE  DoorInv'
<1> DEFINE v == [peer[s] EXCEPT !.enc = TRUE]
           w == IF Zips THEN A!Compressed(v) ELSE v
<1>1. /\ way[s] = "auth" /\ UNCHANGED <<lists, files, meant, lost, loaded, roster, raced>>
      /\ peer[s] \in Wires /\ peer[s].zips = peer[s].unzips /\ WireFits(way[s], peer[s])
  BY WireNow DEF A!Answered, A!admin
<1>2. Online /\ peer[s].dec /\ ~peer[s].unread
  BY <1>1 DEF WireFits
<1>3. v \in Wires /\ v.zips = v.unzips /\ v.enc /\ v.dec = peer[s].dec /\ v.unread = peer[s].unread
  BY <1>1 DEF Wires
<1>4. A!Refuse(s, peer[s]) \/ A!Reserve(s, w)
  BY DEF A!Answered
<1> HIDE DEF v
<1>5. w \in Wires /\ w.zips = w.unzips /\ w.enc /\ w.dec /\ ~w.unread
  <2>1. v.enc = v.dec /\ ~v.unread /\ v.enc /\ v.dec
    BY <1>2, <1>3, FieldsOf, Zenon
  <2>2. A!Compressed(v) \in Wires
        /\ A!Compressed(v).zips = A!Compressed(v).unzips
        /\ A!Compressed(v).enc = v.enc /\ A!Compressed(v).dec = v.dec
        /\ ~A!Compressed(v).unread
    BY <1>3, <2>1, CompressedOver
  <2> QED BY <2>1, <2>2, <1>3
<1> HIDE DEF w
<1>6. w.enc = Online /\ w.dec = Online
  BY <1>2, <1>5, DoorFacts, FieldsOf, Zenon
<1>7. WireFits("ack", w) /\ way[s] \in Passing /\ way[s] # "play"
  BY <1>1, <1>5, <1>6 DEF WireFits, Passing
<1> QED BY <1>1, <1>4, <1>5, <1>7, RefuseKeeps, ReserveKeeps

\* From the acknowledgement of the login on the wire stays as it is.
LEMMA SentInFull ==
    ASSUME DoorInv, NEW s \in Sessions, way[s] \in {"ack", "packs", "config", "play"},
           NEW f \in {"ack", "packs", "config", "play"}
    PROVE  /\ peer[s] \in Wires /\ peer[s].zips = peer[s].unzips
           /\ A!Sent(peer[s]) \in Wires /\ WireFits(f, A!Sent(peer[s])) /\ WireFits(f, peer[s])
<1>1. /\ peer[s] \in Wires /\ peer[s].zips = peer[s].unzips /\ ~peer[s].unread
      /\ peer[s].enc = Online /\ peer[s].dec = Online
  BY WireNow DEF WireFits
<1>2. /\ A!Sent(peer[s]) \in Wires /\ A!Sent(peer[s]).zips = A!Sent(peer[s]).unzips
      /\ ~A!Sent(peer[s]).unread
      /\ A!Sent(peer[s]).enc = Online /\ A!Sent(peer[s]).dec = Online
  BY <1>1, SentOver
<1> QED BY <1>1, <1>2 DEF WireFits

LEMMA ConfigurationKeeps ==
    ASSUME DoorInv, NEW s \in Sessions, A!Acknowledge(s) \/ A!PacksDone(s) \/ A!LateFinish(s)
    PROVE  DoorInv'
<1>1. /\ way[s] \in {"ack", "packs", "config"} /\ way[s] \in Passing /\ way[s] # "play"
      /\ UNCHANGED <<lists, files, meant, lost, loaded, roster, raced>>
  BY DEF A!Acknowledge, A!PacksDone, A!LateFinish, A!Packet, A!admin, Passing
<1>2. CASE A!LateFinish(s)
  BY <1>1, <1>2, SentInFull, RefuseKeeps DEF A!LateFinish
<1>3. ASSUME NEW f \in {"packs", "config"}, A!Moves(s, f), A!Writes(s, A!Sent(peer[s])),
             UNCHANGED open
      PROVE  DoorInv'
  <2>1. /\ A!Sent(peer[s]) \in Wires /\ WireFits(f, A!Sent(peer[s])) /\ f \in Ways
        /\ f # "play"
    BY <1>1, SentInFull DEF Ways
  <2>2. peer' = [peer EXCEPT ![s] = A!Sent(peer[s])]
    BY <1>3 DEF A!Writes
  <2> QED BY <1>1, <1>3, <2>1, <2>2, MovesKeeps
<1>4. CASE A!Acknowledge(s)
  BY <1>4, <1>3 DEF A!Acknowledge
<1>5. CASE A!PacksDone(s)
  BY <1>5, <1>3 DEF A!PacksDone
<1> QED BY <1>2, <1>4, <1>5

LEMMA PackResponseKeeps ==
    ASSUME DoorInv, NEW s \in Sessions, A!PackResponse(s)
    PROVE  DoorInv'
<1>1. /\ way[s] \in {"packs", "config", "play"}
      /\ UNCHANGED <<lists, files, meant, lost, roster, raced>>
  BY DEF A!PackResponse, A!admin
<1>2. CASE UNCHANGED <<way, open, peer>> /\ (loaded' = loaded \cup {s} \/ UNCHANGED loaded)
  <2>1. way[s] \in Ways /\ peer[s] \in Wires /\ WireFits(way[s], peer[s])
    BY WireNow
  <2>2. way' = [way EXCEPT ![s] = way[s]] /\ peer' = [peer EXCEPT ![s] = peer[s]]
    BY <1>2, WireNow
  <2>3. Steps(s, way[s], peer[s])
    BY <1>1, <1>2, <2>1, <2>2 DEF Steps, DoorInv, DoorTypes
  <2> QED BY <2>3, StepsKeep
<1>3. CASE A!Refuse(s, peer[s]) /\ UNCHANGED loaded
  BY <1>1, <1>3, SentInFull, RefuseKeeps
<1> QED BY <1>2, <1>3 DEF A!PackResponse

LEMMA LeavesKeep ==
    ASSUME DoorInv, NEW s \in Sessions, A!Drop(s) \/ A!Leave(s)
    PROVE  DoorInv'
<1>1. /\ peer[s] \in Wires /\ peer[s].zips = peer[s].unzips /\ WireFits(way[s], peer[s])
      /\ peer = [peer EXCEPT ![s] = peer[s]]
  BY WireNow
<1>2. CASE A!Drop(s)
  BY <1>1, <1>2, OverSteps DEF A!Drop, A!admin
<1>3. CASE A!Leave(s)
  <2>1. /\ way' = [way EXCEPT ![s] = "over"] /\ roster' = roster \ {s} /\ peer' = peer
        /\ UNCHANGED <<lists, files, meant, lost, open, loaded, raced>>
    BY <1>3 DEF A!Leave, A!Moves, A!admin
  <2>2. WireFits("over", peer[s])
    BY <1>1 DEF WireFits
  <2>3. Steps(s, "over", peer[s])
    BY <1>1, <2>1, <2>2 DEF Steps, Ways, Passing, DoorInv, DoorTypes
  <2> QED BY <2>3, StepsKeep
<1> QED BY <1>2, <1>3

\* Into the roster: who is on a list was past its check already.
LEMMA FinishKeeps ==
    ASSUME DoorInv, NEW s \in Sessions, A!Finish(s)
    PROVE  DoorInv'
<1>1. /\ way[s] = "config" /\ UNCHANGED <<lists, files, meant, lost, loaded, raced>>
      /\ way \in [Sessions -> Ways] /\ peer \in [Sessions -> Wires]
      /\ roster \subseteq Sessions /\ s \notin roster
  BY DEF A!Finish, A!Packet, A!admin, DoorInv, DoorTypes, Rostered
<1>2. CASE A!Refuse(s, peer[s]) /\ UNCHANGED roster
  BY <1>1, <1>2, SentInFull, RefuseKeeps
<1>3. CASE /\ PackForced => s \in loaded
           /\ roster' = {t \in roster : User[t] # User[s]} \cup {s}
           /\ open' = open \ {t \in roster : User[t] = User[s]}
           /\ A!Moves(s, "play") /\ A!Writes(s, A!Sent(peer[s]))
  <2>1. /\ way' = [way EXCEPT ![s] = "play"] /\ peer' = [peer EXCEPT ![s] = A!Sent(peer[s])]
        /\ A!Sent(peer[s]) \in Wires /\ WireFits("play", A!Sent(peer[s]))
    BY <1>1, <1>3, SentInFull DEF A!Moves, A!Writes
  <2>2. /\ way'[s] = "play" /\ peer'[s] = A!Sent(peer[s])
        /\ \A t \in Sessions \ {s} : way'[t] = way[t] /\ peer'[t] = peer[t]
    BY <1>1, <2>1
  <2>3. DoorTypes'
    <3>1. way' \in [Sessions -> Ways] /\ peer' \in [Sessions -> Wires]
      BY <1>1, <2>1 DEF Ways
    <3>2. roster' \subseteq Sessions
      BY <1>1, <1>3
    <3> QED BY <1>1, <3>1, <3>2 DEF DoorInv, DoorTypes
  <2>4. WiresFit'
    <3>1. \A t \in Sessions : WireFits(way'[t], peer'[t])
      BY <2>1, <2>2 DEF DoorInv, WiresFit
    <3> QED BY <3>1 DEF WiresFit, WireFits
  <2>5. Rostered'
    BY <1>1, <1>3, <2>2 DEF DoorInv, Rostered
  <2>6. ListTypes' /\ ListsFiled'
    BY <1>1, SameLists DEF DoorInv
  <2>7. Watched'
    <3> SUFFICES ASSUME NEW t \in Sessions, A!Past(t)' \/ (t \in roster' /\ t \in open'),
                        User[t] \in lists.ban \/ From[t] \in lists.ip
                 PROVE  t \in raced
      BY <1>1 DEF Watched
    <3>1. CASE t = s
      BY <3>1, <1>1 DEF DoorInv, Watched, A!Past
    <3>2. CASE t # s
      <4>1. A!Past(t) \/ (t \in roster /\ t \in open)
        BY <3>2, <2>2, <1>3 DEF A!Past
      <4> QED BY <4>1 DEF DoorInv, Watched
    <3> QED BY <3>1, <3>2
  <2> QED BY <2>3, <2>4, <2>5, <2>6, <2>7 DEF DoorInv
<1> QED BY <1>2, <1>3 DEF A!Finish

\* New sessions, which the lists are still to be asked about.
LEMMA FreshKeeps ==
    ASSUME DoorInv, NEW T \in SUBSET Sessions, A!Fresh(T),
           roster' \subseteq roster \ T,
           (lists'.ban = lists.ban /\ lists'.ip = lists.ip) \/ T = Sessions,
           ListTypes', ListsFiled'
    PROVE  DoorInv'
<1>1. /\ \A t \in T : way'[t] = "handshake" /\ peer'[t] = A!Plain
      /\ \A t \in Sessions \ T : way'[t] = way[t] /\ peer'[t] = peer[t]
      /\ way' = [t \in Sessions |-> IF t \in T THEN "handshake" ELSE way[t]]
      /\ peer' = [t \in Sessions |-> IF t \in T THEN A!Plain ELSE peer[t]]
      /\ loaded' = loaded \ T /\ raced' = raced \ T /\ open' = open \cup T
  BY DEF A!Fresh
<1>2. A!Plain \in Wires /\ WireFits("handshake", A!Plain) /\ "handshake" \in Ways
  BY DEF A!Plain, Wires, WireFits, Ways
<1>3. DoorTypes'
  <2>1. way' \in [Sessions -> Ways] /\ peer' \in [Sessions -> Wires]
    BY <1>1, <1>2 DEF DoorInv, DoorTypes
  <2> QED BY <2>1, <1>1 DEF DoorInv, DoorTypes
<1>4. WiresFit'
  <2>1. \A t \in Sessions : WireFits(way'[t], peer'[t])
    BY <1>1, <1>2 DEF DoorInv, WiresFit
  <2> QED BY <2>1 DEF WiresFit, WireFits
<1>5. Rostered'
  BY <1>1 DEF DoorInv, DoorTypes, Rostered
<1>6. Watched'
  <2> SUFFICES ASSUME NEW t \in Sessions, A!Past(t)' \/ (t \in roster' /\ t \in open'),
                      User[t] \in lists'.ban \/ From[t] \in lists'.ip
               PROVE  t \in raced'
    BY DEF Watched
  <2>1. t \notin T
    BY <1>1 DEF A!Past
  <2>2. A!Past(t) \/ (t \in roster /\ t \in open)
    BY <2>1, <1>1 DEF A!Past
  <2> QED BY <2>1, <2>2, <1>1 DEF DoorInv, Watched
<1> QED BY <1>3, <1>4, <1>5, <1>6 DEF DoorInv

LEMMA ConnectKeeps ==
    ASSUME DoorInv, NEW s \in Sessions, A!Connect(s)
    PROVE  DoorInv'
<1>1. /\ way[s] = "over" /\ A!Fresh({s})
      /\ UNCHANGED <<roster, lists, files, meant, lost>>
  BY DEF A!Connect, A!admin
<1>2. s \notin roster
  BY <1>1 DEF DoorInv, Rostered
<1>3. ListTypes' /\ ListsFiled'
  BY <1>1, SameLists DEF DoorInv
<1> QED BY <1>1, <1>2, <1>3, FreshKeeps

LEMMA BootKeeps ==
    ASSUME DoorInv, A!Boot
    PROVE  DoorInv'
<1>1. /\ A!Fresh(Sessions) /\ roster' = {} /\ UNCHANGED <<files, meant, lost>>
      /\ lists' = [op |-> files.op \cup Txt, ban |-> files.ban, ip |-> files.ip,
                   white |-> files.white, on |-> files.exists \/ Whitelisted]
  BY DEF A!Boot
<1>2. /\ lists'.op = files.op \cup Txt /\ lists'.ban = files.ban /\ lists'.ip = files.ip
      /\ lists'.white = files.white
  BY <1>1
<1>3. ListTypes'
  <2>1. /\ files.op \cup Txt \in SUBSET A!Users /\ files.ban \in SUBSET A!Users
        /\ files.ip \in SUBSET (A!Users \cup A!Addresses) /\ files.white \in SUBSET A!Users
    BY DoorFacts DEF DoorInv, ListTypes
  <2>2. (files.exists \/ Whitelisted) \in BOOLEAN
    OBVIOUS
  <2> QED BY <2>1, <2>2, <1>1 DEF DoorInv, ListTypes, A!Users, A!Addresses
<1>4. ListsFiled'
  BY <1>1, <1>2 DEF DoorInv, ListsFiled
<1> QED BY <1>1, <1>3, <1>4, FreshKeeps

-----------------------------------------------------------------------------
(* The commands of administrators.                                         *)

Kept == {"op", "ban", "ip", "white"}
NamesOf(f) == IF f = "ip" THEN A!Users \cup A!Addresses ELSE A!Users

\* A list becomes S, which is written, or lost, or as it was.
LEMMA ListChanges ==
    ASSUME ListTypes, ListsFiled, NEW f \in Kept,
           NEW S \in SUBSET NamesOf(f), NEW M \in SUBSET NamesOf(f),
           lists' = [lists EXCEPT ![f] = S], meant' = [meant EXCEPT ![f] = M],
           f \notin lost => S = M,
           \/ /\ files' = [files EXCEPT ![f] = S, !.exists = @ \/ f = "white"]
              /\ lost' = lost /\ (f = "op" /\ "op" \notin lost => Txt \subseteq S)
           \/ files' = files /\ lost' = lost \cup {f}
           \/ files' = files /\ lost' = lost /\ S = lists[f]
    PROVE  /\ ListTypes' /\ ListsFiled'
           /\ f = "ban" => lists'.ban = S /\ lists'.ip = lists.ip
           /\ f = "ip" => lists'.ip = S /\ lists'.ban = lists.ban
           /\ f \notin {"ban", "ip"} => lists'.ban = lists.ban /\ lists'.ip = lists.ip
<1>1. CASE f = "op"
  <2>1. S \in SUBSET A!Users /\ M \in SUBSET A!Users
    BY <1>1 DEF NamesOf
  <2>2. /\ lists' = [lists EXCEPT !.op = S] /\ meant' = [meant EXCEPT !.op = M]
        /\ files' = files \/ files' = [files EXCEPT !.op = S, !.exists = @ \/ f = "white"]
    BY <1>1
  <2>3. ListTypes'
    <3>1. lists' \in [op : SUBSET A!Users, ban : SUBSET A!Users,
                     ip : SUBSET (A!Users \cup A!Addresses), white : SUBSET A!Users, on : BOOLEAN]
      BY <2>1, <2>2 DEF ListTypes
    <3>2. meant' \in [op : SUBSET A!Users, ban : SUBSET A!Users,
                     ip : SUBSET (A!Users \cup A!Addresses), white : SUBSET A!Users, on : BOOLEAN]
      BY <2>1, <2>2 DEF ListTypes
    <3>3. files' \in [op : SUBSET A!Users, ban : SUBSET A!Users,
                     ip : SUBSET (A!Users \cup A!Addresses), white : SUBSET A!Users, exists : BOOLEAN]
      <4>1. CASE files' = files
        BY <4>1 DEF ListTypes
      <4>2. CASE files' = [files EXCEPT !.op = S, !.exists = @ \/ f = "white"]
        <5>1. (files.exists \/ f = "white") \in BOOLEAN
          OBVIOUS
        <5> QED BY <2>1, <4>2, <5>1 DEF ListTypes
      <4> QED BY <2>2, <4>1, <4>2
    <3> QED BY <3>1, <3>2, <3>3 DEF ListTypes
  <2>4. ListsFiled'
    <3>1. "op" \notin lost' => lists'.op = meant'.op
      <4>1. lists'.op = S /\ meant'.op = M
        BY <2>2 DEF ListTypes
      <4>2. "op" \notin lost' => "op" \notin lost
        OBVIOUS
      <4> QED BY <1>1, <4>1, <4>2
    <3>2. "op" \notin lost' => lists'.op = files'.op \cup Txt
      <4>1. lists'.op = S
        BY <2>2 DEF ListTypes
      <4>2. CASE files' = files
        BY <1>1, <4>1, <4>2 DEF ListsFiled, ListTypes
      <4>3. CASE files' # files
        <5>1. files'.op = S /\ lost' = lost /\ ("op" \notin lost => Txt \subseteq S)
          BY <1>1, <4>3 DEF ListTypes
        <5> QED BY <4>1, <5>1
      <4> QED BY <4>2, <4>3
    <3>3. /\ lists'.ban = lists.ban /\ lists'.ip = lists.ip /\ lists'.white = lists.white
          /\ meant'.ban = meant.ban /\ meant'.ip = meant.ip /\ meant'.white = meant.white
          /\ files'.ban = files.ban /\ files'.ip = files.ip /\ files'.white = files.white
      BY <2>2 DEF ListTypes
    <3> QED BY <3>1, <3>2, <3>3 DEF ListsFiled
  <2> QED BY <1>1, <2>2, <2>3, <2>4 DEF ListTypes
<1>2. CASE f = "ban"
  <2>1. S \in SUBSET A!Users /\ M \in SUBSET A!Users
    BY <1>2 DEF NamesOf
  <2>2. /\ lists' = [lists EXCEPT !.ban = S] /\ meant' = [meant EXCEPT !.ban = M]
        /\ files' = files \/ files' = [files EXCEPT !.ban = S, !.exists = @ \/ f = "white"]
    BY <1>2
  <2>3. ListTypes'
    <3>1. lists' \in [op : SUBSET A!Users, ban : SUBSET A!Users,
                     ip : SUBSET (A!Users \cup A!Addresses), white : SUBSET A!Users, on : BOOLEAN]
      BY <2>1, <2>2 DEF ListTypes
    <3>2. meant' \in [op : SUBSET A!Users, ban : SUBSET A!Users,
                     ip : SUBSET (A!Users \cup A!Addresses), white : SUBSET A!Users, on : BOOLEAN]
      BY <2>1, <2>2 DEF ListTypes
    <3>3. files' \in [op : SUBSET A!Users, ban : SUBSET A!Users,
                     ip : SUBSET (A!Users \cup A!Addresses), white : SUBSET A!Users, exists : BOOLEAN]
      <4>1. CASE files' = files
        BY <4>1 DEF ListTypes
      <4>2. CASE files' = [files EXCEPT !.ban = S, !.exists = @ \/ f = "white"]
        <5>1. (files.exists \/ f = "white") \in BOOLEAN
          OBVIOUS
        <5> QED BY <2>1, <4>2, <5>1 DEF ListTypes
      <4> QED BY <2>2, <4>1, <4>2
    <3> QED BY <3>1, <3>2, <3>3 DEF ListTypes
  <2>4. ListsFiled'
    <3>1. lists'.ban = S /\ meant'.ban = M
      BY <2>2 DEF ListTypes
    <3>2. "ban" \notin lost' => S = M /\ files'.ban = S
      <4>1. \/ /\ files' = [files EXCEPT !.ban = S, !.exists = @ \/ f = "white"]
               /\ lost' = lost
            \/ lost' = lost \cup {"ban"}
            \/ files' = files /\ lost' = lost /\ S = lists.ban
        BY <1>2
      <4>2. CASE /\ files' = [files EXCEPT !.ban = S, !.exists = @ \/ f = "white"]
                 /\ lost' = lost
        BY <4>2, <1>2 DEF ListTypes
      <4>3. CASE lost' = lost \cup {"ban"}
        BY <4>3
      <4>4. CASE files' = files /\ lost' = lost /\ S = lists.ban
        BY <4>4, <1>2 DEF ListsFiled
      <4> QED BY <4>1, <4>2, <4>3, <4>4
    <3>3. /\ lists'.op = lists.op /\ lists'.ip = lists.ip /\ lists'.white = lists.white
          /\ meant'.op = meant.op /\ meant'.ip = meant.ip /\ meant'.white = meant.white
          /\ files'.op = files.op /\ files'.ip = files.ip /\ files'.white = files.white
      BY <2>2 DEF ListTypes
    <3>4. lost \subseteq lost'
      OBVIOUS
    <3> QED BY <3>1, <3>2, <3>3, <3>4 DEF ListsFiled
  <2> QED BY <1>2, <2>2, <2>3, <2>4 DEF ListTypes
<1>3. CASE f = "ip"
  <2>1. S \in SUBSET (A!Users \cup A!Addresses) /\ M \in SUBSET (A!Users \cup A!Addresses)
    BY <1>3 DEF NamesOf
  <2>2. /\ lists' = [lists EXCEPT !.ip = S] /\ meant' = [meant EXCEPT !.ip = M]
        /\ files' = files \/ files' = [files EXCEPT !.ip = S, !.exists = @ \/ f = "white"]
    BY <1>3
  <2>3. ListTypes'
    <3>1. lists' \in [op : SUBSET A!Users, ban : SUBSET A!Users,
                     ip : SUBSET (A!Users \cup A!Addresses), white : SUBSET A!Users, on : BOOLEAN]
      BY <2>1, <2>2 DEF ListTypes
    <3>2. meant' \in [op : SUBSET A!Users, ban : SUBSET A!Users,
                     ip : SUBSET (A!Users \cup A!Addresses), white : SUBSET A!Users, on : BOOLEAN]
      BY <2>1, <2>2 DEF ListTypes
    <3>3. files' \in [op : SUBSET A!Users, ban : SUBSET A!Users,
                     ip : SUBSET (A!Users \cup A!Addresses), white : SUBSET A!Users, exists : BOOLEAN]
      <4>1. CASE files' = files
        BY <4>1 DEF ListTypes
      <4>2. CASE files' = [files EXCEPT !.ip = S, !.exists = @ \/ f = "white"]
        <5>1. (files.exists \/ f = "white") \in BOOLEAN
          OBVIOUS
        <5> QED BY <2>1, <4>2, <5>1 DEF ListTypes
      <4> QED BY <2>2, <4>1, <4>2
    <3> QED BY <3>1, <3>2, <3>3 DEF ListTypes
  <2>4. ListsFiled'
    <3>1. lists'.ip = S /\ meant'.ip = M
      BY <2>2 DEF ListTypes
    <3>2. "ip" \notin lost' => S = M /\ files'.ip = S
      <4>1. \/ /\ files' = [files EXCEPT !.ip = S, !.exists = @ \/ f = "white"]
               /\ lost' = lost
            \/ lost' = lost \cup {"ip"}
            \/ files' = files /\ lost' = lost /\ S = lists.ip
        BY <1>3
      <4>2. CASE /\ files' = [files EXCEPT !.ip = S, !.exists = @ \/ f = "white"]
                 /\ lost' = lost
        BY <4>2, <1>3 DEF ListTypes
      <4>3. CASE lost' = lost \cup {"ip"}
        BY <4>3
      <4>4. CASE files' = files /\ lost' = lost /\ S = lists.ip
        BY <4>4, <1>3 DEF ListsFiled
      <4> QED BY <4>1, <4>2, <4>3, <4>4
    <3>3. /\ lists'.op = lists.op /\ lists'.ban = lists.ban /\ lists'.white = lists.white
          /\ meant'.op = meant.op /\ meant'.ban = meant.ban /\ meant'.white = meant.white
          /\ files'.op = files.op /\ files'.ban = files.ban /\ files'.white = files.white
      BY <2>2 DEF ListTypes
    <3>4. lost \subseteq lost'
      OBVIOUS
    <3> QED BY <3>1, <3>2, <3>3, <3>4 DEF ListsFiled
  <2> QED BY <1>3, <2>2, <2>3, <2>4 DEF ListTypes
<1>4. CASE f = "white"
  <2>1. S \in SUBSET A!Users /\ M \in SUBSET A!Users
    BY <1>4 DEF NamesOf
  <2>2. /\ lists' = [lists EXCEPT !.white = S] /\ meant' = [meant EXCEPT !.white = M]
        /\ files' = files \/ files' = [files EXCEPT !.white = S, !.exists = @ \/ f = "white"]
    BY <1>4
  <2>3. ListTypes'
    <3>1. lists' \in [op : SUBSET A!Users, ban : SUBSET A!Users,
                     ip : SUBSET (A!Users \cup A!Addresses), white : SUBSET A!Users, on : BOOLEAN]
      BY <2>1, <2>2 DEF ListTypes
    <3>2. meant' \in [op : SUBSET A!Users, ban : SUBSET A!Users,
                     ip : SUBSET (A!Users \cup A!Addresses), white : SUBSET A!Users, on : BOOLEAN]
      BY <2>1, <2>2 DEF ListTypes
    <3>3. files' \in [op : SUBSET A!Users, ban : SUBSET A!Users,
                     ip : SUBSET (A!Users \cup A!Addresses), white : SUBSET A!Users, exists : BOOLEAN]
      <4>1. CASE files' = files
        BY <4>1 DEF ListTypes
      <4>2. CASE files' = [files EXCEPT !.white = S, !.exists = @ \/ f = "white"]
        <5>1. (files.exists \/ f = "white") \in BOOLEAN
          OBVIOUS
        <5> QED BY <2>1, <4>2, <5>1 DEF ListTypes
      <4> QED BY <2>2, <4>1, <4>2
    <3> QED BY <3>1, <3>2, <3>3 DEF ListTypes
  <2>4. ListsFiled'
    <3>1. lists'.white = S /\ meant'.white = M
      BY <2>2 DEF ListTypes
    <3>2. "white" \notin lost' => S = M /\ files'.white = S
      <4>1. \/ /\ files' = [files EXCEPT !.white = S, !.exists = @ \/ f = "white"]
               /\ lost' = lost
            \/ lost' = lost \cup {"white"}
            \/ files' = files /\ lost' = lost /\ S = lists.white
        BY <1>4
      <4>2. CASE /\ files' = [files EXCEPT !.white = S, !.exists = @ \/ f = "white"]
                 /\ lost' = lost
        BY <4>2, <1>4 DEF ListTypes
      <4>3. CASE lost' = lost \cup {"white"}
        BY <4>3
      <4>4. CASE files' = files /\ lost' = lost /\ S = lists.white
        BY <4>4, <1>4 DEF ListsFiled
      <4> QED BY <4>1, <4>2, <4>3, <4>4
    <3>3. /\ lists'.op = lists.op /\ lists'.ban = lists.ban /\ lists'.ip = lists.ip
          /\ meant'.op = meant.op /\ meant'.ban = meant.ban /\ meant'.ip = meant.ip
          /\ files'.op = files.op /\ files'.ban = files.ban /\ files'.ip = files.ip
      BY <2>2 DEF ListTypes
    <3>4. lost \subseteq lost'
      OBVIOUS
    <3> QED BY <3>1, <3>2, <3>3, <3>4 DEF ListsFiled
  <2> QED BY <1>4, <2>2, <2>3, <2>4 DEF ListTypes
<1> QED BY <1>1, <1>2, <1>3, <1>4 DEF Kept

\* A command changes neither the sessions on their way nor the roster.
LEMMA OrderKeeps ==
    ASSUME DoorInv, UNCHANGED <<way, peer, loaded, roster>>, open' \subseteq open,
           raced \subseteq raced', ListTypes', ListsFiled',
           \A t \in Sessions :
              /\ A!Past(t) \/ (t \in roster /\ t \in open')
              /\ User[t] \in lists'.ban \/ From[t] \in lists'.ip
              => (User[t] \in lists.ban \/ From[t] \in lists.ip) \/ t \in raced'
    PROVE  DoorInv'
<1>1. DoorTypes'
  BY DEF DoorInv, DoorTypes
<1>2. WiresFit' /\ Rostered'
  BY DEF DoorInv, WiresFit, WireFits, Rostered
<1>3. Watched'
  <2> SUFFICES ASSUME NEW t \in Sessions, A!Past(t)' \/ (t \in roster' /\ t \in open'),
                      User[t] \in lists'.ban \/ From[t] \in lists'.ip
               PROVE  t \in raced'
    BY DEF Watched
  <2>1. A!Past(t) \/ (t \in roster /\ t \in open')
    BY DEF A!Past
  <2> QED BY <2>1 DEF DoorInv, Watched
<1> QED BY <1>1, <1>2, <1>3 DEF DoorInv

\* A command adds to one list, or takes off it, and nobody is put on another.
LEMMA AddedTo ==
    ASSUME ListTypes, ListsFiled, NEW f \in Kept, NEW n \in NamesOf(f),
           A!Add(f, n), A!Written(f)
    PROVE  /\ ListTypes' /\ ListsFiled'
           /\ f = "ban" => lists'.ban = lists.ban \cup {n} /\ lists'.ip = lists.ip
           /\ f = "ip" => lists'.ip = lists.ip \cup {n} /\ lists'.ban = lists.ban
           /\ f \notin {"ban", "ip"} => lists'.ban = lists.ban /\ lists'.ip = lists.ip
<1> DEFINE S == lists[f] \cup {n}
           M == meant[f] \cup {n}
<1>1. /\ lists' = [lists EXCEPT ![f] = S] /\ meant' = [meant EXCEPT ![f] = M]
      /\ lists'[f] = S
  <2>1. lists' = [lists EXCEPT ![f] = S] /\ meant' = [meant EXCEPT ![f] = M]
    BY DEF A!Add
  <2> QED BY <2>1 DEF ListTypes, Kept
<1>2. lists[f] \in SUBSET NamesOf(f) /\ meant[f] \in SUBSET NamesOf(f)
  BY DEF ListTypes, Kept, NamesOf
<1>3. S \in SUBSET NamesOf(f) /\ M \in SUBSET NamesOf(f)
  BY <1>2
<1>4. f \notin lost => lists[f] = meant[f] /\ (f = "op" => Txt \subseteq lists[f])
  BY DEF ListsFiled, Kept
<1>5. \/ files' = [files EXCEPT ![f] = S, !.exists = @ \/ f = "white"] /\ lost' = lost
      \/ files' = files /\ lost' = lost \cup {f}
  BY <1>1 DEF A!Written
<1>6. f \notin lost => S = M /\ (f = "op" => Txt \subseteq S)
  BY <1>4
<1>7. /\ ListTypes' /\ ListsFiled'
      /\ f = "ban" => lists'.ban = S /\ lists'.ip = lists.ip
      /\ f = "ip" => lists'.ip = S /\ lists'.ban = lists.ban
      /\ f \notin {"ban", "ip"} => lists'.ban = lists.ban /\ lists'.ip = lists.ip
  <2>1. f = "op" /\ "op" \notin lost => Txt \subseteq S
    BY <1>6
  <2> HIDE DEF S, M
  <2> QED BY <1>1, <1>3, <1>5, <1>6, <2>1, ListChanges
<1> QED BY <1>7

LEMMA TakenFrom ==
    ASSUME ListTypes, ListsFiled, NEW f \in {"ban", "ip", "white"}, NEW n, A!Remove(f, n)
    PROVE  /\ ListTypes' /\ ListsFiled'
           /\ lists'.ban \subseteq lists.ban /\ lists'.ip \subseteq lists.ip
<1> DEFINE S == lists[f] \ {n}
           M == meant[f] \ {n}
<1>0. f \in Kept /\ f # "op"
  BY DEF Kept
<1>1. /\ lists' = [lists EXCEPT ![f] = S] /\ meant' = [meant EXCEPT ![f] = M]
      /\ lists'[f] = S
  <2>1. lists' = [lists EXCEPT ![f] = S] /\ meant' = [meant EXCEPT ![f] = M]
    BY DEF A!Remove
  <2> QED BY <2>1 DEF ListTypes
<1>2. lists[f] \in SUBSET NamesOf(f) /\ meant[f] \in SUBSET NamesOf(f)
  BY DEF ListTypes, NamesOf
<1>3. S \in SUBSET NamesOf(f) /\ M \in SUBSET NamesOf(f)
  BY <1>2
<1>4. f \notin lost => S = M
  BY DEF ListsFiled
<1>5. \/ files' = [files EXCEPT ![f] = S, !.exists = @ \/ f = "white"] /\ lost' = lost
      \/ files' = files /\ lost' = lost \cup {f}
      \/ files' = files /\ lost' = lost /\ S = lists[f]
  BY <1>1 DEF A!Remove, A!Written
<1>6. S \subseteq lists[f]
  OBVIOUS
<1> HIDE DEF S, M
<1>7. /\ ListTypes' /\ ListsFiled'
      /\ f = "ban" => lists'.ban = S /\ lists'.ip = lists.ip
      /\ f = "ip" => lists'.ip = S /\ lists'.ban = lists.ban
      /\ f \notin {"ban", "ip"} => lists'.ban = lists.ban /\ lists'.ip = lists.ip
  BY <1>0, <1>1, <1>3, <1>4, <1>5, ListChanges
<1> QED BY <1>6, <1>7

\* ban and ban-ip: whoever is on his way is remembered, and who is in is kicked.
LEMMA BanKeeps ==
    ASSUME DoorInv, NEW u \in A!Users, A!Ban(u)
    PROVE  DoorInv'
<1>1. /\ UNCHANGED <<way, peer, loaded, roster>> /\ A!Add("ban", u) /\ A!Written("ban")
      /\ open' = open \ (roster \cap A!Named(u))
      /\ raced' = raced \cup {s \in A!Named(u) : A!Past(s)}
  BY DEF A!Ban, A!Order, A!Kicked
<1>2. /\ ListTypes' /\ ListsFiled' /\ lists'.ban = lists.ban \cup {u} /\ lists'.ip = lists.ip
  <2>1. "ban" \in Kept /\ u \in NamesOf("ban")
    BY DEF Kept, NamesOf
  <2> QED BY <1>1, <2>1, AddedTo DEF DoorInv
<1>3. \A t \in Sessions :
         /\ A!Past(t) \/ (t \in roster /\ t \in open')
         /\ User[t] \in lists'.ban \/ From[t] \in lists'.ip
         => (User[t] \in lists.ban \/ From[t] \in lists.ip) \/ t \in raced'
  BY <1>1, <1>2 DEF A!Named
<1> QED BY <1>1, <1>2, <1>3, OrderKeeps

LEMMA BanIpKeeps ==
    ASSUME DoorInv, NEW i \in A!Users \cup A!Addresses, A!BanIp(i)
    PROVE  DoorInv'
<1>1. /\ UNCHANGED <<way, peer, loaded, roster>> /\ A!Add("ip", i) /\ A!Written("ip")
      /\ open' = open \ (roster \cap {s \in Sessions : From[s] = i})
      /\ raced' = raced \cup {s \in {t \in Sessions : From[t] = i} : A!Past(s)}
  BY DEF A!BanIp, A!Order, A!Kicked
<1>2. /\ ListTypes' /\ ListsFiled' /\ lists'.ip = lists.ip \cup {i} /\ lists'.ban = lists.ban
  <2>1. "ip" \in Kept /\ i \in NamesOf("ip")
    BY DEF Kept, NamesOf
  <2> QED BY <1>1, <2>1, AddedTo DEF DoorInv
<1>3. \A t \in Sessions :
         /\ A!Past(t) \/ (t \in roster /\ t \in open')
         /\ User[t] \in lists'.ban \/ From[t] \in lists'.ip
         => (User[t] \in lists.ban \/ From[t] \in lists.ip) \/ t \in raced'
  BY <1>1, <1>2
<1> QED BY <1>1, <1>2, <1>3, OrderKeeps

LEMMA BanIpOfKeeps ==
    ASSUME DoorInv, NEW u \in A!Users, A!BanIpOf(u)
    PROVE  DoorInv'
<1>1. A!BanIp(u) \/ \E s \in Sessions : A!BanIp(From[s])
  BY DEF A!BanIpOf, A!Named
<1>2. \A s \in Sessions : From[s] \in A!Addresses
  BY DEF A!Addresses
<1> QED BY <1>1, <1>2, BanIpKeeps

\* A command that puts nobody on a list that keeps players out.
LEMMA QuietOrderKeeps ==
    ASSUME DoorInv, UNCHANGED <<way, peer, loaded, roster>>, open' \subseteq open, raced' = raced,
           ListTypes', ListsFiled', lists'.ban \subseteq lists.ban, lists'.ip \subseteq lists.ip
    PROVE  DoorInv'
BY OrderKeeps

LEMMA KickKeeps ==
    ASSUME DoorInv, NEW u, A!Kick(u)
    PROVE  DoorInv'
<1>1. /\ UNCHANGED <<way, peer, loaded, roster, lists, files, meant, lost, raced>>
      /\ open' \subseteq open
  BY DEF A!Kick, A!Order, A!Kicked
<1>2. ListTypes' /\ ListsFiled'
  BY <1>1, SameLists DEF DoorInv
<1> QED BY <1>1, <1>2, QuietOrderKeeps

LEMMA PardonKeeps ==
    ASSUME DoorInv, NEW n, A!Pardon(n) \/ A!PardonIp(n) \/ A!WhiteRemove(n)
    PROVE  DoorInv'
<1>1. PICK f \in {"ban", "ip", "white"} : A!Remove(f, n)
  BY DEF A!Pardon, A!PardonIp, A!WhiteRemove
<1>2. UNCHANGED <<way, peer, loaded, roster, raced, open>>
  BY DEF A!Pardon, A!PardonIp, A!WhiteRemove, A!Order
<1>3. /\ ListTypes' /\ ListsFiled'
      /\ lists'.ban \subseteq lists.ban /\ lists'.ip \subseteq lists.ip
  BY <1>1, TakenFrom DEF DoorInv
<1> QED BY <1>2, <1>3, QuietOrderKeeps

LEMMA OpKeeps ==
    ASSUME DoorInv, NEW u \in A!Users, A!Op(u) \/ A!WhiteAdd(u)
    PROVE  DoorInv'
<1>1. PICK f \in {"op", "white"} : A!Add(f, u) /\ A!Written(f)
  BY DEF A!Op, A!WhiteAdd
<1>2. UNCHANGED <<way, peer, loaded, roster, raced, open>>
  BY DEF A!Op, A!WhiteAdd, A!Order
<1>3. f \in Kept /\ u \in NamesOf(f) /\ f \notin {"ban", "ip"}
  BY <1>1 DEF Kept, NamesOf
<1>4. ListTypes' /\ ListsFiled' /\ lists'.ban = lists.ban /\ lists'.ip = lists.ip
  BY <1>1, <1>3, AddedTo DEF DoorInv
<1> QED BY <1>2, <1>4, QuietOrderKeeps

\* deop: without ops.txt, and when the file is written, the list is what is kept.
LEMMA DeopKeeps ==
    ASSUME DoorInv, NEW u \in A!Users, A!Deop(u)
    PROVE  DoorInv'
<1> DEFINE S == lists.op \ {u}
<1>1. /\ UNCHANGED <<way, peer, loaded, roster, raced, open>>
      /\ lists' = [lists EXCEPT !.op = S] /\ meant' = [meant EXCEPT !.op = @ \ {u}]
      /\ files' = files \/ (u \in lists.op /\ files' = [files EXCEPT !.op = S])
      /\ lost' = IF u \in Txt \/ files'.op # S THEN lost \cup {"op"} ELSE lost
  <2>1. lists'.op = S
    BY DEF A!Deop, DoorInv, ListTypes
  <2> QED BY <2>1 DEF A!Deop, A!Order
<1>2. /\ lists'.op = S /\ lists'.ban = lists.ban /\ lists'.ip = lists.ip
      /\ lists'.white = lists.white
      /\ meant'.op = meant.op \ {u} /\ meant'.ban = meant.ban /\ meant'.ip = meant.ip
      /\ meant'.white = meant.white
      /\ files'.ban = files.ban /\ files'.ip = files.ip /\ files'.white = files.white
  BY <1>1 DEF DoorInv, ListTypes
<1>3. S \in SUBSET A!Users /\ meant.op \ {u} \in SUBSET A!Users
  BY DEF DoorInv, ListTypes
<1>4. ListTypes'
  <2>1. lists' \in [op : SUBSET A!Users, ban : SUBSET A!Users,
                    ip : SUBSET (A!Users \cup A!Addresses), white : SUBSET A!Users, on : BOOLEAN]
    BY <1>1, <1>3 DEF DoorInv, ListTypes
  <2>2. meant' \in [op : SUBSET A!Users, ban : SUBSET A!Users,
                    ip : SUBSET (A!Users \cup A!Addresses), white : SUBSET A!Users, on : BOOLEAN]
    BY <1>1, <1>3 DEF DoorInv, ListTypes
  <2>3. files' \in [op : SUBSET A!Users, ban : SUBSET A!Users,
                    ip : SUBSET (A!Users \cup A!Addresses), white : SUBSET A!Users, exists : BOOLEAN]
    BY <1>1, <1>3 DEF DoorInv, ListTypes
  <2> QED BY <2>1, <2>2, <2>3 DEF ListTypes
<1>5. ListsFiled'
  <2>1. ASSUME "op" \notin lost'
        PROVE  lists'.op = meant'.op /\ lists'.op = files'.op \cup Txt
    <3>1. u \notin Txt /\ files'.op = S /\ "op" \notin lost
      BY <1>1, <2>1
    <3>2. lists.op = meant.op /\ Txt \subseteq lists.op
      BY <3>1 DEF DoorInv, ListsFiled
    <3> QED BY <3>1, <3>2, <1>2
  <2>2. lost \subseteq lost'
    BY <1>1
  <2> QED BY <2>1, <2>2, <1>2 DEF DoorInv, ListsFiled
<1> QED BY <1>1, <1>2, <1>4, <1>5, QuietOrderKeeps

\* The whitelist: switched, with who switches it on, or read from its file again.
LEMMA WhiteOnKeeps ==
    ASSUME DoorInv, NEW by \in SUBSET A!Users, A!WhiteOn(by)
    PROVE  DoorInv'
<1>1. /\ UNCHANGED <<way, peer, loaded, roster, raced, open, files>>
      /\ lists' = [lists EXCEPT !.on = TRUE, !.white = @ \cup by]
      /\ meant' = [meant EXCEPT !.on = TRUE, !.white = @ \cup by]
      /\ lost' = IF by \subseteq files.white THEN lost ELSE lost \cup {"white"}
  BY DEF A!WhiteOn, A!Order
<1>2. /\ lists'.op = lists.op /\ lists'.ban = lists.ban /\ lists'.ip = lists.ip
      /\ lists'.white = lists.white \cup by
      /\ meant'.op = meant.op /\ meant'.ban = meant.ban /\ meant'.ip = meant.ip
      /\ meant'.white = meant.white \cup by
  BY <1>1 DEF DoorInv, ListTypes
<1>3. lists.white \cup by \in SUBSET A!Users /\ meant.white \cup by \in SUBSET A!Users
  BY DEF DoorInv, ListTypes
<1>4. ListTypes'
  BY <1>1, <1>3 DEF DoorInv, ListTypes
<1>5. ListsFiled'
  <2>1. lost \subseteq lost' /\ ("white" \notin lost' => by \subseteq files.white)
    BY <1>1
  <2> QED BY <2>1, <1>1, <1>2 DEF DoorInv, ListsFiled
<1> QED BY <1>1, <1>2, <1>4, <1>5, QuietOrderKeeps

LEMMA WhiteOffKeeps ==
    ASSUME DoorInv, A!WhiteOff \/ A!WhiteReload
    PROVE  DoorInv'
<1>1. UNCHANGED <<way, peer, loaded, roster, raced, open, files, lost>>
  BY DEF A!WhiteOff, A!WhiteReload, A!Order
<1>2. CASE A!WhiteOff
  <2>1. lists' = [lists EXCEPT !.on = FALSE] /\ meant' = [meant EXCEPT !.on = FALSE]
    BY <1>2 DEF A!WhiteOff
  <2>2. /\ lists'.op = lists.op /\ lists'.ban = lists.ban /\ lists'.ip = lists.ip
        /\ lists'.white = lists.white
        /\ meant'.op = meant.op /\ meant'.ban = meant.ban /\ meant'.ip = meant.ip
        /\ meant'.white = meant.white
    BY <2>1 DEF DoorInv, ListTypes
  <2>3. ListTypes'
    BY <1>1, <2>1 DEF DoorInv, ListTypes
  <2>4. ListsFiled'
    BY <1>1, <2>2 DEF DoorInv, ListsFiled
  <2> QED BY <1>1, <2>2, <2>3, <2>4, QuietOrderKeeps
<1>3. CASE A!WhiteReload
  <2>1. lists' = [lists EXCEPT !.white = files.white, !.on = files.exists] /\ meant' = meant
    BY <1>3 DEF A!WhiteReload
  <2>2. /\ lists'.op = lists.op /\ lists'.ban = lists.ban /\ lists'.ip = lists.ip
        /\ lists'.white = files.white
    BY <2>1 DEF DoorInv, ListTypes
  <2>3. ListTypes'
    BY <1>1, <2>1 DEF DoorInv, ListTypes
  <2>4. ListsFiled'
    BY <1>1, <2>1, <2>2 DEF DoorInv, ListsFiled
  <2> QED BY <1>1, <2>2, <2>3, <2>4, QuietOrderKeeps
<1> QED BY <1>2, <1>3

LEMMA CommandKeeps ==
    ASSUME DoorInv, A!Command
    PROVE  DoorInv'
<1>1. ASSUME NEW u \in A!Users,
             A!Kick(u) \/ A!Ban(u) \/ A!Pardon(u) \/ A!BanIpOf(u) \/ A!Op(u) \/ A!Deop(u)
               \/ A!WhiteAdd(u) \/ A!WhiteRemove(u)
      PROVE  DoorInv'
  BY <1>1, KickKeeps, BanKeeps, PardonKeeps, BanIpOfKeeps, OpKeeps, DeopKeeps
<1>2. ASSUME NEW i \in A!Addresses, A!BanIp(i) \/ A!PardonIp(i)
      PROVE  DoorInv'
  BY <1>2, BanIpKeeps, PardonKeeps
<1>3. ASSUME NEW by \in {{}} \cup {{User[s]} : s \in {s \in roster : User[s] \in lists.op}},
             A!WhiteOn(by)
      PROVE  DoorInv'
  <2>1. by \in SUBSET A!Users
    BY DEF DoorInv, DoorTypes, A!Users
  <2> QED BY <2>1, <1>3, WhiteOnKeeps
<1> QED BY <1>1, <1>2, <1>3, WhiteOffKeeps DEF A!Command

LEMMA SessionKeeps ==
    ASSUME DoorInv, NEW s \in Sessions, A!Session(s)
    PROVE  DoorInv'
BY ConnectKeeps, HandshakeKeeps, HelloKeeps, KeyKeeps, AnsweredKeeps, ConfigurationKeeps,
   PackResponseKeeps, FinishKeeps, LeavesKeep DEF A!Session

LEMMA DoorNext ==
    ASSUME DoorInv, A!Next \/ UNCHANGED door
    PROVE  DoorInv'
<1>1. CASE A!Next
  BY <1>1, SessionKeeps, CommandKeeps, BootKeeps DEF A!Next
<1>2. CASE UNCHANGED door
  <2>1. UNCHANGED <<way, peer, loaded, roster, open, raced, lists, files, meant, lost>>
    BY <1>2 DEF door
  <2>2. ListTypes' /\ ListsFiled'
    BY <2>1, SameLists DEF DoorInv
  <2> QED BY <2>1, <2>2, QuietOrderKeeps
<1> QED BY <1>1, <1>2

LEMMA DoorBegins == A!Init => DoorInv
<1> SUFFICES ASSUME A!Init PROVE DoorInv
  OBVIOUS
<1>1. /\ way = [s \in Sessions |-> "handshake"] /\ peer = [s \in Sessions |-> A!Plain]
      /\ loaded = {} /\ roster = {} /\ lists = A!Listing(Txt, Whitelisted) /\ meant = lists
      /\ files = [op |-> {}, ban |-> {}, ip |-> {}, white |-> {}, exists |-> FALSE]
  BY DEF A!Init
<1>2. A!Plain \in Wires /\ WireFits("handshake", A!Plain) /\ "handshake" \in Ways
  BY DEF A!Plain, Wires, WireFits, Ways
<1>3. DoorTypes /\ WiresFit
  BY <1>1, <1>2 DEF DoorTypes, WiresFit
<1>4. Rostered /\ Watched
  BY <1>1 DEF Rostered, Watched, A!Past
<1>5. /\ lists = [op |-> Txt, ban |-> {}, ip |-> {}, white |-> {}, on |-> Whitelisted]
      /\ meant = lists
  BY <1>1 DEF A!Listing
<1>6. ListTypes
  BY <1>1, <1>5, DoorFacts DEF ListTypes
<1>7. ListsFiled
  BY <1>1, <1>5 DEF ListsFiled
<1> QED BY <1>3, <1>4, <1>6, <1>7 DEF DoorInv

-----------------------------------------------------------------------------
(* The parts together. *)

\* Nobody plays whom a list bans but who raced his ban, the lists come back after a
\* restart but for the known ways to lose one, and whoever plays has his pack and reads
\* all that is sent to him (handleLogin, ban, saveBans, handleConfiguration).
THEOREM DoorIsKept == PersistenceSpec => []DoorKept
<1> DEFINE Inv == part = "door" => DoorInv
<1>1. PersistenceInit => Inv
  BY DoorBegins DEF PersistenceInit
<1>2. Inv /\ [PersistenceNext]_allVars => Inv'
  <2> SUFFICES ASSUME Inv, [PersistenceNext]_allVars, part' = "door"
               PROVE  DoorInv'
    OBVIOUS
  <2>1. part = "door" /\ DoorInv
    BY PartStays
  <2>2. A!Next \/ UNCHANGED door
    <3>1. PersistenceNext => A!Next
      BY <2>1 DEF PersistenceNext
    <3>2. UNCHANGED allVars => UNCHANGED door
      BY DEF allVars
    <3> QED BY <3>1, <3>2
  <2> QED BY <2>1, <2>2, DoorNext
<1>3. Inv => DoorKept
  <2> SUFFICES ASSUME DoorInv PROVE A!BannedStayOut /\ A!ListsSurvive /\ A!EntersWhole
    BY DEF DoorKept
  <2>1. A!BannedStayOut
    BY DEF DoorInv, DoorTypes, Watched, A!BannedStayOut
  <2>2. A!ListsSurvive
    BY DEF DoorInv, ListsFiled, A!ListsSurvive
  <2>3. A!EntersWhole
    <3> SUFFICES ASSUME NEW s \in roster
                 PROVE  /\ PackForced => s \in loaded
                        /\ peer[s].enc = peer[s].dec /\ peer[s].zips = peer[s].unzips
                        /\ ~peer[s].unread /\ peer[s].enc = Online
      BY DEF A!EntersWhole
    <3>1. s \in Sessions /\ way[s] = "play" /\ WireFits(way[s], peer[s])
      BY DEF DoorInv, DoorTypes, Rostered, WiresFit
    <3> QED BY <3>1 DEF DoorInv, Rostered, WireFits
  <2> QED BY <2>1, <2>2, <2>3
<1> QED BY <1>1, <1>2, <1>3, PTL DEF PersistenceSpec, allVars

-----------------------------------------------------------------------------
(* Progress: what a player earned, what his client shows, the time he      *)
(* played and the numbers of his recipes, for any packs, deeds, sessions   *)
(* and number of orders and troubles.                                      *)
PerSession(f) == f = [s \in Logins |-> f[s]]

Phases == {"out", "in", "closing", "saved", "ended", "over"}

ProgressTypes ==
  /\ seat \in [Logins -> Phases]
  /\ PerSession(has) /\ PerSession(shown) /\ PerSession(known)
  /\ PerSession(book) /\ PerSession(play)
  /\ joinTick \in [Logins -> Nat] /\ tick \in Nat

\* The cache of definitions is empty or of the packs there are.
CacheTrue ==
  \/ merge = {}
  \/ merge = P!mergedAdvancements(pack.advs) /\ counted = P!Cardinality(pack.advs)

FilesWhole == missed \cap {"malformed", "overtaken", "unsaved", "crash"} = {}
NothingMissed == FilesWhole /\ "late" \notin missed
NoTimeMissed ==
  missed \cap {"malformed", "overtaken", "unsaved", "crash", "periodic", "tickzero"} = {}

\* While no session overtook another there is at most one.
OneSession ==
  FilesWhole =>
    /\ \A s \in Logins : seat[s] # "closing"
    /\ \A s, r \in P!Roster : s = r

\* What was earned is with the session there is, else in the files; a session that
\* is saved has it too until it is let go of.
EarnedSomewhere ==
  NothingMissed =>
    /\ \A s \in P!Roster : has[s] = earned
    /\ P!In = {} => saved.ids = earned

\* So is the time played.
TimeSomewhere ==
  NoTimeMissed =>
    /\ played \in Int
    /\ \A s \in P!In : /\ play[s] \in Int /\ joinTick[s] # 0
                       /\ play[s] + (tick - joinTick[s]) = played
    /\ P!In = {} => saved.play = played

ProgressInv ==
  /\ ProgressTypes /\ CacheTrue
  /\ OneSession /\ EarnedSomewhere /\ TimeSomewhere
  /\ P!ShownIsHeld /\ P!NumbersAgree

LEMMA ProgressSuffices == ProgressInv => P!ProgressSound
<1> SUFFICES ASSUME ProgressInv PROVE P!ProgressSound
  OBVIOUS
<1>1. P!EarnedIsKept
  BY DEF ProgressInv, EarnedSomewhere, NothingMissed, FilesWhole, P!EarnedIsKept,
         P!In, P!Roster
<1>2. P!TimeCountedOnce
  <2> SUFFICES ASSUME \A s \in Logins : seat[s] \in {"out", "over"}, NoTimeMissed
               PROVE  saved.play = played
    BY DEF P!TimeCountedOnce, NoTimeMissed
  <2>1. P!In = {}
    BY DEF P!In
  <2> QED BY <2>1 DEF ProgressInv, TimeSomewhere
<1> QED BY <1>1, <1>2 DEF ProgressInv, P!ProgressSound

LEMMA ProgressBegins == P!Init => ProgressInv
<1> SUFFICES ASSUME P!Init PROVE ProgressInv
  OBVIOUS
<1>1. ProgressTypes
  BY DEF P!Init, ProgressTypes, PerSession, Phases
<1>2. CacheTrue
  BY DEF P!Init, CacheTrue
<1>3. P!In = {} /\ P!Roster = {}
  BY DEF P!Init, P!In, P!Roster
<1>4. OneSession /\ EarnedSomewhere /\ TimeSomewhere
  BY <1>3 DEF P!Init, OneSession, EarnedSomewhere, TimeSomewhere
<1>5. P!ShownIsHeld /\ P!NumbersAgree
  BY <1>3 DEF P!ShownIsHeld, P!NumbersAgree
<1> QED BY <1>1, <1>2, <1>4, <1>5 DEF ProgressInv

\* Progress counts as the standard module does.
LEMMA SameCardinality == \A S : P!Cardinality(S) = Cardinality(S)
BY DEF P!Cardinality, Cardinality

\* A look at the definitions sees those of the packs there are.
LEMMA CacheTells ==
  ASSUME CacheTrue, P!Cached, pack' = pack
  PROVE  merge' = P!mergedAdvancements(pack.advs) /\ CacheTrue'
<1>1. P!getMergedAdvancements = P!mergedAdvancements(pack.advs)
  BY DEF CacheTrue, P!getMergedAdvancements
<1>2. merge' = P!mergedAdvancements(pack.advs) /\ counted' = P!Cardinality(pack.advs)
  BY <1>1 DEF P!Cached
<1> QED BY <1>2 DEF CacheTrue

\* Timed sessions are among those whose files are whole.
LEMMA TimedIsKept == NoTimeMissed => FilesWhole
BY DEF NoTimeMissed, FilesWhole

LEMMA JoinKeeps ==
  ASSUME NEW s \in Logins, ProgressInv, P!Join(s)
  PROVE  ProgressInv'
<1>1. merge' = P!mergedAdvancements(pack.advs) /\ CacheTrue'
  BY CacheTells DEF P!Join, ProgressInv
<1>2. ProgressTypes'
  BY DEF P!Join, ProgressInv, ProgressTypes, PerSession, Phases
<1>3. /\ seat[s] = "out" /\ seat'[s] = "in"
      /\ \A r \in Logins \ {s} : /\ seat[r] = "in" => seat'[r] = "closing"
                                 /\ seat[r] = "saved" => seat'[r] = "ended"
                                 /\ seat[r] \notin {"in", "saved"} => seat'[r] = seat[r]
  BY DEF P!Join, ProgressInv, ProgressTypes
<1>4. P!In' = {s} /\ P!Roster' = {s}
  BY <1>3 DEF P!In, P!Roster
<1>5. /\ has'[s] = P!Load.ids \cup {"root"} /\ play'[s] = P!Load.play
      /\ joinTick'[s] = tick /\ known'[s] = {} /\ book'[s] = pack.recipes
      /\ shown'[s] = P!Done(has'[s], merge')
  BY DEF P!Join, ProgressInv, ProgressTypes, PerSession, P!sendRecipeBook,
         P!SendAdvancements
<1>6. /\ FilesWhole' => FilesWhole /\ saved.ok
                        /\ \A r \in Logins : seat[r] \notin {"in", "closing"}
      /\ NothingMissed' => NothingMissed /\ FilesWhole'
  BY DEF P!Join, NothingMissed, FilesWhole
<1>7. OneSession'
  BY <1>3, <1>4, <1>6 DEF OneSession
<1>8. EarnedSomewhere'
  <2> SUFFICES ASSUME NothingMissed' PROVE has'[s] = earned'
    BY <1>4 DEF EarnedSomewhere
  <2>1. P!In = {} /\ saved.ids = earned
    BY <1>6 DEF P!In, ProgressInv, EarnedSomewhere
  <2> QED BY <2>1, <1>5, <1>6 DEF P!Load, P!Join
<1>9. TimeSomewhere'
  <2> SUFFICES ASSUME NoTimeMissed'
               PROVE  /\ played' \in Int /\ play'[s] \in Int /\ joinTick'[s] # 0
                      /\ play'[s] + (tick' - joinTick'[s]) = played'
    BY <1>4 DEF TimeSomewhere
  <2>1. FilesWhole'
    BY DEF NoTimeMissed, FilesWhole
  <2>2. NoTimeMissed /\ tick # 0
    BY DEF P!Join, NoTimeMissed
  <2>3. played \in Int /\ saved.play = played
    BY <2>1, <2>2, <1>6 DEF P!In, ProgressInv, TimeSomewhere
  <2>4. P!Load.play = played
    BY <2>1, <2>3, <1>6 DEF P!Load
  <2>5. tick' = tick /\ played' = played /\ tick \in Nat
    BY DEF P!Join, ProgressInv, ProgressTypes
  <2> QED BY <2>2, <2>3, <2>4, <2>5, <1>5
<1>10. pack' = pack
  BY DEF P!Join
<1>11. P!ShownIsHeld'
  BY <1>1, <1>4, <1>5, <1>10 DEF P!ShownIsHeld
<1>12. P!NumbersAgree'
  BY <1>4, <1>5, <1>10 DEF P!NumbersAgree
<1> QED BY <1>1, <1>2, <1>7, <1>8, <1>9, <1>11, <1>12 DEF ProgressInv

\* The end of a session that saves, with the player still in the roster.
LEMMA SaveKeeps ==
  ASSUME NEW s \in Logins, ProgressInv, P!Save(s)
  PROVE  ProgressInv'
<1>1. /\ seat[s] \in {"in", "closing"}
      /\ seat' = [seat EXCEPT ![s] = IF seat[s] = "in" THEN "saved" ELSE "ended"]
      /\ UNCHANGED <<pack, merge, counted, tick, has, known, shown, book, earned, played>>
      /\ \A r \in Logins \ {s} : play'[r] = play[r] /\ joinTick'[r] = joinTick[r]
  BY DEF P!Save, ProgressInv, ProgressTypes, PerSession
<1>2. ProgressTypes'
  BY <1>1 DEF P!Save, ProgressInv, ProgressTypes, PerSession, Phases
<1>3. CacheTrue'
  BY <1>1 DEF ProgressInv, CacheTrue
<1>4. P!In' = P!In \ {s} /\ P!Roster' \subseteq P!Roster
  BY <1>1 DEF P!In, P!Roster, ProgressInv, ProgressTypes
<1>5. \/ saved' = [ok |-> TRUE, ids |-> has[s], play |-> P!PlayTime(s)] /\ missed' = missed
      \/ missed' = missed \cup {"unsaved"}
  BY DEF P!Save, P!WriteFails
<1>6. FilesWhole' =>
        /\ FilesWhole /\ s \in P!In /\ s \in P!Roster /\ P!In' = {} /\ missed' = missed
        /\ saved' = [ok |-> TRUE, ids |-> has[s], play |-> P!PlayTime(s)]
  <2> SUFFICES ASSUME FilesWhole'
               PROVE  /\ FilesWhole /\ s \in P!In /\ s \in P!Roster /\ P!In' = {}
                      /\ missed' = missed
                      /\ saved' = [ok |-> TRUE, ids |-> has[s], play |-> P!PlayTime(s)]
    OBVIOUS
  <2>1. /\ FilesWhole /\ missed' = missed
        /\ saved' = [ok |-> TRUE, ids |-> has[s], play |-> P!PlayTime(s)]
    BY <1>5 DEF FilesWhole
  <2>2. s \in P!In /\ s \in P!Roster
    BY <1>1, <2>1 DEF P!In, P!Roster, ProgressInv, OneSession
  <2>3. P!In \subseteq P!Roster
    BY DEF P!In, P!Roster
  <2>4. P!In' = {}
    BY <2>1, <2>2, <2>3, <1>4 DEF ProgressInv, OneSession
  <2> QED BY <2>1, <2>2, <2>4
<1>7. OneSession'
  <2>1. FilesWhole' => \A r \in Logins : seat'[r] # "closing"
    BY <1>1, <1>6 DEF ProgressInv, OneSession, ProgressTypes, P!In
  <2> QED BY <2>1, <1>4, <1>6 DEF OneSession, ProgressInv
<1>8. EarnedSomewhere'
  <2> SUFFICES ASSUME NothingMissed'
               PROVE  (\A r \in P!Roster' : has'[r] = earned') /\ saved'.ids = earned'
    BY DEF EarnedSomewhere
  <2>1. NothingMissed /\ FilesWhole'
    BY <1>5 DEF NothingMissed, FilesWhole
  <2>2. \A r \in P!Roster : has[r] = earned
    BY <2>1 DEF ProgressInv, EarnedSomewhere
  <2> QED BY <2>1, <2>2, <1>1, <1>4, <1>6
<1>9. TimeSomewhere'
  <2> SUFFICES ASSUME NoTimeMissed'
               PROVE  P!In' = {} /\ played' \in Int /\ saved'.play = played'
    BY DEF TimeSomewhere
  <2>1. FilesWhole' /\ NoTimeMissed
    BY <1>5 DEF NoTimeMissed, FilesWhole
  <2>2. /\ played \in Int /\ play[s] \in Int /\ joinTick[s] # 0
        /\ play[s] + (tick - joinTick[s]) = played
    BY <2>1, <1>6 DEF ProgressInv, TimeSomewhere
  <2>3. P!PlayTime(s) = played
    BY <2>2 DEF P!PlayTime
  <2> QED BY <2>1, <2>2, <2>3, <1>1, <1>6
<1>10. missed \subseteq missed'
  BY <1>5
<1>11. P!ShownIsHeld'
  BY <1>1, <1>4, <1>10 DEF P!ShownIsHeld, ProgressInv
<1>12. P!NumbersAgree'
  BY <1>1, <1>4, <1>10 DEF P!NumbersAgree, ProgressInv
<1> QED BY <1>2, <1>3, <1>7, <1>8, <1>9, <1>11, <1>12 DEF ProgressInv

\* Letting go of a session that is saved forgets nothing the files have not.
LEMMA LeaveKeeps ==
  ASSUME NEW s \in Logins, ProgressInv, P!Leave(s)
  PROVE  ProgressInv'
<1>1. /\ seat[s] \in {"saved", "ended"}
      /\ seat' = [seat EXCEPT ![s] = "over"]
      /\ UNCHANGED <<pack, merge, counted, tick, saved, earned, played, missed>>
  BY DEF P!Leave
<1>2. \A r \in Logins \ {s} : /\ has'[r] = has[r] /\ shown'[r] = shown[r]
                              /\ known'[r] = known[r] /\ book'[r] = book[r]
                              /\ play'[r] = play[r] /\ joinTick'[r] = joinTick[r]
  BY DEF P!Leave, P!Forget
<1>3. ProgressTypes'
  BY <1>1 DEF P!Leave, P!Forget, ProgressInv, ProgressTypes, PerSession, Phases
<1>4. CacheTrue'
  BY <1>1 DEF ProgressInv, CacheTrue
<1>5. P!In' = P!In /\ s \notin P!In /\ P!Roster' = P!Roster \ {s}
  BY <1>1 DEF P!In, P!Roster, ProgressInv, ProgressTypes
<1>6. /\ FilesWhole' <=> FilesWhole
      /\ NothingMissed' <=> NothingMissed
      /\ NoTimeMissed' <=> NoTimeMissed
  BY <1>1 DEF FilesWhole, NothingMissed, NoTimeMissed
<1>7. OneSession'
  BY <1>1, <1>5, <1>6 DEF OneSession, ProgressInv, ProgressTypes
<1>8. EarnedSomewhere'
  <2>1. \A r \in P!Roster' : r \in P!Roster /\ has'[r] = has[r]
    BY <1>2, <1>5 DEF P!Roster
  <2> QED BY <2>1, <1>1, <1>5, <1>6 DEF EarnedSomewhere, ProgressInv
<1>9. TimeSomewhere'
  <2>1. \A r \in P!In : play'[r] = play[r] /\ joinTick'[r] = joinTick[r]
    BY <1>2, <1>5 DEF P!In
  <2> QED BY <2>1, <1>1, <1>5, <1>6 DEF TimeSomewhere, ProgressInv
<1>10. P!ShownIsHeld'
  BY <1>1, <1>2, <1>5 DEF P!ShownIsHeld, ProgressInv, P!In
<1>11. P!NumbersAgree'
  BY <1>1, <1>2, <1>5 DEF P!NumbersAgree, ProgressInv, P!In
<1> QED BY <1>3, <1>4, <1>7, <1>8, <1>9, <1>10, <1>11 DEF ProgressInv

\* Deeds by the packs there are, with one session in the roster, add to what he has
\* as much as to what he earned, and the screen follows; those of a session that is
\* saved change nothing, or they are late.
LEMMA DoKeeps ==
  ASSUME NEW s \in Logins, NEW deeds, ProgressInv, P!Do(s, deeds), s \in P!Roster,
         merge' = P!mergedAdvancements(pack.advs), seat' = seat, pack' = pack,
         NothingMissed' => NothingMissed, missed' \cap {"revoked"} = missed \cap {"revoked"},
         P!Late(s, P!New(deeds) \ has[s]) \subseteq missed'
  PROVE  /\ PerSession(has)' /\ PerSession(shown)'
         /\ NothingMissed' => \A r \in P!Roster' : has'[r] = earned'
         /\ NothingMissed' /\ P!In = {} => earned' = earned
         /\ P!ShownIsHeld'
<1> DEFINE merged == P!mergedAdvancements(pack.advs)
           new == UNION {P!Deserved(merged, d) : d \in deeds}
<1>1. /\ has' = [has EXCEPT ![s] = @ \cup new]
      /\ shown' = [shown EXCEPT ![s] = IF new \subseteq has[s] THEN @
                                       ELSE P!SendAdvancements(@, has'[s], merged, FALSE)]
      /\ earned' = earned \cup new
      /\ P!Late(s, new \ has[s]) \subseteq missed'
  BY DEF P!Do, P!New
<1>2. merged' = merged
  OBVIOUS
<1> HIDE DEF new
<1>3. P!In' = P!In /\ P!Roster' = P!Roster /\ P!In \subseteq P!Roster /\ s \in Logins
  BY DEF P!In, P!Roster
<1>4. PerSession(has)' /\ PerSession(shown)'
  BY <1>1 DEF ProgressInv, ProgressTypes, PerSession
<1>5. has'[s] = has[s] \cup new /\ \A r \in Logins \ {s} : has'[r] = has[r]
  BY <1>1 DEF ProgressInv, ProgressTypes, PerSession
<1>6. /\ new \subseteq has[s] => shown'[s] = shown[s]
      /\ ~(new \subseteq has[s]) => shown'[s] = shown[s] \cup P!Done(has'[s], merged)
      /\ \A r \in Logins \ {s} : shown'[r] = shown[r]
  BY <1>1 DEF ProgressInv, ProgressTypes, PerSession, P!SendAdvancements
<1> HIDE DEF merged
<1>7. /\ NothingMissed' => \A r \in P!Roster' : has'[r] = earned'
      /\ NothingMissed' /\ P!In = {} => earned' = earned
  <2> SUFFICES ASSUME NothingMissed'
               PROVE  /\ \A r \in P!Roster' : has'[r] = earned'
                      /\ P!In = {} => earned' = earned
    OBVIOUS
  <2>1. has[s] = earned /\ \A r \in P!Roster : r = s
    BY DEF ProgressInv, OneSession, EarnedSomewhere, NothingMissed
  <2>2. \A r \in P!Roster' : has'[r] = earned'
    BY <2>1, <1>1, <1>3, <1>5
  <2>3. ASSUME P!In = {} PROVE earned' = earned
    <3>1. seat[s] = "saved"
      BY <2>3 DEF P!In, P!Roster
    <3>2. new \ has[s] = {}
      BY <3>1, <1>1 DEF P!Late, NothingMissed
    <3> QED BY <3>2, <2>1, <1>1
  <2> QED BY <2>2, <2>3
<1>8. P!ShownIsHeld'
  <2> SUFFICES ASSUME NEW r \in P!In', "revoked" \notin missed'
               PROVE  shown'[r] = P!Done(has'[r], merged')
    BY DEF P!ShownIsHeld, merged
  <2>1. shown[r] = P!Done(has[r], merged) /\ r \in Logins
    BY <1>3 DEF ProgressInv, P!ShownIsHeld, P!In, merged
  <2>2. CASE r = s /\ ~(new \subseteq has[s])
    <3>1. P!Done(has[s], merged) \cup P!Done(has[s] \cup new, merged)
            = P!Done(has[s] \cup new, merged)
      BY DEF P!Done
    <3>2. shown'[s] = P!Done(has[s], merged) \cup P!Done(has[s] \cup new, merged)
      BY <2>1, <2>2, <1>5, <1>6
    <3>3. P!Done(has'[r], merged') = P!Done(has[s] \cup new, merged)
      BY <2>2, <1>2, <1>5
    <3> QED BY <2>2, <3>1, <3>2, <3>3
  <2>3. CASE r = s /\ new \subseteq has[s]
    <3>1. has'[s] = has[s]
      BY <2>3, <1>5
    <3> QED BY <2>1, <2>3, <3>1, <1>2, <1>6
  <2>4. CASE r # s
    BY <2>1, <2>4, <1>2, <1>5, <1>6
  <2> QED BY <2>2, <2>3, <2>4
<1> QED BY <1>4, <1>7, <1>8

\* A step that moves no session, no file, no time, no pack and no recipe.
LEMMA StayingKeeps ==
  ASSUME ProgressInv,
         UNCHANGED <<pack, tick, seat, joinTick, play, known, book, saved, played>>,
         FilesWhole' => FilesWhole, NoTimeMissed' => NoTimeMissed,
         missed \cap {"renumbered"} = missed' \cap {"renumbered"}
  PROVE  /\ OneSession' /\ TimeSomewhere' /\ P!NumbersAgree'
         /\ P!In' = P!In /\ P!Roster' = P!Roster
         /\ PerSession(known)' /\ PerSession(book)' /\ PerSession(play)'
         /\ seat' \in [Logins -> Phases]
         /\ joinTick' \in [Logins -> Nat] /\ tick' \in Nat
<1>1. P!In' = P!In /\ P!Roster' = P!Roster
  BY DEF P!In, P!Roster
<1>2. OneSession'
  BY <1>1 DEF ProgressInv, OneSession
<1>3. TimeSomewhere'
  BY <1>1 DEF ProgressInv, TimeSomewhere
<1>4. P!NumbersAgree'
  BY <1>1 DEF ProgressInv, P!NumbersAgree
<1> QED BY <1>1, <1>2, <1>3, <1>4 DEF ProgressInv, ProgressTypes, PerSession

LEMMA DeedKeeps ==
  ASSUME NEW s \in Logins, NEW deed, ProgressInv, P!Deed(s, deed)
  PROVE  ProgressInv'
<1>1. /\ UNCHANGED <<pack, tick, seat, known, joinTick, play, book, saved, played>>
      /\ s \in P!Roster /\ P!Do(s, {deed}) /\ P!Cached
      /\ missed' = missed \cup P!Late(s, P!New({deed}) \ has[s])
  BY DEF P!Deed
<1>2. merge' = P!mergedAdvancements(pack.advs) /\ CacheTrue'
  BY <1>1, CacheTells DEF ProgressInv
<1>3. /\ NothingMissed' => NothingMissed
      /\ FilesWhole' <=> FilesWhole
      /\ NoTimeMissed' <=> NoTimeMissed
      /\ missed' \cap {"revoked"} = missed \cap {"revoked"}
      /\ missed \cap {"renumbered"} = missed' \cap {"renumbered"}
  <2>1. missed' = missed \/ missed' = missed \cup {"late"}
    BY <1>1 DEF P!Late
  <2> QED BY <2>1 DEF NothingMissed, NoTimeMissed, FilesWhole
<1>4. /\ PerSession(has)' /\ PerSession(shown)' /\ P!ShownIsHeld'
      /\ NothingMissed' => \A r \in P!Roster' : has'[r] = earned'
      /\ NothingMissed' /\ P!In = {} => earned' = earned
  BY <1>1, <1>2, <1>3, DoKeeps
<1>5. /\ OneSession' /\ TimeSomewhere' /\ P!NumbersAgree'
      /\ P!In' = P!In /\ P!Roster' = P!Roster
      /\ PerSession(known)' /\ PerSession(book)' /\ PerSession(play)'
      /\ seat' \in [Logins -> Phases]
      /\ joinTick' \in [Logins -> Nat] /\ tick' \in Nat
  BY <1>1, <1>3, StayingKeeps
<1>6. EarnedSomewhere'
  BY <1>1, <1>3, <1>4, <1>5 DEF EarnedSomewhere, ProgressInv
<1> QED BY <1>2, <1>4, <1>5, <1>6 DEF ProgressInv, ProgressTypes

\* The next save of all progress may add time twice; the tick itself counts once.
LEMMA TickKeeps ==
  ASSUME NEW scene, ProgressInv, P!Tick(scene)
  PROVE  ProgressInv'
<1>1. /\ UNCHANGED <<pack, seat, joinTick, known, book>> /\ P!Cached
      /\ tick' = tick + 1 /\ played' = played + P!Cardinality(P!In)
  BY DEF P!Tick
<1>2. merge' = P!mergedAdvancements(pack.advs) /\ CacheTrue'
  BY <1>1, CacheTells DEF ProgressInv
<1>3. P!In' = P!In /\ P!Roster' = P!Roster /\ P!In \subseteq P!Roster
  BY <1>1 DEF P!In, P!Roster
<1> DEFINE seen == {P!Seen("tick", scene)} \cup
                     (IF tick' % Often = 0
                      THEN {P!Seen("location", scene), P!Seen("enter_block", scene)} ELSE {})
           due == IF tick' % Period = 0 /\ P!Roster # {} THEN {"periodic"} ELSE {}
<1>4. /\ PerSession(play)'
      /\ \/ due = {} /\ UNCHANGED <<play, saved>>
         \/ due = {"periodic"} /\ \E s \in P!Roster : saved'.ids = has[s]
  <2>1. CASE tick' % Period = 0 /\ P!Roster # {}
    <3>1. /\ play' = [s \in Logins |-> play[s] + (IF s \in P!Roster THEN Period ELSE 0)]
          /\ \E s \in P!Roster : saved' = [ok |-> TRUE, ids |-> has[s], play |-> play'[s]]
      BY <2>1 DEF P!Tick
    <3>2. due = {"periodic"}
      BY <2>1
    <3>3. \E s \in P!Roster : saved'.ids = has[s]
      BY <3>1
    <3> QED BY <3>1, <3>2, <3>3 DEF PerSession
  <2>2. CASE ~(tick' % Period = 0 /\ P!Roster # {})
    <3>1. UNCHANGED <<play, saved>> /\ due = {}
      BY <2>2 DEF P!Tick
    <3> QED BY <3>1 DEF PerSession, ProgressInv, ProgressTypes
  <2> QED BY <2>1, <2>2
<1>5. \/ /\ P!In = {} /\ missed' = missed \cup due /\ UNCHANGED <<has, shown, earned>>
      \/ \E s \in P!Roster : /\ P!Do(s, seen)
                             /\ missed' = missed \cup due
                                  \cup P!Late(s, P!New(seen) \ has[s])
  BY DEF P!Tick
<1> HIDE DEF seen, due
<1>6. /\ NothingMissed' => NothingMissed
      /\ missed' \cap {"revoked"} = missed \cap {"revoked"}
      /\ missed' \cap {"renumbered"} = missed \cap {"renumbered"}
      /\ FilesWhole' <=> FilesWhole
      /\ NoTimeMissed' => NoTimeMissed /\ UNCHANGED <<play, saved>>
  <2>1. \E x \in SUBSET {"periodic", "late"} : missed' = missed \cup x /\ due \subseteq x
    <3>1. due \in SUBSET {"periodic"} /\ \A s, c : P!Late(s, c) \in SUBSET {"late"}
      BY <1>4 DEF P!Late
    <3>2. CASE missed' = missed \cup due
      BY <3>1, <3>2
    <3>3. ASSUME NEW s \in P!Roster,
                 missed' = missed \cup due \cup P!Late(s, P!New(seen) \ has[s])
          PROVE  \E x \in SUBSET {"periodic", "late"} :
                    missed' = missed \cup x /\ due \subseteq x
      <4>1. due \cup P!Late(s, P!New(seen) \ has[s]) \in SUBSET {"periodic", "late"}
        BY <3>1
      <4>2. missed' = missed \cup (due \cup P!Late(s, P!New(seen) \ has[s]))
        BY <3>3
      <4> QED BY <4>1, <4>2
    <3> QED BY <3>2, <3>3, <1>5
  <2>2. PICK x \in SUBSET {"periodic", "late"} : missed' = missed \cup x /\ due \subseteq x
    BY <2>1
  <2>3. \A w \in {"revoked", "renumbered", "malformed", "overtaken", "unsaved", "crash"} :
          w \in missed' <=> w \in missed
    BY <2>2
  <2>4. NothingMissed' => NothingMissed
    BY <2>2 DEF NothingMissed, FilesWhole
  <2>5. FilesWhole' <=> FilesWhole
    BY <2>3 DEF FilesWhole
  <2>6. NoTimeMissed' => NoTimeMissed /\ "periodic" \notin missed'
    BY <2>2 DEF NoTimeMissed
  <2>7. due \subseteq missed'
    BY <2>2
  <2> QED BY <2>3, <2>4, <2>5, <2>6, <2>7, <1>4
<1>7. /\ PerSession(has)' /\ PerSession(shown)' /\ P!ShownIsHeld'
      /\ NothingMissed' => \A r \in P!Roster' : has'[r] = earned'
      /\ NothingMissed' /\ P!In = {} => earned' = earned
  <2>1. CASE P!In = {} /\ UNCHANGED <<has, shown, earned>>
    <3>1. PerSession(has)' /\ PerSession(shown)' /\ P!ShownIsHeld'
      BY <2>1, <1>3 DEF ProgressInv, ProgressTypes, PerSession, P!ShownIsHeld
    <3> QED BY <2>1, <3>1, <1>3, <1>6 DEF ProgressInv, EarnedSomewhere
  <2>2. ASSUME NEW s \in P!Roster, P!Do(s, seen),
               missed' = missed \cup due \cup P!Late(s, P!New(seen) \ has[s])
        PROVE  /\ PerSession(has)' /\ PerSession(shown)' /\ P!ShownIsHeld'
               /\ NothingMissed' => \A r \in P!Roster' : has'[r] = earned'
               /\ NothingMissed' /\ P!In = {} => earned' = earned
    <3>1. s \in Logins /\ P!Late(s, P!New(seen) \ has[s]) \subseteq missed'
      BY <2>2 DEF P!Roster
    <3> QED BY <2>2, <3>1, <1>1, <1>2, <1>6, DoKeeps
  <2> QED BY <2>1, <2>2, <1>5
<1>8. OneSession'
  BY <1>1, <1>3, <1>6 DEF ProgressInv, OneSession
<1>12. EarnedSomewhere'
  <2> SUFFICES ASSUME NothingMissed', P!In = {} PROVE saved'.ids = earned'
    BY <1>3, <1>7 DEF EarnedSomewhere
  <2>1. \A s \in P!Roster : has[s] = earned
    BY <1>6 DEF ProgressInv, EarnedSomewhere
  <2>2. saved.ids = earned
    BY <1>6 DEF ProgressInv, EarnedSomewhere
  <2> QED BY <2>1, <2>2, <1>4, <1>7
<1>9. TimeSomewhere'
  <2> SUFFICES ASSUME NoTimeMissed' PROVE TimeSomewhere'
    BY DEF TimeSomewhere
  <2>1. NoTimeMissed /\ FilesWhole /\ UNCHANGED <<play, saved, joinTick>>
    BY <1>1, <1>6, TimedIsKept
  <2>2. CASE P!In = {}
    <3>1. P!Cardinality(P!In) = 0
      BY <2>2, FS_EmptySet, SameCardinality
    <3> QED BY <2>1, <2>2, <3>1, <1>1, <1>3 DEF ProgressInv, TimeSomewhere
  <2>3. CASE P!In # {}
    <3>1. PICK s \in P!In : P!In = {s}
      BY <2>1, <2>3, <1>3 DEF ProgressInv, OneSession
    <3>2. P!Cardinality(P!In) = 1
      BY <3>1, FS_Singleton, SameCardinality
    <3>3. s \in Logins /\ joinTick[s] \in Nat /\ tick \in Nat
      BY DEF ProgressInv, ProgressTypes, P!In
    <3>4. /\ played \in Int /\ play[s] \in Int /\ joinTick[s] # 0
          /\ play[s] + (tick - joinTick[s]) = played
      BY <2>1 DEF ProgressInv, TimeSomewhere
    <3>5. /\ played' \in Int
          /\ play'[s] + (tick' - joinTick'[s]) = played'
      BY <2>1, <3>2, <3>3, <3>4, <1>1
    <3> QED BY <2>1, <3>1, <3>4, <3>5, <1>3 DEF TimeSomewhere
  <2> QED BY <2>2, <2>3
<1>10. P!NumbersAgree'
  BY <1>1, <1>3, <1>6 DEF ProgressInv, P!NumbersAgree
<1>11. PerSession(play)' /\ tick' \in Nat
  BY <1>1, <1>4 DEF ProgressInv, ProgressTypes, PerSession
<1> QED BY <1>1, <1>2, <1>7, <1>8, <1>9, <1>10, <1>11, <1>12
        DEF ProgressInv, ProgressTypes, PerSession

LEMMA AdvanceKeeps ==
  ASSUME NEW s \in Logins, NEW verb \in P!Verbs, NEW mode, NEW id, ProgressInv,
         P!Advance(s, verb, mode, id)
  PROVE  ProgressInv'
<1> DEFINE merged == P!mergedAdvancements(pack.advs)
           ids == P!expandAdv(mode, id)
<1>1. /\ UNCHANGED <<pack, tick, seat, joinTick, play, known, book, saved, played>>
      /\ s \in P!Roster /\ P!Cached
  BY DEF P!Advance
<1>2. merge' = merged /\ merged' = merged /\ CacheTrue'
  BY <1>1, CacheTells DEF ProgressInv
<1> DEFINE change == IF verb = "grant" THEN ids \ has[s] ELSE ids \cap has[s]
<1>3. /\ verb = "grant" => /\ has' = [has EXCEPT ![s] = @ \cup ids]
                           /\ earned' = earned \cup ids
                           /\ missed' = missed \cup P!Late(s, change)
      /\ verb # "grant" => /\ has' = [has EXCEPT ![s] = @ \ ids]
                           /\ earned' = earned \ ids
                           /\ change # {} => missed' =
                                missed \cup P!Late(s, change) \cup {"revoked"}
                           /\ change = {} => missed' = missed \cup P!Late(s, change)
  BY DEF P!Advance, P!Verbs
<1>4. /\ verb = "grant" => /\ ids \ has[s] = {} => shown' = [shown EXCEPT ![s] = @]
                           /\ ids \ has[s] # {} => shown' = [shown EXCEPT ![s] =
                                P!SendAdvancements(@, has'[s], merged, FALSE)]
      /\ verb # "grant" /\ ids \cap has[s] = {} => shown' = [shown EXCEPT ![s] = @]
      /\ PerSession(shown)' /\ \A r \in Logins \ {s} : shown'[r] = shown[r]
  BY <1>2 DEF P!Advance, ProgressInv, ProgressTypes, PerSession
<1> HIDE DEF ids
<1>5. /\ NothingMissed' => NothingMissed
      /\ FilesWhole' <=> FilesWhole
      /\ NoTimeMissed' <=> NoTimeMissed
      /\ missed \subseteq missed' /\ P!Late(s, change) \subseteq missed'
      /\ missed \cap {"renumbered"} = missed' \cap {"renumbered"}
  <2>1. P!Late(s, change) \subseteq {"late"}
    BY DEF P!Late
  <2> HIDE DEF change
  <2>2. /\ missed \subseteq missed' /\ P!Late(s, change) \subseteq missed'
        /\ missed' \subseteq missed \cup {"late", "revoked"}
    BY <2>1, <1>3
  <2> QED BY <2>2 DEF NothingMissed, NoTimeMissed, FilesWhole
<1>6. /\ OneSession' /\ TimeSomewhere' /\ P!NumbersAgree'
      /\ P!In' = P!In /\ P!Roster' = P!Roster
      /\ PerSession(known)' /\ PerSession(book)' /\ PerSession(play)'
      /\ seat' \in [Logins -> Phases]
      /\ joinTick' \in [Logins -> Nat] /\ tick' \in Nat
  BY <1>1, <1>5, StayingKeeps
<1>7. s \in Logins /\ P!In \subseteq P!Roster
  BY DEF P!In, P!Roster
<1>8. /\ has'[s] = IF verb = "grant" THEN has[s] \cup ids ELSE has[s] \ ids
      /\ \A r \in Logins \ {s} : has'[r] = has[r]
      /\ PerSession(has)'
  BY <1>3 DEF ProgressInv, ProgressTypes, PerSession
<1>9. EarnedSomewhere'
  <2> SUFFICES ASSUME NothingMissed'
               PROVE  /\ \A r \in P!Roster' : has'[r] = earned'
                      /\ P!In' = {} => saved'.ids = earned'
    BY DEF EarnedSomewhere
  <2>1. has[s] = earned /\ \A r \in P!Roster : r = s
    BY <1>1, <1>5 DEF ProgressInv, OneSession, EarnedSomewhere, NothingMissed
  <2>2. \A r \in P!Roster' : has'[r] = earned'
    BY <2>1, <1>3, <1>6, <1>8
  <2>3. ASSUME P!In = {} PROVE saved'.ids = earned'
    <3>1. seat[s] = "saved"
      BY <2>3, <1>1 DEF P!In, P!Roster
    <3>2. change = {}
      BY <3>1, <1>5 DEF P!Late, NothingMissed
    <3>3. saved.ids = earned
      BY <2>3, <1>5 DEF ProgressInv, EarnedSomewhere
    <3> QED BY <3>2, <3>3, <2>1, <1>1, <1>3
  <2> QED BY <2>2, <2>3, <1>6
<1>10. P!ShownIsHeld'
  <2> SUFFICES ASSUME NEW r \in P!In, "revoked" \notin missed'
               PROVE  shown'[r] = P!Done(has'[r], merged')
    BY <1>6 DEF P!ShownIsHeld
  <2>1. "revoked" \notin missed /\ r \in Logins
    BY <1>5 DEF P!In
  <2>2. shown[r] = P!Done(has[r], merged)
    BY <2>1 DEF ProgressInv, P!ShownIsHeld
  <2> HIDE DEF merged
  <2>3. CASE r # s
    BY <2>1, <2>2, <2>3, <1>2, <1>4, <1>8
  <2>4. CASE r = s /\ (IF verb = "grant" THEN ids \ has[s] ELSE ids \cap has[s]) = {}
    <3>1. has'[s] = has[s]
      BY <2>4, <1>8
    <3>2. shown'[s] = shown[s]
      BY <2>4, <1>4 DEF ProgressInv, ProgressTypes, PerSession
    <3> QED BY <2>2, <2>4, <3>1, <3>2, <1>2
  <2>5. CASE r = s /\ (IF verb = "grant" THEN ids \ has[s] ELSE ids \cap has[s]) # {}
    <3>1. verb = "grant" /\ ids \ has[s] # {}
      BY <2>5, <1>3
    <3>2. shown'[s] = shown[s] \cup P!Done(has'[s], merged)
      BY <3>1, <1>4 DEF ProgressInv, ProgressTypes, PerSession, P!SendAdvancements
    <3>3. has'[s] = has[s] \cup ids
      BY <3>1, <1>8
    <3>4. P!Done(has[s], merged) \cup P!Done(has[s] \cup ids, merged)
            = P!Done(has[s] \cup ids, merged)
      BY DEF P!Done
    <3>5. shown'[s] = P!Done(has[s], merged) \cup P!Done(has[s] \cup ids, merged)
      BY <2>2, <2>5, <3>2, <3>3
    <3> QED BY <2>5, <3>3, <3>4, <3>5, <1>2
  <2> QED BY <2>3, <2>4, <2>5
<1> QED BY <1>2, <1>4, <1>6, <1>8, <1>9, <1>10 DEF ProgressInv, ProgressTypes

\* The end of the process leaves nobody in.
LEMMA DieKeeps ==
  ASSUME ProgressInv, P!Die, pack' = pack, tick' = tick
  PROVE  ProgressInv'
<1>1. ProgressTypes'
  BY DEF P!Die, P!Forget, ProgressInv, ProgressTypes, PerSession, Phases
<1>2. CacheTrue' /\ "crash" \in missed'
  BY DEF P!Die, CacheTrue
<1>3. P!In' = {}
  BY DEF P!Die, P!In
<1>4. (OneSession /\ EarnedSomewhere /\ TimeSomewhere)'
  BY <1>2 DEF OneSession, EarnedSomewhere, TimeSomewhere, NothingMissed, FilesWhole,
              NoTimeMissed
<1>5. (P!ShownIsHeld /\ P!NumbersAgree)'
  BY <1>3 DEF P!ShownIsHeld, P!NumbersAgree
<1> QED BY <1>1, <1>2, <1>4, <1>5 DEF ProgressInv

LEMMA ThroughKeeps ==
  ASSUME NEW s \in Logins, NEW id, ProgressInv, P!Through(s, id)
  PROVE  ProgressInv'
<1>1. UNCHANGED <<pack, tick, saved, earned, played>>
  BY DEF P!Through
<1>2. CASE P!Die
  BY <1>1, <1>2, DieKeeps
<1>3. CASE UNCHANGED <<seat, missed, merge, counted, has, joinTick, play, known, shown, book>>
  <2>1. /\ P!In' = P!In /\ P!Roster' = P!Roster /\ CacheTrue'
        /\ NothingMissed' <=> NothingMissed
    BY <1>1, <1>3 DEF P!In, P!Roster, CacheTrue, NothingMissed, FilesWhole, ProgressInv
  <2>2. /\ OneSession' /\ TimeSomewhere' /\ P!NumbersAgree'
    BY <1>1, <1>3, StayingKeeps DEF FilesWhole, NoTimeMissed
  <2>3. EarnedSomewhere' /\ P!ShownIsHeld'
    BY <1>1, <1>3, <2>1 DEF ProgressInv, EarnedSomewhere, P!ShownIsHeld
  <2>4. ProgressTypes'
    BY <1>1, <1>3 DEF ProgressInv, ProgressTypes, PerSession
  <2> QED BY <2>1, <2>2, <2>3, <2>4 DEF ProgressInv
<1> QED BY <1>2, <1>3 DEF P!Through

LEMMA OutageKeeps == ASSUME ProgressInv, P!Crash PROVE ProgressInv'
<1>1. P!Die /\ pack' = pack /\ tick' = tick
  BY DEF P!Crash
<1> QED BY <1>1, DieKeeps

LEMMA SpoilKeeps == ASSUME ProgressInv, P!Spoil PROVE ProgressInv'
<1>1. /\ UNCHANGED <<pack, merge, counted, tick, seat, has, joinTick, play, known, shown,
                     book, earned, played, missed>>
      /\ saved' = [saved EXCEPT !.ok = FALSE]
  BY DEF P!Spoil
<1>2. saved'.ids = saved.ids /\ saved'.play = saved.play
  BY <1>1
<1>3. /\ P!In' = P!In /\ P!Roster' = P!Roster /\ CacheTrue'
      /\ (NothingMissed' <=> NothingMissed) /\ (FilesWhole' <=> FilesWhole)
      /\ NoTimeMissed' <=> NoTimeMissed
  BY <1>1 DEF P!In, P!Roster, CacheTrue, NothingMissed, FilesWhole, NoTimeMissed, ProgressInv
<1>4. OneSession' /\ EarnedSomewhere'
  BY <1>1, <1>2, <1>3 DEF OneSession, EarnedSomewhere, ProgressInv
<1>5. TimeSomewhere'
  BY <1>1, <1>2, <1>3 DEF TimeSomewhere, ProgressInv
<1>6. P!ShownIsHeld' /\ P!NumbersAgree'
  BY <1>1, <1>3 DEF P!ShownIsHeld, P!NumbersAgree, ProgressInv
<1>7. ProgressTypes'
  BY <1>1 DEF ProgressInv, ProgressTypes, PerSession
<1> QED BY <1>3, <1>4, <1>5, <1>6, <1>7 DEF ProgressInv

\* A recipe given is put where the loaded packs number it, and one taken away is
\* taken from there.
LEMMA RecipeKeeps ==
  ASSUME NEW s \in Logins, NEW verb \in {"give", "take"}, NEW recipe, ProgressInv,
         P!Recipe(s, verb, recipe)
  PROVE  ProgressInv'
<1> DEFINE ids == P!Where(recipe)
<1>1. /\ UNCHANGED <<pack, merge, counted, tick, seat, has, joinTick, play, shown, saved,
                     earned, played, missed>>
      /\ ids # {}
  BY DEF P!Recipe
<1>2. /\ PerSession(known)' /\ PerSession(book)'
      /\ \A r \in Logins \ {s} : known'[r] = known[r] /\ book'[r] = book[r]
      /\ verb = "give" => known'[s] = known[s] \cup {recipe}
      /\ verb = "take" => known'[s] = known[s] \ {recipe}
  BY DEF P!Recipe, ProgressInv, ProgressTypes, PerSession
<1>3. /\ verb = "give" /\ recipe \notin known[s] =>
           book' = [book EXCEPT ![s] = P!Numbers(s, ids, pack.recipes)]
      /\ verb = "take" /\ recipe \in known[s] =>
           book' = [book EXCEPT ![s] = [i \in DOMAIN book[s] \ ids |-> book[s][i]]]
      /\ (verb = "give" <=> recipe \in known[s]) => book' = book
  <2> DEFINE fresh == (recipe \in known[s]) # (verb = "give")
  <2>1. /\ fresh /\ verb = "give" => book' = [book EXCEPT ![s] = P!Numbers(s, ids, pack.recipes)]
        /\ fresh /\ verb # "give" =>
             book' = [book EXCEPT ![s] = [i \in DOMAIN book[s] \ ids |-> book[s][i]]]
        /\ ~fresh => book' = book
    BY DEF P!Recipe
  <2>2. fresh <=> ~(verb = "give" <=> recipe \in known[s])
    OBVIOUS
  <2> HIDE DEF fresh, ids
  <2> QED BY <2>1, <2>2
<1>4. \A i : i \in ids <=> i \in DOMAIN pack.recipes /\ pack.recipes[i] = recipe
  BY DEF P!Where
<1> HIDE DEF ids
<1>5. /\ P!In' = P!In /\ P!Roster' = P!Roster /\ CacheTrue'
      /\ (NothingMissed' <=> NothingMissed) /\ (FilesWhole' <=> FilesWhole)
      /\ NoTimeMissed' <=> NoTimeMissed
  BY <1>1 DEF P!In, P!Roster, CacheTrue, NothingMissed, FilesWhole, NoTimeMissed, ProgressInv
<1>6. OneSession' /\ EarnedSomewhere' /\ TimeSomewhere' /\ P!ShownIsHeld'
  BY <1>1, <1>5 DEF OneSession, EarnedSomewhere, TimeSomewhere, P!ShownIsHeld, ProgressInv
<1>7. P!NumbersAgree'
  <2> SUFFICES ASSUME NEW r \in P!In, "renumbered" \notin missed
               PROVE  /\ \A i \in DOMAIN book'[r] : /\ i \in DOMAIN pack.recipes
                                                    /\ book'[r][i] = pack.recipes[i]
                      /\ \A x \in known'[r] : \E i \in DOMAIN book'[r] : book'[r][i] = x
    BY <1>1, <1>5 DEF P!NumbersAgree
  <2>1. /\ r \in Logins
        /\ \A i \in DOMAIN book[r] : i \in DOMAIN pack.recipes /\ book[r][i] = pack.recipes[i]
        /\ \A x \in known[r] : \E i \in DOMAIN book[r] : book[r][i] = x
    BY DEF P!In, ProgressInv, P!NumbersAgree
  <2>2. CASE r # s
    BY <2>1, <2>2, <1>2
  <2>3. CASE r = s /\ verb = "give" /\ recipe \notin known[s]
    <3>1. book'[s] = [i \in DOMAIN book[s] \cup ids |->
                        IF i \in ids THEN pack.recipes[i] ELSE book[s][i]]
      BY <2>3, <1>3 DEF P!Numbers, ProgressInv, ProgressTypes, PerSession
    <3>2. known'[s] = known[s] \cup {recipe}
      BY <2>3, <1>2
    <3>3. \A i \in DOMAIN book'[s] : i \in DOMAIN pack.recipes /\ book'[s][i] = pack.recipes[i]
      BY <2>1, <2>3, <3>1, <1>4
    <3>4. \A x \in known'[s] : \E i \in DOMAIN book'[s] : book'[s][i] = x
      <4> TAKE x \in known'[s]
      <4>1. CASE x = recipe
        <5>1. PICK i \in ids : TRUE
          BY <1>1
        <5> QED BY <4>1, <5>1, <3>1, <1>4
      <4>2. CASE x # recipe
        <5>1. PICK i \in DOMAIN book[s] : book[s][i] = x
          BY <2>1, <2>3, <3>2, <4>2
        <5>2. i \in DOMAIN book'[s] /\ book'[s][i] = x
          BY <5>1, <2>1, <2>3, <3>1
        <5> QED BY <5>2
      <4> QED BY <4>1, <4>2
    <3> QED BY <2>3, <3>3, <3>4
  <2>4. CASE r = s /\ verb = "take" /\ recipe \in known[s]
    <3>1. book'[s] = [i \in DOMAIN book[s] \ ids |-> book[s][i]]
      BY <2>4, <1>3 DEF ProgressInv, ProgressTypes, PerSession
    <3>2. known'[s] = known[s] \ {recipe}
      BY <2>4, <1>2
    <3>3. \A i \in DOMAIN book'[s] : i \in DOMAIN pack.recipes /\ book'[s][i] = pack.recipes[i]
      BY <2>1, <2>4, <3>1
    <3>4. \A x \in known'[s] : \E i \in DOMAIN book'[s] : book'[s][i] = x
      <4> TAKE x \in known'[s]
      <4>1. PICK i \in DOMAIN book[s] : book[s][i] = x
        BY <2>1, <2>4, <3>2
      <4>2. i \notin ids
        BY <4>1, <2>1, <2>4, <3>2, <1>4
      <4> QED BY <4>1, <4>2, <3>1
    <3> QED BY <2>4, <3>3, <3>4
  <2>5. CASE r = s /\ (verb = "give" <=> recipe \in known[s])
    <3>1. book' = book
      BY <2>5, <1>3
    <3>2. known'[s] = known[s]
      BY <2>5, <1>2
    <3> QED BY <2>1, <2>5, <3>1, <3>2
  <2> QED BY <2>2, <2>3, <2>4, <2>5
<1>8. ProgressTypes'
  BY <1>1, <1>2 DEF ProgressInv, ProgressTypes, PerSession
<1> QED BY <1>5, <1>6, <1>7, <1>8 DEF ProgressInv

\* Packs that change empty the cache with it.
LEMMA ChangeKeeps ==
  ASSUME NEW p, ProgressInv, P!Change(p)
  PROVE  ProgressInv'
<1>1. /\ pack' = p
      /\ merge' = P!mergedAdvancements(p.advs) /\ counted' = P!Cardinality(p.advs)
      /\ UNCHANGED <<tick, seat, has, joinTick, play, known, book, saved, earned, played>>
      /\ missed' = (missed \ {"revoked"})
                     \cup (IF p.recipes = pack.recipes THEN {} ELSE {"renumbered"})
  BY DEF P!Change
<1>2. PerSession(shown)' /\ \A s \in P!In : shown'[s] = P!Done(has[s], merge')
  BY DEF P!Change, P!SendAdvancements, P!In, P!Roster, PerSession, ProgressInv, ProgressTypes
<1>3. ProgressTypes'
  BY <1>1, <1>2 DEF ProgressInv, ProgressTypes, PerSession
<1>4. CacheTrue'
  BY <1>1 DEF CacheTrue
<1>5. /\ P!In' = P!In /\ P!Roster' = P!Roster
      /\ (NothingMissed' <=> NothingMissed) /\ (FilesWhole' <=> FilesWhole)
      /\ NoTimeMissed' <=> NoTimeMissed
  BY <1>1 DEF P!In, P!Roster, NothingMissed, FilesWhole, NoTimeMissed
<1>6. OneSession' /\ EarnedSomewhere' /\ TimeSomewhere'
  BY <1>1, <1>5 DEF OneSession, EarnedSomewhere, TimeSomewhere, ProgressInv
<1>7. P!ShownIsHeld'
  BY <1>1, <1>2, <1>5 DEF P!ShownIsHeld
<1>8. P!NumbersAgree'
  <2> SUFFICES ASSUME "renumbered" \notin missed' PROVE P!NumbersAgree'
    BY DEF P!NumbersAgree
  <2>1. p.recipes = pack.recipes /\ "renumbered" \notin missed
    BY <1>1
  <2> QED BY <2>1, <1>1, <1>5 DEF P!NumbersAgree, ProgressInv
<1> QED BY <1>3, <1>4, <1>6, <1>7, <1>8 DEF ProgressInv

LEMMA ProgressNext ==
  ASSUME ProgressInv, P!Next \/ UNCHANGED progress
  PROVE  ProgressInv'
<1>1. CASE P!Next
  <2>1. ASSUME NEW s \in Logins, P!Join(s) PROVE ProgressInv'
    BY <2>1, JoinKeeps
  <2>2. ASSUME NEW s \in Logins, P!Leave(s) PROVE ProgressInv'
    BY <2>2, LeaveKeeps
  <2>11. ASSUME NEW s \in Logins, P!Save(s) PROVE ProgressInv'
    BY <2>11, SaveKeeps
  <2>3. ASSUME NEW s \in Logins, NEW d \in MCDeeds, P!Deed(s, d) PROVE ProgressInv'
    BY <2>3, DeedKeeps
  <2>4. ASSUME NEW s \in Logins, NEW v \in P!Verbs, NEW m, NEW id, P!Advance(s, v, m, id)
        PROVE  ProgressInv'
    BY <2>4, AdvanceKeeps
  <2>5. ASSUME NEW s \in Logins, NEW id, P!Through(s, id) PROVE ProgressInv'
    BY <2>5, ThroughKeeps
  <2>6. ASSUME NEW s \in Logins, NEW v \in {"give", "take"}, NEW r, P!Recipe(s, v, r)
        PROVE  ProgressInv'
    BY <2>6, RecipeKeeps
  <2>7. ASSUME NEW scene, P!Tick(scene) PROVE ProgressInv'
    BY <2>7, TickKeeps
  <2>8. ASSUME NEW p, P!Change(p)
        PROVE ProgressInv'
    BY <2>8, ChangeKeeps
  <2>9. ASSUME P!Crash PROVE ProgressInv'
    BY <2>9, OutageKeeps
  <2>10. ASSUME P!Spoil PROVE ProgressInv'
    BY <2>10, SpoilKeeps
  <2> QED BY <1>1, <2>1, <2>2, <2>3, <2>4, <2>5, <2>6, <2>7, <2>8, <2>9, <2>10,
            <2>11 DEF P!Next
<1>2. CASE UNCHANGED progress
  <2>1. UNCHANGED <<pack, merge, counted, tick, seat, has, joinTick, play, known, shown,
                    book, saved, earned, played, missed>>
    BY <1>2 DEF progress
  <2>2. /\ P!In' = P!In /\ P!Roster' = P!Roster /\ CacheTrue'
        /\ (NothingMissed' <=> NothingMissed) /\ (FilesWhole' <=> FilesWhole)
        /\ NoTimeMissed' <=> NoTimeMissed
    BY <2>1 DEF P!In, P!Roster, CacheTrue, NothingMissed, FilesWhole, NoTimeMissed,
            ProgressInv
  <2>3. OneSession' /\ EarnedSomewhere' /\ TimeSomewhere'
    BY <2>1, <2>2 DEF OneSession, EarnedSomewhere, TimeSomewhere, ProgressInv
  <2>4. P!ShownIsHeld' /\ P!NumbersAgree'
    BY <2>1, <2>2 DEF P!ShownIsHeld, P!NumbersAgree, ProgressInv
  <2>5. ProgressTypes'
    BY <2>1 DEF ProgressInv, ProgressTypes, PerSession
  <2> QED BY <2>2, <2>3, <2>4, <2>5 DEF ProgressInv
<1> QED BY <1>1, <1>2

\* Progress: whatever the packs, the deeds, the orders and the sessions, what a
\* player earned is kept, his client shows it, the time he played is counted once
\* and the numbers of his recipes mean the same to both sides, but for the ways to
\* lose each of them that the code has (initPlayerProgress, savePlayerProgress; a
\* grant between the save at the end of a session and removePlayer is one).
THEOREM EarningsAreKept == PersistenceSpec => []EarningsKept
<1> DEFINE Inv == part = "progress" => ProgressInv
<1>1. PersistenceInit => Inv
  BY ProgressBegins DEF PersistenceInit
<1>2. Inv /\ [PersistenceNext]_allVars => Inv'
  <2> SUFFICES ASSUME Inv, [PersistenceNext]_allVars, part' = "progress"
               PROVE  ProgressInv'
    OBVIOUS
  <2>1. part = "progress" /\ ProgressInv
    BY PartStays
  <2>2. P!Next \/ UNCHANGED progress
    <3>1. PersistenceNext => P!Next
      BY <2>1 DEF PersistenceNext
    <3>2. UNCHANGED allVars => UNCHANGED progress
      BY DEF allVars
    <3> QED BY <3>1, <3>2
  <2> QED BY <2>1, <2>2, ProgressNext
<1>3. Inv => EarningsKept
  BY ProgressSuffices DEF EarningsKept
<1> QED BY <1>1, <1>2, <1>3, PTL DEF PersistenceSpec, allVars
=============================================================================

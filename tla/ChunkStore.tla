----------------------------- MODULE ChunkStore -----------------------------
(***************************************************************************)
(* The life of the chunks of one region file (src/game): edited and        *)
(* evicted under the simulation gate by the tick and the sessions, saved   *)
(* in the background by the Persistence worker (a staged copy of the       *)
(* region, renamed into place) and by the ioPool_ workers (the region      *)
(* file, in place), and read back by the synchronous loader and by the     *)
(* asynchronous one, whose results the tick installs.                      *)
(*                                                                         *)
(* The content of a chunk is the number of the last edit it holds; 0 is    *)
(* the terrain that generation always gives back.  edits[c] is the last    *)
(* edit a player was shown, so content below edits[c] has lost one.        *)
(***************************************************************************)
EXTENDS Integers, Sequences, FiniteSets, SequencesExt

CONSTANTS Chunks,       \* chunks of one region
          Workers,      \* threads of ioPool_
          Stamps,       \* identities of ChunkSaveCoordinator::Stamp objects
          NoChunk,      \* an absent chunk, stamp, task or bytes
          Waiting,      \* a read that has not come back
          MaxEdits,     \* bound: edits of one chunk
          MaxQueue,     \* bound: tasks waiting in ioPool_
          MaxFails,     \* bound: failing disk operations
          FinalPasses   \* kMaxFinalFlushPasses

ASSUME ChunkStoreAssumption ==
    /\ IsFiniteSet(Chunks) /\ IsFiniteSet(Workers) /\ IsFiniteSet(Stamps)
    /\ Workers # {} /\ NoChunk \notin Chunks \cup Stamps \cup Workers
    /\ MaxEdits \in Nat /\ MaxQueue \in Nat /\ MaxFails \in Nat
    /\ FinalPasses \in Nat \ {0}
    /\ NoChunk # Waiting

VARIABLES
    edits,     \* last edit number of each chunk
    live,      \* World::chunks_: content and revision, or NoChunk
    dirty,     \* Persistence::dirty_
    gate,      \* what the holder of simulationDispatchMtx_ is in the middle of
    flush,     \* the thread inside Persistence::flushOnce
    stage,     \* storeChunkAtomically, the holder of regionFileMutex
    disk,      \* the region file: content of each chunk, 0 when not stored
    queue,     \* ioPool_.tasks_
    busy,      \* the task of each ioPool_ thread
    pending,   \* pendingLoads_: NoChunk, Waiting, or the bytes read
    latest,    \* ChunkSaveCoordinator::latest
    stampRev,  \* Stamp::latestRevision
    storing,   \* RegionFile::store in place, the holder of globalMutex
    phase,     \* progress of GameServer::stop
    passes,    \* final passes made by Persistence::stop
    fails,     \* disk operations that have failed
    races      \* history: the races each chunk has been through

vars == <<edits, live, dirty, gate, flush, stage, disk, queue, busy, pending,
          latest, stampRev, storing, phase, passes, fails, races>>

worldVars == <<edits, live, dirty, gate>>
poolVars  == <<queue, busy, storing>>
stampVars == <<latest, stampRev>>
stopVars  == <<phase, passes>>

-----------------------------------------------------------------------------
\* A chunk whose bytes cannot be decoded is regenerated by whoever reads it.
Torn     == -1
Content  == 0..MaxEdits
OnDisk   == Content \cup {Torn}
Revision == 0..(MaxEdits + 1)
Kinds    == {"window", "reload", "late load", "failed", "overlap"}

Free         == [op |-> "free"]
Editing(c)   == [op |-> "edit", c |-> c]
Saving(c)    == [op |-> "cap", c |-> c]
Erasing(c, saved) == [op |-> "erase", c |-> c, saved |-> saved]

Idle         == [step |-> "idle", batch |-> {}]
SaveTask(c, s) == [kind |-> "save", c |-> c, data |-> live[c].data,
                   rev |-> live[c].rev, stamp |-> s]
LoadTask(c)  == [kind |-> "load", c |-> c]

\* What the structures hold.
Loaded    == [data : Content, rev : Revision]
Gates     == {Free} \cup [op : {"edit", "cap"}, c : Chunks]
               \cup [op : {"erase"}, c : Chunks, saved : BOOLEAN]
Flushes   == {Idle} \cup [step : {"next"}, batch : SUBSET Chunks]
               \cup [step : {"barred", "store"}, batch : SUBSET Chunks, c : Chunks]
Stages    == [by : {"flush", "tick"}, c : Chunks, data : Content,
              step : {"copy", "staged", "ready"}, copy : [Chunks -> OnDisk]]
SaveTasks == [kind : {"save"}, c : Chunks, data : Content, rev : Revision,
              stamp : Stamps]
LoadTasks == [kind : {"load"}, c : Chunks]
Works     == [task : SaveTasks, step : {"taken", "write"}]
               \cup [task : LoadTasks, step : {"taken"}]
Stores    == [w : Workers, orphan : BOOLEAN]

\* What is absent is told from all of them.
ASSUME AbsenceAssumption ==
    /\ NoChunk \notin Loaded \cup Stages \cup Works \cup Stores
    /\ NoChunk \notin OnDisk /\ Waiting \notin OnDisk

Tasks == ToSet(queue) \cup {busy[w].task : w \in {v \in Workers : busy[v] # NoChunk}}
Saves(c) == {t \in Tasks : t.kind = "save" /\ t.c = c}
FreeStamps ==
    {s \in Stamps : /\ \A c \in Chunks : latest[c] # s
                    /\ \A t \in Tasks : t.kind = "save" => t.stamp # s}

\* Chunks taken out of dirty_ by flushOnce and not snapshotted yet.
InFlush == flush.batch \cup (IF flush.step = "barred" THEN {flush.c} ELSE {})

\* (mutant) The snapshot is taken under the lock and stored after it.
NotLocked == FALSE

\* World::mutex_ is shared with the flush for the whole of its withChunk.
ReadLocked == stage # NoChunk /\ stage.by = "flush"

Simulating == phase = "running" /\ gate = Free
Race(kind, C) == races' = races \cup {<<kind, c>> : c \in C}

-----------------------------------------------------------------------------
Init ==
    /\ edits = [c \in Chunks |-> 0]
    /\ live = [c \in Chunks |-> NoChunk]
    /\ dirty = {}
    /\ gate = Free
    /\ flush = Idle
    /\ stage = NoChunk
    /\ disk = [c \in Chunks |-> 0]
    /\ queue = <<>>
    /\ busy = [w \in Workers |-> NoChunk]
    /\ pending = [c \in Chunks |-> NoChunk]
    /\ latest = [c \in Chunks |-> NoChunk]
    /\ stampRev = [s \in Stamps |-> 0]
    /\ storing = NoChunk
    /\ phase = "running"
    /\ passes = 0
    /\ fails = 0
    /\ races = {}

-----------------------------------------------------------------------------
(* The simulation: the tick and the sessions, one at a time under the gate. *)

\* World::generateChunkIfMissing: the loader reads the region under both
\* region mutexes; nothing readable there is replaced by generated terrain.
GenerateIfMissing(c) ==
    IF live[c] # NoChunk
      THEN UNCHANGED <<live, races>>
      ELSE /\ stage = NoChunk /\ storing = NoChunk
           /\ live' = [live EXCEPT ![c] = [data |-> IF disk[c] > 0 THEN disk[c] ELSE 0,
                                           rev  |-> 0]]
           /\ Race("reload", IF Saves(c) # {} THEN {c} ELSE {})

\* Session::sendChunk: demandChunkAsyncFor queues a read of the chunk, and
\* the very next call loads or generates it in place.
SendChunk(c) ==
    /\ Simulating
    /\ live[c] = NoChunk
    /\ IF pending[c] # NoChunk
         THEN UNCHANGED <<queue, pending>>
         ELSE /\ Len(queue) < MaxQueue
              /\ queue' = Append(queue, LoadTask(c))
              /\ pending' = [pending EXCEPT ![c] = Waiting]
    /\ GenerateIfMissing(c)
    /\ UNCHANGED <<edits, dirty, gate, flush, stage, disk, busy, stampVars,
                   storing, stopVars, fails>>

\* World::setBlock: generates the chunk when it is missing, writes the block
\* under the world lock and bumps the revision ...
SetBlock(c) ==
    /\ Simulating /\ ~ReadLocked
    /\ edits[c] < MaxEdits
    /\ live[c] # NoChunk => live[c].rev <= MaxEdits
    /\ IF live[c] # NoChunk
         THEN UNCHANGED races
         ELSE /\ stage = NoChunk /\ storing = NoChunk
              /\ Race("reload", IF Saves(c) # {} THEN {c} ELSE {})
    /\ edits' = [edits EXCEPT ![c] = @ + 1]
    /\ live' = [live EXCEPT ![c] =
                  [data |-> edits'[c],
                   rev  |-> IF live[c] = NoChunk THEN 1 ELSE live[c].rev + 1]]
    /\ gate' = Editing(c)
    /\ UNCHANGED <<dirty, flush, stage, disk, poolVars, pending, stampVars,
                   stopVars, fails>>

\* ... and fires the edit hook, Persistence::markDirty, after releasing it.
FireEdit ==
    /\ gate.op = "edit"
    /\ dirty' = dirty \cup {gate.c}
    /\ gate' = Free
    /\ UNCHANGED <<edits, live, flush, stage, disk, poolVars, pending,
                   stampVars, stopVars, fails, races>>

\* pollPendingLoads: bytes that came back replace whatever the world holds
\* (World::setChunk, whose fireEdit is the next step); none are generated.
PollPendingLoads(c) ==
    /\ Simulating
    /\ pending[c] \in OnDisk
    /\ pending' = [pending EXCEPT ![c] = NoChunk]
    /\ IF pending[c] > 0
         THEN /\ ~ReadLocked
              /\ live' = [live EXCEPT ![c] = [data |-> pending[c], rev |-> 1]]
              /\ gate' = Editing(c)
              /\ Race("late load",
                      IF \/ live[c] # NoChunk /\ live[c].data # pending[c]
                         \/ live[c] = NoChunk /\ disk[c] # pending[c]
                         \/ Saves(c) # {}
                        THEN {c} ELSE {})
         ELSE GenerateIfMissing(c) /\ UNCHANGED gate
    /\ UNCHANGED <<edits, dirty, flush, stage, disk, poolVars, stampVars,
                   stopVars, fails>>

\* chunksUnloadTick meets a chunk out of every player's range.  A dirty one
\* is snapshotted for the pool (saveChunkAsyncFor) and marked clean; either
\* way it goes on the list of chunks to erase.
UnloadClean(c) ==
    /\ Simulating
    /\ live[c] # NoChunk /\ c \notin dirty
    /\ gate' = Erasing(c, FALSE)
    /\ UNCHANGED <<edits, live, dirty, flush, stage, disk, poolVars, pending,
                   stampVars, stopVars, fails, races>>

\* saveChunkAsyncFor: the chunk's stamp in the coordinator, made if missing,
\* takes the snapshot's revision.
StampFor(c) == IF latest[c] # NoChunk THEN latest[c]
               ELSE CHOOSE s \in FreeStamps : TRUE

UnloadDirty(c) ==
    /\ Simulating
    /\ live[c] # NoChunk /\ c \in dirty
    /\ latest[c] # NoChunk \/ FreeStamps # {}
    /\ Len(queue) < MaxQueue
    /\ queue' = Append(queue, SaveTask(c, StampFor(c)))
    /\ latest' = [latest EXCEPT ![c] = StampFor(c)]
    /\ stampRev' = [stampRev EXCEPT ![StampFor(c)] = live[c].rev]
    /\ dirty' = dirty \ {c}
    /\ gate' = Erasing(c, TRUE)
    /\ UNCHANGED <<edits, live, flush, stage, disk, busy, pending, storing,
                   stopVars, fails, races>>

\* saveChunkAsyncFor throws before it has queued anything: it only logs, and
\* the caller marks the chunk clean all the same.
UnloadSnapshotFails(c) ==
    /\ Simulating
    /\ live[c] # NoChunk /\ c \in dirty
    /\ fails < MaxFails
    /\ fails' = fails + 1
    /\ dirty' = dirty \ {c}
    /\ gate' = Erasing(c, FALSE)
    /\ Race("failed", {c})
    /\ UNCHANGED <<edits, live, flush, stage, disk, poolVars, pending,
                   stampVars, stopVars>>

\* The eviction above maxLoadedChunks: Persistence::flushChunk takes a dirty
\* chunk out of dirty_ and rewrites the region on the tick thread.
UnloadOverCap(c) ==
    /\ Simulating
    /\ live[c] # NoChunk /\ c \in dirty
    /\ stage = NoChunk
    /\ dirty' = dirty \ {c}
    /\ gate' = Saving(c)
    /\ stage' = [by |-> "tick", c |-> c, data |-> live[c].data, step |-> "copy",
                 copy |-> disk]
    /\ UNCHANGED <<edits, live, flush, disk, poolVars, pending, stampVars,
                   stopVars, fails, races>>

\* World::eraseChunk, for every chunk on the list.
EraseChunk ==
    /\ gate.op = "erase"
    /\ ~ReadLocked
    /\ live' = [live EXCEPT ![gate.c] = NoChunk]
    /\ Race("window", IF ~gate.saved /\ gate.c \in InFlush \cup dirty THEN {gate.c} ELSE {})
    /\ gate' = Free
    /\ UNCHANGED <<edits, dirty, flush, stage, disk, poolVars, pending,
                   stampVars, stopVars, fails>>

-----------------------------------------------------------------------------
(* Persistence: the worker's flushOnce, and storeChunkAtomically.           *)

\* The dirty set is swapped out whole: every three seconds, and in up to
\* FinalPasses passes of stop() once the worker has been joined.
SwapDirty ==
    /\ flush = Idle /\ dirty # {}
    /\ \/ phase \in {"running", "draining"} /\ UNCHANGED passes
       \/ phase = "persist" /\ passes < FinalPasses /\ passes' = passes + 1
    /\ flush' = [step |-> "next", batch |-> dirty]
    /\ dirty' = {}
    /\ UNCHANGED <<edits, live, gate, stage, disk, poolVars, pending, stampVars,
                   phase, fails, races>>

\* The save barrier takes the simulation gate and lets it go again.
SaveBarrier(c) ==
    /\ flush.step = "next" /\ c \in flush.batch
    /\ gate = Free
    /\ flush' = [step |-> "barred", batch |-> flush.batch \ {c}, c |-> c]
    /\ UNCHANGED <<worldVars, stage, disk, poolVars, pending, stampVars,
                   stopVars, fails, races>>

Resume == IF flush.batch = {} THEN Idle ELSE [step |-> "next", batch |-> flush.batch]

\* World::withChunk: a chunk that is gone is neither saved nor put back.
FlushMissing ==
    /\ flush.step = "barred" /\ live[flush.c] = NoChunk
    /\ flush' = Resume
    /\ UNCHANGED <<worldVars, stage, disk, poolVars, pending, stampVars,
                   stopVars, fails, races>>

FlushFound ==
    /\ flush.step = "barred" /\ live[flush.c] # NoChunk
    /\ stage = NoChunk
    /\ stage' = [by |-> "flush", c |-> flush.c, data |-> live[flush.c].data,
                 step |-> "copy", copy |-> disk]
    /\ flush' = [flush EXCEPT !.step = "store"]
    /\ UNCHANGED <<worldVars, disk, poolVars, pending, stampVars, stopVars,
                   fails, races>>

\* (mutant) The staged region is begun afresh.
EmptyRegion == [c \in Chunks |-> 0]

\* The staged region is begun as a copy of the region.
RegionCopy == disk

\* copy_file reads the region without globalMutex: a store in progress is
\* seen not at all, in part or in full.
StageCopy ==
    /\ stage # NoChunk /\ stage.step = "copy"
    /\ IF storing = NoChunk
         THEN /\ stage' = [stage EXCEPT !.step = "staged", !.copy = RegionCopy]
              /\ UNCHANGED races
         ELSE LET t == busy[storing.w].task IN
              /\ \E seen \in {disk[t.c], Torn, t.data} :
                   stage' = [stage EXCEPT !.step = "staged",
                                          !.copy = [disk EXCEPT ![t.c] = seen]]
              /\ Race("overlap", {t.c})
    /\ UNCHANGED <<worldVars, flush, disk, poolVars, pending, stampVars,
                   stopVars, fails>>

\* RegionFile::store on the staged copy, under globalMutex.
StageStore ==
    /\ stage # NoChunk /\ stage.step = "staged"
    /\ storing = NoChunk
    /\ stage' = [stage EXCEPT !.step = "ready", !.copy[stage.c] = stage.data]
    /\ UNCHANGED <<worldVars, flush, disk, poolVars, pending, stampVars,
                   stopVars, fails, races>>

\* The caller of storeChunkAtomically goes on: the flush with its batch, the
\* tick with the eviction it was making.
StageDone ==
    IF stage.by = "flush"
      THEN flush' = Resume /\ UNCHANGED gate
      ELSE gate' = Erasing(stage.c, TRUE) /\ UNCHANGED flush

\* A store in place that opened the old file is writing to an orphan.
Orphaned == IF storing = NoChunk THEN NoChunk ELSE [storing EXCEPT !.orphan = TRUE]

StageRename ==
    /\ stage # NoChunk /\ stage.step = "ready"
    /\ disk' = stage.copy
    /\ storing' = Orphaned
    /\ Race("overlap", IF storing = NoChunk THEN {} ELSE {busy[storing.w].task.c})
    /\ StageDone
    /\ stage' = NoChunk
    /\ UNCHANGED <<edits, live, dirty, queue, busy, pending, stampVars, stopVars,
                   fails>>

\* (mutant) A chunk that could not be stored is not put back.
Forgotten(c) == dirty

\* A chunk that could not be stored is put back for the next pass.
PutBack(c) == dirty \cup {c}

\* Any step of it may throw, the last one after the rename.  The chunk goes
\* back to dirty_; the tick erases it nevertheless.
StageFails ==
    /\ stage # NoChunk
    /\ fails < MaxFails
    /\ fails' = fails + 1
    /\ \/ /\ UNCHANGED <<disk, storing>>
          /\ Race("failed", IF stage.by = "tick" THEN {stage.c} ELSE {})
       \/ /\ stage.step = "ready"
          /\ disk' = stage.copy
          /\ storing' = Orphaned
          /\ races' = races \cup
               {<<"failed", c>> : c \in IF stage.by = "tick" THEN {stage.c} ELSE {}}
               \cup {<<"overlap", busy[v].task.c>> :
                       v \in {w \in Workers : storing # NoChunk /\ storing.w = w}}
    /\ dirty' = PutBack(stage.c)
    /\ StageDone
    /\ stage' = NoChunk
    /\ UNCHANGED <<edits, live, queue, busy, pending, stampVars, stopVars>>

-----------------------------------------------------------------------------
(* The ioPool_ threads.                                                     *)

TakeTask(w) ==
    /\ busy[w] = NoChunk /\ queue # <<>>
    /\ busy' = [busy EXCEPT ![w] = [task |-> Head(queue), step |-> "taken"]]
    /\ queue' = Tail(queue)
    /\ UNCHANGED <<worldVars, flush, stage, disk, pending, stampVars, storing,
                   stopVars, fails, races>>

\* The task of demandChunkAsyncFor: RegionFile::load under globalMutex only.
\* Bytes that cannot be read come back empty.
LoadChunk(w) ==
    /\ busy[w] # NoChunk /\ busy[w].task.kind = "load"
    /\ storing = NoChunk
    /\ LET c == busy[w].task.c IN
       /\ pending' = [pending EXCEPT ![c] = disk[c]]
       /\ Race("reload", IF Saves(c) # {} THEN {c} ELSE {})
    /\ busy' = [busy EXCEPT ![w] = NoChunk]
    /\ UNCHANGED <<worldVars, flush, stage, disk, queue, stampVars, storing,
                   stopVars, fails>>

\* Stamp::writeMutex is held from the check to the end of the task.
WriteLocked(s) ==
    \E v \in Workers : /\ busy[v] # NoChunk /\ busy[v].step = "write"
                       /\ busy[v].task.stamp = s

Superseded(t) == stampRev[t.stamp] # t.rev

CheckStamp(w) ==
    /\ busy[w] # NoChunk /\ busy[w].step = "taken" /\ busy[w].task.kind = "save"
    /\ ~WriteLocked(busy[w].task.stamp)
    /\ busy' = [busy EXCEPT ![w] = IF Superseded(@.task) THEN NoChunk
                                   ELSE [@ EXCEPT !.step = "write"]]
    /\ UNCHANGED <<worldVars, flush, stage, disk, queue, pending, stampVars,
                   storing, stopVars, fails, races>>

\* RegionFile::store opens the file that has the region's name now ...
StoreBegins(w) ==
    /\ busy[w] # NoChunk /\ busy[w].step = "write"
    /\ storing = NoChunk
    /\ storing' = [w |-> w, orphan |-> FALSE]
    /\ UNCHANGED <<worldVars, flush, stage, disk, queue, busy, pending,
                   stampVars, stopVars, fails, races>>

\* A staged copy was taken before this store ends, and will replace it.
Outdated == stage # NoChunk /\ stage.step # "copy"

\* (mutant) The coordinator's entry outlives the save.
KeepStamp(t) == latest

\* The task's stamp leaves the coordinator unless a newer revision came in.
ReleaseStamp(t) ==
    IF latest[t.c] = t.stamp /\ ~Superseded(t)
      THEN [latest EXCEPT ![t.c] = NoChunk] ELSE latest

\* ... writes payload and header into it, and lets the stamp go.
StoreEnds(w) ==
    /\ storing # NoChunk /\ storing.w = w
    /\ LET t == busy[w].task IN
       /\ disk' = IF storing.orphan THEN disk ELSE [disk EXCEPT ![t.c] = t.data]
       /\ latest' = ReleaseStamp(t)
       /\ Race("overlap", IF Outdated THEN {t.c} ELSE {})
    /\ storing' = NoChunk
    /\ busy' = [busy EXCEPT ![w] = NoChunk]
    /\ UNCHANGED <<worldVars, flush, stage, queue, pending, stampRev, stopVars,
                   fails>>

\* The store throws: the old bytes are intact or partly overwritten, the
\* stamp stays, and the task only logs.
StoreFails(w) ==
    /\ storing # NoChunk /\ storing.w = w
    /\ fails < MaxFails
    /\ fails' = fails + 1
    /\ LET c == busy[w].task.c IN
       /\ \/ UNCHANGED disk
          \/ ~storing.orphan /\ disk' = [disk EXCEPT ![c] = Torn]
       /\ Race("failed", {c})
    /\ storing' = NoChunk
    /\ busy' = [busy EXCEPT ![w] = NoChunk]
    /\ UNCHANGED <<worldVars, flush, stage, queue, pending, stampVars, stopVars>>

-----------------------------------------------------------------------------
(* GameServer::stop: the tick and the sessions, then the pool, then         *)
(* Persistence::stop, which joins the worker and makes the final passes.    *)

StopSimulation ==
    /\ Simulating
    /\ phase' = "draining"
    /\ UNCHANGED <<worldVars, flush, stage, disk, poolVars, pending, stampVars,
                   passes, fails, races>>

ShutdownPool ==
    /\ phase = "draining"
    /\ queue = <<>> /\ \A w \in Workers : busy[w] = NoChunk
    /\ phase' = "persist"
    /\ UNCHANGED <<worldVars, flush, stage, disk, poolVars, pending, stampVars,
                   passes, fails, races>>

\* (mutant) One final pass is made.
OnePass == dirty = {} \/ passes = 1

\* The final passes end when nothing is dirty, or with the last of them.
PassesDone == dirty = {} \/ passes = FinalPasses

StopPersistence ==
    /\ phase = "persist"
    /\ flush = Idle
    /\ PassesDone
    /\ phase' = "stopped"
    /\ UNCHANGED <<worldVars, flush, stage, disk, poolVars, pending, stampVars,
                   passes, fails, races>>

\* Nothing runs any more.
Stopped == phase = "stopped" /\ UNCHANGED vars

-----------------------------------------------------------------------------
FlushSteps == \/ SwapDirty \/ FlushMissing \/ FlushFound
              \/ StageCopy \/ StageStore \/ StageRename \/ StageFails
              \/ \E c \in Chunks : SaveBarrier(c)

PoolSteps(w) == \/ TakeTask(w) \/ LoadChunk(w) \/ CheckStamp(w)
                \/ StoreBegins(w) \/ StoreEnds(w) \/ StoreFails(w)

StopSteps == StopSimulation \/ ShutdownPool \/ StopPersistence

Next ==
    \/ \E c \in Chunks : \/ SendChunk(c) \/ SetBlock(c) \/ PollPendingLoads(c)
                         \/ UnloadClean(c) \/ UnloadDirty(c)
                         \/ UnloadSnapshotFails(c) \/ UnloadOverCap(c)
    \/ FireEdit \/ EraseChunk
    \/ FlushSteps
    \/ \E w \in Workers : PoolSteps(w)
    \/ StopSteps
    \/ Stopped

Spec == Init /\ [][Next]_vars

-----------------------------------------------------------------------------
\* Type invariant: every structure holds what its C++ type and the bounds
\* allow.
TypeOK ==
    /\ edits \in [Chunks -> Content]
    /\ live \in [Chunks -> Loaded \cup {NoChunk}]
    /\ dirty \subseteq Chunks
    /\ gate \in Gates
    /\ flush \in Flushes
    /\ stage \in Stages \cup {NoChunk}
    /\ disk \in [Chunks -> OnDisk]
    /\ queue \in Seq(SaveTasks \cup LoadTasks)
    /\ busy \in [Workers -> Works \cup {NoChunk}]
    /\ pending \in [Chunks -> OnDisk \cup {NoChunk, Waiting}]
    /\ latest \in [Chunks -> Stamps \cup {NoChunk}]
    /\ stampRev \in [Stamps -> Revision]
    /\ storing \in Stores \cup {NoChunk}
    /\ phase \in {"running", "draining", "persist", "stopped"}
    /\ passes \in 0..FinalPasses
    /\ fails \in 0..MaxFails
    /\ races \subseteq Kinds \X Chunks

Unraced(c) == \A kind \in Kinds : <<kind, c>> \notin races

\* An edit of a loaded chunk that is not on disk yet is still going to be.
Accounted(c) ==
    \/ c \in dirty \cup InFlush
    \/ stage # NoChunk /\ stage.c = c
    \/ gate # Free /\ gate.c = c

\* Edits, evictions, reloads, both savers and shutdown together never lose
\* an edit of a chunk, except through one of the five races named in Kinds:
\* a loaded chunk has its last edit and will be saved, an evicted one has it
\* in its queued save or on disk.
UnracedKeepsEdits ==
    \A c \in Chunks : Unraced(c) =>
        IF live[c] # NoChunk
          THEN live[c].data = edits[c] /\ (disk[c] # edits[c] => Accounted(c))
          ELSE disk[c] = edits[c] \/ \E t \in Saves(c) : t.data = edits[c]

\* What stop() leaves behind: after a shutdown with fewer failures than final
\* passes, the last edit of every chunk that met no race is on disk.
StoppedIsSaved ==
    phase = "stopped" /\ fails < FinalPasses =>
        \A c \in Chunks : Unraced(c) => disk[c] = edits[c]

\* The coordinator leaks nothing while stores succeed: a chunk has a stamp
\* only as long as a save carrying it is queued or running.
StampsHaveSaves ==
    \A c \in Chunks :
        latest[c] # NoChunk /\ <<"failed", c>> \notin races =>
            \E t \in Saves(c) : t.stamp = latest[c] /\ t.rev = stampRev[t.stamp]

-----------------------------------------------------------------------------
(* What the documents and comments of the repository say of this code.      *)

\* docs/SPEC_GAMEPLAY.md: chunk: dirty -> saved -> evicted.  An evicted chunk
\* has its last edit on disk, or at least on its way there.
EvictedIsSaved ==
    \A c \in Chunks : live[c] = NoChunk =>
        disk[c] = edits[c] \/ \E t \in Saves(c) : t.data = edits[c]

\* docs/SPEC_GAMEPLAY.md: chunk: missing -> generated/loaded -> dirty.  Bytes
\* are loaded into a missing chunk, so that a chunk that met no other race
\* still has its last edit after an install.
InstallKeepsEdits ==
    \A c \in Chunks :
        live[c] # NoChunk /\ (\A kind \in Kinds \ {"late load"} : <<kind, c>> \notin races)
            => live[c].data = edits[c]
=============================================================================

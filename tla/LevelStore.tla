----------------------------- MODULE LevelStore -----------------------------
(***************************************************************************)
(* level.dat, its backup level.dat_old and the staged level.dat.new:       *)
(* WorldDataManager::atomicWrite and loadWithRecovery, with a crash        *)
(* between any two operations on files, failing saves, and a level.dat     *)
(* that the disk spoils.                                                   *)
(*                                                                         *)
(* The content of a file is the number of the save that wrote it, negative *)
(* when it cannot be read: unfinished or spoilt.  disk is what the running *)
(* process sees; earlier holds the states the directory may fall back to   *)
(* in a crash, because it was not synced since.  The staged copy of the    *)
(* backup (level.dat_old.new) is never read back and is left out.          *)
(***************************************************************************)
EXTENDS Integers

CONSTANTS MaxSaves, MaxRots     \* bounds of a run

VARIABLES
    pc,         \* off, up, a step of a save or of a recovery
    disk,       \* the content of dat, new and old
    earlier,    \* states of the directory since it was last synced
    saves,      \* saves begun, the last one has this number
    floor,      \* the newest level that a save committed or a boot ran with
    backup,     \* the level committed before that one
    exposed,    \* the process booted from a level.dat.new that it left there
    rots        \* how often level.dat was spoilt

vars == <<pc, disk, earlier, saves, floor, backup, exposed, rots>>

Absent == 0
Whole(content) == content > 0

\* What a boot finds: the first whole file of three.
Recovered(d) ==
    IF Whole(d.dat) THEN d.dat ELSE IF Whole(d.new) THEN d.new
    ELSE IF Whole(d.old) THEN d.old ELSE Absent

\* What a crash may leave.
Views == earlier \cup {disk}

Saving == {"writing", "written", "backedUp", "ready", "renamed"}
Booting == {"promote", "promoted", "discard"}

TypeOK ==
    /\ pc \in {"off", "up"} \cup Saving \cup Booting
    /\ disk \in [dat : Int, new : Int, old : Int]
    /\ earlier \subseteq [dat : Int, new : Int, old : Int]
    /\ {saves, floor, backup, rots} \subseteq Nat
    /\ exposed \in BOOLEAN

Init ==
    /\ pc = "off"
    /\ disk = [dat |-> Absent, new |-> Absent, old |-> Absent]
    /\ earlier = {} /\ saves = 0 /\ floor = 0 /\ backup = 0 /\ exposed = FALSE /\ rots = 0

Goes(from, to) == pc = from /\ pc' = to

\* An operation on the directory, not durable before syncDirectory.
Renames(d) == disk' = d /\ earlier' = Views

\* A staged file is written where it is, in whatever state of the directory.
Rewrites(from, to) ==
    /\ disk' = [disk EXCEPT !.new = to]
    /\ earlier' = {IF v.new = from THEN [v EXCEPT !.new = to] ELSE v : v \in earlier}

Same == UNCHANGED <<saves, floor, backup, exposed, rots>>

-----------------------------------------------------------------------------
(* atomicWrite *)

\* The staged file is created, or truncated in place.
OpenTemp ==
    /\ Goes("up", "writing")
    /\ saves < MaxSaves
    /\ saves' = saves + 1
    /\ IF disk.new = Absent THEN Renames([disk EXCEPT !.new = -saves'])
                            ELSE Rewrites(disk.new, -saves')
    /\ UNCHANGED <<floor, backup, exposed, rots>>

WriteTemp ==
    /\ Goes("writing", "written")
    /\ Rewrites(-saves, saves)
    /\ Same

\* A synced copy of level.dat replaces level.dat_old.
ReplaceBackup ==
    /\ Goes("written", "backedUp")
    /\ disk.dat # Absent
    /\ Renames([disk EXCEPT !.old = disk.dat])
    /\ Same

SyncBackup ==
    /\ Goes("backedUp", "ready")
    /\ earlier' = {}
    /\ UNCHANGED disk /\ Same

NoBackup ==
    /\ Goes("written", "ready")
    /\ disk.dat = Absent
    /\ UNCHANGED <<disk, earlier>> /\ Same

ReplaceLevel ==
    /\ Goes("ready", "renamed")
    /\ Renames([disk EXCEPT !.dat = disk.new, !.new = Absent])
    /\ Same

\* The save returns true.
Commit ==
    /\ Goes("renamed", "up")
    /\ earlier' = {}
    /\ floor' = disk.dat
    /\ backup' = IF exposed \/ disk.old = Absent THEN 0 ELSE floor
    /\ exposed' = FALSE
    /\ UNCHANGED <<disk, saves, rots>>

\* An exception removes the staged file; the save returns false.
SaveFails ==
    /\ pc \in Saving
    /\ pc' = "up"
    /\ Renames([disk EXCEPT !.new = Absent])
    /\ Same

-----------------------------------------------------------------------------
(* loadWithRecovery *)

\* The process runs with what it found.
Runs(level, unpromoted) ==
    /\ floor' = level
    /\ exposed' = unpromoted
    /\ UNCHANGED <<saves, backup, rots>>

BootFromDat ==
    /\ Goes("off", "up")
    /\ Whole(disk.dat)
    /\ Runs(disk.dat, FALSE)
    /\ UNCHANGED <<disk, earlier>>

\* Without a level.dat to quarantine, the staged file is left where it is.
BootFromNew ==
    /\ Goes("off", "up")
    /\ disk.dat = Absent /\ Whole(disk.new)
    /\ Runs(disk.new, TRUE)
    /\ UNCHANGED <<disk, earlier>>

\* Faulty: the staged file is moved away with it, unsynced.
QuarantineDatAndNew ==
    /\ Goes("off", "promoted")
    /\ disk.dat < 0 /\ Whole(disk.new)
    /\ Renames([disk EXCEPT !.dat = disk.old, !.new = Absent])
    /\ Same

\* A level.dat that cannot be moved is replaced.
QuarantineDat ==
    /\ Goes("off", "promote")
    /\ disk.dat < 0 /\ Whole(disk.new)
    /\ \E dat \in {disk.dat, Absent} : Renames([disk EXCEPT !.dat = dat])
    /\ Same

Promote ==
    /\ Goes("promote", "promoted")
    /\ Renames([disk EXCEPT !.dat = disk.new, !.new = Absent])
    /\ Same

\* A sync that fails is logged.
SyncPromoted ==
    /\ Goes("promoted", "up")
    /\ Runs(disk.dat, FALSE)
    /\ earlier' \in {{}, earlier}
    /\ UNCHANGED disk

\* So is a rename that fails.
PromoteFails ==
    /\ Goes("promote", "up")
    /\ Runs(disk.new, TRUE)
    /\ UNCHANGED <<disk, earlier>>

\* The failed candidates are renamed one by one, without a sync.
BootFromOld ==
    /\ Goes("off", "up")
    /\ ~Whole(disk.dat) /\ ~Whole(disk.new) /\ Whole(disk.old)
    /\ disk' = [disk EXCEPT !.dat = Absent, !.new = Absent]
    /\ earlier' = Views \cup {[disk EXCEPT !.dat = Absent]}
    /\ Runs(disk.old, FALSE)

BootFresh ==
    /\ Goes("off", "up")
    /\ Recovered(disk) = Absent
    /\ disk' = [dat |-> Absent, new |-> Absent, old |-> Absent]
    /\ earlier' = Views
    /\ Runs(Absent, FALSE)

-----------------------------------------------------------------------------
(* The system. *)

Crash ==
    /\ pc # "off"
    /\ pc' = "off"
    /\ disk' \in Views
    /\ earlier' = {}
    /\ Same

\* level.dat is spoilt while the server is down; what is left is the new floor.
Rot ==
    /\ pc = "off" /\ Whole(disk.dat) /\ rots < MaxRots
    /\ disk' = [disk EXCEPT !.dat = -disk.dat]
    /\ rots' = rots + 1
    /\ floor' = Recovered(disk') /\ backup' = 0
    /\ UNCHANGED <<pc, earlier, saves, exposed>>

Save == OpenTemp \/ WriteTemp \/ ReplaceBackup \/ SyncBackup \/ NoBackup \/ ReplaceLevel
            \/ Commit \/ SaveFails
Boot == BootFromDat \/ BootFromNew \/ QuarantineDat \/ Promote \/ SyncPromoted
            \/ PromoteFails \/ BootFromOld \/ BootFresh

Next == Save \/ Boot \/ Crash \/ Rot

Spec == Init /\ [][Next]_vars

-----------------------------------------------------------------------------
\* Whenever the process dies, a boot finds the newest level that a save
\* committed or an earlier boot ran with, or a newer one.
BootedLevelSurvives == \A v \in Views : Recovered(v) >= floor

\* The same, unless the process runs on a staged file that it did not promote:
\* its next save truncates the only copy.
LevelSurvives == exposed \/ BootedLevelSurvives

\* If the disk spoils level.dat, at most the last committed level is lost.
BackupHolds == \A v \in Views : exposed \/ Recovered([v EXCEPT !.dat = Absent]) >= backup
=============================================================================

---------------------------- MODULE MCPersistence ----------------------------
(***************************************************************************)
(* The five kinds of file that saving may lose data in: chunks on their    *)
(* way to and from the region files (ChunkStore), the sectors of a region  *)
(* file (RegionSectors), level.dat with its backup (LevelStore), the lists *)
(* of who may play (Admission), and what the players have earned           *)
(* (Progress).  A behaviour is one of the five, while the other four keep  *)
(* their initial state.                                                    *)
(***************************************************************************)
EXTENDS ChunkStore

CONSTANTS RegionChunks, NoData, MaxSector, MaxCount, MaxStores, MaxSaves, MaxRots,
          Sessions, Txt, Online, Secure, Zips, PackForced, Whitelisted, MaxPlayers,
          MaxOrders, MaxBoots, Logins, Period, Often

VARIABLES part,
  pc, level, earlier, saves, floor, backup, exposed, rots,
  header, sector, size, store, expected, stores,
  way, peer, loaded, open, roster, lists, files, meant, lost, raced, orders, boots,
  pack, merge, counted, tick, seat, has, joinTick, play, known, shown, book, saved,
  earned, played, missed, left

\* Two players from two addresses.
User == [s \in Sessions |-> IF s = "s1" THEN "ann" ELSE "bob"]
From == [s \in Sessions |-> IF s = "s1" THEN "ip1" ELSE "ip2"]

\* Datapacks of an advancement each way: by tag, by amount, in several groups, under a
\* name the code has; two of them have as many.
Trigger(t, want, tag, least, cond) ==
  [trigger |-> t, want |-> want, tag |-> tag, least |-> least, cond |-> cond]
Adv(id, parent, triggers, groups) ==
  [id |-> id, parent |-> parent, triggers |-> triggers, groups |-> groups]
MCPacks ==
  {[advs |-> {Adv("story", "root",
                  {Trigger("inventory_changed", {"log"}, FALSE, 1, FALSE),
                   Trigger("enchanted_item", {"sword"}, FALSE, 2, TRUE),
                   Trigger("item_used_on_block", {"bread"}, FALSE, 1, TRUE)}, 1),
              Adv("multi", "story",
                  {Trigger("player_killed_entity", {"pig"}, TRUE, 1, TRUE),
                   Trigger("enter_block", {"water"}, FALSE, 1, FALSE),
                   Trigger("bred_animals", {}, FALSE, 1, TRUE)}, 2)},
    recipes |-> <<"torch", "boat">>],
   [advs |-> {Adv("story", "",
                  {Trigger("placed_block", {"stones"}, TRUE, 1, FALSE),
                   Trigger("effects_changed", {"speed", "haste"}, FALSE, 1, FALSE),
                   Trigger("filled_bucket", {"milk"}, FALSE, 1, TRUE),
                   Trigger("tick", {}, FALSE, 1, TRUE)}, 1),
              Adv("wood", "", {Trigger("villager_trade", {"log"}, FALSE, 2, TRUE),
                               Trigger("consume_item", {"bread"}, FALSE, 1, FALSE),
                               Trigger("location", {}, FALSE, 1, TRUE)}, 1)},
    recipes |-> <<"boat">>],
   [advs |-> {}, recipes |-> <<"torch", "boat">>]}
MCScenes == {[holds |-> TRUE, block |-> "air"], [holds |-> FALSE, block |-> "water"]}
Did(t, things, holds, amount, built) ==
  [trigger |-> t, things |-> things, holds |-> holds, amount |-> amount, built |-> built]
MCDeeds ==
  {Did("inventory_changed", {"log"}, FALSE, 1, {"wood"}),
   Did("player_killed_entity", {"cow"}, TRUE, 1, {"hunter"}),
   Did("placed_block", {"dirt"}, FALSE, 1, {}),
   Did("villager_trade", {"log"}, FALSE, 2, {}),
   Did("effects_changed", {"speed"}, TRUE, 1, {}),
   Did("effects_changed", {"speed", "haste"}, TRUE, 1, {}),
   Did("enchanted_item", {"sword"}, FALSE, 2, {}),
   Did("bred_animals", {}, TRUE, 1, {}),
   Did("filled_bucket", {"water"}, TRUE, 1, {})}
Budget(t, d, o, x) == [ticks |-> t, deeds |-> d, orders |-> o, troubles |-> x]
MCBudgets ==
  {Budget(3, 1, 0, 0), Budget(1, 0, 2, 0), Budget(2, 1, 0, 1), Budget(1, 1, 1, 0),
   Budget(2, 0, 1, 0)}

R == INSTANCE RegionSectors WITH Chunks <- RegionChunks
L == INSTANCE LevelStore WITH disk <- level
A == INSTANCE Admission WITH phase <- way

P == INSTANCE Progress WITH phase <- seat, disk <- saved, lost <- missed,
       Packs <- MCPacks, Scenes <- MCScenes, Deeds <- MCDeeds, Budgets <- MCBudgets

ASSUME FileConstants ==
  R!RegionConstants /\ A!AdmissionConstants /\ P!ProgressConstants

chunks == vars
region == <<header, sector, size, store, expected, stores>>
levels == <<pc, level, earlier, saves, floor, backup, exposed, rots>>
door == <<way, peer, loaded, open, roster, lists, files, meant, lost, raced, orders, boots>>
progress == <<pack, merge, counted, tick, seat, has, joinTick, play, known, shown, book,
              saved, earned, played, missed, left>>

Nothing == <<>>
NoRegion ==
  /\ header = Nothing /\ sector = Nothing /\ size = Nothing
  /\ store = Nothing /\ expected = Nothing /\ stores = Nothing
NoLevels ==
  /\ pc = Nothing /\ level = Nothing /\ earlier = Nothing /\ saves = Nothing
  /\ floor = Nothing /\ backup = Nothing /\ exposed = Nothing /\ rots = Nothing
NoDoor ==
  /\ way = Nothing /\ peer = Nothing /\ loaded = Nothing /\ open = Nothing
  /\ roster = Nothing /\ lists = Nothing /\ files = Nothing /\ meant = Nothing
  /\ lost = Nothing /\ raced = Nothing /\ orders = Nothing /\ boots = Nothing
NoProgress ==
  /\ pack = Nothing /\ merge = Nothing /\ counted = Nothing /\ tick = Nothing
  /\ seat = Nothing /\ has = Nothing /\ joinTick = Nothing /\ play = Nothing
  /\ known = Nothing /\ shown = Nothing /\ book = Nothing /\ saved = Nothing
  /\ earned = Nothing /\ played = Nothing /\ missed = Nothing /\ left = Nothing

PersistenceInit ==
  /\ Init
  /\ \/ part = "chunks" /\ NoRegion /\ NoLevels /\ NoDoor /\ NoProgress
     \/ part = "region" /\ R!Init /\ NoLevels /\ NoDoor /\ NoProgress
     \/ part = "level" /\ L!Init /\ NoRegion /\ NoDoor /\ NoProgress
     \/ part = "door" /\ A!Init /\ NoRegion /\ NoLevels /\ NoProgress
     \/ part = "progress" /\ P!Init /\ NoRegion /\ NoLevels /\ NoDoor

PersistenceNext ==
  \/ part = "chunks" /\ Next /\ UNCHANGED <<part, region, levels, door, progress>>
  \/ part = "region" /\ R!Next /\ UNCHANGED <<part, chunks, levels, door, progress>>
  \/ part = "level" /\ L!Next /\ UNCHANGED <<part, chunks, region, door, progress>>
  \/ part = "door" /\ A!Next /\ UNCHANGED <<part, chunks, region, levels, progress>>
  \/ part = "progress" /\ P!Next /\ UNCHANGED <<part, chunks, region, levels, door>>

PersistenceSpec ==
  PersistenceInit /\ [][PersistenceNext]_<<part, chunks, region, levels, door, progress>>

Symmetry == Permutations(Workers)

\* LevelStore: whatever crashes, the next boot finds the newest level that was
\* committed or run with, and were level.dat spoilt the level before it.
\* RegionSectors: whatever crashes, a store harms no other chunk, and what was
\* stored has sectors of its own.
FilesSound ==
  /\ part = "level" => L!LevelSurvives /\ L!BackupHolds
  /\ part = "region" => R!ChunksIntact /\ R!StoredAlone

\* Admission: nobody plays whom a list bans, the lists survive a restart, and a
\* session enters whole, but for the known exceptions.
DoorKept == part = "door" => A!BannedStayOut /\ A!ListsSurvive /\ A!EntersWhole

\* Progress: what a player earned is kept, shown and counted once, but for the known
\* ways to lose it.
EarningsKept == part = "progress" => P!ProgressSound
=============================================================================

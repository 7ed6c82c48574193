------------------------------ MODULE Progress ------------------------------
(***************************************************************************)
(* What a player has earned: his advancements, the time he played and his  *)
(* recipes, in memory, on disk and on his screen.  Deeds grant what the    *)
(* loaded datapacks say of them, commands grant and revoke, packs come and *)
(* go, sessions load at their start and save at their end and once in a    *)
(* Period.  The sessions are those of one player, who may log in again     *)
(* before his last session has ended.  Commands and ticks may still reach  *)
(* him when the end of his session has saved and not yet let go of him.    *)
(***************************************************************************)
EXTENDS Integers, Sequences, FiniteSets

CONSTANTS
  Logins,      \* the sessions the player opens
  Packs,       \* what may be loaded: [advs: a set of advancements, recipes: a sequence]
  Scenes,      \* what a tick may find a player in: [holds: BOOLEAN, block: a name]
  Deeds,       \* what a player does: [trigger, things, holds, amount, built]
  Period,      \* ticks from one save of all progress to the next (400)
  Often,       \* ticks from one look at where the players are to the next (20)
  Budgets      \* how many [ticks, deeds, orders, troubles] there may be

ProgressConstants ==
  /\ Period \in Nat \ {0} /\ Often \in Nat \ {0}
  /\ Packs # {} /\ Deeds # {} /\ Scenes # {} /\ Budgets # {}

VARIABLES
  pack,        \* what the datapack manager holds
  merge,       \* its advancements with the built-in ones, cached; {} is nothing
  counted,     \* how many the packs had when the cache was filled
  tick,
  phase,       \* session -> "out", "in" the roster, "closing" (kicked out of it),
               \* "saved" (in it), "ended" (out of it) or "over"
  has,         \* session -> the advancements unlocked
  joinTick,    \* session -> the tick it joined at
  play,        \* session -> the ticks of play_time
  known,       \* session -> the recipes the server counts as unlocked
  shown,       \* session -> the advancements the client shows as done
  book,        \* session -> the client's recipe at each number
  disk,        \* the player's files: [ok, ids, play]
  earned,      \* the advancements he should have
  played,      \* the ticks of his sessions until they saved
  lost,        \* the ways, met so far, to lose some of it
  left         \* the ticks, deeds, orders and troubles still to come

vars == <<pack, merge, counted, tick, phase, has, joinTick, play, known, shown, book,
          disk, earned, played, lost, left>>

\* The advancements of the code: every one but the root is granted by a deed.
Adv(id, parent, triggers, groups) ==
  [id |-> id, parent |-> parent, triggers |-> triggers, groups |-> groups]
advancementDefs ==
  {Adv("root", "", {}, 1), Adv("wood", "root", {}, 1), Adv("bench", "wood", {}, 1),
   Adv("cook", "bench", {}, 1), Adv("hunter", "root", {}, 1)}

Ids(advs) == {a.id : a \in advs}

\* mergedAdvancements: a datapack does not replace a built-in one.
mergedAdvancements(advs) ==
  advancementDefs \cup {a \in advs : a.id \notin Ids(advancementDefs)}

\* getMergedAdvancements: the cache is trusted while the count is the same.
getMergedAdvancements ==
  IF merge # {} /\ counted = Cardinality(pack.advs)
  THEN merge ELSE mergedAdvancements(pack.advs)
Cached ==
  merge' = getMergedAdvancements /\ counted' = Cardinality(pack.advs)

(***************************************************************************)
(* A trigger is [trigger, want, tag, least, cond]: the names it asks for,  *)
(* whether by a tag, the least amount, whether it has a condition.         *)
(***************************************************************************)
Named(t, deed) == t.want = {} \/ t.want \cap deed.things # {}
Heeded(t, deed) == t.cond => deed.holds

\* The item just obtained or mined, never the rest of the inventory.
ObtainedFits(t, deed) == Named(t, deed) /\ Heeded(t, deed)

\* A predicate on the victim is not looked into.
KilledFits(t, deed) == (t.tag \/ Named(t, deed)) /\ Heeded(t, deed)

\* Nor is a tag of blocks.
PlacedFits(t, deed) == (t.tag \/ Named(t, deed)) /\ Heeded(t, deed)
EnteredFits(t, deed) == PlacedFits(t, deed)

ConsumedFits(t, deed) == Named(t, deed) /\ Heeded(t, deed)
UsedFits(t, deed) == ConsumedFits(t, deed)

EffectsFit(t, deed) == t.want \subseteq deed.things /\ Heeded(t, deed)

\* These three have no look at conditions.
EnchantedFits(t, deed) == Named(t, deed) /\ deed.amount >= t.least
FilledFits(t, deed) == Named(t, deed)
TradedFits(t, deed) == Named(t, deed) /\ deed.amount >= t.least

\* Where a player is, each tick, and breeding are only asked for by conditions.
LocatedFits(t, deed) == Heeded(t, deed)
BredFits(t, deed) == Heeded(t, deed)
TickFits(t, deed) == Heeded(t, deed)

Met(t, deed) ==
  /\ t.trigger = deed.trigger
  /\ CASE t.trigger = "inventory_changed" -> ObtainedFits(t, deed)
       [] t.trigger = "player_killed_entity" -> KilledFits(t, deed)
       [] t.trigger = "placed_block" -> PlacedFits(t, deed)
       [] t.trigger = "enter_block" -> EnteredFits(t, deed)
       [] t.trigger = "consume_item" -> ConsumedFits(t, deed)
       [] t.trigger = "item_used_on_block" -> UsedFits(t, deed)
       [] t.trigger = "effects_changed" -> EffectsFit(t, deed)
       [] t.trigger = "enchanted_item" -> EnchantedFits(t, deed)
       [] t.trigger = "filled_bucket" -> FilledFits(t, deed)
       [] t.trigger = "villager_trade" -> TradedFits(t, deed)
       [] t.trigger = "location" -> LocatedFits(t, deed)
       [] t.trigger = "bred_animals" -> BredFits(t, deed)
       [] t.trigger = "tick" -> TickFits(t, deed)

\* An advancement is granted by the first of its triggers that is met; the other
\* criteria and its parents are not asked for.
Granted(advs, deed) == {a.id : a \in {a \in advs : \E t \in a.triggers : Met(t, deed)}}

\* What the code itself grants for a deed, then what the packs do.
Deserved(advs, deed) == deed.built \cup Granted(advs, deed)

\* writeAdvancementsPacket: what is unlocked is marked done, by the first criterion
\* of its first group of requirements; nothing is ever marked undone but by a reset.
Done(ids, advs) == {a.id : a \in {a \in advs : a.id \in ids /\ a.groups = 1}}
\* Faulty: the screen keeps what the packs had before.
SendWithoutReset(screen, ids, advs, reset) == screen \cup Done(ids, advs)
SendAdvancements(screen, ids, advs, reset) ==
  IF reset THEN Done(ids, advs) ELSE screen \cup Done(ids, advs)

Load == IF disk.ok THEN disk ELSE [ok |-> TRUE, ids |-> {}, play |-> 0]
In == {s \in Logins : phase[s] = "in"}
Roster == {s \in Logins : phase[s] \in {"in", "saved"}}

Init ==
  /\ pack \in Packs /\ merge = {} /\ counted = 0 /\ tick = 0
  /\ phase = [s \in Logins |-> "out"]
  /\ has = [s \in Logins |-> {}] /\ shown = has /\ known = has
  /\ joinTick = [s \in Logins |-> 0] /\ play = joinTick
  /\ book = [s \in Logins |-> <<>>]
  /\ disk = [ok |-> TRUE, ids |-> {}, play |-> 0]
  /\ earned = {} /\ played = 0 /\ lost = {}
  /\ left \in Budgets

\* The client is sent every recipe of the server, numbered from the first.
sendRecipeBook == pack.recipes

\* initPlayerProgress and what is sent with it: the files are read though an
\* earlier session of the player, dropped from the roster now, may not have saved.
Join(s) ==
  /\ phase[s] = "out"
  /\ \A r \in Logins : phase[r] = "out" => s <= r
  /\ phase' = [r \in Logins |-> IF r = s THEN "in"
                                ELSE IF phase[r] = "in" THEN "closing"
                                ELSE IF phase[r] = "saved" THEN "ended" ELSE phase[r]]
  /\ has' = [has EXCEPT ![s] = Load.ids \cup {"root"}]
  /\ play' = [play EXCEPT ![s] = Load.play]
  /\ joinTick' = [joinTick EXCEPT ![s] = tick]
  /\ Cached
  /\ shown' = [shown EXCEPT ![s] = SendAdvancements({}, has'[s], merge', TRUE)]
  /\ known' = [known EXCEPT ![s] = {}]
  /\ book' = [book EXCEPT ![s] = sendRecipeBook]
  /\ earned' = earned \cup {"root"}
  /\ lost' = lost \cup (IF disk.ok THEN {} ELSE {"malformed"})
                  \cup (IF \E r \in Logins : phase[r] \in {"in", "closing"}
                        THEN {"overtaken"} ELSE {})
                  \cup (IF tick = 0 THEN {"tickzero"} ELSE {})
  /\ UNCHANGED <<pack, tick, disk, played, left>>

\* A session that has ended is forgotten.
Forget(gone) ==
  /\ has' = [s \in Logins |-> IF s \in gone THEN {} ELSE has[s]]
  /\ shown' = [s \in Logins |-> IF s \in gone THEN {} ELSE shown[s]]
  /\ known' = [s \in Logins |-> IF s \in gone THEN {} ELSE known[s]]
  /\ book' = [s \in Logins |-> IF s \in gone THEN <<>> ELSE book[s]]
  /\ joinTick' = [s \in Logins |-> IF s \in gone THEN 0 ELSE joinTick[s]]
  /\ play' = [s \in Logins |-> IF s \in gone THEN 0 ELSE play[s]]

Trouble == left.troubles > 0 /\ left' = [left EXCEPT !.troubles = @ - 1]

\* writeProgressJson: what cannot be written or renamed leaves the file there was.
WriteFails == Trouble /\ lost' = lost \cup {"unsaved"} /\ UNCHANGED disk

\* savePlayerProgress, early in the end of a session.  A save that fails leaves the
\* files.
PlayTime(s) == play[s] + (IF joinTick[s] = 0 THEN 0 ELSE tick - joinTick[s])
Save(s) ==
  /\ phase[s] \in {"in", "closing"}
  /\ phase' = [phase EXCEPT ![s] = IF @ = "in" THEN "saved" ELSE "ended"]
  /\ play' = [play EXCEPT ![s] = PlayTime(s)]
  /\ joinTick' = [joinTick EXCEPT ![s] = IF @ = 0 THEN 0 ELSE tick]
  /\ \/ disk' = [ok |-> TRUE, ids |-> has[s], play |-> PlayTime(s)] /\ UNCHANGED <<lost, left>>
     \/ WriteFails
  /\ UNCHANGED <<pack, merge, counted, tick, has, known, shown, book, earned, played>>

\* removePlayer, its last step.
Leave(s) ==
  /\ phase[s] \in {"saved", "ended"}
  /\ phase' = [phase EXCEPT ![s] = "over"]
  /\ Forget({s})
  /\ UNCHANGED <<pack, merge, counted, tick, disk, earned, played, lost, left>>

\* What a player is given or loses once he is saved is in no file.
Late(s, change) == IF phase[s] = "saved" /\ change # {} THEN {"late"} ELSE {}

\* Deeds done one after the other by a player: each looks at what he has by then.
New(deeds) == UNION {Deserved(merge', d) : d \in deeds}
Do(s, deeds) ==
  LET new == New(deeds) IN
  /\ has' = [has EXCEPT ![s] = @ \cup new]
  /\ shown' = [shown EXCEPT ![s] = IF new \subseteq has[s] THEN @
                                   ELSE SendAdvancements(@, has'[s], merge', FALSE)]
  /\ earned' = earned \cup
       UNION {Deserved(mergedAdvancements(pack.advs), d) : d \in deeds}

Seen(trigger, scene) ==
  [trigger |-> trigger, holds |-> scene.holds, amount |-> 1, built |-> {},
   things |-> IF trigger = "enter_block" THEN {scene.block} ELSE {}]

\* A tick: once in a Period all progress is saved, with a Period added to the time
\* played whenever the player joined and without moving joinTick; then the triggers
\* that look at each tick, and often at where the player is, who may be at his end
\* by the time he is granted what they find.
Tick(scene) ==
  /\ left.ticks > 0 /\ left' = [left EXCEPT !.ticks = @ - 1]
  /\ tick' = tick + 1
  /\ played' = played + Cardinality(In)
  /\ Cached
  /\ IF tick' % Period = 0 /\ Roster # {}
     THEN /\ play' = [s \in Logins |-> play[s] + (IF s \in Roster THEN Period ELSE 0)]
          /\ \E s \in Roster : disk' = [ok |-> TRUE, ids |-> has[s], play |-> play'[s]]
     ELSE UNCHANGED <<play, disk>>
  /\ LET saves == IF tick' % Period = 0 /\ Roster # {} THEN {"periodic"} ELSE {}
         seen == {Seen("tick", scene)} \cup
                   (IF tick' % Often = 0
                    THEN {Seen("location", scene), Seen("enter_block", scene)} ELSE {})
     IN \/ In = {} /\ lost' = lost \cup saves /\ UNCHANGED <<has, shown, earned>>
        \/ \E s \in Roster :
             Do(s, seen) /\ lost' = lost \cup saves \cup Late(s, New(seen) \ has[s])
  /\ UNCHANGED <<pack, phase, joinTick, known, book>>

\* Something the player does, with every trigger it is told to: a tick that found
\* him in play may tell it when he is saved.
Deed(s, deed) ==
  /\ s \in Roster
  /\ left.deeds > 0 /\ left' = [left EXCEPT !.deeds = @ - 1]
  /\ Cached /\ Do(s, {deed}) /\ lost' = lost \cup Late(s, New({deed}) \ has[s])
  /\ UNCHANGED <<pack, tick, phase, joinTick, play, known, book, disk, played>>

(***************************************************************************)
(* Orders.                                                                 *)
(***************************************************************************)
Order == left.orders > 0 /\ left' = [left EXCEPT !.orders = @ - 1]

\* expandAdv: the parents that datapacks name are not known to it.
Family == advancementDefs \cup {[a EXCEPT !.parent = ""] : a \in pack.advs}
ParentOf(id) == {a.parent : a \in {a \in Family : a.id = id}} \ {""}
Ancestors(id) ==
  LET up[n \in 0 .. 3] == IF n = 0 THEN {id} ELSE up[n - 1] \cup UNION {ParentOf(x) : x \in up[n - 1]}
  IN up[3]
Descendants(id) == {id} \cup {a.id : a \in {a \in Family : id \in Ancestors(a.id)}}
expandAdv(mode, id) ==
  CASE mode = "everything" -> Ids(Family)
    [] mode = "only" -> {id}
    [] mode = "from" -> Descendants(id)
    [] mode = "until" -> Ancestors(id)
    [] OTHER -> Ancestors(id) \cup Descendants(id)

\* /advancement: what is granted is shown, what is revoked stays on the screen.
\* Names nobody defines are granted like any other.  No order asks whether the
\* player it finds in the roster is in play.
Advance(s, verb, mode, id) ==
  LET ids == expandAdv(mode, id)
      new == IF verb = "grant" THEN ids \ has[s] ELSE ids \cap has[s]
  IN
  /\ s \in Roster /\ Order /\ Cached
  /\ has' = [has EXCEPT ![s] = IF verb = "grant" THEN @ \cup ids ELSE @ \ ids]
  /\ earned' = IF verb = "grant" THEN earned \cup ids ELSE earned \ ids
  /\ shown' = [shown EXCEPT ![s] = IF new = {} THEN @
                                   ELSE SendAdvancements(@, has'[s], merge', FALSE)]
  /\ lost' = lost \cup Late(s, new)
                  \cup (IF verb = "revoke" /\ new # {} THEN {"revoked"} ELSE {})
  /\ UNCHANGED <<pack, tick, phase, joinTick, play, known, book, disk, played>>

\* The process ends, and the server comes back with what is on disk.
Die ==
  /\ phase' = [s \in Logins |-> IF phase[s] = "out" THEN "out" ELSE "over"]
  /\ merge' = {} /\ counted' = 0
  /\ lost' = lost \cup {"crash"}
  /\ Forget(Logins)

\* The mode "through" calls expandAdv by a reference to a local that is gone: it
\* may work, as above, fail, which changes nothing, or end the process.
Through(s, id) ==
  /\ s \in Roster /\ Order
  /\ \/ UNCHANGED <<phase, lost, merge, counted, has, joinTick, play, known, shown, book>>
     \/ Die
  /\ UNCHANGED <<pack, tick, disk, earned, played>>

Where(recipe) == {i \in DOMAIN pack.recipes : pack.recipes[i] = recipe}
Numbers(s, ids, recipes) ==
  [i \in DOMAIN book[s] \cup ids |-> IF i \in ids THEN recipes[i] ELSE book[s][i]]

\* /recipe: a recipe that was not given before is not taken, though the book the
\* player got when he joined shows them all.
Recipe(s, verb, recipe) ==
  LET fresh == (recipe \in known[s]) # (verb = "give")
      ids == Where(recipe)
  IN
  /\ s \in Roster /\ ids # {} /\ Order
  /\ known' = [known EXCEPT ![s] = IF verb = "give" THEN @ \cup {recipe} ELSE @ \ {recipe}]
  /\ book' = IF ~fresh THEN book
             ELSE [book EXCEPT ![s] = IF verb = "give" THEN Numbers(s, ids, pack.recipes)
                                      ELSE [i \in DOMAIN @ \ ids |-> @[i]]]
  /\ UNCHANGED <<pack, merge, counted, tick, phase, has, joinTick, play, shown, disk,
                 earned, played, lost>>

\* /reload, /datapack enable and disable: the cache is dropped, every player gets the
\* advancements anew, and nobody the recipes, whose numbers may be others now.
Change(p) ==
  /\ p # pack /\ Order
  /\ pack' = p
  /\ merge' = mergedAdvancements(p.advs) /\ counted' = Cardinality(p.advs)
  /\ shown' = [s \in Logins |-> IF s \in Roster
                                THEN SendAdvancements(shown[s], has[s], merge', TRUE)
                                ELSE shown[s]]
  /\ lost' = (lost \ {"revoked"}) \cup (IF p.recipes = pack.recipes THEN {} ELSE {"renumbered"})
  /\ UNCHANGED <<tick, phase, has, joinTick, play, known, book, disk, earned, played>>

(***************************************************************************)
(* Troubles.                                                               *)
(***************************************************************************)

Crash ==
  /\ Trouble /\ Roster # {} /\ Die
  /\ UNCHANGED <<pack, tick, disk, earned, played>>

\* Something spoils the files.
Spoil ==
  /\ Trouble /\ disk.ok /\ disk.ids # {}
  /\ disk' = [disk EXCEPT !.ok = FALSE]
  /\ UNCHANGED <<pack, merge, counted, tick, phase, has, joinTick, play, known, shown, book,
                 earned, played, lost>>

Verbs == {"grant", "revoke"}
Next ==
  \/ \E s \in Logins :
       \/ Join(s) \/ Save(s) \/ Leave(s)
       \/ \E d \in Deeds : Deed(s, d)
       \/ \E v \in Verbs, m \in {"only", "from", "until", "through"},
             id \in Ids(pack.advs) \cup {"bench", "nonsense"} : Advance(s, v, m, id)
       \/ \E v \in Verbs : Advance(s, v, "everything", "")
       \/ \E id \in {"bench"} : Through(s, id)
       \/ \E v \in {"give", "take"}, i \in DOMAIN pack.recipes : Recipe(s, v, pack.recipes[i])
  \/ \E scene \in Scenes : Tick(scene)
  \/ \E p \in Packs : Change(p)
  \/ Crash \/ Spoil

Spec == Init /\ [][Next]_vars

\* A player has the advancements his deeds earned by the packs then loaded, and
\* those he was given by command and not deprived of, over all his sessions: the
\* cache of definitions never grants by packs that are gone, and no save or load
\* drops one, unless a way to lose them was met: a spoilt file, a second login, a
\* failed write, a crash, a grant that came when the end of his session had saved.
EarnedIsKept ==
  \A s \in In :
    lost \cap {"malformed", "overtaken", "unsaved", "crash", "late"} = {} => has[s] = earned

\* His client shows as done what he has, as far as one criterion can say it: a
\* revocation is told only when the packs change.
ShownIsHeld ==
  \A s \in In : "revoked" \notin lost => shown[s] = Done(has[s], mergedAdvancements(pack.advs))

\* The time played is counted once: true of sessions that began after the first
\* tick and saw no periodic save.
TimeCountedOnce ==
  (\A s \in Logins : phase[s] \in {"out", "over"})
    /\ lost \cap {"malformed", "overtaken", "unsaved", "crash", "periodic", "tickzero"} = {}
    /\ disk.ok
    => disk.play = played

\* The number of a recipe means to the server what it means to the client.
NumbersAgree ==
  \A s \in In : "renumbered" \notin lost =>
    /\ \A i \in DOMAIN book[s] : i \in DOMAIN pack.recipes /\ book[s][i] = pack.recipes[i]
    /\ \A r \in known[s] : \E i \in DOMAIN book[s] : book[s][i] = r

ProgressSound == EarnedIsKept /\ ShownIsHeld /\ TimeCountedOnce /\ NumbersAgree
=============================================================================

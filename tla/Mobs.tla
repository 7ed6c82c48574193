-------------------------------- MODULE Mobs --------------------------------
(***************************************************************************)
(* How mobs are hurt, die, pay what they drop and leave the list: swords,  *)
(* arrows, fire, sunlight, creepers, TNT.                                  *)
(*                                                                         *)
(* The packet of an attack and the tick hold the simulation gate, so one   *)
(* of them runs at a time; but every blow and every birth asks a listener  *)
(* of the JVM, who may refuse it and may set the health of any mob, which  *)
(* kills it or brings it back.  A mob that dies stays in the list until    *)
(* somebody who noticed takes it out, and each of the attack, the tick of  *)
(* the mobs, an explosion and a projectile takes out, and pays, by itself. *)
(*                                                                         *)
(* Abstracted: where everything is (who is near, in range, in the way of a *)
(* shot is left open), amounts of health and damage, what is dropped, and  *)
(* what a brain does but for the thorns that its mob may run into.         *)
(***************************************************************************)
EXTENDS Naturals, Sequences, FiniteSets

CONSTANTS
  Ids,         \* entity ids of mobs, 1 .. n, given out in this order
  Flights,     \* Bound: ids of projectiles
  Starts,      \* Bound: mobs to begin with, what is still to come (quiver), how
               \* many ticks, how often listeners set the health of a mob
  FuseTicks,   \* CREEPER_FUSE_TICKS
  MaxBabies    \* what a slime splits into, at most

MobsConstants == Ids = 1 .. Cardinality(Ids) /\ FuseTicks \in Nat \ {0} /\ MaxBabies \in Nat

LOCAL INSTANCE FiniteSetsExt

VARIABLES
  mob,       \* per id its record, or None
  listed,    \* mobs_
  fire,      \* the mobs that are on fire
  minds,     \* mobAi_: the mobs with a brain
  quiver,    \* the mobs, projectiles and TNT still to come
  shot,      \* projectiles_: per id its record, or None
  tnt,       \* the fuse of a primed TNT, or NoFuse
  phase,     \* what holds the gate
  todo,      \* who is still to be visited in this phase
  at,        \* the mob that is being visited and how far the visit is
  fallen,    \* what the phase has found: see each of them
  booms,     \* the creepers that exploded in this tick
  hits,      \* the hits of this tick's projectiles, to be dealt
  sky,       \* of this tick: is it the 20th (pulse), is it day
  due,       \* what each mob has paid (see NoDues)
  count      \* turns and tamperings left

vars == <<mob, listed, fire, minds, quiver, shot, tnt, phase, todo, at, fallen, booms, hits,
          sky, due, count>>
work == <<todo, at, fallen, booms, hits, sky>>

NoMob == [kind |-> "none", size |-> 0, dead |-> TRUE, lit |-> 0]
Gone == [NoMob EXCEPT !.kind = "gone"]
NoSky == [pulse |-> FALSE, day |-> FALSE]
NoShot == [kind |-> "none", pierce |-> 0, pierced |-> {}, stuck |-> FALSE, home |-> FALSE]
NoFuse == 0
NoVisit == <<0, "none">>
NoOne == 0
\* drops: payments of items; xp: of experience; splits: of slimes into smaller
\* ones; blasts: as a creeper; again: payments for hits that came when the mob
\* was no longer listed.
NoDues == [drops |-> 0, xp |-> 0, splits |-> 0, blasts |-> 0, again |-> 0]

Alive == {m \in listed : ~mob[m].dead}
Fresh == {m \in Ids : mob[m] = NoMob}
Burns(k) == k = "zombie"
Attacks(k) == k = "zombie"
Splits(r) == r.kind = "slime" /\ r.size > 0

Init ==
  \E s \in Starts :
    /\ mob = [m \in Ids |->
                IF m \in DOMAIN s.mobs
                THEN [NoMob EXCEPT !.kind = s.mobs[m], !.dead = FALSE,
                                   !.size = IF s.mobs[m] = "slime" THEN 1 ELSE 0]
                ELSE NoMob]
    /\ listed = DOMAIN s.mobs /\ fire = {} /\ minds = {}
    /\ quiver = s.quiver /\ shot = [f \in Flights |-> NoShot] /\ tnt = NoFuse
    /\ phase = "idle" /\ todo = {} /\ at = NoVisit /\ fallen = {} /\ booms = <<>> /\ hits = <<>>
    /\ sky = NoSky
    /\ due = [m \in Ids |-> NoDues]
    /\ count = [turns |-> s.turns, tampers |-> s.tampers]
---------------------------------------------------------------------------
(* Blows and births.                                                        *)

\* What listeners may do when they are asked: nothing, or to set the health of
\* a mob, to none or to some.
Tampers ==
  {NoVisit} \cup (IF count.tampers > 0 THEN listed \X {"dead", "alive"} ELSE {})
Tampered(t) == IF t = NoVisit THEN mob ELSE [mob EXCEPT ![t[1]].dead = t[2] = "dead"]
Counted(t) == count' = IF t = NoVisit THEN count ELSE [count EXCEPT !.tampers = @ - 1]

\* applyDamageToMob: nothing if m is dead before or after the listeners are
\* asked; they may refuse, and not every blow kills.  A creaking cannot be hurt.
Hurt(m) ==
  IF mob[m].dead THEN UNCHANGED <<mob, count>>
  ELSE \E t \in Tampers, kills \in BOOLEAN :
         /\ kills => mob[m].kind # "creaking"
         /\ mob' = [Tampered(t) EXCEPT ![m].dead = @ \/ kills]
         /\ Counted(t)

\* A slime that has died leaves up to MaxBabies smaller ones: between two and
\* four are rolled, each may be refused.  out: who leaves the list with it.
Split(m, out) ==
  IF Splits(mob[m])
  THEN \E n \in 0 .. Min({MaxBabies, Cardinality(Fresh)}), t \in Tampers :
         LET babies == {x \in Fresh : Cardinality({y \in Fresh : y < x}) < n}
             baby == [NoMob EXCEPT !.kind = mob[m].kind,
                              !.size = mob[m].size - 1, !.dead = FALSE]
         IN  /\ mob' = [x \in Ids |-> IF x \in babies THEN baby ELSE Tampered(t)[x]]
             /\ listed' = (listed \cup babies) \ out
             /\ Counted(t)
  ELSE listed' = listed \ out /\ UNCHANGED <<mob, count>>
SplitDue(m) == IF Splits(mob[m]) THEN 1 ELSE 0
---------------------------------------------------------------------------
(* The tick of the mobs.  fallen: whom the visits queued for removal, with  *)
(* what becomes of them.                                                    *)

BeginTick ==
  /\ phase = "idle" /\ count.turns > 0
  /\ phase' = "mobs" /\ todo' = listed /\ fallen' = {} /\ booms' = <<>>
  /\ sky' \in [pulse : BOOLEAN, day : BOOLEAN]
  /\ count' = [count EXCEPT !.turns = @ - 1]
  /\ UNCHANGED <<fire, mob, listed, minds, quiver, shot, tnt, at, hits, due>>

\* queueRemoval
Queue(m, how) ==
  /\ fallen' = fallen \cup {<<m, how>>}
  /\ todo' = todo \ {m} /\ at' = NoVisit
  /\ UNCHANGED <<phase, minds, quiver, shot, tnt, booms, hits, sky>>
Visiting(m, step) == phase = "mobs" /\ at = <<m, step>>
Go(m, step) ==
  /\ at' = <<m, step>>
  /\ UNCHANGED <<phase, todo, minds, quiver, shot, tnt, fallen, booms, hits, sky>>
Done(m) ==
  /\ todo' = todo \ {m} /\ at' = NoVisit
  /\ UNCHANGED <<phase, minds, quiver, shot, tnt, fallen, booms, hits, sky>>

\* The next mob of the snapshot; far from every player it goes at once, dead or
\* not.
Visit(m) ==
  /\ phase = "mobs" /\ at = NoVisit /\ todo # {} /\ m = Min(todo)
  /\ minds' = minds \cup {m}
  /\ \/ /\ fallen' = fallen \cup {<<m, "far">>}
        /\ todo' = todo \ {m} /\ UNCHANGED at
     \/ /\ at' = <<m, IF m \in fire THEN "fire" ELSE "dead">>
        /\ UNCHANGED <<todo, fallen>>
  /\ UNCHANGED <<fire, mob, listed, phase, quiver, shot, tnt, booms, hits, sky, due, count>>

\* On fire: a mob that is dead now is queued, and does not split.
Burn(m) ==
  /\ Visiting(m, "fire")
  /\ IF sky.pulse THEN Hurt(m) ELSE UNCHANGED <<mob, count>>
  /\ IF mob'[m].dead THEN Queue(m, "died") ELSE Go(m, "dead")
  /\ fire' \in {fire, fire \ {m}}
  /\ UNCHANGED <<listed, due>>

\* Faulty: a dead mob is left for the next tick when it has just split.
BuryLater(m) ==
  /\ Visiting(m, "dead")
  /\ IF mob[m].dead
     THEN /\ Split(m, {}) /\ (IF Splits(mob[m]) THEN Done(m) ELSE Queue(m, "died"))
          /\ due' = [due EXCEPT ![m].splits = @ + SplitDue(m)]
     ELSE Go(m, "day") /\ UNCHANGED <<mob, listed, due, count>>
  /\ UNCHANGED fire

\* Dead, whoever killed it: split and be queued.
Bury(m) ==
  /\ Visiting(m, "dead")
  /\ IF mob[m].dead
     THEN /\ Split(m, {}) /\ Queue(m, "died")
          /\ due' = [due EXCEPT ![m].splits = @ + SplitDue(m)]
     ELSE Go(m, "day") /\ UNCHANGED <<mob, listed, due, count>>
  /\ UNCHANGED fire

\* The first daylight check, of the clock alone, for those that burn; a
\* creaking goes by day and dies with its heart.
Daylight(m) ==
  /\ Visiting(m, "day")
  /\ \/ /\ mob[m].kind # "creaking"
        /\ IF Burns(mob[m].kind) /\ sky.day /\ sky.pulse
           THEN Hurt(m) ELSE UNCHANGED <<mob, count>>
        /\ IF mob'[m].dead THEN Queue(m, "died") ELSE Go(m, "brain")
     \/ /\ mob[m].kind = "creaking" /\ UNCHANGED count
        /\ \/ sky.day /\ Queue(m, "far") /\ UNCHANGED mob
           \/ ~sky.day /\ mob' = [mob EXCEPT ![m].dead = TRUE] /\ Queue(m, "died")
           \/ ~sky.day /\ Go(m, "brain") /\ UNCHANGED mob
  /\ UNCHANGED <<fire, listed, due>>

\* The brain may attack a player who wears thorns.
Think(m) ==
  /\ Visiting(m, "brain")
  /\ IF Attacks(mob[m].kind) THEN Hurt(m) ELSE UNCHANGED <<mob, count>>
  /\ Go(m, CASE mob[m].kind = "creeper" -> "fuse" [] OTHER -> "sun")
  /\ UNCHANGED <<fire, listed, due>>

\* A creeper: a player within 3 blocks lights it, keeps it burning to the end;
\* one that is more than 4 away puts it out.
Fuse(m) ==
  /\ Visiting(m, "fuse")
  /\ \/ /\ mob[m].lit < FuseTicks
        /\ mob' = [mob EXCEPT ![m].lit = @ + 1] /\ Done(m) /\ UNCHANGED due
     \/ /\ mob[m].lit >= FuseTicks
        /\ fallen' = fallen \cup {<<m, "far">>} /\ booms' = Append(booms, m)
        /\ due' = [due EXCEPT ![m].blasts = @ + 1]
        /\ todo' = todo \ {m} /\ at' = NoVisit
        /\ UNCHANGED <<mob, phase, minds, quiver, shot, tnt, hits, sky>>
     \/ /\ mob' = [mob EXCEPT ![m].lit = 0] /\ Done(m) /\ UNCHANGED due
     \/ /\ mob' = [mob EXCEPT ![m].lit = IF @ = 0 THEN 0 ELSE Min({@ + 1, FuseTicks})]
        /\ Done(m) /\ UNCHANGED due
  /\ UNCHANGED <<fire, listed, count>>

\* The second daylight check, with the light at its feet.
Sun(m) ==
  /\ Visiting(m, "sun")
  /\ LET burns == Burns(mob[m].kind) /\ sky.day /\ sky.pulse
     IN  /\ IF burns THEN Hurt(m) ELSE UNCHANGED <<mob, count>>
         /\ IF burns /\ mob'[m].dead THEN Queue(m, "died") ELSE Done(m)
  /\ UNCHANGED <<fire, listed, due>>

\* Whom the visits queued leaves the list and loses his brain.
Removed == {f[1] : f \in fallen}
EndVisits ==
  /\ phase = "mobs" /\ todo = {} /\ at = NoVisit
  /\ listed' = listed \ Removed /\ minds' = minds \ Removed
  /\ phase' = "creepers"
  /\ UNCHANGED <<fire, mob, quiver, shot, tnt, work, due, count>>

\* Drops and experience, after the explosions.
PayDead ==
  /\ phase = "creepers" /\ booms = <<>>
  /\ due' = [m \in Ids |-> IF <<m, "died">> \in fallen
                           THEN [due[m] EXCEPT !.drops = @ + 1, !.xp = @ + 1] ELSE due[m]]
  /\ phase' = "shots" /\ fallen' = {}
  /\ todo' = {f \in Flights : shot[f] # NoShot} /\ at' = NoVisit /\ hits' = <<>>
  /\ UNCHANGED <<fire, mob, listed, minds, quiver, shot, tnt, booms, sky, count>>
---------------------------------------------------------------------------
(* Explosions of creepers and of TNT.  fallen: whom it killed.              *)

Exploding == phase \in {"creepers", "tnt"} /\ booms # <<>>
StartBoom ==
  /\ Exploding /\ at = NoVisit
  /\ at' = <<NoOne, "boom">> /\ todo' = listed
  /\ UNCHANGED <<fire, mob, listed, minds, quiver, shot, tnt, phase, fallen, booms, hits, sky, due, count>>
\* Each mob in range, if it is not dead when its turn comes.
Struck(m) ==
  /\ Exploding /\ at # NoVisit /\ todo # {} /\ m = Min(todo)
  /\ todo' = todo \ {m}
  /\ \/ /\ ~mob[m].dead /\ Hurt(m)
        /\ fallen' = IF mob'[m].dead THEN fallen \cup {<<m, "struck">>} ELSE fallen
     \/ UNCHANGED <<mob, fallen, count>>
  /\ UNCHANGED <<fire, listed, minds, quiver, shot, tnt, phase, at, booms, hits, sky, due>>
\* Those it killed and that are still listed go, and drop; they give no
\* experience and do not split.
EndBoom ==
  /\ Exploding /\ at # NoVisit /\ todo = {}
  /\ LET gone == {m \in listed : <<m, "struck">> \in fallen}
     IN  /\ listed' = listed \ gone /\ minds' = minds \ gone
         /\ due' = [m \in Ids |-> IF m \in gone THEN [due[m] EXCEPT !.drops = @ + 1] ELSE due[m]]
  /\ fallen' = {f \in fallen : f[2] # "struck"}
  /\ booms' = Tail(booms) /\ at' = NoVisit
  /\ UNCHANGED <<fire, mob, quiver, shot, tnt, phase, todo, hits, sky, count>>
---------------------------------------------------------------------------
(* Projectiles: all fly against the mobs listed at the start, dead or not,  *)
(* then the hits are dealt.                                                 *)

Flying(f) == phase = "shots" /\ todo # {} /\ f = Min(todo)
Landed(f, s) ==
  /\ shot' = [shot EXCEPT ![f] = s] /\ todo' = todo \ {f}
  /\ UNCHANGED <<mob, listed, minds, quiver, tnt, phase, at, fallen, booms, sky, due, count>>
Onto(ms) == hits' = hits \o ms

\* Too old, caught by its owner, in a block (a stuck arrow goes on to age; a
\* loyal trident turns round), or into a player who stops it.
FlyOn(f) ==
  /\ Flying(f)
  /\ \/ Landed(f, NoShot)
     \/ Landed(f, shot[f])
     \/ ~shot[f].stuck /\ ~shot[f].home /\ shot[f].kind = "arrow"
        /\ Landed(f, [shot[f] EXCEPT !.stuck = TRUE])
     \/ ~shot[f].stuck /\ ~shot[f].home /\ shot[f].kind = "trident"
        /\ Landed(f, [shot[f] EXCEPT !.home = TRUE])
  /\ UNCHANGED <<fire, hits>>

\* A mob stops it; a piercing arrow goes through as many as it may, each once.
\* A trident on its way home hits only when its owner is gone.
Hit(f) ==
  /\ Flying(f) /\ ~shot[f].stuck
  /\ LET s == shot[f]
     IN  \/ \E m \in listed \ s.pierced :
              /\ s.pierce = 0 /\ Onto(<<m>>)
              /\ Landed(f, IF s.kind = "trident" /\ ~s.home THEN [s EXCEPT !.home = TRUE] ELSE NoShot)
         \/ \E m \in listed \ s.pierced :
              /\ s.pierce > 0 /\ Onto(<<m>>)
              /\ Landed(f, [s EXCEPT !.pierce = @ - 1, !.pierced = @ \cup {m}])
         \/ \E m, o \in listed \ s.pierced :
              /\ s.pierce > 0 /\ m < o /\ Onto(<<m, o>>)
              /\ Landed(f, IF s.pierce = 1 THEN NoShot
                           ELSE [s EXCEPT !.pierce = @ - 2, !.pierced = @ \cup {m, o}])
  /\ UNCHANGED fire

StartHits ==
  /\ phase = "shots" /\ todo = {} /\ phase' = "hits"
  /\ UNCHANGED <<fire, mob, listed, minds, quiver, shot, tnt, work, due, count>>
\* Faulty: the hit pays although somebody else has taken the mob out; nothing
\* tells it from the first.
DealHitTwice ==
  /\ phase = "hits" /\ hits # <<>> /\ hits' = Tail(hits)
  /\ LET m == Head(hits)
     IN  /\ Hurt(m)
         /\ due' = IF mob'[m].dead THEN [due EXCEPT ![m].drops = @ + 1] ELSE due
         /\ listed' = IF mob'[m].dead THEN listed \ {m} ELSE listed
         /\ UNCHANGED minds
  /\ UNCHANGED <<fire, quiver, shot, tnt, phase, todo, at, fallen, booms, sky>>

\* A hit on a mob that is dead now, be it of this hit or not, listed or not:
\* it drops and is taken out.
DealHit ==
  /\ phase = "hits" /\ hits # <<>> /\ hits' = Tail(hits)
  /\ LET m == Head(hits)
     IN  /\ Hurt(m)
         /\ IF mob'[m].dead
            THEN /\ due' = [due EXCEPT ![m].drops = @ + 1,
                                       ![m].again = IF m \in listed THEN @ ELSE @ + 1]
                 /\ listed' = listed \ {m} /\ minds' = minds \ {m}
            ELSE UNCHANGED <<due, listed, minds>>
  /\ UNCHANGED <<fire, quiver, shot, tnt, phase, todo, at, fallen, booms, sky>>
\* tntTick: fuses burn, what has come to its end goes and explodes.
EndHits ==
  /\ phase = "hits" /\ hits = <<>>
  /\ tnt' = IF tnt = NoFuse THEN NoFuse ELSE tnt - 1
  /\ booms' = IF tnt = 1 THEN <<NoOne>> ELSE <<>>
  /\ phase' = "tnt"
  /\ UNCHANGED <<fire, mob, listed, minds, quiver, shot, todo, at, fallen, hits, sky, due, count>>
EndTick ==
  /\ phase = "tnt" /\ booms = <<>> /\ phase' = "idle"
  /\ mob' = [m \in Ids |-> IF m \in listed \cup Fresh THEN mob[m] ELSE Gone]
  /\ fire' = fire \cap listed
  /\ sky' = NoSky
  /\ UNCHANGED <<listed, minds, quiver, shot, tnt, todo, at, fallen, booms, hits, due, count>>
---------------------------------------------------------------------------
(* Between ticks: packets, commands, the weather.                           *)

\* A player strikes m; a sweep goes on to others near it.  fallen: m if it died.
Strike(m) ==
  /\ phase = "idle" /\ m \in Alive
  /\ Hurt(m)
  /\ fire' \in {fire} \cup (IF mob'[m].dead THEN {} ELSE {fire \cup {m}})
  /\ fallen' = IF mob'[m].dead THEN {<<m, "killed">>} ELSE {}
  /\ \E near \in {{}} \cup {{o} : o \in {x \in listed \ {m} : ~mob'[x].dead}} : todo' = near
  /\ phase' = "sweep"
  /\ UNCHANGED <<listed, minds, quiver, shot, tnt, at, booms, hits, sky, due>>
Sweep(m) ==
  /\ phase = "sweep" /\ m \in todo
  /\ Hurt(m) /\ todo' = todo \ {m}
  /\ UNCHANGED <<fire, listed, minds, quiver, shot, tnt, phase, at, fallen, booms, hits, sky, due>>
\* Whom the strike killed, if he is still dead: drops, experience, a split, and
\* out of the list.
Kill ==
  /\ phase = "sweep" /\ todo = {}
  /\ LET killed == {f[1] : f \in {g \in fallen : mob[g[1]].dead}}
     IN  IF killed = {} THEN UNCHANGED <<mob, listed, minds, due, count>>
         ELSE \E m \in killed :
                /\ Split(m, {m}) /\ minds' = minds \ {m}
                /\ due' = [due EXCEPT ![m] = [@ EXCEPT !.drops = @ + 1, !.xp = @ + 1,
                                                      !.splits = @ + SplitDue(m)]]
  /\ phase' = "idle" /\ fallen' = {}
  /\ UNCHANGED <<fire, quiver, shot, tnt, todo, at, booms, hits, sky>>

\* spawnMobFor
Spawn(k) ==
  /\ phase = "idle" /\ k \in quiver /\ k.what = "mob" /\ Fresh # {}
  /\ LET m == Min(Fresh)
     IN  /\ mob' = [mob EXCEPT ![m] = [NoMob EXCEPT !.kind = k.kind, !.dead = FALSE]]
         /\ listed' = listed \cup {m}
  /\ quiver' = quiver \ {k}
  /\ UNCHANGED <<fire, minds, shot, tnt, phase, work, due, count>>

\* spawnProjectileFor
Shoot(k) ==
  /\ phase = "idle" /\ k \in quiver /\ k.what = "shot"
  /\ \E f \in Flights :
       /\ shot[f] = NoShot /\ \A g \in Flights : g < f => shot[g] # NoShot
       /\ shot' = [shot EXCEPT ![f] = [NoShot EXCEPT !.kind = k.kind, !.pierce = k.pierce]]
  /\ quiver' = quiver \ {k}
  /\ UNCHANGED <<fire, mob, listed, minds, tnt, phase, work, due, count>>

\* spawnPrimedTntFor
Prime(k) ==
  /\ phase = "idle" /\ k \in quiver /\ k.what = "tnt" /\ tnt' = 2
  /\ quiver' = quiver \ {k}
  /\ UNCHANGED <<fire, mob, listed, minds, shot, phase, work, due, count>>

\* A native of the JVM sets the health of a mob.
SetHealth ==
  /\ phase = "idle"
  /\ \E t \in Tampers \ {NoVisit} : mob' = Tampered(t) /\ Counted(t)
  /\ UNCHANGED <<fire, listed, minds, quiver, shot, tnt, phase, work, due>>

Next ==
  \/ BeginTick \/ EndVisits \/ PayDead \/ StartBoom \/ EndBoom
  \/ StartHits \/ DealHit \/ EndHits \/ EndTick
  \/ Kill \/ SetHealth
  \/ \E m \in Ids :
       \/ Visit(m) \/ Burn(m) \/ Bury(m) \/ Daylight(m) \/ Think(m) \/ Fuse(m) \/ Sun(m)
       \/ Struck(m) \/ Strike(m) \/ Sweep(m)
  \/ \E f \in Flights : FlyOn(f) \/ Hit(f)
  \/ \E k \in quiver : Spawn(k) \/ Shoot(k) \/ Prime(k)

Spec == Init /\ [][Next]_vars
---------------------------------------------------------------------------
\* A mob ends once: as a creeper that explodes, or as one that dies and pays
\* (items once, experience and a split at most once), whoever kills it, however
\* often listeners bring it back.  The one exception: projectiles that reach it
\* in the tick in which it is taken out pay again (GameServer_items.cpp:3177).
EndsOnce ==
  \A m \in Ids :
    /\ due[m].drops + due[m].blasts <= 1 + due[m].again
    /\ due[m].xp <= due[m].drops /\ due[m].splits <= 1
    /\ m \in listed /\ phase = "idle" => due[m] = NoDues

\* Brains belong to mobs of the list: none is left behind or made again for one
\* that has gone.
MindsOfTheListed == minds \subseteq listed

\* Both.
MobsSound == EndsOnce /\ MindsOfTheListed

\* "dead mobs drop once": without the exception.
PaidOnce == \A m \in Ids : due[m].drops <= 1
=============================================================================

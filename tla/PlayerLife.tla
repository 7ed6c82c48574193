----------------------------- MODULE PlayerLife -----------------------------
(***************************************************************************)
(* Digging, placing, being hurt, dying, respawning, travelling, picking up *)
(* and leaving: what moves blocks and items between the worlds, the ground, *)
(* the inventories and the player files.                                   *)
(*                                                                         *)
(* Packets and ticks hold the simulation gate, so one of them runs at a    *)
(* time; but each calls listeners (events, JVM hooks) in its middle, and a *)
(* listener may hurt a player, change his game mode or change the block.   *)
(* `run' is the stack of handlers this makes.  Only the end of a session   *)
(* runs beside the gate: it marks the player as out, saves him and removes *)
(* him from the roster while a tick may be at work on him.                 *)
(*                                                                         *)
(* Abstracted: one XYZ in two dimensions; an inventory is a number of like *)
(* items; a blow kills or does not; whether a dig's time has come, whether *)
(* an entity is near, and the order of a tick's systems are left open;     *)
(* keepInventory and hardcore are off, every dig harvests one item, and    *)
(* "creative" stands for every mode in which a block breaks at once; only  *)
(* survival players place.                                                 *)
(***************************************************************************)
EXTENDS Naturals, Integers, Sequences, FiniteSets

CONSTANTS
  Players,
  Cap,       \* how many items an inventory holds
  Depth,     \* Bound: handlers nested by listeners
  Meddling,  \* Bound: how often listeners change blocks and game modes
  Drops,     \* Bound: entities on the ground, 1 .. Drops
  Leavers,   \* Bound: the players whose session may end
  Turns      \* Bound: packets and systems of a tick, each a turn of the gate

PlayerLifeConstants == Cap \in Nat /\ Depth \in Nat \ {0} /\ Drops \in Nat \ {0}

LOCAL INSTANCE FiniteSetsExt

VARIABLES
  block,     \* the block at XYZ in each dimension
  session,   \* "in" play, "leaving", "saved", "gone" from the roster
  life,      \* "alive", "dying" (no health, killPlayer not yet run), "dead"
  mode,      \* "survival" or "creative"
  dim,       \* the dimension each player is in
  dig,       \* his dig: the block state it began with and, unknown to the
             \* code, the dimension it began in
  inv, xp,   \* items and experience of a player
  file,      \* items and experience in his player file
  drops,     \* per entity its kind, amount and dimension; amount 0: none
  pend,      \* who is about to collect each entity
  run,       \* the handlers at work, the innermost first
  made,      \* what listeners and despawning added or took away
  turns,     \* turns of the gate so far
  meddled,   \* how often listeners changed something
  leaks      \* ways in which matter was doubled

vars == <<block, session, life, mode, dim, dig, inv, xp, file, drops, pend,
          run, made, turns, meddled, leaks>>
stuff == <<block, inv, xp, file, drops, made, leaks>>
people == <<session, life, mode, dim, dig>>

Dims == {"over", "nether"}
DropIds == 1 .. Drops
NoDig == [state |-> "none", from |-> "none"]
NoDrop == [kind |-> "item", n |-> 0, dim |-> "over"]

Solid == {d \in Dims : block[d] # "air"}
Matter ==
  Cardinality(Solid)
  + MapThenSumSet(LAMBDA p : IF session[p] \in {"in", "leaving"} THEN inv[p] + xp[p]
                             ELSE file[p], Players)
  + MapThenSumSet(LAMBDA i : drops[i].n, DropIds)
  + MapThenSumSet(LAMBDA k : run[k].carry, DOMAIN run)
  - made

Init ==
  /\ block = [d \in Dims |-> "stone"]
  /\ session = [p \in Players |-> "in"]
  /\ life = [p \in Players |-> "alive"]
  /\ mode = [p \in Players |-> "survival"]
  /\ dim = [p \in Players |-> "over"]
  /\ dig = [p \in Players |-> NoDig]
  /\ inv = [p \in Players |-> 1] /\ xp = [p \in Players |-> 0]
  /\ file = [p \in Players |-> 0]
  /\ drops = [i \in DropIds |-> IF i = 1 THEN [NoDrop EXCEPT !.kind = "orb", !.n = 1] ELSE NoDrop]
  /\ pend = [i \in DropIds |-> {}]
  /\ run = <<>> /\ made = 0 /\ turns = 0 /\ meddled = 0
  /\ leaks = {}
---------------------------------------------------------------------------
(* The stack of handlers.                                                   *)

Frame(op, by, p) ==
  [op |-> op, by |-> by, p |-> p, at |-> "listen", carry |-> 0, aim |-> NoDig]
Top == Head(run)
At(op, step) == run # <<>> /\ Top.op = op /\ Top.at = step
Enter(f) == Len(run) < Depth /\ run' = <<f>> \o run
Go(step) == run' = [run EXCEPT ![1].at = step]
Leave == run' = Tail(run)

\* A packet of p may be handled: nothing else holds the gate.
Packet(p) == run = <<>> /\ session[p] = "in"

\* spawnItemDropFor: a new entity in the dimension d.
Spawned(ds, n, d) ==
  LET free == {i \in DropIds : ds[i].n = 0}
  IN  IF n = 0 THEN ds ELSE [ds EXCEPT ![Min(free)] = [kind |-> "item", n |-> n, dim |-> d]]
Room == \E i \in DropIds : drops[i].n = 0

\* What a listener may do before it returns.
Listening == run # <<>> /\ Top.at = "listen"

Meddle ==
  /\ Listening /\ meddled < Meddling
  /\ meddled' = meddled + 1
  /\ \/ /\ \E d \in Dims : \E b \in {"stone", "dirt", "air"} \ {block[d]} :
             /\ block' = [block EXCEPT ![d] = b]
             /\ made' = made + (IF b = "air" THEN -1 ELSE IF block[d] = "air" THEN 1 ELSE 0)
        /\ UNCHANGED mode
     \/ /\ \E p \in Players :
             mode' = [mode EXCEPT ![p] = IF @ = "survival" THEN "creative" ELSE "survival"]
        /\ UNCHANGED <<block, made>>
  /\ UNCHANGED <<session, life, dim, dig, inv, xp, file, drops, pend, run, leaks>>

\* It lets the handler go on, or cancels it.
Agree == Listening /\ Go("apply") /\ UNCHANGED <<stuff, people, pend, meddled>>

Cancel ==
  /\ Listening /\ Leave
  /\ dig' = IF Top.op = "break" THEN [dig EXCEPT ![Top.p] = NoDig] ELSE dig
  /\ UNCHANGED <<stuff, session, life, mode, dim, pend, meddled>>
---------------------------------------------------------------------------
(* Being hurt and dying.                                                    *)

Vulnerable(p) == mode[p] = "survival" /\ life[p] = "alive"

\* applyDamage up to its listeners, on anyone of the roster.
Hurt(p, by) ==
  /\ session[p] # "gone" /\ Vulnerable(p)
  /\ Enter(Frame("hurt", by, p))
  /\ UNCHANGED <<stuff, people, pend, meddled>>

\* survivalTick: hunger, drowning, frost, fire, the void and the border.
SurvivalTick(p) == run = <<>> /\ session[p] = "in" /\ Hurt(p, "tick")

\* mobAttackPlayer does not ask whether its target is still in play.
MobAttack(p) == run = <<>> /\ Hurt(p, "tick")

\* onUseEntity: a blow at another player of the roster, in the same dimension.
Attack(by, p) == Packet(by) /\ p # by /\ dim[p] = dim[by] /\ Hurt(p, by)

\* onMovement: the end of a fall.
Fall(p) == Packet(p) /\ Hurt(p, p)

\* A listener hurts someone in the middle of a handler.
ListenerHurts(p) == Listening /\ Hurt(p, Top.by)

\* The second check and the blow; killPlayer follows without the player's lock.
Blow ==
  /\ At("hurt", "apply")
  /\ \/ Leave /\ UNCHANGED life
     \/ /\ Vulnerable(Top.p)
        /\ life' = [life EXCEPT ![Top.p] = "dying"] /\ Go("kill")
  /\ UNCHANGED <<stuff, session, mode, dim, dig, pend, meddled>>

\* killPlayer under the player's lock: the inventory is taken out.
Die ==
  LET p == Top.p
  IN  /\ At("hurt", "kill") /\ life[p] # "dead"
      /\ life' = [life EXCEPT ![p] = "dead"]
      /\ inv' = [inv EXCEPT ![p] = 0]
      /\ run' = [run EXCEPT ![1].at = "spawn", ![1].carry = inv[p]]
      /\ leaks' = IF session[p] \in {"saved", "gone"} /\ inv[p] > 0
                  THEN leaks \cup {"killedAfterSave"} ELSE leaks
      /\ UNCHANGED <<block, session, mode, dim, dig, xp, file, drops, pend, made, meddled>>

\* The stacks are dropped where he died.  Bound: there is an entity left.
DropAll ==
  /\ At("hurt", "spawn") /\ (Top.carry > 0 => Room)
  /\ drops' = Spawned(drops, Top.carry, dim[Top.p])
  /\ Leave
  /\ UNCHANGED <<block, inv, xp, file, made, leaks, people, pend, meddled>>

\* handleRespawnRequest: it does not ask whether the player is dead and leaves
\* his dig as it is.
Respawn(p) ==
  /\ Packet(p)
  /\ life' = [life EXCEPT ![p] = "alive"]
  /\ dim' = [dim EXCEPT ![p] = "over"]
  /\ UNCHANGED <<stuff, session, mode, dig, pend, run, meddled>>

\* A portal: the dig is cancelled.
Travel(p) ==
  /\ Packet(p)
  /\ dim' = [dim EXCEPT ![p] = IF @ = "over" THEN "nether" ELSE "over"]
  /\ dig' = [dig EXCEPT ![p] = NoDig]
  /\ UNCHANGED <<stuff, session, life, mode, pend, run, meddled>>
---------------------------------------------------------------------------
(* Digging and placing.                                                     *)

\* The block p aims at.
Aim(p) == IF block[dim[p]] = "air" THEN NoDig
          ELSE [state |-> block[dim[p]], from |-> dim[p]]

\* A dig already under way is given up; in creative mode the listeners of the
\* break follow at once.
StartDig(p) ==
  /\ Packet(p)
  /\ IF mode[p] = "survival" THEN dig' = [dig EXCEPT ![p] = Aim(p)] /\ UNCHANGED run
     ELSE /\ dig' = [dig EXCEPT ![p] = NoDig]
          /\ IF Aim(p) = NoDig THEN UNCHANGED run
             ELSE Enter([Frame("wipe", p, p) EXCEPT !.aim = Aim(p)])
  /\ UNCHANGED <<stuff, session, life, mode, dim, pend, meddled>>

\* The block of a creative break goes, unless a listener changed it.
Wipe ==
  /\ At("wipe", "apply") /\ Leave
  /\ IF block[Top.aim.from] = Top.aim.state
     THEN block' = [block EXCEPT ![Top.aim.from] = "air"] /\ made' = made - 1
     ELSE UNCHANGED <<block, made>>
  /\ UNCHANGED <<inv, xp, file, drops, leaks, people, pend, meddled>>

\* An abort, a finish that is early or names something else, or a game mode
\* that does not dig.
StopDig(p) ==
  /\ run = <<>> /\ dig[p] # NoDig
  /\ dig' = [dig EXCEPT ![p] = NoDig]
  /\ UNCHANGED <<stuff, session, life, mode, dim, pend, run, meddled>>

\* tickDigs: the time of a dig has come; a changed target ends it.
DigDue(p) ==
  /\ run = <<>> /\ session[p] = "in" /\ dig[p] # NoDig /\ mode[p] = "survival"
  /\ IF block[dim[p]] = dig[p].state
     THEN Enter(Frame("break", "tick", p)) /\ UNCHANGED dig
     ELSE dig' = [dig EXCEPT ![p] = NoDig] /\ UNCHANGED run
  /\ UNCHANGED <<stuff, session, life, mode, dim, pend, meddled>>

\* What breaks the block and drops it.  Bound: there is an entity left.
Shatter(p) ==
  /\ Room
  /\ block' = [block EXCEPT ![dim[p]] = "air"]
  /\ drops' = Spawned(drops, 1, dim[p])

\* Faulty: the target is not looked at again after the listeners.
BreakBlind ==
  LET p == Top.p
  IN  /\ At("break", "apply")
      /\ Shatter(p)
      /\ dig' = [dig EXCEPT ![p] = NoDig] /\ Leave
      /\ UNCHANGED <<inv, xp, file, made, leaks, session, life, mode, dim, pend, meddled>>

Break ==
  LET p == Top.p
  IN  /\ At("break", "apply")
      /\ IF block[dim[p]] = dig[p].state THEN Shatter(p)
         ELSE UNCHANGED <<block, drops>>
      /\ dig' = [dig EXCEPT ![p] = NoDig] /\ Leave
      /\ UNCHANGED <<inv, xp, file, made, leaks, session, life, mode, dim, pend, meddled>>

PlaceBegin(p) ==
  /\ Packet(p) /\ mode[p] = "survival" /\ inv[p] > 0 /\ block[dim[p]] = "air"
  /\ Enter(Frame("place", p, p))
  /\ UNCHANGED <<stuff, people, pend, meddled>>

\* After the listeners the target is looked at again, the held stack is not:
\* one that went meanwhile pays for the block with nothing.
Place ==
  LET p == Top.p
  IN  /\ At("place", "apply")
      /\ Leave
      /\ IF block[dim[p]] = "air"
         THEN /\ block' = [block EXCEPT ![dim[p]] = "stone"]
              /\ inv' = [inv EXCEPT ![p] = Max({0, @ - 1})]
              /\ leaks' = IF inv[p] = 0 THEN leaks \cup {"placedUnpaid"} ELSE leaks
         ELSE UNCHANGED <<block, inv, leaks>>
      /\ UNCHANGED <<xp, file, drops, made, people, pend, meddled>>
---------------------------------------------------------------------------
(* Picking up: itemsTick and xpOrbsTick look for collectors first and let   *)
(* them collect afterwards.                                                 *)

\* In play, not dead, in the entity's dimension; an orb wants survival mode.
CanCollect(p, i) ==
  /\ session[p] = "in" /\ life[p] # "dead" /\ dim[p] = drops[i].dim
  /\ drops[i].kind = "orb" => mode[p] = "survival"

\* Entities that are too old go; each other one has at most one collector.
Look(kind) ==
  LET here == {i \in DropIds : drops[i].n > 0 /\ drops[i].kind = kind}
  IN  /\ run = <<>> /\ here # {}
      /\ \E old \in SUBSET here :
           /\ drops' = [i \in DropIds |-> IF i \in old THEN NoDrop ELSE drops[i]]
           /\ made' = made - MapThenSumSet(LAMBDA i : drops[i].n, old)
           /\ pend' \in [DropIds -> SUBSET Players]
           /\ \A i \in DropIds :
                /\ Cardinality(pend'[i]) <= 1
                /\ pend'[i] # {} => i \in here \ old
                /\ \A p \in pend'[i] : CanCollect(p, i)
      /\ run' = <<[Frame("collect", "tick", "none") EXCEPT !.at = "take"]>>
      /\ UNCHANGED <<block, inv, xp, file, leaks, people, meddled>>
ItemsTick == Look("item")
XpOrbsTick == Look("orb")

\* As much of a stack as there is room for.
StackTaken(p, i) ==
  LET k == Min({drops[i].n, Cap - inv[p]})
  IN  /\ drops' = [drops EXCEPT ![i] = IF @.n = k THEN NoDrop ELSE [@ EXCEPT !.n = @ - k]]
      /\ inv' = [inv EXCEPT ![p] = @ + k]
      /\ UNCHANGED xp

\* The whole of an orb.
OrbTaken(p, i) ==
  /\ drops' = [drops EXCEPT ![i] = NoDrop]
  /\ xp' = [xp EXCEPT ![p] = @ + drops[i].n]
  /\ UNCHANGED inv

\* Under p's lock, then the entities'.
Taken(p, i) == IF drops[i].kind = "orb" THEN OrbTaken(p, i) ELSE StackTaken(p, i)

\* Faulty: the collector found earlier is taken as he was then.
CollectBlind(p, i) ==
  /\ At("collect", "take") /\ p \in pend[i]
  /\ Taken(p, i)
  /\ pend' = [pend EXCEPT ![i] = {}]
  /\ UNCHANGED <<block, file, made, leaks, people, run, meddled>>

Collect(p, i) ==
  /\ At("collect", "take") /\ p \in pend[i]
  /\ IF CanCollect(p, i) THEN Taken(p, i) ELSE UNCHANGED <<drops, inv, xp>>
  /\ pend' = [pend EXCEPT ![i] = {}]
  /\ UNCHANGED <<block, file, made, leaks, people, run, meddled>>

Looked ==
  /\ At("collect", "take") /\ \A i \in DropIds : pend[i] = {}
  /\ Leave /\ UNCHANGED <<stuff, people, pend, meddled>>
---------------------------------------------------------------------------
(* The end of a session, on its own thread, when its packets are done.      *)

EndPlay(p) ==
  /\ p \in Leavers /\ session[p] = "in" /\ \A k \in DOMAIN run : run[k].by # p
  /\ session' = [session EXCEPT ![p] = "leaving"]
  /\ UNCHANGED <<stuff, life, mode, dim, dig, pend, run, meddled>>

Save(p) ==
  /\ session[p] = "leaving"
  /\ session' = [session EXCEPT ![p] = "saved"]
  /\ file' = [file EXCEPT ![p] = inv[p] + xp[p]]
  /\ UNCHANGED <<block, inv, xp, drops, made, leaks, life, mode, dim, dig, pend, run, meddled>>

Remove(p) ==
  /\ session[p] = "saved"
  /\ session' = [session EXCEPT ![p] = "gone"]
  /\ UNCHANGED <<stuff, life, mode, dim, dig, pend, run, meddled>>
---------------------------------------------------------------------------
\* The gate is free and taken.
Turn ==
  /\ run = <<>> /\ turns < Turns /\ turns' = turns + 1
  /\ \/ ItemsTick \/ XpOrbsTick
     \/ \E p \in Players :
          \/ SurvivalTick(p) \/ MobAttack(p) \/ Fall(p)
          \/ \E by \in Players : Attack(by, p)
          \/ Respawn(p) \/ Travel(p) \/ StartDig(p) \/ StopDig(p) \/ DigDue(p)
          \/ PlaceBegin(p)

\* The handlers go on, listeners act in them, sessions end.
Onward ==
  /\ UNCHANGED turns
  /\ \/ Meddle \/ Agree \/ Cancel
     \/ Blow \/ Die \/ DropAll \/ Break \/ Wipe \/ Place \/ Looked
     \/ \E p \in Players :
          \/ ListenerHurts(p)
          \/ \E i \in DropIds : Collect(p, i)
          \/ EndPlay(p) \/ Save(p) \/ Remove(p)

\* Bound: nothing is explored past the first leak.
Next == leaks = {} /\ (Turn \/ Onward)

Spec == Init /\ [][Next]_vars
---------------------------------------------------------------------------
\* Whatever listeners do in the middle of a handler, and however a session
\* ends beside a tick: no block, item or experience point is lost, and none
\* is doubled outside the two named ways.
MatterKept ==
  LET initial == Cardinality(Dims) + Cardinality(Players) + 1
  IN  /\ leaks = {} => Matter = initial
      /\ Matter >= initial

\* The second check of applyDamage: a player is brought to no health only
\* while he could be hurt, and once; killPlayer then finds him not yet dead.
DiesOnce ==
  /\ \A p \in Players : life[p] = "dying" <=>
       Cardinality({k \in DOMAIN run : run[k].op = "hurt" /\ run[k].p = p /\ run[k].at = "kill"}) = 1
  /\ \A p \in Players : life[p] = "dead" => inv[p] = 0

\* A dig of p comes to its end and takes the block of dimension d.
Breaks(p, d) ==
  At("break", "apply") /\ Top.p = p /\ block[d] # "air" /\ block'[d] = "air"

\* A dig breaks the block state it began with, whatever listeners put there
\* and whoever else digs at it.
BreaksWhatWasDug ==
  [][\A p \in Players, d \in Dims : Breaks(p, d) => dig[p].state = block[d]]_vars

\* "Do not let an old-dimension dig continue at the same XYZ"
\* (GameServer_session.cpp, onMovement).
DigStaysInItsDimension ==
  [][\A p \in Players, d \in Dims : Breaks(p, d) => dig[p].from = d]_vars
=============================================================================

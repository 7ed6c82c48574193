------------------------------- MODULE Vitals -------------------------------
(***************************************************************************)
(* One player's body: health and hunger, status effects, attributes, what  *)
(* he wears, and what his client is told of them.  It is worked on by his  *)
(* packets, by commands, and by two systems of a tick, survivalTick and    *)
(* effectsTick; each blow passes through a Java callback, in which         *)
(* commands and natives may work on the same body.                         *)
(*                                                                         *)
(* `todo' is what the handler at work still has to do, `calls' the blows   *)
(* whose callbacks have not returned, the innermost first.                 *)
(*                                                                         *)
(* Abstracted: health is counted in hundredths and exhaustion in           *)
(* thousandths, rounded down; attributes are three; intervals,             *)
(* thresholds and food values are constants of the instance; at any time   *)
(* the player stands in one place of a kind.                               *)
(***************************************************************************)
EXTENDS Integers, Sequences, FiniteSets

CONSTANTS
  Scenes,    \* Bound: [kinds of effect, places, difficulty, hardcore, budgets]
  Fed, SlowFed,              \* full food, and enough of it to heal slowly
  FastEvery, SlowEvery,      \* ticks between two healings
  Breath, Chill, Flames,     \* ticks of air, before frost hurts, of burning
  RaiseTicks, StunTicks,     \* of a shield
  Every,     \* ticks between two beats of each effect at level 0
  Pulse,     \* ticks between two beats of what hurts in a place
  Often,     \* ticks between two attribute updates
  Amps,      \* amplifiers given to /effect
  Deep       \* Bound: callbacks in callbacks

LOCAL INSTANCE SequencesExt

VitalsConstants ==
  /\ Fed \in Nat /\ SlowFed \in 1 .. Fed /\ Amps \subseteq 0 .. 255
  /\ \A n \in {FastEvery, SlowEvery, Pulse, Often} : n \in Nat \ {0}

VARIABLES
  scene,     \* the scene, with what is left of its budgets
  now,       \* the tick number
  place,     \* where he stands
  body,      \* his vital numbers
  effects,   \* his status effects, in the order of the list
  attr,      \* base and modifiers of his attributes
  gear,      \* shield and armour
  todo, calls,
  screen,    \* what his client was last told
  lives,     \* [deaths: calls of killPlayer that count, respawns: of a dead player]
  asked,     \* modifiers asked for by commands
  leaks      \* ways in which the body or the screen came out wrong

vars == <<scene, now, place, body, effects, attr, gear, todo, calls, screen,
          lives, asked, leaks>>

Point == 100
Full == 20 * Point
Least(a, b) == IF a < b THEN a ELSE b
Most(a, b) == IF a > b THEN a ELSE b
Clamp(v, lo, hi) == Most(lo, Least(v, hi))
Int8(n) == IF n > 127 THEN n - 256 ELSE n

Rest == todo = <<>> /\ calls = <<>>
\* A packet or a tick begins at rest, a command also inside a callback.
Commanding == Rest \/ (calls # <<>> /\ Len(calls) < Deep)
Spend(what) ==
  /\ scene.left[what] > 0
  /\ scene' = [scene EXCEPT !.left[what] = @ - 1]
Leak(name, cond) == leaks' = IF cond THEN leaks \cup {name} ELSE leaks
----------------------------------------------------------------------------
(* What the client sees.                                                    *)

Shown(b) == <<b.health, b.food, b.sat>>
Levels(es) == {<<e.type, e.amp>> : e \in ToSet(es)}
Tell(b) == [screen EXCEPT !.vitals = Shown(b)]
----------------------------------------------------------------------------
(* Hunger: HungerManager.                                                   *)

AddExhaustion(b, n) == IF b.mode = "survival" THEN [b EXCEPT !.tired = @ + n] ELSE b

AddFood(b, n, s) ==
  LET food == Clamp(b.food + n, 0, Fed)
  IN  [b EXCEPT !.food = food, !.sat = Clamp(b.sat + s, 0, food)]

\* Tired by 4.0: a point of saturation, or else of food.
Exhausted(b) ==
  IF b.tired < 4000 THEN b
  ELSE IF b.sat > 0 THEN [b EXCEPT !.tired = @ - 4000, !.sat = Most(0, @ - 1)]
  ELSE [b EXCEPT !.tired = @ - 4000, !.food = Most(0, @ - 1)]

Hurtable(b) == b.health > 0 /\ b.health < Full
HealsFast(b) == b.sat > 0 /\ b.food >= Fed /\ Hurtable(b)
HealsSlowly(b) == b.food >= SlowFed /\ Hurtable(b)

CanStarve(b) ==
  CASE scene.difficulty = "hard" -> b.health > 0
    [] scene.difficulty = "normal" -> b.health > Point
    [] scene.difficulty = "easy" -> b.health > Full \div 2
    [] scene.difficulty = "peaceful" -> FALSE

Healed(b) ==
  [b EXCEPT !.health = Least(Full, @ + Point), !.tired = @ + 6000, !.timer = 0]

RegenAndStarve(b) ==
  LET late(n) == b.timer + 1 >= n
      waits == [b EXCEPT !.timer = @ + 1]
  IN  CASE HealsFast(b) -> IF late(FastEvery) THEN Healed(b) ELSE waits
        [] ~HealsFast(b) /\ HealsSlowly(b) -> IF late(SlowEvery) THEN Healed(b) ELSE waits
        [] ~HealsFast(b) /\ ~HealsSlowly(b) /\ b.food <= 0 ->
             IF ~late(SlowEvery) THEN waits
             ELSE [b EXCEPT !.timer = 0,
                            !.health = IF CanStarve(b) THEN Most(0, @ - Point) ELSE @]
        [] OTHER -> [b EXCEPT !.timer = 0]
----------------------------------------------------------------------------
(* Attributes: AttributeManager.                                            *)

Attributes == {"speed", "attack", "armor"}
Defaults == [speed |-> 10, attack |-> 100, armor |-> 0]
Natural == [a \in Attributes |-> [base |-> Defaults[a], mods |-> <<>>]]

SumOf(mods, op) ==
  FoldLeft(LAMBDA n, m : n + (IF m.op = op THEN m.amount ELSE 0), 0, mods)

\* Added amounts, then parts of the base, then factors, in this order.
Computed(i) ==
  LET added == i.base + SumOf(i.mods, 0) + ((i.base * SumOf(i.mods, 1)) \div 100)
  IN  FoldLeft(LAMBDA v, m : IF m.op = 2 THEN (v * (100 + m.amount)) \div 100 ELSE v,
               added, i.mods)

AddModifier(t, a, m) ==
  IF \E k \in DOMAIN t[a].mods : t[a].mods[k].id = m.id
  THEN [t EXCEPT ![a].mods = [k \in DOMAIN @ |-> IF @[k].id = m.id THEN m ELSE @[k]]]
  ELSE [t EXCEPT ![a].mods = Append(@, m)]

RemoveModifier(t, a, id) ==
  [t EXCEPT ![a].mods = SelectSeq(@, LAMBDA m : m.id # id)]

SetBase(t, a, v) ==
  [t EXCEPT ![a].base = IF a = "armor" THEN Clamp(v, 0, 30 * 100) ELSE v]

\* The level of an effect as amplifierFor gives it: none and -1 are the same.
LevelOf(es, type) ==
  FoldLeft(LAMBDA n, e : IF e.type = type THEN Most(n, e.amp) ELSE n, -1, es)
SumLevels(es, type) ==
  FoldLeft(LAMBDA n, e : IF e.type = type THEN n + e.amp + 1 ELSE n, 0, es)

EffectModifiers == {<<"speed", "effect_speed">>, <<"attack", "effect_strength">>}

ApplyEffects(t, es) ==
  LET bare == RemoveModifier(RemoveModifier(t, "speed", "effect_speed"),
                             "attack", "effect_strength")
      speed == 20 * SumLevels(es, "speed")
      bonus == 300 * SumLevels(es, "strength")
      quick == IF speed = 0 THEN bare
               ELSE AddModifier(bare, "speed", [id |-> "effect_speed", amount |-> speed, op |-> 2])
  IN  IF bonus = 0 THEN quick
      ELSE AddModifier(quick, "attack", [id |-> "effect_strength", amount |-> bonus, op |-> 0])
----------------------------------------------------------------------------
(* Damage: DamageSource and DamageCalculator.                               *)

\* What a kind of damage passes by.
Bypasses(src) ==
  CASE src \in {"drown", "starve"} -> {"armor", "enchant"}
    [] src = "fell out of the world" -> {"armor"}
    [] src = "sonic_boom" -> {"armor", "enchant", "shield"}
    [] src \in {"magic", "poison", "wither"} -> {"shield"}
    [] OTHER -> {}

Points(plate) == IF plate.kind = "none" THEN 0 ELSE 800
Protection(plate) == IF plate.kind = "plain" THEN 8 ELSE 0

ByArmor(d, armor) ==
  IF armor <= 0 THEN d
  ELSE LET g == Clamp(armor - (d \div 2), armor \div 5, 20 * 100)
       IN  (d * (2500 - g)) \div 2500
ByEnchant(d, epf) == IF epf <= 0 THEN d ELSE (d * (25 - Least(20, epf))) \div 25
ByResistance(d, es) ==
  FoldLeft(LAMBDA v, e : IF e.type # "resistance" THEN v
                         ELSE (v * (10 - Least(8, 2 * (e.amp + 1)))) \div 10, d, es)

DamageAfter(d, src, armor, plate, es) ==
  LET worn == IF "armor" \in Bypasses(src) THEN d ELSE ByArmor(d, armor)
      kept == IF "enchant" \in Bypasses(src) THEN worn ELSE ByEnchant(worn, Protection(plate))
  IN  Most(0, ByResistance(kept, es))
----------------------------------------------------------------------------
(* Being hurt and dying: applyDamage and killPlayer.                        *)

Vulnerable(b) == b.mode \notin {"creative", "spectator"} /\ ~b.dead /\ b.health > 0

\* Faulty: the blow is not looked at again.
SeenBefore == TRUE
\* The second look at a player, after the callback.
StillVulnerable == Vulnerable(body)

\* What still runs of a blow once the callback has been called.
Blow(amount, src) == [on |-> "player", amount |-> amount, src |-> src, piece |-> "none"]
Struck(amount, src) ==
  IF amount > 0 /\ Vulnerable(body) THEN <<Blow(amount, src)>> \o calls ELSE calls

Bare == [shield |-> "none", raised |-> 0, stun |-> 0, plate |-> [kind |-> "none", wear |-> 0]]

\* killPlayer: the inventory goes, with all that was worn.
Killed(b) == [b EXCEPT !.dead = TRUE, !.mode = IF scene.hardcore THEN "spectator" ELSE @]

\* The armour attribute follows the armour; the client is told when it moved.
SyncArmor(t) == SetBase(t, "armor", Points(gear.plate))
Dirty == attr["armor"].base # Points(gear.plate)

\* Java has allowed the blow: the second look, and the blow itself.
Allow ==
  /\ calls # <<>> /\ Head(calls).on = "player"
  /\ LET c == Head(calls)
         synced == SyncArmor(attr)
         value == Computed(synced["armor"])
         armor == IF value = 0 THEN Points(gear.plate) ELSE value
         d == DamageAfter(c.amount, c.src, armor, gear.plate, effects)
         hit == [AddExhaustion(body, 100) EXCEPT !.health = Most(0, @ - d)]
         seen == [screen EXCEPT !.attr = IF Dirty THEN synced ELSE @]
     IN  /\ attr' = synced
         /\ calls' = Tail(calls)
         /\ IF StillVulnerable /\ d > 0
            THEN /\ body' = IF hit.health = 0 THEN Killed(hit) ELSE hit
                 /\ screen' = [seen EXCEPT !.vitals = Shown(hit)]
                 /\ gear' = IF hit.health = 0 THEN Bare ELSE gear
                 /\ lives' = IF hit.health = 0 /\ ~body.dead THEN [lives EXCEPT !.deaths = @ + 1] ELSE lives
            ELSE screen' = seen /\ UNCHANGED <<body, gear, lives>>
  /\ UNCHANGED <<scene, now, place, effects, todo, asked, leaks>>

Deny ==
  /\ calls # <<>> /\ calls' = Tail(calls)
  /\ UNCHANGED <<scene, now, place, body, effects, attr, gear, todo, screen, lives, asked, leaks>>

\* nativeEntitySetHealth, from a callback or as a task of the server thread:
\* no second look, no killPlayer, and nothing is sent.
JavaSetsHealth(h) ==
  /\ Rest \/ calls # <<>>
  /\ Spend("java")
  /\ body' = [body EXCEPT !.health = h, !.dead = h <= 0]
  /\ Leak(CASE h > Full -> "overfilled" [] h <= 0 /\ ~body.dead -> "erased"
            [] h > 0 /\ body.dead -> "raised" [] OTHER -> "unsent",
          Shown(body') # screen.vitals \/ body'.dead # body.dead)
  /\ UNCHANGED <<now, place, effects, attr, gear, todo, calls, screen, lives, asked>>
----------------------------------------------------------------------------
(* Commands, from a packet, the console or a callback.                      *)

Command == Commanding /\ Spend("commands")

\* /kill, /damage.
DamageCommand(amount, src) ==
  /\ Command /\ calls' = Struck(amount, src)
  /\ UNCHANGED <<now, place, body, effects, attr, gear, todo, screen, lives, asked, leaks>>

GamemodeCommand(m) ==
  /\ Command /\ body.mode # m
  /\ body' = [body EXCEPT !.mode = m]
  /\ UNCHANGED <<now, place, effects, attr, gear, todo, calls, screen, lives, asked, leaks>>

\* One effect of a type at a time.
Stored(es, e) == Append(SelectSeq(es, LAMBDA x : x.type # e.type), e)
\* /effect give: the level is kept in a byte, the client is told the number
\* that was asked for.
EffectCommand(type, amp, length) ==
  /\ Command
  /\ effects' = Stored(effects, [type |-> type, amp |-> Int8(amp), left |-> length])
  /\ screen' = [screen EXCEPT !.effects = {t \in @ : t[1] # type} \cup {<<type, amp>>}]
  /\ Leak("wrapped", amp > 127)
  /\ UNCHANGED <<now, place, body, attr, gear, todo, calls, lives, asked>>

AttributeBaseCommand(a, v) ==
  /\ Command
  /\ attr' = SetBase(attr, a, v)
  /\ screen' = [screen EXCEPT !.attr = attr']
  /\ UNCHANGED <<now, place, body, effects, gear, todo, calls, lives, asked, leaks>>

\* reset takes the base of a new player.
AttributeResetCommand(a) == AttributeBaseCommand(a, Defaults[a])

ModifierAddCommand(a, m) ==
  /\ Command
  /\ attr' = AddModifier(attr, a, m)
  /\ screen' = [screen EXCEPT !.attr = attr']
  /\ asked' = {r \in asked : <<r.a, r.m.id>> # <<a, m.id>>} \cup {[a |-> a, m |-> m]}
  /\ UNCHANGED <<now, place, body, effects, gear, todo, calls, lives, leaks>>

ModifierRemoveCommand(a, id) ==
  /\ Command
  /\ attr' = RemoveModifier(attr, a, id)
  /\ screen' = [screen EXCEPT !.attr = attr']
  /\ asked' = {r \in asked : <<r.a, r.m.id>> # <<a, id>>}
  /\ UNCHANGED <<now, place, body, effects, gear, todo, calls, lives, leaks>>
----------------------------------------------------------------------------
(* Packets.                                                                 *)

Packet == Rest /\ Spend("packets")

Walk(p) ==
  /\ Packet /\ ~body.dead /\ p # place
  /\ place' = p
  /\ UNCHANGED <<now, body, effects, attr, gear, todo, calls, screen, lives, asked, leaks>>

\* onMovement and tickDigs: running, jumping and breaking blocks tire.
Exert ==
  /\ Packet
  /\ body' = AddExhaustion(body, 4000)
  /\ UNCHANGED <<now, place, effects, attr, gear, todo, calls, screen, lives, asked, leaks>>

\* onUseItem with food, and handleCakeBlockConsume.
Eat(food, sat) ==
  /\ Packet /\ body.food < Fed
  /\ body' = AddExhaustion(AddFood(body, food, sat), 5)
  /\ screen' = Tell(AddFood(body, food, sat))
  /\ UNCHANGED <<now, place, effects, attr, gear, todo, calls, lives, asked, leaks>>

\* The armour is put on in a menu; a shield goes to a hand and up.
Wear(kind) ==
  /\ Packet /\ gear.plate.kind # kind
  /\ gear' = [gear EXCEPT !.plate = [kind |-> kind, wear |-> 0]]
  /\ UNCHANGED <<now, place, body, effects, attr, todo, calls, screen, lives, asked, leaks>>
RaiseShield ==
  /\ Packet /\ ~body.dead /\ gear.shield # "up" /\ gear.stun = 0
  /\ gear' = [gear EXCEPT !.shield = "up"]
  /\ UNCHANGED <<now, place, body, effects, attr, todo, calls, screen, lives, asked, leaks>>

\* onSetBeaconEffect: the payment is one of the menu's; the effect is his alone.
Beacon(type, amp) ==
  /\ Packet
  /\ effects' = Stored(effects, [type |-> type, amp |-> amp, left |-> Often])
  /\ screen' = [screen EXCEPT !.effects = {t \in @ : t[1] # type} \cup {<<type, amp>>}]
  /\ UNCHANGED <<now, place, body, attr, gear, todo, calls, lives, asked, leaks>>

\* handleRespawnRequest does not ask whether he is dead.  Nothing clears the
\* effects; the client begins again without any.
Respawn ==
  /\ Packet
  /\ body' = [body EXCEPT !.dead = FALSE, !.health = Full, !.food = Fed,
                          !.sat = Least(5, Fed), !.burn = 0, !.frost = 0]
  /\ lives' = IF body.dead THEN [lives EXCEPT !.respawns = @ + 1] ELSE lives
  /\ screen' = [Tell(body') EXCEPT !.effects = {}]
  /\ Leak("kept effects", effects # <<>>)
  /\ UNCHANGED <<now, place, effects, attr, gear, todo, calls, asked>>
----------------------------------------------------------------------------
(* Attacks by a mob or a player: the shield, the blow, and thorns.          *)

Shielded(front, src) ==
  /\ "shield" \notin Bypasses(src) /\ front
  /\ gear.shield = "up" /\ gear.raised >= RaiseTicks /\ gear.stun = 0

Attack(front, axe, amount, src) ==
  /\ Packet
  /\ IF Shielded(front, src) /\ ~axe
     THEN UNCHANGED <<gear, calls, todo>>
     ELSE /\ gear' = IF Shielded(front, src)
                     THEN [gear EXCEPT !.stun = StunTicks, !.raised = 0] ELSE gear
          /\ calls' = Struck(amount, src)
          /\ todo' = <<[step |-> "thorns", before |-> body.health]>>
  /\ UNCHANGED <<now, place, body, effects, attr, screen, lives, asked, leaks>>

\* applyThornsReflection: the attacker is hurt, through a callback, without
\* the victim's lock; the piece pays when it is still the same.
Thorns ==
  /\ todo # <<>> /\ calls = <<>> /\ Head(todo).step = "thorns"
  /\ todo' = Tail(todo)
  /\ \/ UNCHANGED calls
     \/ /\ body.health < Head(todo).before /\ gear.plate.kind = "thorns"
        /\ calls' = <<[on |-> "attacker", piece |-> gear.plate]>>
  /\ UNCHANGED <<scene, now, place, body, effects, attr, gear, screen, lives, asked, leaks>>

Worn(plate) ==
  IF plate.wear + 2 > 4 THEN Bare.plate ELSE [plate EXCEPT !.wear = @ + 2]
Reflected ==
  /\ calls # <<>> /\ Head(calls).on = "attacker"
  /\ calls' = Tail(calls)
  /\ gear' = IF gear.plate = Head(calls).piece THEN [gear EXCEPT !.plate = Worn(@)] ELSE gear
  /\ UNCHANGED <<scene, now, place, body, effects, attr, todo, screen, lives, asked, leaks>>

\* A shulker's bullet: an effect that is there is made longer, and the client
\* is told of a new one.
ShulkerBullet ==
  /\ Rest /\ ~body.dead /\ "levitation" \in scene.kinds /\ Spend("packets")
  /\ LET old == LevelOf(effects, "levitation")
         here == \E e \in ToSet(effects) : e.type = "levitation"
         amp == Most(old, 0)
     IN  /\ effects' =
              IF here
              THEN [k \in DOMAIN effects |->
                     IF effects[k].type # "levitation" THEN effects[k]
                     ELSE [effects[k] EXCEPT !.amp = amp, !.left = Most(@, Often)]]
              ELSE Append(effects, [type |-> "levitation", amp |-> 0, left |-> Often])
         /\ screen' = [screen EXCEPT !.effects =
                        {t \in @ : t[1] # "levitation"} \cup {<<"levitation", 0>>}]
         /\ Leak("misnamed", amp # 0)
  /\ UNCHANGED <<now, place, body, attr, gear, todo, calls, lives, asked>>

\* A listener changes what he wears while he is being hurt.
ListenerSwaps(kind) ==
  /\ calls # <<>> /\ ~body.dead /\ gear.plate.kind # kind /\ Spend("java")
  /\ gear' = [gear EXCEPT !.plate = [kind |-> kind, wear |-> 0]]
  /\ UNCHANGED <<now, place, body, effects, attr, todo, calls, screen, lives, asked, leaks>>
----------------------------------------------------------------------------
(* A tick: survivalTick, then effectsTick.                                  *)

At(step) == calls = <<>> /\ todo # <<>> /\ Head(todo).step = step
Onto(rest) == todo' = rest
Later == Onto(Tail(todo))
Steps(names) == [k \in DOMAIN names |-> [step |-> names[k]]]
Survival == Steps(<<"hunger", "void", "drown", "freeze", "burn", "border">>)
Ending == Steps(<<"effects", "attributes">>)

\* Cooldowns run for everyone alive, the rest of survivalTick in survival only.
BeginTick ==
  /\ Rest /\ Spend("ticks")
  /\ now' = now + 1
  /\ IF body.dead THEN Onto(Ending) /\ UNCHANGED gear
     ELSE /\ Onto(IF body.mode = "survival" THEN Survival \o Ending ELSE Ending)
          /\ gear' = [gear EXCEPT !.stun = Most(0, @ - 1),
                                  !.raised = IF gear.shield = "up" /\ gear.stun <= 1
                                             THEN Least(RaiseTicks, @ + 1) ELSE 0]
  /\ UNCHANGED <<place, body, effects, attr, calls, screen, lives, asked, leaks>>

Starved == RegenAndStarve(Exhausted(body))
Hunger ==
  /\ At("hunger") /\ Later
  /\ LET dies == Starved.health = 0 /\ body.health > 0
     IN  /\ body' = IF dies THEN Killed(Starved) ELSE Starved
         /\ lives' = IF dies THEN [lives EXCEPT !.deaths = @ + 1] ELSE lives
         /\ gear' = IF dies THEN Bare ELSE gear
         /\ screen' = IF Shown(Starved) # Shown(body) THEN Tell(Starved) ELSE screen
  /\ UNCHANGED <<scene, now, place, effects, attr, calls, asked, leaks>>

Has(type) == \E e \in ToSet(effects) : e.type = type
Beat == now % Pulse = 0
HurtsIf(cond, amount, src) == calls' = IF cond THEN Struck(amount, src) ELSE calls
Nothing == <<scene, now, place, effects, attr, gear, screen, lives, asked, leaks>>

Void ==
  /\ At("void") /\ Later
  /\ HurtsIf(place = "void", 4 * Point, "fell out of the world")
  /\ UNCHANGED <<Nothing, body>>

Drown ==
  /\ At("drown") /\ Later
  /\ body' = [body EXCEPT !.air = CASE place # "water" -> Breath
                                    [] place = "water" /\ Has("water_breathing") -> Least(Breath, @ + 4)
                                    [] OTHER -> Most(0, @ - 1)]
  /\ HurtsIf(place = "water" /\ ~Has("water_breathing") /\ body'.air = 0 /\ Beat, Point, "drown")
  /\ UNCHANGED Nothing

Freeze ==
  LET cold == place = "snow" /\ gear.plate.kind # "leather"
  IN  /\ At("freeze") /\ Later
      /\ body' = [body EXCEPT !.frost = IF cold THEN Least(Chill, @ + 1) ELSE Most(0, @ - 2)]
      /\ HurtsIf(cold /\ body'.frost >= Chill /\ Beat, Point, "freeze")
      /\ UNCHANGED Nothing

Burn ==
  LET lit == IF place = "fire" /\ ~Has("fire_resistance") THEN Flames ELSE body.burn
  IN  /\ At("burn") /\ Later
      /\ body' = [body EXCEPT !.burn = IF place = "water" THEN 0 ELSE Most(0, lit - 1)]
      /\ HurtsIf(lit > 0 /\ ~Has("fire_resistance") /\ Beat, Point, "onFire")
      /\ UNCHANGED Nothing

Border ==
  /\ At("border") /\ Later
  /\ HurtsIf(place = "outside" /\ Beat, Point, "outside_border")
  /\ UNCHANGED <<Nothing, body>>

\* Whether an effect acts in this tick.  The interval is shifted right by the
\* level: undefined for levels of 32 and more and for negative ones, where
\* any outcome is possible.
Due(e, wild) ==
  IF e.amp \in 0 .. 31 THEN now % Most(1, Every[e.type] \div 2 ^ e.amp) = 0 ELSE wild

Level(e) == e.amp + 1
Instant == {"instant_health", "instant_damage"}

\* One effect of the list, on the body b, what it will suffer, and what is left.
Act(r, e, wild) ==
  LET next == [r EXCEPT !.kept = Append(@, [e EXCEPT !.left = @ - 1])]
      due == e.type \in DOMAIN Every /\ Due(e, wild)
  IN  CASE e.type = "instant_health" ->
             [r EXCEPT !.b.health = Least(Full, @ + 4 * Point * Level(e)), !.healed = TRUE]
        [] e.type = "instant_damage" -> [r EXCEPT !.magic = @ + 6 * Point * Level(e)]
        [] e.type \notin Instant /\ e.left <= 1 -> [r EXCEPT !.gone = @ \cup {e.type}]
        [] e.left > 1 /\ e.type = "regeneration" /\ due ->
             [next EXCEPT !.b.health = Least(Full, @ + Point), !.healed = TRUE]
        [] e.left > 1 /\ e.type = "poison" /\ due /\ r.b.health > Point ->
             [next EXCEPT !.poison = @ + Point]
        [] e.left > 1 /\ e.type = "wither" /\ due -> [next EXCEPT !.wither = @ + Point]
        [] e.left > 1 /\ e.type = "saturation" /\ due ->
             [next EXCEPT !.b = AddFood(@, 1, Level(e)), !.fed = TRUE]
        [] e.left > 1 /\ e.type = "hunger" -> [next EXCEPT !.b = AddExhaustion(@, 5 * Level(e))]
        [] OTHER -> next

Before == [b |-> body, kept |-> <<>>, magic |-> 0, poison |-> 0, wither |-> 0,
           gone |-> {}, healed |-> FALSE, fed |-> FALSE]

\* Everyone in play, the dead included.  What hurts is dealt afterwards,
\* without the player's lock.
Effects ==
  /\ At("effects")
  /\ \E wild \in BOOLEAN :
       LET r == FoldLeft(LAMBDA x, e : Act(x, e, wild), Before, effects)
           hurt(amount, src) ==
             IF amount > 0 THEN <<[step |-> "hurt", amount |-> amount, src |-> src]>> ELSE <<>>
       IN  /\ effects' = r.kept /\ body' = r.b
           /\ screen' = IF r.fed THEN Tell(r.b) ELSE screen
           /\ Onto(hurt(r.magic, "magic") \o hurt(r.poison, "poison") \o hurt(r.wither, "wither")
                   \o <<[step |-> "tell", gone |-> r.gone, healed |-> r.healed]>> \o Tail(todo))
           /\ Leak("revived", body.dead /\ r.b.health > 0)
  /\ UNCHANGED <<scene, now, place, attr, gear, calls, lives, asked>>

HurtStep ==
  /\ At("hurt") /\ Later
  /\ calls' = Struck(Head(todo).amount, Head(todo).src)
  /\ UNCHANGED <<Nothing, body>>

\* The health, and the effects that are over; the instant ones are not told.
TellStep ==
  /\ At("tell") /\ Later
  /\ screen' = [(IF Head(todo).healed THEN Tell(body) ELSE screen)
                EXCEPT !.effects = {t \in @ : t[1] \notin Head(todo).gone}]
  /\ UNCHANGED <<scene, now, place, body, effects, attr, gear, calls, lives, asked, leaks>>

\* The modifiers of the effects are made anew in every tick; the client hears
\* of them now and then, and only while something is out of the ordinary.
Unusual(t) == \E a \in Attributes : Computed(t[a]) # Defaults[a]
AttributeStep ==
  /\ At("attributes") /\ Later
  /\ attr' = ApplyEffects(attr, effects)
  /\ LET told == now % Often = 0 /\ (effects # <<>> \/ Unusual(attr'))
     IN  /\ screen' = IF told THEN [screen EXCEPT !.attr = attr'] ELSE screen
         /\ Leak("faded", ~told /\ now % Often = 0 /\ screen.attr # attr')
  /\ UNCHANGED <<scene, now, place, body, effects, gear, calls, lives, asked>>
----------------------------------------------------------------------------
Newcomer == [health |-> Full, food |-> Fed, sat |-> Least(5, Fed), dead |-> FALSE,
             mode |-> "survival", tired |-> 0, timer |-> 0, air |-> Breath,
             frost |-> 0, burn |-> 0]

Init ==
  /\ scene \in Scenes
  /\ now = 0 /\ place = "air" /\ body = Newcomer
  /\ effects = <<>> /\ attr = Natural /\ gear = Bare
  /\ todo = <<>> /\ calls = <<>>
  /\ screen = [vitals |-> Shown(Newcomer), effects |-> {}, attr |-> Natural]
  /\ lives = [deaths |-> 0, respawns |-> 0] /\ asked = {} /\ leaks = {}

Commands ==
  \/ \E src \in scene.blows : DamageCommand(src.amount, src.src)
  \/ \E m \in {"survival", "creative"} : "mode" \in scene.verbs /\ GamemodeCommand(m)
  \/ \E type \in scene.kinds : \E amp \in Amps : \E length \in {1, Often + 1} :
       EffectCommand(type, amp, length)
  \/ /\ "attribute" \in scene.verbs
     /\ \E a \in {"speed", "armor"} :
          \/ AttributeBaseCommand(a, 20) \/ AttributeResetCommand(a)
          \/ \E id \in {"mine", "effect_speed"} :
               \/ \E op \in 0 .. 2 : ModifierAddCommand(a, [id |-> id, amount |-> 50, op |-> op])
               \/ ModifierRemoveCommand(a, id)

Packets ==
  \/ \E p \in scene.places : Walk(p)
  \/ "eat" \in scene.verbs /\ (Exert \/ Eat(2, 1))
  \/ \E kind \in scene.wear : Wear(kind)
  \/ "fight" \in scene.verbs /\ (RaiseShield \/ \E axe, front \in BOOLEAN : Attack(front, axe, 5 * Point, "mob"))
  \/ "beacon" \in scene.verbs /\ \E type \in scene.kinds : \E amp \in {0, 1} : Beacon(type, amp)
  \/ Respawn \/ ShulkerBullet

Java ==
  \/ Allow \/ Deny \/ Reflected
  \/ \E h \in {0, Point, 2 * Full} : JavaSetsHealth(h)
  \/ \E kind \in scene.wear : ListenerSwaps(kind)

Tick ==
  \/ BeginTick \/ Hunger \/ Void \/ Drown \/ Freeze \/ Burn \/ Border
  \/ Effects \/ HurtStep \/ TellStep \/ AttributeStep \/ Thorns

\* Bound: nothing is explored past the first leak but that of a level that
\* does not fit its byte.
Next == leaks \subseteq {"wrapped"} /\ (Commands \/ Packets \/ Java \/ Tick)

Spec == Init /\ [][Next]_vars
----------------------------------------------------------------------------
\* The dead have no health and the living have some, nobody more than full:
\* but for effects that heal the dead, for healing of a negative level, and
\* for what Java sets.
LifeIsHealth ==
  /\ leaks = {} => /\ body.dead <=> body.health <= 0
                   /\ body.health <= Full
  /\ body.dead => body.health <= 0 \/ leaks # {}

\* The saturation never exceeds the food, nor the food what is full.
FoodBounded == 0 <= body.sat /\ body.sat <= body.food /\ body.food <= Fed

\* One death per life, however blows, callbacks and starving interleave.
OneDeathPerLife ==
  leaks \subseteq {"wrapped"} =>
    lives.deaths - lives.respawns = IF body.dead THEN 1 ELSE 0

\* At rest the client has been told the health and food there are, and the
\* lasting effects there are, at their levels.
ClientUpToDate ==
  Rest /\ leaks = {} =>
    /\ screen.vitals = Shown(body)
    /\ {t \in screen.effects : t[1] \notin Instant} = {t \in Levels(effects) : t[1] \notin Instant}

\* Modifiers of commands last, unless they bear the name of an effect's; the
\* client's attributes are right again with every periodic update, except
\* after the last unusual thing ended.
AttributesLast ==
  /\ \A r \in asked : \/ \E k \in DOMAIN attr[r.a].mods : attr[r.a].mods[k] = r.m
                      \/ <<r.a, r.m.id>> \in EffectModifiers
  /\ Rest /\ now > 0 /\ now % Often = 0 /\ leaks = {} => screen.attr = attr

\* Armour without thorns is never worn by thorns.
ThornsPay == gear.plate.kind # "thorns" => gear.plate.wear = 0

\* In a mode that cannot be hurt, nothing takes health.
SafeModesHold ==
  body.mode \in {"creative", "spectator"} /\ body'.health < body.health
    => "wrapped" \in leaks \/ scene.left.java # scene'.left.java

VitalsInvariant ==
  LifeIsHealth /\ FoodBounded /\ OneDeathPerLife /\ ClientUpToDate
  /\ AttributesLast /\ ThornsPay
=============================================================================

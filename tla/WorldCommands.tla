---------------------------- MODULE WorldCommands ----------------------------
(***************************************************************************)
(* The commands that change the world: /setblock, /fill, /clone and        *)
(* /place, and the settings of the server (/time, /weather, /worldborder,  *)
(* /difficulty, /gamerule, /forceload, /setworldspawn) with what the       *)
(* clients are told of them, the tick that carries them on and the         *)
(* level.dat that keeps them over a restart; and the searches of /locate.  *)
(*                                                                         *)
(* Blocks are a row of cells in chunks that may not be loaded; a cell      *)
(* beyond the row is one beyond the height of the world.  A scene says     *)
(* which of the three a behaviour is about.  leaks names the known ways    *)
(* in which a command does not do what it says; nothing is explored past   *)
(* the first.                                                              *)
(***************************************************************************)
EXTENDS Integers, Sequences, FiniteSets
LOCAL INSTANCE SequencesExt

CONSTANTS
    Scenes,     \* [about, row, loaded, chests, lerp, home, bed, kinds, near, commands]
    ChunkWidth, \* cells of a chunk
    Every,      \* ticks between two looks at what clients must be told
    MaxTicks, MaxSessions,  \* bounds of a run: ticks, joins and respawns
    Times, Sizes, Widest, Durations, Difficulties, Points

VARIABLES
    scene,
    cell, loaded, inside,   \* the blocks, the chunks in memory, the block entities with items
    wanted,                 \* ghost: the blocks that the last command describes
    now, server, mirror,    \* the tick, the settings in use, Persistence's copy of the border
    where, view,            \* per player: the dimension he is in, the settings his client knows
    asked, promise, silent, \* ghosts: the last settings asked for, a weather promised,
                            \* a new time of day not yet sent
    answer,                 \* what a search found
    leaks, left

blocks == <<cell, loaded, inside, wanted>>
settings == <<now, server, mirror, where, view, asked, promise, silent>>
vars == <<scene, blocks, settings, answer, leaks, left>>

Overworld == 0
Bed == -5   \* the point that a bed or /spawnpoint gave, instead of a world's
Dimensions == {Overworld, -1}
Players == DOMAIN scene.home
Off == 9
Default == Widest
WorldCommandsConstants == ChunkWidth \in Nat \ {0} /\ Every \in Nat \ {0} /\ Sizes \subseteq Nat

\* A border at rest, and what it will come to.
Still(size) == [size |-> size, from |-> size, to |-> size, rem |-> 0, total |-> 0]
Lerping(size, to, rem) == [size |-> size, from |-> size, to |-> to, rem |-> rem, total |-> rem]
Goal(b) == IF b.rem > 0 THEN b.to ELSE b.size

Unset == [time |-> 0, rain |-> FALSE, border |-> Default, difficulty |-> "normal", spawn |-> 0]

Init ==
    /\ scene \in Scenes
    /\ cell = scene.row /\ loaded = scene.loaded /\ inside = scene.chests /\ wanted = scene.row
    /\ now = 0
    /\ mirror = IF scene.lerp = <<>> THEN Still(Default) ELSE Lerping(scene.lerp[1], scene.lerp[2], scene.lerp[3])
    /\ server = [time |-> 0, cycle |-> TRUE, rain |-> FALSE, until |-> MaxTicks, border |-> mirror,
                 difficulty |-> "normal", spawn |-> [d \in Dimensions |-> 0],
                 forced |-> [d \in Dimensions |-> FALSE]]
    /\ asked = [border |-> Goal(mirror), difficulty |-> "normal", cycle |-> TRUE,
                spawn |-> [d \in Dimensions |-> 0], forced |-> [d \in Dimensions |-> FALSE]]
    /\ promise = [rain |-> FALSE, end |-> 0] /\ silent = FALSE
    /\ where = [p \in Players |-> Off] /\ view = [p \in Players |-> Unset]
    /\ answer = [reach |-> 0, at |-> {}] /\ leaks = {}
    /\ left = [commands |-> scene.commands, sessions |-> MaxSessions]

Known == leaks = {}
Command(kind) ==
    /\ Known /\ kind \in scene.kinds /\ left.commands > 0
    /\ left' = [left EXCEPT !.commands = @ - 1]
    /\ UNCHANGED scene
Leaks(named) == leaks' = {l \in DOMAIN named : named[l]}

-----------------------------------------------------------------------------
(* Blocks *)

World == DOMAIN cell
Places == 0 .. (Len(cell) + 1)
ChunkOf(c) == (c - 1) \div ChunkWidth
Held(c) == c \in World /\ ChunkOf(c) \in loaded

\* World::getBlock reads air from a chunk that is not in memory, and beyond
\* the height; World::setBlock loads or generates the chunk.
GetBlock(c) == IF Held(c) THEN cell[c] ELSE "air"
SetBlock(c, b, row) == IF c \in World THEN [row EXCEPT ![c] = b] ELSE row

\* Writes in the order of a command.
Write(writes, row) == FoldLeft(LAMBDA r, w : SetBlock(w.at, w.b, r), row, writes)

Puts(writes) ==
    LET at == {writes[i].at : i \in DOMAIN writes} \cap World
    IN  /\ cell' = Write(writes, cell)
        /\ loaded' = loaded \cup {ChunkOf(c) : c \in at}
        /\ UNCHANGED <<inside, settings, answer>>

\* A chest with items that is overwritten leaves its block entity behind.
Ghost(row) == \E c \in inside : row[c] # "chest"

Set(c, b) == [at |-> c, b |-> b]
Lit(b, cells) == [c \in World |-> IF c \in cells THEN b ELSE cell[c]]

DoSetBlock(c, b) ==
    /\ Command("setblock")
    /\ Puts(<<Set(c, b)>>)
    /\ wanted' = Lit(b, {c})
    /\ Leaks([ghost |-> Ghost(cell')])

DoFill(lo, hi, b) ==
    /\ Command("fill")
    /\ Puts([i \in 1 .. (hi - lo + 1) |-> Set(lo + i - 1, b)])
    /\ wanted' = Lit(b, lo .. hi)
    /\ Leaks([ghost |-> Ghost(cell')])

\* /place: an ore put without a position is two blocks, with one it is one; a
\* tree, its trunk before its leaves; a structure, floor and walls.
Feature(what, at, here) ==
    CASE what = "ore" -> IF here THEN <<Set(at, "ore"), Set(at + 1, "ore")>> ELSE <<Set(at, "ore")>>
      [] what = "tree" -> <<Set(at, "log"), Set(at + 1, "log"), Set(at + 2, "leaves")>>
      [] what = "stone" -> <<Set(at, "stone")>>
      [] what = "hut" -> <<Set(at, "stone"), Set(at + 1, "stone"), Set(at + 2, "spawner")>>
DoPlace(what, at, here) ==
    LET writes == Feature(what, at, here)
    IN  /\ Command("place")
        /\ Puts(writes)
        /\ wanted' = [c \in World |-> IF \E i \in DOMAIN writes : writes[i].at = c
                                      THEN writes[CHOOSE i \in DOMAIN writes : writes[i].at = c].b
                                      ELSE cell[c]]
        /\ Leaks([ghost |-> Ghost(cell')])

\* /clone: what the mode takes is copied aside, then written in order to the
\* target, and for a move blanked at its source, after the copy was written.
Taken(mode, c) ==
    CASE mode = "replace" -> TRUE
      [] mode = "masked" -> GetBlock(c) # "air"
      [] mode = "filtered" -> GetBlock(c) = "stone"
DoClone(lo, hi, dst, mode, move) ==
    LET shift == dst - lo
        taken == SelectSeq([i \in 1 .. (hi - lo + 1) |-> lo + i - 1], LAMBDA c : Taken(mode, c))
        copies == [i \in DOMAIN taken |-> Set(taken[i] + shift, GetBlock(taken[i]))]
        blanks == [i \in DOMAIN taken |-> Set(taken[i], "air")]
        \* what is meant, as one step: every block as it is now, kept or moved
        meant == {c \in (lo .. hi) \cap World :
                    CASE mode = "replace" -> TRUE
                      [] mode = "masked" -> cell[c] # "air"
                      [] mode = "filtered" -> cell[c] = "stone"}
    IN  /\ Command("clone")
        /\ Puts(IF move THEN copies \o blanks ELSE copies)
        /\ wanted' = [c \in World |-> IF (c - shift) \in meant THEN cell[c - shift]
                                      ELSE IF move /\ c \in meant THEN "air" ELSE cell[c]]
        /\ Leaks([ghost |-> Ghost(cell'),
                  unread |-> \E c \in lo .. hi : c \in World /\ ~Held(c),
                  beyond |-> mode = "replace" /\ ~(lo .. hi) \subseteq World,
                  blanked |-> move /\ \E c \in meant : (c + shift) \in meant,
                  outOfHeight |-> move /\ \E c \in meant : (c + shift) \notin World])

-----------------------------------------------------------------------------
(* Settings *)

Online == {p \in Players : where[p] # Off}
Tell(who, part, value) ==
    [p \in Players |-> IF p \in who THEN [view[p] EXCEPT ![part] = value] ELSE view[p]]
In(d) == {p \in Online : where[p] = d}

Sets(new) == server' = new /\ UNCHANGED <<blocks, now, where, answer>>
Same == UNCHANGED <<mirror, promise>>

\* /time set says nothing to the clients, /time add tells them at once.
SetTime(t) ==
    /\ Command("time")
    /\ Sets([server EXCEPT !.time = t])
    /\ silent' = TRUE
    /\ Same /\ UNCHANGED <<view, asked, leaks>>
AddTime(t) ==
    /\ Command("time")
    /\ Sets([server EXCEPT !.time = @ + t])
    /\ view' = Tell(Online, "time", server.time + t)
    /\ silent' = FALSE
    /\ Same /\ UNCHANGED <<asked, leaks>>

\* setWeather: the weather that is already on stays as it is, its end too; only
\* players in the overworld are told.
Weather(s, rain, end) == IF s.rain = rain THEN s ELSE [s EXCEPT !.rain = rain, !.until = end]
ToldRain(rain) == IF server.rain = rain THEN view ELSE Tell(In(Overworld), "rain", rain)
SetWeather(rain, d) ==
    /\ Command("weather")
    /\ Sets(Weather(server, rain, now + d))
    /\ view' = ToldRain(rain)
    /\ promise' = [rain |-> rain, end |-> now + d]
    /\ Leaks([notExtended |-> server.rain = rain /\ server.until < now + d])
    /\ UNCHANGED <<mirror, asked, silent>>

\* broadcastWorldBorder: every player is told where the border is going to, and
\* Persistence takes the border over.
Mirrored(b) == IF b.rem > 0 THEN Lerping(b.size, b.to, b.rem) ELSE Still(b.size)
ToldBorder(b) == Tell(Online, "border", Goal(b))

\* /worldborder set and add change the size and leave a movement of the border
\* that is under way, which will overrule them; center changes neither.
SetBorder(size) ==
    LET border == [server.border EXCEPT !.size = size]
    IN  /\ Command("border")
        /\ Sets([server EXCEPT !.border = border])
        /\ mirror' = Mirrored(border)
        /\ view' = ToldBorder(border)
        /\ asked' = [asked EXCEPT !.border = size]
        /\ Leaks([overruled |-> border.rem > 0])
        /\ UNCHANGED <<promise, silent>>
Clamped(n) == IF n < 1 THEN 1 ELSE IF n > Widest THEN Widest ELSE n
AddBorder(n) == SetBorder(Clamped(server.border.size + n))

SetDifficulty(d) ==
    /\ Command("difficulty")
    /\ Sets([server EXCEPT !.difficulty = d])
    /\ view' = Tell(Online, "difficulty", d)
    /\ asked' = [asked EXCEPT !.difficulty = d]
    /\ Same /\ UNCHANGED <<silent, leaks>>

\* /gamerule doDaylightCycle: no more than whether clients are sent the time.
SetRule(on) ==
    /\ Command("gamerule")
    /\ Sets([server EXCEPT !.cycle = on])
    /\ asked' = [asked EXCEPT !.cycle = on]
    /\ Same /\ UNCHANGED <<view, silent, leaks>>

\* /forceload add, remove and remove all, for the dimension of the command.
ForceLoad(d, on) ==
    /\ Command("forceload")
    /\ server.forced[d] # on
    /\ Sets([server EXCEPT !.forced[d] = on])
    /\ asked' = [asked EXCEPT !.forced[d] = on]
    /\ Same /\ UNCHANGED <<view, silent, leaks>>

TellSpawn(d, point) == Tell(In(d), "spawn", point)
SetWorldSpawn(d, point) ==
    /\ Command("spawn")
    /\ Sets([server EXCEPT !.spawn[d] = point])
    /\ view' = TellSpawn(d, point)
    /\ asked' = [asked EXCEPT !.spawn[d] = point]
    /\ Same /\ UNCHANGED <<silent, leaks>>

\* tickWorldBorder, of the server and of Persistence.
Moved(b) ==
    IF b.rem = 0 THEN b
    ELSE IF b.rem = 1 THEN [b EXCEPT !.rem = 0, !.size = b.to]
    ELSE [b EXCEPT !.rem = b.rem - 1,
                   !.size = b.from + ((b.to - b.from) * (b.total - b.rem + 1)) \div b.total]

\* A tick: the time is sent now and then unless the day is said to stand still;
\* the border moves, and is told of now and then; the weather turns.
Tick ==
    LET n == now + 1
        sync == n % Every = 0
        border == Moved(server.border)
        moving == server.border.rem > 0 \/ mirror.rem > 0
        turns == n >= server.until
        s == [server EXCEPT !.border = border]
        timed == IF sync /\ server.cycle THEN Tell(Online, "time", server.time) ELSE view
        bordered == [p \in Players |-> IF moving /\ sync /\ p \in Online
                                       THEN [timed[p] EXCEPT !.border = Goal(border)] ELSE timed[p]]
        rain == IF turns THEN ~server.rain ELSE server.rain
    IN  /\ Known /\ scene.about = "settings" /\ now < MaxTicks
        /\ now' = n
        /\ server' = Weather(s, rain, n + MaxTicks)
        /\ mirror' = IF moving /\ sync THEN Mirrored(border) ELSE Moved(mirror)
        /\ view' = [p \in Players |-> IF turns /\ where[p] = Overworld
                                      THEN [bordered[p] EXCEPT !.rain = rain] ELSE bordered[p]]
        /\ silent' = IF sync /\ server.cycle THEN FALSE ELSE silent
        /\ Leaks([neverTold |-> sync /\ ~server.cycle /\ silent
                                /\ \E p \in Online : view[p].time # server.time])
        /\ UNCHANGED <<scene, blocks, where, asked, promise, answer, left>>

Session ==
    /\ Known /\ left.sessions > 0
    /\ left' = [left EXCEPT !.sessions = @ - 1]
    /\ silent' = TRUE
    /\ UNCHANGED <<scene, blocks, now, server, mirror, asked, promise, answer>>

\* A session begins in the dimension of the player's data: it is sent the
\* difficulty, the border and the spawn point of that world, but neither the
\* weather nor, before the next tick that does, the time.
Join(p) ==
    LET d == scene.home[p]
    IN  /\ Session /\ where[p] = Off
        /\ where' = [where EXCEPT ![p] = d]
        /\ view' = [view EXCEPT ![p] = [Unset EXCEPT !.difficulty = server.difficulty,
                       !.border = Goal(server.border), !.spawn = server.spawn[d]]]
        /\ Leaks([rainUntold |-> server.rain /\ d = Overworld])

\* Respawning in another dimension makes the client begin a new world there: it
\* is sent a spawn point, but neither the weather nor the border.
Respawn(p) ==
    LET own == scene.bed[p] # <<>>
        d == IF own THEN scene.bed[p][1] ELSE Overworld
    IN  /\ Session /\ p \in Online
        /\ where' = [where EXCEPT ![p] = d]
        /\ view' = [view EXCEPT ![p].spawn = IF own THEN Bed ELSE server.spawn[d],
                                ![p].time = IF d = where[p] THEN @ ELSE 0,
                                ![p].rain = IF d = where[p] THEN @ ELSE FALSE,
                                ![p].border = IF d = where[p] THEN @ ELSE Default]
        /\ Leaks([rainUntold |-> d # where[p] /\ server.rain /\ d = Overworld,
                  borderUntold |-> d # where[p] /\ Goal(server.border) # Default])

\* A stop saves level.dat, a start reads it: the settings of the other
\* dimensions are not in it, and the difficulty is that of server.properties.
Restart ==
    /\ Known /\ "restart" \in scene.kinds /\ left.sessions > 0
    /\ left' = [left EXCEPT !.sessions = 0]
    /\ server' = [server EXCEPT !.border = Lerping(mirror.size, mirror.to, mirror.rem),
                    !.difficulty = "normal",
                    !.spawn = [d \in Dimensions |-> IF d = Overworld THEN @[d] ELSE 0],
                    !.forced = [d \in Dimensions |-> d = Overworld /\ @[d]]]
    /\ mirror' = server'.border
    /\ where' = [p \in Players |-> Off]
    /\ Leaks([forgotten |-> \/ server.difficulty # "normal"
                            \/ \E d \in Dimensions \ {Overworld} : server.spawn[d] # 0 \/ server.forced[d]])
    /\ UNCHANGED <<scene, blocks, now, view, asked, promise, silent, answer>>

-----------------------------------------------------------------------------
(* /locate *)

Abs(n) == IF n < 0 THEN -n ELSE n
Nearness(p) == Abs(p[1]) + Abs(p[2])
Ring(p) == IF Abs(p[1]) > Abs(p[2]) THEN Abs(p[1]) ELSE Abs(p[2])
Within(reach) == {p \in scene.near : Ring(p) <= reach}
Before(p, q) ==
    \/ Ring(p) < Ring(q)
    \/ Ring(p) = Ring(q) /\ (p[1] < q[1] \/ (p[1] = q[1] /\ p[2] < q[2]))

\* A biome is searched ring by ring, each from its corner: the first found is
\* the answer.
LocateBiome(reach) ==
    /\ Command("biome")
    /\ answer' = [reach |-> reach,
         at |-> {p \in Within(reach) : \A q \in Within(reach) \ {p} : Before(p, q)}]
    /\ Leaks([notNearest |-> \E p \in answer'.at, q \in Within(reach) : Nearness(q) < Nearness(p)])
    /\ UNCHANGED <<blocks, settings>>

\* Of a structure all candidates in reach are compared, the first of the
\* nearest is the answer.
LocateStructure(reach) ==
    /\ Command("structure")
    /\ \E p \in SUBSET Within(reach) :
         /\ Cardinality(p) = IF Within(reach) = {} THEN 0 ELSE 1
         /\ \A n \in p, q \in Within(reach) : Nearness(n) <= Nearness(q)
         /\ answer' = [reach |-> reach, at |-> p]
    /\ UNCHANGED <<blocks, settings, leaks>>

-----------------------------------------------------------------------------

Next ==
    \/ \E c \in Places, b \in {"air", "stone", "chest"} : DoSetBlock(c, b)
    \/ \E lo, hi \in Places : lo <= hi /\ DoFill(lo, hi, "stone")
    \/ \E what \in {"ore", "tree", "stone", "hut"}, c \in Places, here \in BOOLEAN :
         DoPlace(what, c, here)
    \/ \E lo, hi, dst \in Places, mode \in {"replace", "masked", "filtered"}, move \in BOOLEAN :
         lo <= hi /\ DoClone(lo, hi, dst, mode, move)
    \/ \E t \in Times : SetTime(t) \/ AddTime(t)
    \/ \E rain \in BOOLEAN, d \in Durations : SetWeather(rain, d)
    \/ \E size \in Sizes : SetBorder(size) \/ AddBorder(size) \/ AddBorder(-size)
    \/ \E d \in Difficulties : SetDifficulty(d)
    \/ \E on \in BOOLEAN : SetRule(on) \/ \E d \in Dimensions : ForceLoad(d, on)
    \/ \E d \in Dimensions, point \in Points : SetWorldSpawn(d, point)
    \/ Tick \/ Restart
    \/ \E p \in Players : Join(p) \/ Respawn(p)
    \/ \E reach \in 1 .. 2 : LocateBiome(reach) \/ LocateStructure(reach)

-----------------------------------------------------------------------------

\* Blocks are where the command says, whatever the ranges of a copy overlap and
\* although they are written one by one; the named exceptions are blocks read
\* from a chunk that is not loaded, air copied from beyond the world, a move
\* that blanks what it has just written or drops what is out of height, and
\* contents that outlive their chest.
BlocksAsDescribed == leaks = {} => cell = wanted /\ \A c \in inside : cell[c] = "chest"

\* The settings in use are the last ones asked for, and Persistence agrees on
\* the border; but for a border on the move, which overrules, and what a
\* restart forgets.
Obeyed ==
    leaks = {} =>
      /\ Goal(server.border) = asked.border /\ Goal(mirror) = asked.border
      /\ mirror.size = server.border.size
      /\ server.difficulty = asked.difficulty /\ server.cycle = asked.cycle
      /\ server.spawn = asked.spawn /\ server.forced = asked.forced

\* A weather lasts as long as was asked for, unless it was on already.
WeatherLasts == leaks = {} /\ now < promise.end => server.rain = promise.rain

\* Every client knows the settings of the server, but for a time not sent yet
\* and for weather and border after a join or a change of dimension.
ClientsKnow ==
    leaks = {} => \A p \in Online :
      /\ view[p].time = server.time \/ silent
      /\ view[p].border = Goal(server.border)
      /\ view[p].difficulty = server.difficulty
      /\ where[p] = Overworld => view[p].rain = server.rain
      /\ view[p].spawn \in {server.spawn[where[p]], Bed}

\* A search answers with one of the places in reach whenever there is one, the
\* nearest but for a biome in the corner of its ring.
Located ==
    leaks = {} =>
      /\ answer.at = {} <=> Within(answer.reach) = {}
      /\ \A p \in answer.at, q \in Within(answer.reach) : Nearness(p) <= Nearness(q)

WorldAsCommanded == BlocksAsDescribed /\ Obeyed /\ WeatherLasts /\ ClientsKnow /\ Located
=============================================================================

------------------------------- MODULE Boards -------------------------------
(***************************************************************************)
(* The boards every player sees: the scoreboard with its sidebar, the      *)
(* teams and the boss bars (Scoreboard.hpp, Teams.hpp, BossAI.cpp,         *)
(* commands_scoreboard.cpp).  The server keeps one copy and tells every    *)
(* client of each change; a client that comes in is told of the bars only. *)
(* Commands are executed one at a time (CommandIngress), so an order and   *)
(* the packets it causes are one step; packets stay in order (Connection). *)
(* The end of a session takes no part in that: what it resets, it resets   *)
(* and tells in steps of its own, between and within orders.               *)
(*                                                                         *)
(* Scores are small numbers; that they wrap is left out, as are display    *)
(* names, colours and the list commands.                                   *)
(***************************************************************************)
EXTENDS Integers, FiniteSets

CONSTANTS
    Players,     \* also the holders of scores and the members of teams
    Objectives,  \* their names, in use or not
    TeamNames,
    BarIds,      \* of command bars and of bosses
    Bosses,      \* those bars that belong to a boss
    MaxScore,    \* bound: scores reached by counting
    MaxOrders,   \* bound: changes to the boards
    None         \* no objective in the sidebar

BoardsConstants ==
  /\ Bosses \subseteq BarIds /\ MaxScore \in Nat \ {0} /\ MaxOrders \in Nat
  /\ None \notin Objectives \cup TeamNames /\ Objectives \cap TeamNames = {}

VARIABLES
    online,      \* the players in play
    board,       \* the server's copy
    view,        \* that of each client
    enabled,     \* Player::enabledTriggerObjectives
    missed,      \* history: what was there before a client came, by client
    orphans,     \* history: scores kept under the name of no objective
    torn,        \* history: players who were put into a second team
    cleanup,     \* how far the end of a session is, by the name of its player
    crossed,     \* history: scores whose packet crossed the reset of such an end
    orders

boardVars == <<online, board, view, enabled, missed, orphans, torn, cleanup, crossed, orders>>

Values == -1 .. MaxScore          \* -1: no score, no bar
Absent == "absent"
Formats == {"plain", "blank"}

\* The server's teams are sets of members, a client knows the team of each.
NoScores == [h \in Players |-> -1]
Blind == [objs |-> [o \in Objectives |-> Absent], scores |-> [o \in Objectives |-> NoScores],
          bars |-> [b \in BarIds |-> -1], side |-> None, teams |-> {},
          teamOf |-> [h \in Players |-> None]]
Empty == [objs |-> Blind.objs, scores |-> Blind.scores, bars |-> Blind.bars, triggers |-> {},
          side |-> [on |-> FALSE, of |-> None], teams |-> {},
          members |-> [t \in TeamNames |-> {}]]

TypeOK ==
  /\ online \subseteq Players
  /\ \A o \in Objectives : board.objs[o] \in Formats \cup {Absent}
  /\ \A o \in Objectives, h \in Players : board.scores[o][h] \in Values
  /\ board.triggers \subseteq Objectives /\ torn \subseteq Players
  /\ \A t \in TeamNames : board.members[t] \subseteq Players
  /\ orphans \subseteq Objectives \X Players /\ crossed \subseteq Objectives \X Players
  /\ cleanup \in [Players -> {"none", "left", "reset"}]

Init ==
  /\ online = {} /\ enabled = [p \in Players |-> {}]
  /\ board = Empty
  /\ view = [p \in Players |-> Blind] /\ missed = [p \in Players |-> {}]
  /\ orphans = {} /\ torn = {} /\ crossed = {} /\ orders = 0
  /\ cleanup = [p \in Players |-> "none"]
---------------------------------------------------------------------------
(* What a client makes of the packets.                                     *)

\* broadcastPacketExcept(nullptr, ...): to all that are in play.
Tell(Change(_)) == view' = [p \in Players |-> IF p \in online THEN Change(view[p]) ELSE view[p]]

AddedObjective(v, o, f) ==
  [v EXCEPT !.objs[o] = f, !.scores[o] = IF v.objs[o] = Absent THEN NoScores ELSE @]
ChangedObjective(v, o, f) == IF v.objs[o] = Absent THEN v ELSE [v EXCEPT !.objs[o] = f]
RemovedObjective(v, o) ==
  [v EXCEPT !.objs[o] = Absent, !.scores[o] = NoScores, !.side = IF @ = o THEN None ELSE @]
\* A score of an objective the client does not know is ignored.
Score(v, o, h, x) == IF v.objs[o] = Absent THEN v ELSE [v EXCEPT !.scores[o][h] = x]
ResetHolder(v, h) == [v EXCEPT !.scores = [o \in Objectives |-> [v.scores[o] EXCEPT ![h] = -1]]]

\* writeDisplayPacket: with nothing to display it clears slot 0, which is the
\* player list, and not slot 1, the sidebar.
Display(v, s) ==
  IF ~s.on THEN v ELSE [v EXCEPT !.side = IF v.objs[s.of] = Absent THEN None ELSE s.of]

\* A client moves a player who joins a second team.
CreatedTeam(v, t) == [v EXCEPT !.teams = @ \cup {t}]
Left(v, t, H) == [v EXCEPT !.teamOf = [h \in Players |-> IF h \in H /\ @[h] = t THEN None ELSE @[h]]]
RemovedTeam(v, t) == [Left(v, t, Players) EXCEPT !.teams = @ \ {t}]
Joined(v, t, H) ==
  IF t \notin v.teams THEN v
  ELSE [v EXCEPT !.teamOf = [h \in Players |-> IF h \in H THEN t ELSE @[h]]]
---------------------------------------------------------------------------
(* Players come and go.                                                    *)

\* onEnterPlay: a new Player, who may pull no trigger, and a new client, who is
\* sent the bars.
Join(p) ==
  /\ p \notin online /\ online' = online \cup {p}
  /\ view' = [view EXCEPT ![p] = [Blind EXCEPT !.bars = board.bars]]
  /\ missed' = [missed EXCEPT ![p] = {o \in Objectives : board.objs[o] # Absent} \cup board.teams]
  /\ UNCHANGED <<board, enabled, orphans, torn, cleanup, crossed>>

\* The end of a session: first its player is no longer in play, and is told
\* nothing.  Bound: one end at a time of the sessions of a player.
Leave(p) ==
  /\ p \in online /\ online' = online \ {p}
  /\ cleanup[p] = "none" /\ cleanup' = [cleanup EXCEPT ![p] = "left"]
  /\ view' = [view EXCEPT ![p] = Blind]
  /\ enabled' = [enabled EXCEPT ![p] = {}] /\ missed' = [missed EXCEPT ![p] = {}]
  /\ UNCHANGED <<board, orphans, torn, crossed>>

\* "score reset": the scores of the player go, by his name; whoever bears it now.
ResetLeaver(p) ==
  /\ cleanup[p] = "left" /\ board' = ResetHolder(board, p)
  /\ cleanup' = [cleanup EXCEPT ![p] = IF board' = board THEN "none" ELSE "reset"]
  /\ orphans' = orphans \ (Objectives \X {p})
  /\ crossed' = IF board' = board THEN crossed ELSE crossed \ (Objectives \X {p})
  /\ UNCHANGED <<online, view, enabled, missed, torn>>

\* If there were any all are told, by one packet for every objective.
TellLeaver(p) ==
  /\ cleanup[p] = "reset" /\ cleanup' = [cleanup EXCEPT ![p] = "none"]
  /\ Tell(LAMBDA v : ResetHolder(v, p))
  /\ UNCHANGED <<online, board, enabled, missed, orphans, torn, crossed>>
---------------------------------------------------------------------------
(* Objectives and the sidebar.                                             *)

Forgotten(x) == missed' = [p \in Players |-> missed[p] \ {x}]

AddObjective(o, trigger) ==
  /\ board.objs[o] = Absent
  /\ board' = [board EXCEPT !.objs[o] = "plain", !.triggers = IF trigger THEN @ \cup {o} ELSE @]
  /\ Tell(LAMBDA v : AddedObjective(v, o, "plain"))
  /\ UNCHANGED <<online, enabled, missed, orphans, torn, cleanup, crossed>>

\* removeObjectiveWithReset: its scores are reset one by one, then it is
\* removed, then the sidebar if it was in it or was the last in it.
RemoveObjective(o) ==
  /\ board.objs[o] # Absent
  /\ LET shown == board.side.of = o
         side == IF shown THEN [on |-> FALSE, of |-> None] ELSE board.side
     IN /\ board' = [board EXCEPT !.objs[o] = Absent, !.scores[o] = NoScores,
                                  !.triggers = @ \ {o}, !.side = side]
        /\ Tell(LAMBDA v : RemovedObjective(v, o))
  /\ Forgotten(o) /\ orphans' = orphans \ ({o} \X Players)
  /\ crossed' = crossed \ ({o} \X Players) /\ UNCHANGED <<online, enabled, torn, cleanup>>

\* objectives modify: numberformat.
Modify(o, f) ==
  /\ board.objs[o] # Absent
  /\ board' = [board EXCEPT !.objs[o] = f] /\ Tell(LAMBDA v : ChangedObjective(v, o, f))
  /\ UNCHANGED <<online, enabled, missed, orphans, torn, cleanup, crossed>>

\* An unknown name, as the word clear, empties the sidebar.
SetDisplay(o) ==
  /\ LET side == IF board.objs[o] # Absent THEN [on |-> TRUE, of |-> o]
                 ELSE [board.side EXCEPT !.on = FALSE]
     IN board' = [board EXCEPT !.side = side] /\ Tell(LAMBDA v : Display(v, side))
  /\ UNCHANGED <<online, enabled, missed, orphans, torn, cleanup, crossed>>
---------------------------------------------------------------------------
(* Scores.  setScore and addScore do not look whether the objective exists.*)

Put(o, H, x) ==
  /\ board' = [board EXCEPT !.scores[o] = [h \in Players |-> IF h \in H THEN x ELSE @[h]]]
  /\ view' = [p \in Players |->
                IF p \notin online \/ view[p].objs[o] = Absent THEN view[p]
                ELSE [view[p] EXCEPT !.scores[o] = [h \in Players |-> IF h \in H THEN x ELSE @[h]]]]
  /\ orphans' = IF board.objs[o] = Absent THEN orphans \cup ({o} \X H) ELSE orphans \ ({o} \X H)
  /\ crossed' = (crossed \ ({o} \X H)) \cup ({o} \X {h \in H : cleanup[h] = "reset"})
  /\ UNCHANGED <<online, missed, torn, cleanup>>

Plus(o, h, d) == (IF board.scores[o][h] = -1 THEN 0 ELSE board.scores[o][h]) + d

\* scoreboard players set.
SetScore(o, h, x) == Put(o, {h}, x) /\ UNCHANGED enabled

\* execute store: to the players selected, or to all when none is.
Store(o, H, x) ==
  /\ H \subseteq online /\ Put(o, IF H = {} THEN online ELSE H, x) /\ UNCHANGED enabled

\* A death counts under "deaths", a kill under "kills".
Count(o, h) ==
  /\ h \in online /\ Plus(o, h, 1) <= MaxScore
  /\ Put(o, {h}, Plus(o, h, 1)) /\ UNCHANGED enabled

\* scoreboard players reset with an objective, and without.
ResetScore(o, h) ==
  /\ board.objs[o] # Absent /\ board.scores[o][h] # -1
  /\ board' = [board EXCEPT !.scores[o][h] = -1] /\ Tell(LAMBDA v : Score(v, o, h, -1))
  /\ orphans' = orphans \ {<<o, h>>} /\ crossed' = crossed \ {<<o, h>>}
  /\ UNCHANGED <<online, enabled, missed, torn, cleanup>>

\* Faulty: as a reset that forgets to tell the clients when one objective only
\* is concerned.
ResetAllQuiet(h) ==
  /\ board' = ResetHolder(board, h) /\ board' # board
  /\ IF Cardinality({o \in Objectives : board.scores[o][h] # -1}) > 1
     THEN Tell(LAMBDA v : ResetHolder(v, h)) ELSE UNCHANGED view
  /\ orphans' = orphans \ (Objectives \X {h}) /\ crossed' = crossed \ (Objectives \X {h})
  /\ UNCHANGED <<online, enabled, missed, torn, cleanup>>

ResetAll(h) ==
  /\ board' = ResetHolder(board, h) /\ board' # board
  /\ Tell(LAMBDA v : ResetHolder(v, h))
  /\ orphans' = orphans \ (Objectives \X {h}) /\ crossed' = crossed \ (Objectives \X {h})
  /\ UNCHANGED <<online, enabled, missed, torn, cleanup>>

\* The end of a session resets the scores of its player, and tells it, between an
\* order that gave him a score and the packet of the order.
ResetInside(p, o, x) ==
  /\ cleanup[p] = "left" /\ cleanup' = [cleanup EXCEPT ![p] = "none"]
  /\ board' = ResetHolder(board, p) /\ Tell(LAMBDA v : Score(ResetHolder(v, p), o, p, x))
  /\ orphans' = orphans \ (Objectives \X {p})
  /\ crossed' = (crossed \ (Objectives \X {p})) \cup {<<o, p>>}
  /\ UNCHANGED <<online, enabled, missed, torn>>

\* scoreboard players enable.
Enable(p, o) ==
  /\ p \in online /\ o \in board.triggers
  /\ enabled' = [enabled EXCEPT ![p] = @ \cup {o}]
  /\ UNCHANGED <<online, board, view, missed, orphans, torn, cleanup, crossed>>

\* trigger, trigger add and trigger set; the right is used up.
Trigger(p, o, x) ==
  /\ p \in online /\ o \in board.triggers /\ o \in enabled[p]
  /\ enabled' = [enabled EXCEPT ![p] = @ \ {o}]
  /\ \/ Plus(o, p, x) <= MaxScore /\ Put(o, {p}, Plus(o, p, x))
     \/ Put(o, {p}, x)
---------------------------------------------------------------------------
(* Teams.                                                                  *)

AddTeam(t) ==
  /\ t \notin board.teams
  /\ board' = [board EXCEPT !.teams = @ \cup {t}] /\ Tell(LAMBDA v : CreatedTeam(v, t))
  /\ UNCHANGED <<online, enabled, missed, orphans, torn, cleanup, crossed>>

RemoveTeam(t) ==
  /\ t \in board.teams
  /\ board' = [board EXCEPT !.teams = @ \ {t}, !.members[t] = {}]
  /\ Tell(LAMBDA v : RemovedTeam(v, t)) /\ Forgotten(t)
  /\ UNCHANGED <<online, enabled, orphans, torn, cleanup, crossed>>

\* addMember leaves the member in the team he was in.
JoinTeam(t, H) ==
  /\ t \in board.teams /\ H # {} /\ H \subseteq online
  /\ board' = [board EXCEPT !.members[t] = @ \cup H] /\ Tell(LAMBDA v : Joined(v, t, H))
  /\ torn' = torn \cup {h \in H : \E u \in TeamNames \ {t} : h \in board.members[u]}
  /\ UNCHANGED <<online, enabled, missed, orphans, cleanup, crossed>>

LeaveTeam(t, H) ==
  /\ t \in board.teams /\ H \cap board.members[t] # {}
  /\ board' = [board EXCEPT !.members[t] = @ \ H]
  /\ Tell(LAMBDA v : Left(v, t, H \cap board.members[t]))
  /\ UNCHANGED <<online, enabled, missed, orphans, torn, cleanup, crossed>>
---------------------------------------------------------------------------
(* Boss bars.                                                              *)

Bar(b, x) ==
  /\ board' = [board EXCEPT !.bars[b] = x] /\ Tell(LAMBDA v : [v EXCEPT !.bars[b] = x])
  /\ UNCHANGED <<online, enabled, missed, orphans, torn, cleanup, crossed>>

\* bossbar add replaces a bar of that name; bossbar remove; bossbar set, which
\* tells the clients of a bar that is not there, too.
AddBar(b) == b \notin Bosses /\ Bar(b, MaxScore)
RemoveBar(b) == b \notin Bosses /\ board.bars[b] # -1 /\ Bar(b, -1)
SetBar(b, x) == b \notin Bosses /\ Bar(b, IF board.bars[b] = -1 THEN -1 ELSE x)

\* onBossSpawn; onBossDamage; onBossRemove, when it dies or is taken away.
BossSpawns(b) == b \in Bosses /\ board.bars[b] = -1 /\ Bar(b, MaxScore)
BossHurt(b, x) == b \in Bosses /\ board.bars[b] > x /\ Bar(b, x)
BossGone(b) == b \in Bosses /\ board.bars[b] # -1 /\ Bar(b, -1)
---------------------------------------------------------------------------
Scoring ==
  \E o \in Objectives :
    \/ \E trigger \in BOOLEAN : AddObjective(o, trigger)
    \/ RemoveObjective(o)
    \/ \E f \in Formats : Modify(o, f)
    \/ SetDisplay(o)
    \/ \E h \in Players : \/ \E x \in 0 .. MaxScore : SetScore(o, h, x) \/ Trigger(h, o, x)
                                                   \/ ResetInside(h, o, x)
                          \/ Count(o, h) \/ ResetScore(o, h) \/ Enable(h, o) \/ ResetAll(h)
    \/ \E H \in SUBSET Players, x \in 0 .. MaxScore : Store(o, H, x)
Teaming ==
  \E t \in TeamNames :
    \/ AddTeam(t) \/ RemoveTeam(t)
    \/ \E H \in SUBSET Players : JoinTeam(t, H) \/ LeaveTeam(t, H)
Barring ==
  \E b \in BarIds :
    \/ AddBar(b) \/ RemoveBar(b) \/ BossSpawns(b) \/ BossGone(b)
    \/ \E x \in 0 .. MaxScore : SetBar(b, x) \/ BossHurt(b, x)
ComeAndGo ==
  (\E p \in Players : Join(p) \/ Leave(p) \/ ResetLeaver(p) \/ TellLeaver(p)) /\ UNCHANGED orders

Order(topic) == orders < MaxOrders /\ orders' = orders + 1 /\ topic

Next == Order(Scoring) \/ Order(Teaming) \/ Order(Barring) \/ ComeAndGo
Spec == Init /\ [][Next]_boardVars
---------------------------------------------------------------------------
\* Scoreboard, teams and bars: a client in play sees each objective, score,
\* team and bar that the server has, and none other, whatever was added,
\* removed and added again while it or others came and went.  It excepts what
\* was there before the client came, scores that were set before their
\* objective was added, players who were put into two teams, and scores that an
\* order set while the end of a session reset those of the same name.
ClientsAgree ==
  \A p \in online :
    /\ \A o \in Objectives \ missed[p] :
         /\ view[p].objs[o] = board.objs[o]
         /\ board.objs[o] # Absent =>
              \A h \in Players :
                <<o, h>> \notin orphans \cup crossed /\ cleanup[h] # "reset" =>
                  view[p].scores[o][h] = board.scores[o][h]
         /\ board.side = [on |-> TRUE, of |-> o] => view[p].side = o
    /\ \A o \in Objectives \cap missed[p] : view[p].objs[o] = Absent
    /\ view[p].side \in {None} \cup {o \in Objectives : board.objs[o] # Absent}
    /\ \A t \in TeamNames \ missed[p] :
         /\ t \in view[p].teams <=> t \in board.teams
         /\ \A h \in Players \ torn : view[p].teamOf[h] = t <=> h \in board.members[t]
    /\ view[p].bars = board.bars

\* Scoreboard: what the comments at commands_scoreboard.cpp:291 and
\* Scoreboard.hpp:157 say of the packet that clears the sidebar.
ClearedIsClear == \A p \in online : ~board.side.on => view[p].side = None
=============================================================================

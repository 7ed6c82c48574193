--------------------------- MODULE PlayerSessions ---------------------------
(***************************************************************************)
(* The life of a player session, from the login packet to the removal of   *)
(* the player from the roster (Session::handleLogin, handleConfiguration,  *)
(* onEnterPlay, handlePlay and the cleanup at the end of Session::run),    *)
(* and what the sessions share: the admission counter, the roster, the     *)
(* player data files and the tab lists of the clients.                     *)
(*                                                                         *)
(* Packets are handled under simulationDispatchMtx_ (gate), so one session *)
(* at a time enters play or handles a packet.  The cleanup of a session    *)
(* does not take the gate and interleaves with everything.                 *)
(***************************************************************************)
EXTENDS Naturals, FiniteSets

CONSTANTS
    Sessions,       \* session threads
    Uuid, Name,     \* the identity each session's client claims
    MaxPlayers,
    Nobody

ASSUME SessionsAssumption ==
    /\ IsFiniteSet(Sessions)
    /\ MaxPlayers \in Nat
    /\ Nobody \notin Sessions

VARIABLES
    phase,      \* where each session is
    open,       \* whether its connection is
    frame,      \* whether it has read a play packet it has not handled
    gate,       \* the session that holds simulationDispatchMtx_ across steps
    reserved,   \* sessions with playerAdmissionReserved_
    pending,    \* pendingPlayerAdmissions_
    roster,     \* players_
    silent,     \* sessions that wait for a client that sends nothing any more
    data,       \* progress that a session's player carries
    file,       \* progress in <worldDir>/playerdata/<uuid>.dat
    made,       \* sessions that have made progress
    tab,        \* the uuids each client lists
    overwritten,\* progress that a join has replaced by its defaults
    raced       \* uuids loaded while another session of the uuid was unsaved

door     == <<reserved, pending, roster>>
progress == <<data, file, made, overwritten, raced>>
vars     == <<phase, open, frame, gate, silent, door, progress, tab>>

Uuids == {Uuid[s] : s \in Sessions}

\* The data file holds place and experience (and the respawn point and the ender
\* chest), health and food, and the inventory.
Parts == {"place", "body", "bag"}

Progress == [by : Sessions, part : Parts]

Of(s) == [by : {s}, part : Parts]

\* registered_ is set, or the cleanup it asks for is not over.
Registered == {s \in Sessions : phase[s] \in {"joined", "play", "left", "unsaved", "saved"}}

Duplicate(s, t) == s # t /\ (Uuid[s] = Uuid[t] \/ Name[s] = Name[t])

TypeOK ==
    /\ phase \in [Sessions -> {"login", "ack", "config", "loaded", "announced",
                               "joined", "play", "left", "unsaved", "saved", "gone"}]
    /\ open \in [Sessions -> BOOLEAN]
    /\ frame \in [Sessions -> BOOLEAN]
    /\ gate \in Sessions \cup {Nobody}
    /\ reserved \subseteq Sessions
    /\ pending \in Nat
    /\ roster \subseteq Sessions
    /\ silent \subseteq Sessions
    /\ data \in [Sessions -> SUBSET Progress]
    /\ file \in [Uuids -> SUBSET Progress]
    /\ made \subseteq Sessions
    /\ overwritten \subseteq Progress
    /\ tab \in [Sessions -> SUBSET Uuids]
    /\ raced \subseteq Uuids

Init ==
    /\ phase    = [s \in Sessions |-> "login"]
    /\ open     = [s \in Sessions |-> TRUE]
    /\ frame    = [s \in Sessions |-> FALSE]
    /\ gate     = Nobody
    /\ silent   = {}
    /\ reserved = {}
    /\ pending  = 0
    /\ roster   = {}
    /\ data     = [s \in Sessions |-> {}]
    /\ file     = [u \in Uuids |-> {}]
    /\ made     = {}
    /\ overwritten = {}
    /\ tab      = [s \in Sessions |-> {}]
    /\ raced    = {}

Go(s, from, to) == phase[s] = from /\ phase' = [phase EXCEPT ![s] = to]

-----------------------------------------------------------------------------
(* Admission. *)

\* Faulty: reserved slots do not count.
HasRoomOfRoster == Cardinality(roster) < MaxPlayers

HasRoom ==
    /\ Cardinality(roster) < MaxPlayers
    /\ pending < MaxPlayers - Cardinality(roster)

\* reservePlayerAdmission
Reserve(s) ==
    /\ HasRoom
    /\ reserved' = reserved \cup {s}
    /\ pending' = pending + 1
    /\ UNCHANGED roster

\* releasePlayerAdmission, from the destructor of a session that still holds
\* its reservation.
Release(s) ==
    /\ reserved' = reserved \ {s}
    /\ pending' = IF s \in reserved /\ pending # 0 THEN pending - 1 ELSE pending
    /\ UNCHANGED roster

\* Names, bans, the whitelist and the session server have their say before a
\* slot is reserved; the packets sent meanwhile change nothing shared.
Login(s) ==
    /\ gate = Nobody
    /\ Go(s, "login", "ack")
    /\ Reserve(s)
    /\ UNCHANGED <<open, frame, gate, silent, progress, tab>>

\* Any rejection, a full server among them, or a client that goes away.
LoginRejected(s) ==
    /\ gate = Nobody
    /\ Go(s, "login", "gone")
    /\ open' = [open EXCEPT ![s] = FALSE]
    /\ UNCHANGED <<frame, gate, silent, door, progress, tab>>

\* Before the acknowledgement, and before the answers that configuration waits
\* for, other packets (cookies, plugin channels, settings, keep-alives) are
\* tolerated, as many as come: the session stays where it is.
LoginAcknowledged(s) ==
    /\ gate = Nobody
    /\ s \notin silent
    /\ Go(s, "ack", "config")
    /\ UNCHANGED <<open, frame, gate, silent, door, progress, tab>>

\* The client stops sending for good.
FallSilent(s) ==
    /\ phase[s] \in {"ack", "config"}
    /\ open[s]
    /\ silent' = silent \cup {s}
    /\ UNCHANGED <<phase, open, frame, gate, door, progress, tab>>

\* Faulty: the reservation outlives the session.
GiveUpHolding(s) ==
    /\ phase[s] \in {"ack", "config"}
    /\ phase' = [phase EXCEPT ![s] = "gone"]
    /\ open' = [open EXCEPT ![s] = FALSE]
    /\ reserved' = reserved \ {s}
    /\ silent' = silent \ {s}
    /\ UNCHANGED <<frame, gate, pending, roster, progress, tab>>

\* A closed connection, 30 seconds without a byte, a refused resource pack or a
\* packet that is out of place ends a session that is not in play yet; ~Session
\* releases its reservation.  The timeout is of one read: there is none for
\* the whole of login or configuration.
GiveUp(s) ==
    /\ phase[s] \in {"ack", "config"}
    /\ phase' = [phase EXCEPT ![s] = "gone"]
    /\ open' = [open EXCEPT ![s] = FALSE]
    /\ Release(s)
    /\ silent' = silent \ {s}
    /\ UNCHANGED <<frame, gate, progress, tab>>

-----------------------------------------------------------------------------
(* onEnterPlay, under the gate. *)

\* loadPlayerData, the first step after the client's last answer.
Load(s) ==
    /\ gate = Nobody
    /\ s \notin silent
    /\ Go(s, "config", "loaded")
    /\ gate' = s
    /\ data' = [data EXCEPT ![s] = file[Uuid[s]]]
    /\ raced' = raced \cup {Uuid[t] : t \in {r \in Registered \ {s} :
                                 Uuid[r] = Uuid[s] /\ phase[r] # "saved"}}
    /\ UNCHANGED <<open, frame, silent, door, file, made, overwritten, tab>>

\* Faulty: the newcomer is not announced to the others.
AnnounceQuietly(s) ==
    /\ Go(s, "loaded", "announced")
    /\ tab' = [tab EXCEPT ![s] = {Uuid[s]} \cup {Uuid[r] : r \in roster}]
    /\ UNCHANGED <<open, frame, gate, silent, door, progress>>

\* The newcomer lists itself and everyone in the roster, who list the newcomer.
Announce(s) ==
    /\ Go(s, "loaded", "announced")
    /\ tab' = [t \in Sessions |->
                  IF t = s THEN {Uuid[s]} \cup {Uuid[r] : r \in roster}
                  ELSE IF t \in roster /\ open[t] THEN tab[t] \cup {Uuid[s]} ELSE tab[t]]
    /\ UNCHANGED <<open, frame, gate, silent, door, progress>>

\* Faulty: a failed entry keeps its reservation.
EnterFailedHolding(s) ==
    /\ phase[s] \in {"loaded", "announced"}
    /\ ~open[s]
    /\ phase' = [phase EXCEPT ![s] = "gone"]
    /\ gate' = Nobody
    /\ UNCHANGED <<open, frame, silent, door, progress, tab>>

\* A send of onEnterPlay fails before the player is registered.
EnterFailed(s) ==
    /\ phase[s] \in {"loaded", "announced"}
    /\ ~open[s]
    /\ phase' = [phase EXCEPT ![s] = "gone"]
    /\ gate' = Nobody
    /\ Release(s)
    /\ UNCHANGED <<open, frame, silent, progress, tab>>

\* A join replaces these parts of what was loaded.
Reset(s, parts) ==
    LET lost == {p \in data[s] : p.part \in parts} IN
    /\ data' = [data EXCEPT ![s] = @ \ lost]
    /\ overwritten' = overwritten \cup lost
    /\ UNCHANGED <<file, made, raced>>

\* Faulty: names are not compared.
JoinByUuid(s) ==
    LET victims == {t \in roster : t # s /\ Uuid[s] = Uuid[t]} IN
    /\ Go(s, "announced", "joined")
    /\ open' = [t \in Sessions |-> open[t] /\ t \notin victims]
    /\ roster' = (roster \ victims) \cup {s}
    /\ reserved' = reserved \ {s}
    /\ pending' = IF pending # 0 THEN pending - 1 ELSE pending
    /\ Reset(s, {"body"})
    /\ UNCHANGED <<frame, gate, silent, tab>>

\* addPlayer kicks the duplicates and drops them from the roster first; then
\* health, food and game mode are those of a new player.
Join(s) ==
    LET victims == {t \in roster : Duplicate(s, t)} IN
    /\ Go(s, "announced", "joined")
    /\ open' = [t \in Sessions |-> open[t] /\ t \notin victims]
    /\ roster' = (roster \ victims) \cup {s}
    /\ reserved' = reserved \ {s}
    /\ pending' = IF pending # 0 THEN pending - 1 ELSE pending
    /\ Reset(s, {"body"})
    /\ UNCHANGED <<frame, gate, silent, tab>>

\* The starter items replace the inventory, unless a send before them fails:
\* then the session goes to its cleanup with the inventory that was loaded.
Stock(s) ==
    /\ Go(s, "joined", "play")
    /\ gate' = Nobody
    /\ \/ Reset(s, {"bag"})
       \/ ~open[s] /\ UNCHANGED progress
    /\ UNCHANGED <<open, frame, silent, door, tab>>

-----------------------------------------------------------------------------
(* Play. *)

ReadFrame(s) ==
    /\ phase[s] = "play"
    /\ open[s]
    /\ frame' = [frame EXCEPT ![s] = TRUE]
    /\ UNCHANGED <<phase, open, gate, silent, door, progress, tab>>

\* A packet that was read before the session was kicked is handled all the
\* same.  Beds and the spawn point commands save at once.
HandleFrame(s) ==
    /\ phase[s] = "play"
    /\ frame[s]
    /\ gate = Nobody
    /\ frame' = [frame EXCEPT ![s] = FALSE]
    /\ data' = [data EXCEPT ![s] = @ \cup Of(s)]
    /\ made' = made \cup {s}
    /\ \E saves \in BOOLEAN :
          file' = IF saves THEN [file EXCEPT ![Uuid[s]] = data'[s]] ELSE file
    /\ UNCHANGED <<phase, open, gate, silent, door, overwritten, raced, tab>>

\* The client, the janitor (a silent client) or the shutdown closes a connection.
Close(s) ==
    /\ open[s]
    /\ phase[s] \notin {"login", "gone"}
    /\ open' = [open EXCEPT ![s] = FALSE]
    /\ UNCHANGED <<phase, frame, gate, silent, door, progress, tab>>

-----------------------------------------------------------------------------
(* The cleanup of Session::run, without the gate. *)

\* The read fails; quit hooks and the leave message follow.
Leave(s) ==
    /\ Go(s, "play", "left")
    /\ ~open[s]
    /\ ~frame[s]
    /\ UNCHANGED <<open, frame, gate, silent, door, progress, tab>>

\* Everyone in the roster drops the uuid from its list.
TellLeft(s) ==
    /\ Go(s, "left", "unsaved")
    /\ tab' = [t \in Sessions |->
                  IF t \in roster /\ open[t] THEN tab[t] \ {Uuid[s]} ELSE tab[t]]
    /\ UNCHANGED <<open, frame, gate, silent, door, progress>>

\* Faulty: a player that was dropped from the roster is not saved.
SaveDataOfRoster(s) ==
    /\ Go(s, "unsaved", "saved")
    /\ file' = IF s \in roster THEN [file EXCEPT ![Uuid[s]] = data[s]] ELSE file
    /\ UNCHANGED <<open, frame, gate, silent, door, data, made, overwritten, raced, tab>>

SaveData(s) ==
    /\ Go(s, "unsaved", "saved")
    /\ file' = [file EXCEPT ![Uuid[s]] = data[s]]
    /\ UNCHANGED <<open, frame, gate, silent, door, data, made, overwritten, raced, tab>>

\* Faulty: the reservation that Join consumed is given back once more.
RemovePlayerReleasing(s) ==
    /\ Go(s, "saved", "gone")
    /\ roster' = roster \ {s}
    /\ pending' = pending - 1
    /\ UNCHANGED <<open, frame, gate, silent, reserved, progress, tab>>

RemovePlayer(s) ==
    /\ Go(s, "saved", "gone")
    /\ roster' = roster \ {s}
    /\ UNCHANGED <<open, frame, gate, silent, reserved, pending, progress, tab>>

-----------------------------------------------------------------------------
Step(s) ==
    \/ Login(s) \/ LoginRejected(s) \/ LoginAcknowledged(s) \/ GiveUp(s)
    \/ FallSilent(s) \/ Load(s) \/ Announce(s) \/ EnterFailed(s) \/ Join(s) \/ Stock(s)
    \/ ReadFrame(s) \/ HandleFrame(s) \/ Close(s)
    \/ Leave(s) \/ TellLeft(s) \/ SaveData(s) \/ RemovePlayer(s)

Next == \E s \in Sessions : Step(s)

Spec == Init /\ [][Next]_vars

\* A session's own steps are taken.  A read ends when the connection is closed
\* and 30 seconds after the last byte of a client that fell silent; nothing
\* ends the wait for a client that goes on sending packets that are tolerated.
Fairness == \A s \in Sessions :
    /\ WF_vars((s \in silent \/ ~open[s]) /\ GiveUp(s))
    /\ WF_vars(Announce(s) \/ EnterFailed(s) \/ Join(s) \/ Stock(s))
    /\ SF_vars(HandleFrame(s))
    /\ WF_vars(Leave(s) \/ TellLeft(s) \/ SaveData(s) \/ RemovePlayer(s))

FairSpec == Spec /\ Fairness

-----------------------------------------------------------------------------
(* What the admission gate, the roster and the data files promise. *)

\* Concurrent logins cannot oversubscribe max-players: players and reserved
\* slots together never exceed it, whatever the order in which sessions log in,
\* join, kick each other and give up.
NotOversubscribed == Cardinality(roster) + pending <= MaxPlayers

\* The counter counts the sessions that hold a reservation: no path through
\* login, configuration, join and failure releases one twice or leaks one.
ReservationsExact == pending = Cardinality(reserved)

\* The roster never holds two players with the same uuid or the same name,
\* although a second login of a player is admitted while the first plays.
PlayersUnique == \A s, t \in roster : ~Duplicate(s, t)

MadeBy(u) == {p \in Progress : p.by \in made /\ Uuid[p.by] = u}

\* What joins replace is never place or experience, and of players without
\* races only what a session has made that was over by then.
JoinsReset == \A p \in overwritten :
    /\ p.part # "place"
    /\ Uuid[p.by] \in raced \/ phase[p.by] \in {"saved", "gone"}

\* Once no session of a uuid is between loading and saving, its file holds all
\* progress made by its sessions but what a later join replaced: place and
\* experience of all, health, food and inventory of the last.  Excepted are the
\* uuids of which one session loaded the file while another had progress to
\* save (a duplicate login does).
UnracedProgressKept ==
    /\ JoinsReset
    /\ \A u \in Uuids \ raced :
          (\A s \in Sessions : Uuid[s] = u =>
              phase[s] \notin {"loaded", "announced", "joined", "play", "left", "unsaved"})
          => file[u] = MadeBy(u) \ overwritten

\* Two players in play list each other: a join that announces itself to a
\* roster is either in the roster of the next join or announced to it.
EveryoneListed == \A s, t \in roster :
    /\ {phase[s], phase[t]} \subseteq {"joined", "play"}
    /\ open[s] /\ Uuid[t] \notin raced
    => Uuid[t] \in tab[s]

\* The session waits for an answer of a client that may still send others.
Waiting(s) == phase[s] \in {"ack", "config"} /\ open[s] /\ s \notin silent

\* A slot reserved at login is given back or consumed, once the client has
\* answered, gone away or fallen silent.
ReservationEnds == \A s \in Sessions :
    (s \in reserved /\ ~Waiting(s)) ~> s \notin reserved

\* Not so: without its last condition this fails, as login and configuration have
\* no deadline of their own.
SlotsComeBack == \A s \in Sessions : s \in reserved ~> s \notin reserved

\* A session whose player was dropped from the roster ends.
KickedSessionEnds == \A s \in Sessions :
    (phase[s] = "play" /\ s \notin roster) ~> phase[s] = "gone"

\* Neither a slot nor a player without a place is kept for ever, except for a
\* client that goes on sending packets that login and configuration tolerate.
SessionsSettle == ReservationEnds /\ KickedSessionEnds
=============================================================================

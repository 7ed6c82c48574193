----------------------------- MODULE Admission -----------------------------
(***************************************************************************)
(* Who may play: the way of a connection through handshake, login and      *)
(* configuration into play (Session), the lists of the administrators with *)
(* their files and the commands that change them while others log in       *)
(* (commands_admin), and restarts, which read the files again.             *)
(*                                                                         *)
(* A packet is handled, and a command run, under the gate of the           *)
(* simulation; between two packets of a session anything may happen.  The  *)
(* session server is asked without the gate.  What the roster does with    *)
(* two sessions of one player, and the reservation of slots, is in         *)
(* PlayerSessions; that a connection ends on bad input at any time is a    *)
(* Drop here.                                                              *)
(***************************************************************************)
EXTENDS Naturals, FiniteSets

CONSTANTS
  Sessions,
  User,      \* the name each session logs in with
  From,      \* the address it comes from
  Txt,       \* operators named in ops.txt, which is never written
  Online,    \* online-mode
  Secure,    \* enforce-secure-profile
  Zips,      \* network-compression-threshold is not negative
  PackForced,\* a resource pack is required
  Whitelisted, \* white-list in server.properties
  MaxPlayers,
  MaxOrders, MaxBoots \* Bounds: commands of administrators, restarts

Users == {User[s] : s \in Sessions}
Addresses == {From[s] : s \in Sessions}

AdmissionConstants ==
  /\ Sessions # {} /\ Txt \subseteq Users
  /\ {Online, Secure, Zips, PackForced, Whitelisted} \subseteq BOOLEAN
  /\ {MaxPlayers, MaxOrders, MaxBoots} \subseteq Nat

VARIABLES
  phase,     \* Session::state_, and what it waits for in it
  peer,      \* the wire of a session: what the server writes, what the client reads
  loaded,    \* resourcePackLoaded_
  open,      \* sessions whose connection is open
  roster,    \* players_
  lists,     \* ops_, bannedPlayers_, bannedIps_, whitelist_ and its switch
  files,     \* what their files hold
  meant,     \* what the commands have asked for
  lost,      \* the known ways to lose a command that were met
  raced,     \* sessions past the check of the lists when their ban was spoken
  orders, boots

admissionVars ==
  <<phase, peer, loaded, open, roster, lists, files, meant, lost, raced, orders, boots>>
wire == <<peer, loaded, open, roster, raced>>
admin == <<lists, files, meant, lost, orders, boots>>

Plain == [zips |-> FALSE, unzips |-> FALSE, enc |-> FALSE, dec |-> FALSE, unread |-> FALSE]
Listing(ops, switch) ==
  [op |-> ops, ban |-> {}, ip |-> {}, white |-> {}, on |-> switch]

Init ==
  /\ phase = [s \in Sessions |-> "handshake"] /\ peer = [s \in Sessions |-> Plain]
  /\ loaded = {} /\ open = Sessions /\ roster = {} /\ raced = {}
  /\ lists = Listing(Txt, Whitelisted) /\ meant = lists
  /\ files = [op |-> {}, ban |-> {}, ip |-> {}, white |-> {}, exists |-> FALSE]
  /\ lost = {} /\ orders = 0 /\ boots = 0
---------------------------------------------------------------------------
(* The session.                                                            *)

\* What the client cannot read of what is sent to it as it is now.
Sent(w) == [w EXCEPT !.unread = @ \/ w.enc # w.dec \/ w.zips # w.unzips]
Compressed(w) == [Sent(w) EXCEPT !.zips = TRUE, !.unzips = TRUE]

Packet(s, f) == s \in open /\ phase[s] = f
Moves(s, f) == phase' = [phase EXCEPT ![s] = f]
Writes(s, w) == peer' = [peer EXCEPT ![s] = w]
Over(s) ==
  /\ open' = open \ {s}
  /\ IF phase[s] = "play" THEN UNCHANGED phase ELSE Moves(s, "over")
Refuse(s, w) == Over(s) /\ Writes(s, Sent(w))

\* Session::run, handleHandshake: a legacy ping, a bad first packet and an old
\* client end it; what asks for the status is answered and ends.
Handshake(s) ==
  /\ Packet(s, "handshake")
  /\ \/ Over(s) /\ UNCHANGED peer
     \/ Refuse(s, peer[s])
     \/ Moves(s, "status") /\ UNCHANGED <<open, peer>>
     \/ Moves(s, "hello") /\ UNCHANGED <<open, peer>>
  /\ UNCHANGED <<admin, loaded, roster, raced>>
Status(s) ==
  /\ Packet(s, "status") /\ Refuse(s, peer[s])
  /\ UNCHANGED <<admin, loaded, roster, raced>>

Allowed(s) ==
  /\ User[s] \notin lists.ban
  /\ From[s] \notin lists.ip
  /\ lists.on => User[s] \in lists.white \cup lists.op

\* The players that are in or have a slot reserved.
Held == {s \in Sessions : phase[s] \in {"ack", "packs", "config"}} \cup roster

\* The slot is reserved and the client is told that it has logged in.
Reserve(s, w) ==
  IF Cardinality(Held) < MaxPlayers
  THEN Moves(s, "ack") /\ Writes(s, Sent(w)) /\ UNCHANGED open
  ELSE Refuse(s, w)

\* handleLogin: the name, the lists, compression, and a request for a key.
Hello(s) ==
  /\ Packet(s, "hello")
  /\ LET w == IF Zips THEN Compressed(peer[s]) ELSE peer[s]
     IN IF ~Allowed(s) THEN Refuse(s, peer[s])
        ELSE IF Secure /\ ~Online THEN Refuse(s, w)
        ELSE IF Online THEN Moves(s, "key") /\ Writes(s, Sent(w)) /\ UNCHANGED open
        ELSE Reserve(s, w)
  /\ UNCHANGED <<admin, loaded, roster, raced>>

\* The client writes its key and from then on encrypts.  The session server is
\* asked without the gate.
Key(s) ==
  /\ Packet(s, "key")
  /\ \/ Moves(s, "auth") /\ UNCHANGED open /\ Writes(s, [peer[s] EXCEPT !.dec = TRUE])
     \/ Refuse(s, [peer[s] EXCEPT !.dec = TRUE])
  /\ UNCHANGED <<admin, loaded, roster, raced>>

\* Its answer, or the profile keys Secure wants are missing; then encryption,
\* compression for the second time, and the slot.
Answered(s) ==
  /\ phase[s] = "auth"
  /\ LET w == [peer[s] EXCEPT !.enc = TRUE]
     IN \/ Refuse(s, peer[s])
        \/ Reserve(s, IF Zips THEN Compressed(w) ELSE w)
  /\ UNCHANGED <<admin, loaded, roster, raced>>

\* LoginAcknowledged; handleConfiguration sends the packs and waits.
Acknowledge(s) ==
  /\ Packet(s, "ack") /\ Moves(s, "packs") /\ Writes(s, Sent(peer[s]))
  /\ UNCHANGED <<admin, open, loaded, roster, raced>>

PacksDone(s) ==
  /\ Packet(s, "packs") /\ Moves(s, "config") /\ Writes(s, Sent(peer[s]))
  /\ UNCHANGED <<admin, open, loaded, roster, raced>>

\* handleOneConfigPacket, onResourcePackReceive: what became of the pack.
PackResponse(s) ==
  /\ s \in open /\ phase[s] \in {"packs", "config", "play"}
  /\ \/ loaded' = loaded \cup {s} /\ UNCHANGED <<phase, open, peer>>
     \/ UNCHANGED <<loaded, phase, open, peer>>
     \/ PackForced /\ Refuse(s, peer[s]) /\ UNCHANGED loaded
  /\ UNCHANGED <<admin, roster, raced>>

\* FinishAcknowledgement, onEnterPlay: into the roster, from which a session of
\* the same name is removed and closed.  It comes too late after 30 seconds.
Finish(s) ==
  /\ Packet(s, "config")
  /\ IF PackForced /\ s \notin loaded
     THEN Refuse(s, peer[s]) /\ UNCHANGED roster
     ELSE /\ roster' = {t \in roster : User[t] # User[s]} \cup {s}
          /\ open' = open \ {t \in roster : User[t] = User[s]}
          /\ Moves(s, "play") /\ Writes(s, Sent(peer[s]))
  /\ UNCHANGED <<admin, loaded, raced>>
LateFinish(s) ==
  /\ Packet(s, "config") /\ Refuse(s, peer[s])
  /\ UNCHANGED <<admin, loaded, roster, raced>>

\* The client goes, or is sent away for what it sent.
Drop(s) ==
  /\ s \in open /\ Over(s)
  /\ UNCHANGED <<admin, peer, loaded, roster, raced>>

\* The cleanup of a session that was in play.
Leave(s) ==
  /\ phase[s] = "play" /\ s \notin open
  /\ Moves(s, "over") /\ roster' = roster \ {s}
  /\ UNCHANGED <<admin, open, peer, loaded, raced>>
---------------------------------------------------------------------------
(* Commands of administrators, on the console, by RCON or in play.         *)

\* Past the check of the lists and not yet in the roster.
Past(s) == phase[s] \in {"key", "auth", "ack", "packs", "config"}

\* kickPlayer, for those of the roster who are on a list.
Kicked(T) == open' = open \ (roster \cap T)

\* A command changes a list and writes its file, which may fail.
Order ==
  /\ orders < MaxOrders /\ orders' = orders + 1
  /\ UNCHANGED <<phase, peer, loaded, roster, boots>>
Written(f) ==
  \/ /\ files' = [files EXCEPT ![f] = lists'[f], !.exists = @ \/ f = "white"]
     /\ UNCHANGED lost
  \/ UNCHANGED files /\ lost' = lost \cup {f}
Add(f, n) ==
  /\ lists' = [lists EXCEPT ![f] = @ \cup {n}] /\ meant' = [meant EXCEPT ![f] = @ \cup {n}]
Remove(f, n) ==
  /\ lists' = [lists EXCEPT ![f] = @ \ {n}] /\ meant' = [meant EXCEPT ![f] = @ \ {n}]
  /\ IF n \in lists[f] THEN Written(f) ELSE UNCHANGED <<files, lost>>

Named(u) == {s \in Sessions : User[s] = u}

Kick(u) ==
  /\ Order /\ Kicked(Named(u)) /\ UNCHANGED <<lists, files, meant, lost, raced>>

\* Faulty: the list is not written.
BanUnwritten(u) ==
  /\ Order /\ Add("ban", u) /\ UNCHANGED <<files, lost>>
  /\ Kicked(Named(u))
  /\ raced' = raced \cup {s \in Named(u) : Past(s)}

Ban(u) ==
  /\ Order /\ Add("ban", u) /\ Written("ban")
  /\ Kicked(Named(u))
  /\ raced' = raced \cup {s \in Named(u) : Past(s)}
Pardon(u) ==
  Order /\ Remove("ban", u) /\ UNCHANGED <<open, raced>>

\* ban-ip: of an address, or of the address of a player who is in.  A name that
\* is not in is put on the list as it is.
BanIp(i) ==
  /\ Order /\ Add("ip", i) /\ Written("ip")
  /\ LET T == {s \in Sessions : From[s] = i}
     IN Kicked(T) /\ raced' = raced \cup {s \in T : Past(s)}
BanIpOf(u) ==
  LET T == Named(u) \cap roster
  IN IF T # {} THEN \E s \in T : BanIp(From[s]) ELSE BanIp(u)
PardonIp(i) ==
  Order /\ Remove("ip", i) /\ UNCHANGED <<open, raced>>

\* ops.txt gives back at the next start whom deop has taken off.
Op(u) == Order /\ Add("op", u) /\ Written("op") /\ UNCHANGED <<open, raced>>
Deop(u) ==
  /\ Order /\ lists' = [lists EXCEPT !.op = @ \ {u}] /\ meant' = [meant EXCEPT !.op = @ \ {u}]
  /\ files' \in {IF u \in lists.op THEN [files EXCEPT !.op = lists'.op] ELSE files, files}
  /\ lost' = IF u \in Txt \/ files'.op # lists'.op THEN lost \cup {"op"} ELSE lost
  /\ UNCHANGED <<open, raced>>

\* whitelist: on writes nothing, though it puts the player who says it on the
\* list; whether it is on is not kept: it is when the file is there.
WhiteOn(by) ==
  /\ Order
  /\ lists' = [lists EXCEPT !.on = TRUE, !.white = @ \cup by]
  /\ meant' = [meant EXCEPT !.on = TRUE, !.white = @ \cup by]
  /\ lost' = IF by \subseteq files.white THEN lost ELSE lost \cup {"white"}
  /\ UNCHANGED <<files, open, raced>>
WhiteOff ==
  /\ Order
  /\ lists' = [lists EXCEPT !.on = FALSE] /\ meant' = [meant EXCEPT !.on = FALSE]
  /\ UNCHANGED <<files, lost, open, raced>>
WhiteAdd(u) == Order /\ Add("white", u) /\ Written("white") /\ UNCHANGED <<open, raced>>
WhiteRemove(u) == Order /\ Remove("white", u) /\ UNCHANGED <<open, raced>>
WhiteReload ==
  /\ Order /\ lists' = [lists EXCEPT !.white = files.white, !.on = files.exists]
  /\ UNCHANGED <<files, meant, lost, open, raced>>

\* GameServer::init after a stop or a crash, and the sessions that come then.
Fresh(T) ==
  /\ phase' = [s \in Sessions |-> IF s \in T THEN "handshake" ELSE phase[s]]
  /\ peer' = [s \in Sessions |-> IF s \in T THEN Plain ELSE peer[s]]
  /\ loaded' = loaded \ T /\ raced' = raced \ T /\ open' = open \cup T
Boot ==
  /\ boots < MaxBoots /\ boots' = boots + 1
  /\ Fresh(Sessions) /\ roster' = {}
  /\ lists' = [op |-> files.op \cup Txt, ban |-> files.ban, ip |-> files.ip,
               white |-> files.white, on |-> files.exists \/ Whitelisted]
  /\ UNCHANGED <<files, meant, lost, orders>>
Connect(s) ==
  phase[s] = "over" /\ Fresh({s}) /\ UNCHANGED <<roster, admin>>

Session(s) ==
  \/ Connect(s) \/ Handshake(s) \/ Status(s) \/ Hello(s) \/ Key(s) \/ Answered(s)
  \/ Acknowledge(s) \/ PacksDone(s) \/ PackResponse(s) \/ Finish(s) \/ LateFinish(s)
  \/ Drop(s) \/ Leave(s)
Command ==
  \/ \E u \in Users :
       \/ Kick(u) \/ Ban(u) \/ Pardon(u) \/ BanIpOf(u) \/ Op(u) \/ Deop(u)
       \/ WhiteAdd(u) \/ WhiteRemove(u)
  \/ \E i \in Addresses : BanIp(i) \/ PardonIp(i)
  \/ \E by \in {{}} \cup {{User[s]} : s \in {s \in roster : User[s] \in lists.op}} : WhiteOn(by)
  \/ WhiteOff \/ WhiteReload

Next == (\E s \in Sessions : Session(s)) \/ Command \/ Boot

Spec == Init /\ [][Next]_admissionVars
---------------------------------------------------------------------------
\* Nobody plays whom a list bans, but one who was past the check of the lists
\* and not yet in when his ban was spoken (handleLogin, ban, ban-ip): he is
\* neither refused nor kicked.
BannedStayOut ==
  \A s \in roster \cap open :
    User[s] \in lists.ban \/ From[s] \in lists.ip => s \in raced

\* The lists are what the commands have made of them, also after a restart, but
\* for the known ways to lose one (saveOps, saveBans, saveBannedIps, saveWhitelist).
ListsSurvive == \A f \in {"op", "ban", "ip", "white"} \ lost : lists[f] = meant[f]

\* Whoever plays has the pack that is required, was told all that was sent, and
\* reads what will be (handleConfiguration, SetCompression, enableEncryption).
EntersWhole ==
  \A s \in roster :
    /\ PackForced => s \in loaded
    /\ peer[s].enc = peer[s].dec /\ peer[s].zips = peer[s].unzips /\ ~peer[s].unread
    /\ peer[s].enc = Online

\* The switch of the whitelist is what the commands have made of it.  It is not:
\* a restart and a reload find it on when the file is there.
SwitchSurvives == lists.on = meant.on
=============================================================================

----------------------- MODULE PlayerSessionsProofs -----------------------
(***************************************************************************)
(* The admission gate and the roster: proofs for any number of sessions,   *)
(* any identities and any max-players.                                     *)
(*                                                                         *)
(* NotOversubscribed needs ReservationsExact (a join consumes a slot only  *)
(* if the counter is not zero), which needs Holders: a session holds a     *)
(* reservation exactly from its login to its join, and a session in the    *)
(* roster has joined.                                                      *)
(*                                                                         *)
(* UnracedProgressKept needs Solo and Carried: unless sessions of a uuid   *)
(* overlapped, one at a time is between loading and saving, and it carries *)
(* all progress that no join replaced.  That the one which loads finds it  *)
(* in the file rests on GateHeld; that a join replaces only what was made  *)
(* by sessions that are over rests on Own and MadeLate.  EveryoneListed needs Announced, what a newcomer has told and *)
(* was told before it is in the roster, and Solo, since a leaver takes its *)
(* uuid from every list.                                                   *)
(***************************************************************************)
EXTENDS PlayerSessions, FiniteSetTheorems, TLAPS

Holders ==
    /\ reserved = {s \in Sessions : phase[s] \in {"ack", "config", "loaded", "announced"}}
    /\ roster \subseteq Registered

Door ==
    /\ DOMAIN phase = Sessions
    /\ pending \in Nat
    /\ reserved \subseteq Sessions
    /\ roster \subseteq Sessions

IInv == Door /\ Holders /\ ReservationsExact /\ NotOversubscribed /\ PlayersUnique

USE SessionsAssumption DEF SessionsAssumption

\* Sets of sessions have a cardinality, which one session more or less changes
\* by one.
LEMMA Counting ==
    ASSUME NEW T \in SUBSET Sessions
    PROVE  /\ IsFiniteSet(T)
           /\ Cardinality(T) \in Nat
           /\ T # {} => Cardinality(T) > 0
           /\ \A s \in Sessions \ T : Cardinality(T \cup {s}) = Cardinality(T) + 1
           /\ \A s \in T : Cardinality(T \ {s}) = Cardinality(T) - 1
           /\ \A U \in SUBSET T : Cardinality(U) <= Cardinality(T)
<1>1. IsFiniteSet(T)
  BY FS_Subset
<1>2. Cardinality(T) \in Nat
  BY <1>1, FS_CardinalityType
<1>3. \A s \in Sessions \ T : Cardinality(T \cup {s}) = Cardinality(T) + 1
  BY <1>1, FS_AddElement
<1>4. \A s \in T : Cardinality(T \ {s}) = Cardinality(T) - 1
  BY <1>1, FS_RemoveElement
<1>5. T # {} => Cardinality(T) > 0
  BY <1>1, <1>2, FS_EmptySet
<1>6. \A U \in SUBSET T : Cardinality(U) <= Cardinality(T)
  BY <1>1, FS_Subset
<1> QED
  BY <1>1, <1>2, <1>3, <1>4, <1>5, <1>6

\* The server begins with an empty roster and no reservation.
LEMMA InitIInv == Init => IInv
<1> SUFFICES ASSUME Init PROVE IInv
  OBVIOUS
<1>1. Door
  BY DEF Init, Door
<1>2. Holders
  BY DEF Init, Holders, Registered
<1>3. Cardinality(reserved) = 0 /\ Cardinality(roster) = 0
  BY FS_EmptySet DEF Init
<1>4. ReservationsExact /\ NotOversubscribed /\ PlayersUnique
  BY <1>3 DEF Init, ReservationsExact, NotOversubscribed, PlayersUnique
<1> QED
  BY <1>1, <1>2, <1>4 DEF IInv

\* A step that leaves the gate and the roster alone and moves a session among
\* the phases of one side keeps the invariant.
LEMMA PhaseStep ==
    ASSUME IInv, UNCHANGED door, DOMAIN phase' = Sessions,
           \A s \in Sessions : /\ phase'[s] \in {"ack", "config", "loaded", "announced"}
                                  <=> phase[s] \in {"ack", "config", "loaded", "announced"}
                               /\ s \in Registered => s \in Registered'
    PROVE  IInv'
<1>1. Door'
  BY DEF IInv, Door, door
<1>2. Holders'
  BY DEF IInv, Holders, Registered, door
<1>3. ReservationsExact' /\ NotOversubscribed' /\ PlayersUnique'
  BY DEF IInv, ReservationsExact, NotOversubscribed, PlayersUnique, Duplicate, door
<1> QED
  BY <1>1, <1>2, <1>3 DEF IInv

\* A session that leaves before it joined gives its slot back.
LEMMA ReleaseStep ==
    ASSUME NEW s \in Sessions, IInv, s \in reserved, Release(s),
           phase' = [phase EXCEPT ![s] = "gone"]
    PROVE  IInv'
<1>1. /\ Cardinality(reserved) \in Nat
      /\ Cardinality(reserved) > 0
      /\ Cardinality(reserved \ {s}) = Cardinality(reserved) - 1
  BY Counting DEF IInv, Door
<1>2. Cardinality(roster) \in Nat
  BY Counting DEF IInv, Door
<1>3. pending' = pending - 1 /\ reserved' = reserved \ {s} /\ roster' = roster
  BY <1>1 DEF Release, IInv, ReservationsExact
<1>4. Door'
  BY <1>1, <1>3 DEF IInv, Door, ReservationsExact
<1>5. Holders'
  BY <1>3 DEF IInv, Door, Holders, Registered
<1>6. ReservationsExact' /\ NotOversubscribed'
  BY <1>1, <1>2, <1>3 DEF IInv, Door, ReservationsExact, NotOversubscribed
<1>7. PlayersUnique'
  BY <1>3 DEF IInv, PlayersUnique, Duplicate
<1> QED
  BY <1>4, <1>5, <1>6, <1>7 DEF IInv

\* A login that finds room takes a slot.
LEMMA LoginStep ==
    ASSUME NEW s \in Sessions, IInv, Login(s)
    PROVE  IInv'
<1>1. s \notin reserved
  BY DEF Login, Go, IInv, Holders
<1>2. /\ Cardinality(reserved \cup {s}) = Cardinality(reserved) + 1
      /\ Cardinality(reserved) \in Nat
      /\ Cardinality(roster) \in Nat
  BY <1>1, Counting DEF IInv, Door
<1>3. pending' = pending + 1 /\ reserved' = reserved \cup {s} /\ roster' = roster
  BY DEF Login, Reserve
<1>4. Door'
  BY <1>3 DEF IInv, Door, Login, Go
<1>5. Holders'
  BY <1>3 DEF IInv, Door, Holders, Registered, Login, Go
<1>6. ReservationsExact'
  BY <1>2, <1>3 DEF IInv, ReservationsExact
<1>7. NotOversubscribed'
  BY <1>2, <1>3 DEF IInv, Door, NotOversubscribed, Login, Reserve, HasRoom
<1>8. PlayersUnique'
  BY <1>3 DEF IInv, PlayersUnique, Duplicate
<1> QED
  BY <1>4, <1>5, <1>6, <1>7, <1>8 DEF IInv

\* A join turns its slot into a place in the roster and drops the duplicates.
LEMMA JoinStep ==
    ASSUME NEW s \in Sessions, IInv, Join(s)
    PROVE  IInv'
<1> DEFINE kept == roster \ {t \in roster : Duplicate(s, t)}
<1>1. /\ phase[s] = "announced"
      /\ phase' = [phase EXCEPT ![s] = "joined"]
      /\ roster' = kept \cup {s}
      /\ reserved' = reserved \ {s}
      /\ pending' = IF pending # 0 THEN pending - 1 ELSE pending
  BY DEF Join, Go
<1>2. s \in reserved /\ s \notin roster
  BY <1>1 DEF IInv, Holders, Registered
<1>3. /\ Cardinality(reserved) \in Nat
      /\ Cardinality(reserved) > 0
      /\ Cardinality(reserved \ {s}) = Cardinality(reserved) - 1
  BY <1>2, Counting DEF IInv, Door
<1>4. kept \in SUBSET roster /\ roster \in SUBSET Sessions /\ s \in Sessions \ kept
  BY <1>2 DEF IInv, Door
<1>5. Cardinality(kept) <= Cardinality(roster) /\ Cardinality(roster) \in Nat
  BY <1>4, Counting
<1>6. Cardinality(kept \cup {s}) = Cardinality(kept) + 1 /\ Cardinality(kept) \in Nat
  <2>1. kept \in SUBSET Sessions
    BY <1>4
  <2> HIDE DEF kept
  <2> QED
    BY <2>1, <1>4, Counting
<1>7. pending' = pending - 1
  BY <1>1, <1>3 DEF IInv, ReservationsExact
<1>8. Door'
  BY <1>1, <1>3, <1>7, <1>4 DEF IInv, Door, ReservationsExact
<1>9. Holders'
  BY <1>1, <1>4 DEF IInv, Door, Holders, Registered
<1>10. ReservationsExact'
  BY <1>1, <1>3, <1>7 DEF IInv, Door, ReservationsExact
<1>11. NotOversubscribed'
  <2>1. /\ Cardinality(roster') <= Cardinality(roster) + 1
        /\ Cardinality(roster') \in Nat
    <3> HIDE DEF kept
    <3> QED
      BY <1>1, <1>5, <1>6
  <2> QED
    BY <2>1, <1>5, <1>7 DEF IInv, Door, NotOversubscribed
<1>12. PlayersUnique'
  BY <1>1 DEF IInv, PlayersUnique, Duplicate
<1> QED
  BY <1>8, <1>9, <1>10, <1>11, <1>12 DEF IInv

\* A player leaves the roster at the end of its session's cleanup.
LEMMA RemoveStep ==
    ASSUME NEW s \in Sessions, IInv, RemovePlayer(s)
    PROVE  IInv'
<1>1. /\ phase[s] = "saved"
      /\ phase' = [phase EXCEPT ![s] = "gone"]
      /\ roster' = roster \ {s}
      /\ reserved' = reserved /\ pending' = pending
  BY DEF RemovePlayer, Go
<1>2. Cardinality(roster') <= Cardinality(roster) /\ Cardinality(roster) \in Nat
  BY <1>1, Counting DEF IInv, Door
<1>3. Cardinality(roster') \in Nat
  BY <1>1, Counting DEF IInv, Door
<1>4. Door'
  BY <1>1 DEF IInv, Door
<1>5. Holders'
  BY <1>1 DEF IInv, Door, Holders, Registered
<1>6. ReservationsExact' /\ NotOversubscribed'
  BY <1>1, <1>2, <1>3 DEF IInv, Door, ReservationsExact, NotOversubscribed
<1>7. PlayersUnique'
  BY <1>1 DEF IInv, PlayersUnique, Duplicate
<1> QED
  BY <1>4, <1>5, <1>6, <1>7 DEF IInv

\* Every step of every session keeps the invariant.
LEMMA StepIInv == IInv /\ [Next]_vars => IInv'
<1> SUFFICES ASSUME IInv, [Next]_vars PROVE IInv'
  OBVIOUS
<1>1. ASSUME NEW s \in Sessions, Step(s) PROVE IInv'
  <2>1. CASE Login(s)
    BY <2>1, LoginStep
  <2>2. CASE GiveUp(s)
    <3>1. s \in reserved
      BY <2>2 DEF GiveUp, IInv, Holders
    <3> QED
      BY <2>2, <3>1, ReleaseStep DEF GiveUp
  <2>3. CASE EnterFailed(s)
    <3>1. s \in reserved
      BY <2>3 DEF EnterFailed, IInv, Holders
    <3> QED
      BY <2>3, <3>1, ReleaseStep DEF EnterFailed
  <2>4. CASE Join(s)
    BY <2>4, JoinStep
  <2>5. CASE RemovePlayer(s)
    BY <2>5, RemoveStep
  <2>6. CASE LoginRejected(s) \/ LoginAcknowledged(s) \/ Load(s) \/ Announce(s) \/ Stock(s)
    <3>1. UNCHANGED door
      BY <2>6 DEF LoginRejected, LoginAcknowledged, Load, Announce, Stock, door
    <3>2. \/ phase[s] = "login" /\ phase' = [phase EXCEPT ![s] = "gone"]
          \/ phase[s] = "ack" /\ phase' = [phase EXCEPT ![s] = "config"]
          \/ phase[s] = "config" /\ phase' = [phase EXCEPT ![s] = "loaded"]
          \/ phase[s] = "loaded" /\ phase' = [phase EXCEPT ![s] = "announced"]
          \/ phase[s] = "joined" /\ phase' = [phase EXCEPT ![s] = "play"]
      BY <2>6 DEF LoginRejected, LoginAcknowledged, Load, Announce, Stock, Go
    <3> QED
      BY <3>1, <3>2, PhaseStep DEF IInv, Door, Registered
  <2>7. CASE ReadFrame(s) \/ HandleFrame(s) \/ Close(s) \/ FallSilent(s)
    <3>1. UNCHANGED door /\ phase' = phase
      BY <2>7 DEF ReadFrame, HandleFrame, Close, FallSilent, door
    <3> QED
      BY <3>1, PhaseStep DEF IInv, Door, Registered
  <2>8. CASE Leave(s) \/ TellLeft(s) \/ SaveData(s)
    <3>1. UNCHANGED door
      BY <2>8 DEF Leave, TellLeft, SaveData, door
    <3>2. \/ phase[s] = "play" /\ phase' = [phase EXCEPT ![s] = "left"]
          \/ phase[s] = "left" /\ phase' = [phase EXCEPT ![s] = "unsaved"]
          \/ phase[s] = "unsaved" /\ phase' = [phase EXCEPT ![s] = "saved"]
      BY <2>8 DEF Leave, TellLeft, SaveData, Go
    <3> QED
      BY <3>1, <3>2, PhaseStep DEF IInv, Door, Registered
  <2> QED
    BY <1>1, <2>1, <2>2, <2>3, <2>4, <2>5, <2>6, <2>7, <2>8 DEF Step
<1>2. CASE UNCHANGED vars
  <2>1. UNCHANGED door /\ phase' = phase
    BY <1>2 DEF vars, door
  <2> QED
    BY <2>1, PhaseStep DEF IInv, Door, Registered
<1> QED
  BY <1>1, <1>2 DEF Next

\* Players in the roster and slots reserved at login never exceed max-players
\* (reservePlayerAdmission, addPlayer, releasePlayerAdmission).
THEOREM AdmissionSafe == Spec => []NotOversubscribed
<1>1. IInv => NotOversubscribed
  BY DEF IInv
<1> QED
  BY <1>1, InitIInv, StepIInv, PTL DEF Spec

\* The admission counter counts the sessions that hold a reservation.
THEOREM AdmissionExact == Spec => []ReservationsExact
<1>1. IInv => ReservationsExact
  BY DEF IInv
<1> QED
  BY <1>1, InitIInv, StepIInv, PTL DEF Spec

\* No two players of the roster share a uuid or a name (kickDuplicate).
THEOREM RosterUnique == Spec => []PlayersUnique
<1>1. IInv => PlayersUnique
  BY DEF IInv
<1> QED
  BY <1>1, InitIInv, StepIInv, PTL DEF Spec

-----------------------------------------------------------------------------
(* The data files and the lists of the clients.                             *)

\* A session has read the data file and not written what it carries, ...
Busy == {"loaded", "announced", "joined", "play", "left", "unsaved"}

\* ... while it enters play it holds the gate, ...
Entering == {"loaded", "announced", "joined"}

\* ... it has replaced nothing of what it read until it is in the roster, ...
Fresh == {"loaded", "announced"}

\* ... and it makes no progress before it is in play.
Over == {"saved", "gone"}
Late == {"play", "left", "unsaved"} \cup Over

Rest(u) == MadeBy(u) \ overwritten

GateHeld == \A s \in Sessions : phase[s] \in Entering <=> gate = s

\* Unless sessions of a uuid overlapped, one at a time carries its progress.
Solo ==
    \A s, t \in Sessions :
        /\ phase[s] \in Busy /\ phase[t] \in Busy
        /\ Uuid[s] = Uuid[t] /\ Uuid[s] \notin raced
        => s = t

\* It carries all that no join replaced, and the file has all of it until the
\* session joins.
Carried ==
    \A s \in Sessions :
        phase[s] \in Busy /\ Uuid[s] \notin raced
        => /\ data[s] = Rest(Uuid[s])
           /\ phase[s] \in Fresh => file[Uuid[s]] = Rest(Uuid[s])

\* Progress is of the uuid in whose file or session it is.
Own ==
    /\ \A s \in Sessions : \A p \in data[s] : Uuid[p.by] = Uuid[s]
    /\ \A u \in Uuids : \A p \in file[u] : Uuid[p.by] = u

MadeLate == \A s \in made : phase[s] \in Late

Kept == Solo /\ Carried /\ UnracedProgressKept /\ Own /\ MadeLate

\* A newcomer that was announced lists everyone and is listed by everyone.
Announced ==
    \A s \in Sessions : phase[s] = "announced" =>
        /\ Uuid[s] \in tab[s]
        /\ \A t \in roster : phase[t] \in {"joined", "play"} =>
              /\ Uuid[t] \in tab[s]
              /\ open[t] /\ Uuid[s] \notin raced => Uuid[s] \in tab[t]

\* EveryoneListed, in a form that is easier to reason with.
Listed ==
    \A s, t \in roster :
        /\ phase[s] \in {"joined", "play"} /\ phase[t] \in {"joined", "play"}
        /\ open[s] /\ Uuid[t] \notin raced
        => Uuid[t] \in tab[s]

\* The inductive invariant of the data files and the lists.
PInv == /\ TypeOK /\ IInv /\ GateHeld
        /\ Kept
        /\ Announced /\ Listed

----------------------------------------------------------------------------

\* A step that neither reads nor writes the data of players, and takes a
\* session out of Busy only before it joins.
LEMMA ProgressStays ==
  ASSUME PInv, UNCHANGED progress,
         \A s \in Sessions :
            /\ phase'[s] \in Busy => phase[s] \in Busy
            /\ phase'[s] \in Fresh => phase[s] \in Fresh
            /\ phase[s] \in Busy /\ phase'[s] \notin Busy => phase[s] \in Fresh
            /\ phase[s] \in Over => phase'[s] \in Over
            /\ phase[s] \in Late => phase'[s] \in Late
  PROVE  Kept'
<1> USE DEF PInv, Kept
<1>0. /\ data' = data /\ file' = file /\ made' = made /\ raced' = raced
      /\ overwritten' = overwritten
  BY DEF progress
<1>1. Solo'
  BY <1>0 DEF Solo
<1>2. Carried'
  BY <1>0 DEF Carried, Rest, MadeBy
<1>3. JoinsReset'
  <2> SUFFICES ASSUME NEW p \in overwritten
               PROVE  /\ p.part # "place"
                      /\ Uuid[p.by] \notin raced => phase'[p.by] \in Over
    BY <1>0 DEF JoinsReset, Over
  <2>1. p.by \in Sessions
    BY DEF TypeOK, Progress
  <2>2. p.part # "place" /\ (Uuid[p.by] \notin raced => phase[p.by] \in Over)
    BY DEF UnracedProgressKept, JoinsReset, Over
  <2> QED
    BY <2>1, <2>2
<1>4. UnracedProgressKept'
  <2> SUFFICES ASSUME NEW u \in Uuids \ raced,
                      \A s \in Sessions : Uuid[s] = u => phase'[s] \notin Busy
               PROVE  file[u] = Rest(u)
    BY <1>0, <1>3 DEF UnracedProgressKept, Busy, Rest, MadeBy, Uuids
  <2>1. CASE \E s \in Sessions : Uuid[s] = u /\ phase[s] \in Busy
    BY <2>1 DEF Carried
  <2>2. CASE \A s \in Sessions : Uuid[s] = u => phase[s] \notin Busy
    BY <2>2 DEF UnracedProgressKept, Busy, Rest
  <2> QED
    BY <2>1, <2>2
<1>5. Own' /\ MadeLate'
  BY <1>0 DEF Own, MadeLate, TypeOK
<1> QED
  BY <1>1, <1>2, <1>4, <1>5

\* A step that touches no list, and brings nobody into the roster or play.
LEMMA ListsStay ==
  ASSUME PInv, tab' = tab, raced \subseteq raced', roster' \subseteq roster,
         \A s \in Sessions :
            /\ open'[s] => open[s]
            /\ phase'[s] = "announced" => phase[s] = "announced"
            /\ phase'[s] \in {"joined", "play"} => phase[s] \in {"joined", "play"}
  PROVE  Announced' /\ Listed'
<1>1. roster \subseteq Sessions
  BY DEF PInv, TypeOK
<1>2. Announced'
  BY <1>1 DEF PInv, Announced
<1>3. Listed'
  BY <1>1 DEF PInv, Listed
<1> QED
  BY <1>2, <1>3

\* What is moved is one session's phase.
LEMMA GoMoves ==
  ASSUME TypeOK, NEW s \in Sessions, NEW to, phase' = [phase EXCEPT ![s] = to]
  PROVE  /\ phase'[s] = to
         /\ \A t \in Sessions : t # s => phase'[t] = phase[t]
BY DEF TypeOK

LEMMA ResetTypes ==
  ASSUME TypeOK, NEW s \in Sessions, NEW parts, Reset(s, parts)
  PROVE  data' \in [Sessions -> SUBSET Progress] /\ overwritten' \subseteq Progress
BY DEF TypeOK, Reset

LEMMA TypesStep ==
  ASSUME PInv, NEW s \in Sessions, Step(s)
  PROVE  TypeOK'
<1> USE DEF PInv
<1>0. pending \in Nat /\ s \in Sessions /\ Uuid[s] \in Uuids
  BY DEF TypeOK, Uuids
<1>1. CASE Login(s)
  BY <1>0, <1>1 DEF Login, Reserve, Go, TypeOK, progress
<1>2. CASE LoginRejected(s) \/ LoginAcknowledged(s) \/ FallSilent(s)
  BY <1>0, <1>2 DEF LoginRejected, LoginAcknowledged, FallSilent, Go, TypeOK, progress, door
<1>3. CASE GiveUp(s)
  BY <1>0, <1>3 DEF GiveUp, Release, TypeOK, progress
<1>4. CASE EnterFailed(s)
  BY <1>0, <1>4 DEF EnterFailed, Release, TypeOK, progress
<1>5. CASE Load(s)
  <2>1. file[Uuid[s]] \in SUBSET Progress
    BY <1>0 DEF TypeOK
  <2>2. raced' \subseteq Uuids
    BY <1>5 DEF Load, TypeOK, Uuids, Registered
  <2> QED
    BY <1>0, <1>5, <2>1, <2>2 DEF Load, Go, TypeOK, door
<1>6. CASE Announce(s)
  <2>1. tab' \in [Sessions -> SUBSET Uuids]
    BY <1>0, <1>6 DEF Announce, TypeOK, Uuids
  <2> QED
    BY <1>0, <1>6, <2>1 DEF Announce, Go, TypeOK, door, progress
<1>7. CASE Join(s)
  <2>1. open' \in [Sessions -> BOOLEAN]
    BY <1>7 DEF Join, TypeOK
  <2>2. data' \in [Sessions -> SUBSET Progress] /\ overwritten' \subseteq Progress
    BY <1>7, ResetTypes DEF Join, TypeOK
  <2> QED
    BY <1>0, <1>7, <2>1, <2>2 DEF Join, Reset, Go, TypeOK
<1>13. CASE Stock(s)
  <2>1. data' \in [Sessions -> SUBSET Progress] /\ overwritten' \subseteq Progress
    BY <1>13, ResetTypes DEF Stock, TypeOK, progress
  <2>2. file' = file /\ made' = made /\ raced' = raced
    BY <1>13 DEF Stock, Reset, progress
  <2> QED
    BY <1>0, <1>13, <2>1, <2>2 DEF Stock, Go, TypeOK, door
<1>8. CASE ReadFrame(s) \/ Close(s)
  BY <1>0, <1>8 DEF ReadFrame, Close, TypeOK, progress, door
<1>9. CASE HandleFrame(s)
  <2>0. Of(s) \subseteq Progress
    BY DEF Of, Progress
  <2>1. data' \in [Sessions -> SUBSET Progress] /\ data'[s] \in SUBSET Progress
    BY <1>0, <1>9, <2>0 DEF HandleFrame, TypeOK
  <2>2. file' \in [Uuids -> SUBSET Progress]
    BY <1>0, <1>9, <2>1 DEF HandleFrame, TypeOK
  <2> QED
    BY <1>0, <1>9, <2>1, <2>2 DEF HandleFrame, TypeOK, door
<1>10. CASE Leave(s) \/ RemovePlayer(s)
  BY <1>0, <1>10 DEF Leave, RemovePlayer, Go, TypeOK, progress, door
<1>11. CASE TellLeft(s)
  <2>1. tab' \in [Sessions -> SUBSET Uuids]
    BY <1>0, <1>11 DEF TellLeft, TypeOK
  <2> QED
    BY <1>0, <1>11, <2>1 DEF TellLeft, Go, TypeOK, door, progress
<1>12. CASE SaveData(s)
  <2>1. file' \in [Uuids -> SUBSET Progress]
    BY <1>0, <1>12 DEF SaveData, TypeOK
  <2> QED
    BY <1>0, <1>12, <2>1 DEF SaveData, Go, TypeOK, door
<1> QED
  BY <1>1, <1>2, <1>3, <1>4, <1>5, <1>6, <1>7, <1>8, <1>9, <1>10, <1>11,
     <1>12, <1>13 DEF Step

\* The gate is held by the session that enters play and by no other.
LEMMA GateStep ==
  ASSUME PInv, NEW s \in Sessions, Step(s)
  PROVE  GateHeld'
<1> USE DEF PInv
<1>1. CASE Load(s)
  <2>1. gate = Nobody /\ gate' = s /\ phase' = [phase EXCEPT ![s] = "loaded"]
    BY <1>1 DEF Load, Go
  <2> QED
    BY <2>1, GoMoves DEF GateHeld, Entering
<1>2. CASE Announce(s)
  <2>1. /\ phase[s] = "loaded" /\ gate' = gate
        /\ phase' = [phase EXCEPT ![s] = "announced"]
    BY <1>2 DEF Announce, Go
  <2> QED
    BY <2>1, GoMoves DEF GateHeld, Entering
<1>6. CASE Join(s)
  <2>1. /\ phase[s] = "announced" /\ gate' = gate
        /\ phase' = [phase EXCEPT ![s] = "joined"]
    BY <1>6 DEF Join, Go
  <2> QED
    BY <2>1, GoMoves DEF GateHeld, Entering
<1>3. CASE EnterFailed(s) \/ Stock(s)
  <2>1. /\ phase[s] \in Entering /\ gate' = Nobody
        /\ \/ phase' = [phase EXCEPT ![s] = "gone"]
           \/ phase' = [phase EXCEPT ![s] = "play"]
    BY <1>3 DEF EnterFailed, Stock, Go, Entering
  <2>2. gate = s
    BY <2>1 DEF GateHeld
  <2> QED
    BY <2>1, <2>2, GoMoves DEF GateHeld, Entering
<1>4. CASE ReadFrame(s) \/ HandleFrame(s) \/ Close(s) \/ FallSilent(s)
  BY <1>4 DEF ReadFrame, HandleFrame, Close, FallSilent, GateHeld
<1>5. CASE \/ Login(s) \/ LoginRejected(s) \/ LoginAcknowledged(s) \/ GiveUp(s)
           \/ Leave(s) \/ TellLeft(s) \/ SaveData(s) \/ RemovePlayer(s)
  <2>1. /\ phase[s] \notin Entering /\ gate' = gate
        /\ \E to \in {"ack", "gone", "config", "left", "unsaved", "saved"} :
              phase' = [phase EXCEPT ![s] = to]
    BY <1>5 DEF Login, LoginRejected, LoginAcknowledged, GiveUp, Leave,
                TellLeft, SaveData, RemovePlayer, Go, Entering
  <2> QED
    BY <2>1, GoMoves DEF GateHeld, Entering
<1> QED
  BY <1>1, <1>2, <1>3, <1>4, <1>5, <1>6 DEF Step

\* A session that loads its file finds all progress in it, or overlaps another.
LEMMA LoadStep ==
  ASSUME PInv, NEW s \in Sessions, Load(s)
  PROVE  Kept'
<1> USE DEF PInv, Kept
<1>1. /\ gate = Nobody /\ phase[s] = "config"
      /\ phase' = [phase EXCEPT ![s] = "loaded"]
      /\ data' = [data EXCEPT ![s] = file[Uuid[s]]]
      /\ file' = file /\ made' = made /\ overwritten' = overwritten
      /\ raced \subseteq raced'
  BY DEF Load, Go
<1>2. \A t \in Sessions : t # s /\ Uuid[t] = Uuid[s] /\ Uuid[s] \notin raced'
         => phase[t] \notin Busy
  <2> SUFFICES ASSUME NEW t \in Sessions, t # s, Uuid[t] = Uuid[s],
                      phase[t] \in Busy
               PROVE  Uuid[s] \in raced'
    OBVIOUS
  <2>1. phase[t] \notin Entering
    BY <1>1 DEF GateHeld
  <2>2. t \in Registered /\ phase[t] # "saved"
    BY <2>1 DEF Registered, Busy, Entering
  <2> QED
    BY <2>2 DEF Load
<1>3. /\ phase'[s] = "loaded"
      /\ \A t \in Sessions : t # s => phase'[t] = phase[t] /\ data'[t] = data[t]
      /\ data'[s] = file[Uuid[s]]
      /\ Uuid[s] \in Uuids
  BY <1>1 DEF TypeOK, Uuids
<1>4. Uuid[s] \notin raced' => file[Uuid[s]] = Rest(Uuid[s])
  <2> SUFFICES ASSUME Uuid[s] \notin raced'
               PROVE  file[Uuid[s]] = Rest(Uuid[s])
    OBVIOUS
  <2>1. \A t \in Sessions : Uuid[t] = Uuid[s] => phase[t] \notin Busy
    BY <1>1, <1>2 DEF Busy
  <2>2. Uuid[s] \in Uuids \ raced
    BY <1>1 DEF Uuids
  <2> QED
    BY <2>1, <2>2 DEF UnracedProgressKept, Busy, Rest
<1>5. Solo'
  BY <1>1, <1>2, <1>3 DEF Solo
<1>6. Carried'
  <2> SUFFICES ASSUME NEW t \in Sessions, phase'[t] \in Busy, Uuid[t] \notin raced'
               PROVE  /\ data'[t] = Rest(Uuid[t])
                      /\ phase'[t] \in Fresh => file[Uuid[t]] = Rest(Uuid[t])
    BY <1>1 DEF Carried, Rest, MadeBy
  <2>1. CASE t = s
    BY <1>3, <1>4, <2>1
  <2>2. CASE t # s
    BY <1>1, <1>3, <2>2 DEF Carried
  <2> QED
    BY <2>1, <2>2
<1>7. JoinsReset'
  <2> SUFFICES ASSUME NEW p \in overwritten
               PROVE  /\ p.part # "place"
                      /\ Uuid[p.by] \notin raced' => phase'[p.by] \in Over
    BY <1>1 DEF JoinsReset, Over
  <2>1. /\ p.part # "place" /\ p.by \in Sessions
        /\ Uuid[p.by] \notin raced => phase[p.by] \in Over
    BY <1>1 DEF UnracedProgressKept, JoinsReset, Over, TypeOK, Progress
  <2> QED
    BY <1>1, <1>3, <2>1 DEF Over
<1>8. UnracedProgressKept'
  <2> SUFFICES ASSUME NEW u \in Uuids \ raced',
                      \A t \in Sessions : Uuid[t] = u => phase'[t] \notin Busy
               PROVE  file[u] = Rest(u)
    BY <1>1, <1>7 DEF UnracedProgressKept, Busy, Rest, MadeBy
  <2>1. \A t \in Sessions : Uuid[t] = u => phase[t] \notin Busy
    BY <1>1, <1>3 DEF Busy
  <2> QED
    BY <1>1, <2>1 DEF UnracedProgressKept, Busy, Rest
<1>9. Own'
  BY <1>1, <1>3 DEF Own
<1>10. MadeLate'
  BY <1>1, <1>3 DEF MadeLate, Late, Over, TypeOK
<1> QED
  BY <1>5, <1>6, <1>8, <1>9, <1>10

\* A join replaces what earlier sessions of its player have made.
LEMMA ResetStep ==
  ASSUME PInv, NEW s \in Sessions, NEW parts \in SUBSET {"body", "bag"},
         Reset(s, parts), phase[s] \in {"announced", "joined"},
         NEW to \in {"joined", "play"}, phase' = [phase EXCEPT ![s] = to]
  PROVE  Kept'
<1> USE DEF PInv, Kept
<1> DEFINE lost == {p \in data[s] : p.part \in parts}
<1>1. /\ data' = [data EXCEPT ![s] = data[s] \ lost]
      /\ overwritten' = overwritten \cup lost
      /\ file' = file /\ made' = made /\ raced' = raced
  BY DEF Reset
<1>2. /\ phase'[s] = to /\ data'[s] = data[s] \ lost
      /\ \A t \in Sessions : t # s => phase'[t] = phase[t] /\ data'[t] = data[t]
  BY <1>1 DEF TypeOK
<1>3. \A p \in lost : p \in Progress /\ p.by \in Sessions /\ Uuid[p.by] = Uuid[s]
                                    /\ p.part # "place"
  BY DEF Own, TypeOK, Progress
<1>4. \A u : u # Uuid[s] => Rest(u)' = Rest(u)
  BY <1>1, <1>3 DEF Rest, MadeBy
<1>5. Rest(Uuid[s])' = Rest(Uuid[s]) \ lost
  BY <1>1 DEF Rest, MadeBy
<1> HIDE DEF lost
<1>6. Solo'
  BY <1>1, <1>2 DEF Solo, Busy
<1>7. phase[s] \in Busy /\ phase'[s] \in Busy /\ phase'[s] \notin Fresh
  BY <1>2 DEF Busy, Fresh
<1>8. Carried'
  <2> SUFFICES ASSUME NEW t \in Sessions, phase'[t] \in Busy, Uuid[t] \notin raced
               PROVE  /\ data'[t] = Rest(Uuid[t])'
                      /\ phase'[t] \in Fresh => file[Uuid[t]] = Rest(Uuid[t])'
    BY <1>1 DEF Carried
  <2>1. CASE t = s
    BY <1>2, <1>5, <1>7, <2>1 DEF Carried
  <2>2. CASE t # s
    <3>1. phase[t] \in Busy /\ Uuid[t] # Uuid[s]
      BY <1>2, <1>7, <2>2 DEF Solo
    <3> QED
      BY <1>2, <1>4, <2>2, <3>1 DEF Carried
  <2> QED
    BY <2>1, <2>2
<1>9. JoinsReset'
  <2> SUFFICES ASSUME NEW p \in overwritten'
               PROVE  /\ p.part # "place"
                      /\ Uuid[p.by] \notin raced => phase'[p.by] \in Over
    BY <1>1 DEF JoinsReset, Over
  <2>1. CASE p \in overwritten
    <3>1. /\ p.part # "place" /\ p.by \in Sessions
          /\ Uuid[p.by] \notin raced => phase[p.by] \in Over
      BY <2>1 DEF UnracedProgressKept, JoinsReset, Over, TypeOK, Progress
    <3>2. phase[p.by] \in Over => p.by # s
      BY <3>1 DEF Over
    <3> QED
      BY <1>2, <3>1, <3>2
  <2>2. CASE p \in lost
    <3> SUFFICES ASSUME Uuid[p.by] \notin raced
                 PROVE  phase'[p.by] \in Over
      BY <1>3, <2>2
    <3>1. p \in data[s] /\ p \in Rest(Uuid[s])
      BY <1>3, <1>7, <2>2 DEF Carried, lost
    <3>2. p.by \in made
      BY <3>1 DEF Rest, MadeBy
    <3>3. phase[p.by] \in Late
      BY <3>2 DEF MadeLate
    <3>4. p.by # s
      BY <3>3 DEF Late, Over
    <3>5. phase[p.by] \notin Busy
      BY <1>3, <1>7, <2>2, <3>4 DEF Solo
    <3> QED
      BY <1>2, <1>3, <2>2, <3>3, <3>4, <3>5 DEF Late, Over, Busy
  <2> QED
    BY <1>1, <2>1, <2>2
<1>10. UnracedProgressKept'
  <2> SUFFICES ASSUME NEW u \in Uuids \ raced,
                      \A t \in Sessions : Uuid[t] = u => phase'[t] \notin Busy
               PROVE  file[u] = Rest(u)'
    BY <1>1, <1>9 DEF UnracedProgressKept, Busy, Rest, MadeBy
  <2>1. u # Uuid[s]
    BY <1>7
  <2>2. \A t \in Sessions : Uuid[t] = u => phase[t] \notin Busy
    BY <1>2, <2>1
  <2> QED
    BY <1>4, <2>1, <2>2 DEF UnracedProgressKept, Busy, Rest
<1>11. Own'
  BY <1>1, <1>2 DEF Own
<1>12. MadeLate'
  <2>1. s \in made => phase[s] \in Late
    BY DEF MadeLate
  <2>2. s \notin made
    BY <2>1 DEF Late, Over
  <2> QED
    BY <1>1, <1>2, <2>2 DEF MadeLate, TypeOK
<1> QED
  BY <1>6, <1>8, <1>10, <1>11, <1>12

\* A packet adds to what its session carries.
LEMMA HandleStep ==
  ASSUME PInv, NEW s \in Sessions, HandleFrame(s)
  PROVE  Kept'
<1> USE DEF PInv, Kept
<1>1. /\ phase[s] = "play" /\ phase' = phase /\ raced' = raced
      /\ overwritten' = overwritten
      /\ data' = [data EXCEPT ![s] = data[s] \cup Of(s)]
      /\ made' = made \cup {s}
      /\ file' = [file EXCEPT ![Uuid[s]] = data'[s]] \/ file' = file
  BY DEF HandleFrame
<1>2. Solo'
  BY <1>1 DEF Solo
<1>3. /\ data'[s] = data[s] \cup Of(s)
      /\ \A t \in Sessions : t # s => data'[t] = data[t]
      /\ \A u \in Uuids : u # Uuid[s] => file'[u] = file[u]
      /\ Uuid[s] \in Uuids
      /\ file'[Uuid[s]] = data'[s] \/ file'[Uuid[s]] = file[Uuid[s]]
  BY <1>1 DEF TypeOK, Uuids
<1>0. \A p : p \in Of(s) <=> p \in Progress /\ p.by = s
  BY DEF Of, Progress
<1>4. /\ MadeBy(Uuid[s])' = MadeBy(Uuid[s]) \cup Of(s)
      /\ \A u : u # Uuid[s] => MadeBy(u)' = MadeBy(u)
  BY <1>1, <1>0 DEF MadeBy
<1>5. Uuid[s] \notin raced => Of(s) \cap overwritten = {}
  BY <1>0, <1>1 DEF UnracedProgressKept, JoinsReset
<1>6. /\ Uuid[s] \notin raced => Rest(Uuid[s])' = Rest(Uuid[s]) \cup Of(s)
      /\ \A u : u # Uuid[s] => Rest(u)' = Rest(u)
  BY <1>1, <1>4, <1>5 DEF Rest
<1>7. Carried'
  <2> SUFFICES ASSUME NEW t \in Sessions, phase[t] \in Busy, Uuid[t] \notin raced
               PROVE  /\ data'[t] = Rest(Uuid[t])'
                      /\ phase[t] \in Fresh => file'[Uuid[t]] = Rest(Uuid[t])'
    BY <1>1 DEF Carried
  <2>1. CASE Uuid[t] = Uuid[s]
    <3>1. t = s
      BY <1>1, <2>1 DEF Solo, Busy
    <3> QED
      BY <1>1, <1>3, <1>6, <3>1 DEF Carried, Busy, Fresh
  <2>2. CASE Uuid[t] # Uuid[s]
    <3>1. Uuid[t] \in Uuids /\ t # s
      BY <2>2 DEF Uuids
    <3> QED
      BY <1>3, <1>6, <2>2, <3>1 DEF Carried
  <2> QED
    BY <2>1, <2>2
<1>8. UnracedProgressKept'
  <2> SUFFICES ASSUME NEW u \in Uuids \ raced,
                      \A t \in Sessions : Uuid[t] = u => phase[t] \notin Busy
               PROVE  file'[u] = Rest(u)'
    BY <1>1 DEF UnracedProgressKept, JoinsReset, Busy, Rest
  <2>1. u # Uuid[s]
    BY <1>1 DEF Busy
  <2> QED
    BY <1>3, <1>6, <2>1 DEF UnracedProgressKept, Busy, Rest
<1>9. Own'
  <2>1. \A t \in Sessions : \A p \in data'[t] : Uuid[p.by] = Uuid[t]
    BY <1>0, <1>3 DEF Own
  <2>2. \A u \in Uuids : \A p \in file'[u] : Uuid[p.by] = u
    BY <1>3, <2>1 DEF Own
  <2> QED
    BY <2>1, <2>2 DEF Own
<1>10. MadeLate'
  BY <1>1 DEF MadeLate, Late
<1> QED
  BY <1>2, <1>7, <1>8, <1>9, <1>10

\* The save at the end writes all that was made.
LEMMA SaveStep ==
  ASSUME PInv, NEW s \in Sessions, SaveData(s)
  PROVE  Kept'
<1> USE DEF PInv, Kept
<1>1. /\ phase[s] = "unsaved" /\ phase' = [phase EXCEPT ![s] = "saved"]
      /\ data' = data /\ made' = made /\ raced' = raced /\ overwritten' = overwritten
      /\ file' = [file EXCEPT ![Uuid[s]] = data[s]]
  BY DEF SaveData, Go
<1>2. /\ phase'[s] = "saved"
      /\ \A t \in Sessions : t # s => phase'[t] = phase[t]
      /\ \A u \in Uuids : u # Uuid[s] => file'[u] = file[u]
      /\ Uuid[s] \in Uuids /\ file'[Uuid[s]] = data[s]
  BY <1>1 DEF TypeOK, Uuids
<1>3. Solo'
  BY <1>1, <1>2 DEF Solo, Busy
<1>4. Carried'
  <2> SUFFICES ASSUME NEW t \in Sessions, phase'[t] \in Busy, Uuid[t] \notin raced'
               PROVE  /\ data'[t] = Rest(Uuid[t])
                      /\ phase'[t] \in Fresh => file'[Uuid[t]] = Rest(Uuid[t])
    BY <1>1 DEF Carried, Rest, MadeBy
  <2>1. t # s /\ phase[t] \in Busy /\ phase'[t] = phase[t]
    BY <1>2 DEF Busy
  <2>2. Uuid[t] # Uuid[s] /\ Uuid[t] \in Uuids
    BY <1>1, <2>1 DEF Solo, Busy, Uuids
  <2> QED
    BY <1>1, <1>2, <2>1, <2>2 DEF Carried
<1>5. JoinsReset'
  <2> SUFFICES ASSUME NEW p \in overwritten
               PROVE  /\ p.part # "place"
                      /\ Uuid[p.by] \notin raced => phase'[p.by] \in Over
    BY <1>1 DEF JoinsReset, Over
  <2>1. /\ p.part # "place" /\ p.by \in Sessions
        /\ Uuid[p.by] \notin raced => phase[p.by] \in Over
    BY DEF UnracedProgressKept, JoinsReset, Over, TypeOK, Progress
  <2> QED
    BY <1>2, <2>1 DEF Over
<1>6. UnracedProgressKept'
  <2> SUFFICES ASSUME NEW u \in Uuids \ raced,
                      \A t \in Sessions : Uuid[t] = u => phase'[t] \notin Busy
               PROVE  file'[u] = Rest(u)
    BY <1>1, <1>5 DEF UnracedProgressKept, Busy, Rest, MadeBy
  <2>1. CASE u = Uuid[s]
    BY <1>1, <1>2, <2>1 DEF Carried, Busy
  <2>2. CASE u # Uuid[s]
    <3>1. \A t \in Sessions : Uuid[t] = u => phase[t] \notin Busy
      BY <1>2, <2>2
    <3> QED
      BY <1>2, <2>2, <3>1 DEF UnracedProgressKept, Busy, Rest
  <2> QED
    BY <2>1, <2>2
<1>7. Own'
  BY <1>1, <1>2 DEF Own
<1>8. MadeLate'
  BY <1>1, <1>2 DEF MadeLate, Late, Over, TypeOK
<1> QED
  BY <1>3, <1>4, <1>6, <1>7, <1>8

LEMMA ProgressStep ==
  ASSUME PInv, NEW s \in Sessions, Step(s)
  PROVE  Kept'
<1> USE DEF PInv
<1>1. CASE ReadFrame(s) \/ Close(s) \/ FallSilent(s)
  <2>1. UNCHANGED progress /\ phase' = phase
    BY <1>1 DEF ReadFrame, Close, FallSilent
  <2> QED
    BY <2>1, ProgressStays
<1>2. CASE \/ Login(s) \/ LoginRejected(s) \/ LoginAcknowledged(s) \/ GiveUp(s)
           \/ Announce(s) \/ EnterFailed(s)
           \/ (Stock(s) /\ UNCHANGED progress)
           \/ Leave(s) \/ TellLeft(s) \/ RemovePlayer(s)
  <2>1. UNCHANGED progress
    BY <1>2 DEF Login, LoginRejected, LoginAcknowledged, GiveUp, Announce,
                EnterFailed, Leave, TellLeft, RemovePlayer
  <2>2. \/ /\ phase[s] \in {"login", "ack", "config", "saved"}
           /\ \E to \in {"ack", "config", "gone"} :
                 /\ phase' = [phase EXCEPT ![s] = to]
                 /\ phase[s] = "saved" => to = "gone"
        \/ phase[s] \in Fresh /\ phase' = [phase EXCEPT ![s] = "gone"]
        \/ phase[s] = "loaded" /\ phase' = [phase EXCEPT ![s] = "announced"]
        \/ phase[s] = "joined" /\ phase' = [phase EXCEPT ![s] = "play"]
        \/ phase[s] = "play" /\ phase' = [phase EXCEPT ![s] = "left"]
        \/ phase[s] = "left" /\ phase' = [phase EXCEPT ![s] = "unsaved"]
    BY <1>2 DEF Login, LoginRejected, LoginAcknowledged, GiveUp, Announce,
                EnterFailed, Stock, Leave, TellLeft, RemovePlayer, Go, Fresh
  <2>3. \A t \in Sessions :
          /\ phase'[t] \in Busy => phase[t] \in Busy
          /\ phase'[t] \in Fresh => phase[t] \in Fresh
          /\ phase[t] \in Busy /\ phase'[t] \notin Busy => phase[t] \in Fresh
          /\ phase[t] \in Over => phase'[t] \in Over
          /\ phase[t] \in Late => phase'[t] \in Late
    BY <2>2, GoMoves DEF Busy, Fresh, Over, Late
  <2> QED
    BY <2>1, <2>3, ProgressStays
<1>3. CASE Join(s)
  BY <1>3, ResetStep DEF Join, Go
<1>4. CASE Stock(s) /\ Reset(s, {"bag"})
  BY <1>4, ResetStep DEF Stock, Go
<1>5. Stock(s) => Reset(s, {"bag"}) \/ UNCHANGED progress
  BY DEF Stock
<1> QED
  BY <1>1, <1>2, <1>3, <1>4, <1>5, LoadStep, HandleStep, SaveStep DEF Step

\* The newcomer and the roster are told of each other.
LEMMA AnnounceStep ==
  ASSUME PInv, NEW s \in Sessions, Announce(s)
  PROVE  Announced' /\ Listed'
<1> USE DEF PInv
<1>1. /\ phase[s] = "loaded" /\ phase' = [phase EXCEPT ![s] = "announced"]
      /\ open' = open /\ roster' = roster /\ raced' = raced
      /\ roster \subseteq Sessions
  BY DEF Announce, Go, door, progress, TypeOK
<1>2. /\ phase'[s] = "announced"
      /\ \A t \in Sessions : t # s => phase'[t] = phase[t]
  BY <1>1, GoMoves
<1>3. /\ tab'[s] = {Uuid[s]} \cup {Uuid[r] : r \in roster}
      /\ \A t \in Sessions : t # s => tab[t] \subseteq tab'[t]
      /\ \A t \in roster : t # s /\ open[t] => Uuid[s] \in tab'[t]
  BY <1>1 DEF Announce
<1>4. \A t \in Sessions : phase[t] = "announced" => t = s
  BY <1>1 DEF GateHeld, Entering
<1>5. Announced'
  BY <1>1, <1>2, <1>3, <1>4 DEF Announced
<1>6. Listed'
  BY <1>1, <1>2, <1>3 DEF Listed
<1> QED
  BY <1>5, <1>6

\* It is in the roster, with those it was told of and who were told of it.
LEMMA ListedJoin ==
  ASSUME PInv, NEW s \in Sessions, Join(s)
  PROVE  Announced' /\ Listed'
<1> USE DEF PInv
<1>1. /\ phase[s] = "announced" /\ phase' = [phase EXCEPT ![s] = "joined"]
      /\ roster' \subseteq roster \cup {s} /\ raced' = raced /\ tab' = tab
      /\ roster \subseteq Sessions
  BY DEF Join, Reset, Go, TypeOK
<1>2. /\ phase'[s] = "joined"
      /\ \A t \in Sessions : t # s => phase'[t] = phase[t]
  BY <1>1, GoMoves
<1>3. \A t \in Sessions : open'[t] => open[t]
  BY DEF Join
<1>4. \A t \in Sessions : phase[t] = "announced" => t = s
  BY <1>1 DEF GateHeld, Entering
<1>5. Announced'
  BY <1>2, <1>4 DEF Announced
<1>6. Listed'
  BY <1>1, <1>2, <1>3 DEF Listed, Announced
<1> QED
  BY <1>5, <1>6

\* Who left is dropped from the lists; no other session of its uuid plays.
LEMMA TellLeftStep ==
  ASSUME PInv, NEW s \in Sessions, TellLeft(s)
  PROVE  Announced' /\ Listed'
<1> USE DEF PInv
<1>1. /\ phase[s] = "left" /\ phase' = [phase EXCEPT ![s] = "unsaved"]
      /\ open' = open /\ roster' = roster /\ raced' = raced
      /\ roster \subseteq Sessions
  BY DEF TellLeft, Go, door, progress, TypeOK
<1>2. /\ phase'[s] = "unsaved"
      /\ \A t \in Sessions : t # s => phase'[t] = phase[t]
  BY <1>1, GoMoves
<1>3. \A t \in Sessions : /\ tab[t] \ {Uuid[s]} \subseteq tab'[t]
                          /\ t \notin roster => tab'[t] = tab[t]
  BY DEF TellLeft
<1>4. \A t \in Sessions :
         t # s /\ phase[t] \in Busy /\ Uuid[t] \notin raced => Uuid[t] # Uuid[s]
  BY <1>1 DEF Kept, Solo, Busy
<1>5. \A t \in roster : phase[t] # "announced" /\ t \in Sessions
  BY DEF IInv, Holders, Registered
<1>6. Announced'
  BY <1>1, <1>2, <1>3, <1>4, <1>5 DEF Announced, Busy
<1>7. Listed'
  BY <1>1, <1>2, <1>3, <1>4 DEF Listed, Busy
<1> QED
  BY <1>6, <1>7

LEMMA ListsStep ==
  ASSUME PInv, NEW s \in Sessions, Step(s)
  PROVE  Announced' /\ Listed'
<1> USE DEF PInv
<1>1. CASE ReadFrame(s) \/ HandleFrame(s) \/ Close(s) \/ FallSilent(s)
  <2>1. /\ tab' = tab /\ raced' = raced /\ roster' = roster /\ phase' = phase
        /\ open' = open \/ open' = [open EXCEPT ![s] = FALSE]
    BY <1>1 DEF ReadFrame, HandleFrame, Close, FallSilent, door, progress
  <2>2. \A t \in Sessions : open'[t] => open[t]
    BY <2>1 DEF TypeOK
  <2> QED
    BY <2>1, <2>2, ListsStay
<1>2. CASE \/ Login(s) \/ LoginRejected(s) \/ LoginAcknowledged(s) \/ GiveUp(s)
           \/ Load(s) \/ EnterFailed(s) \/ Stock(s)
           \/ Leave(s) \/ SaveData(s) \/ RemovePlayer(s)
  <2>1. tab' = tab /\ raced \subseteq raced'
    BY <1>2 DEF Login, LoginRejected, LoginAcknowledged, GiveUp, Load,
                EnterFailed, Stock, Leave, SaveData, RemovePlayer, progress, Reset
  <2>2. roster' \subseteq roster
    BY <1>2 DEF Login, LoginRejected, LoginAcknowledged, GiveUp, Load,
                EnterFailed, Stock, Leave, SaveData, RemovePlayer, door, Reserve, Release
  <2>3. open' = open \/ open' = [open EXCEPT ![s] = FALSE]
    BY <1>2 DEF Login, LoginRejected, LoginAcknowledged, GiveUp, Load,
                EnterFailed, Stock, Leave, SaveData, RemovePlayer
  <2>4. \A t \in Sessions : open'[t] => open[t]
    BY <2>3 DEF TypeOK
  <2>5. \/ \E to \in {"ack", "config", "gone", "loaded", "left", "saved"} :
              phase' = [phase EXCEPT ![s] = to]
        \/ phase[s] = "joined" /\ phase' = [phase EXCEPT ![s] = "play"]
    BY <1>2 DEF Login, LoginRejected, LoginAcknowledged, GiveUp, Load,
                EnterFailed, Stock, Leave, SaveData, RemovePlayer, Go
  <2>6. \A t \in Sessions : /\ phase'[t] = "announced" => phase[t] = "announced"
                            /\ phase'[t] \in {"joined", "play"}
                                  => phase[t] \in {"joined", "play"}
    BY <2>5, GoMoves
  <2> QED
    BY <2>1, <2>2, <2>4, <2>6, ListsStay
<1> QED
  BY <1>1, <1>2, AnnounceStep, ListedJoin, TellLeftStep DEF Step

LEMMA InitPInv == Init => PInv
<1> SUFFICES ASSUME Init PROVE PInv
  OBVIOUS
<1>1. TypeOK
  BY DEF Init, TypeOK
<1>2. GateHeld /\ Solo /\ Carried
  BY DEF Init, GateHeld, Solo, Carried, Busy, Entering
<1>3. UnracedProgressKept /\ Own /\ MadeLate
  BY DEF Init, UnracedProgressKept, JoinsReset, MadeBy, Own, MadeLate
<1>4. Announced /\ Listed
  BY DEF Init, Announced, Listed
<1> QED
  BY <1>1, <1>2, <1>3, <1>4, InitIInv DEF PInv, Kept

LEMMA StepPInv == PInv /\ [Next]_vars => PInv'
<1> SUFFICES ASSUME PInv, [Next]_vars PROVE PInv'
  OBVIOUS
<1>1. IInv'
  BY StepIInv DEF PInv
<1>2. ASSUME NEW s \in Sessions, Step(s) PROVE PInv'
  BY <1>1, <1>2, TypesStep, GateStep, ProgressStep, ListsStep DEF PInv
<1>3. CASE UNCHANGED vars
  <2>1. /\ UNCHANGED progress /\ phase' = phase /\ gate' = gate /\ tab' = tab
        /\ raced' = raced /\ roster' = roster /\ open' = open
    BY <1>3 DEF vars, door, progress
  <2>2. TypeOK'
    BY <1>3 DEF vars, door, progress, PInv, TypeOK
  <2>3. GateHeld'
    BY <2>1 DEF PInv, GateHeld
  <2>4. Kept'
    BY <2>1, ProgressStays
  <2>5. Announced' /\ Listed'
    BY <2>1, ListsStay
  <2> QED
    BY <1>1, <2>2, <2>3, <2>4, <2>5 DEF PInv
<1> QED
  BY <1>2, <1>3 DEF Next

\* Every variable of the sessions has its type.
THEOREM SessionTypes == Spec => []TypeOK
<1>1. PInv => TypeOK
  BY DEF PInv
<1> QED
  BY <1>1, InitPInv, StepPInv, PTL DEF Spec

\* However the sessions of a player follow each other, nothing of its progress is
\* lost but what the reset and the starter items of a later join replace
\* (onEnterPlay), which is never place or experience, unless one loads the
\* data file while another has still to save (loadPlayerData under the gate,
\* savePlayerData in the cleanup).
THEOREM ProgressKept == Spec => []UnracedProgressKept
<1>1. PInv => UnracedProgressKept
  BY DEF PInv, Kept
<1> QED
  BY <1>1, InitPInv, StepPInv, PTL DEF Spec

\* Players in play list each other, whatever the order of joins and leaves.
THEOREM PlayersListed == Spec => []EveryoneListed
<1>1. PInv => EveryoneListed
  <2> SUFFICES ASSUME PInv, NEW s \in roster, NEW t \in roster,
                      {phase[s], phase[t]} \subseteq {"joined", "play"},
                      open[s], Uuid[t] \notin raced
               PROVE  Uuid[t] \in tab[s]
    BY DEF EveryoneListed
  <2>1. phase[s] \in {"joined", "play"} /\ phase[t] \in {"joined", "play"}
    OBVIOUS
  <2> QED
    BY <2>1 DEF PInv, Listed
<1> QED
  BY <1>1, InitPInv, StepPInv, PTL DEF Spec
=============================================================================

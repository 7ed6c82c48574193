----------------------- MODULE ServerLifecycleProofs -----------------------
(***************************************************************************)
(* NoThreadOutlivesStop for any number of sessions.  The invariant follows *)
(* the order of GameServer::stop: the tick is joined first, then the       *)
(* janitor, then the sessions, and none of them can begin again, because   *)
(* only the main thread begins them, before it stops.  That the join of    *)
(* the sessions misses none is Tracked: every live session is in the       *)
(* registry, except for the one that was just spawned.  AdmissionBounded   *)
(* follows from who holds a slot: every session that the limits count does.*)
(* The second half is JavaRuntime: who may be where while the one machine   *)
(* of the process comes and goes.                                          *)
(***************************************************************************)
EXTENDS MCServerLifecycle, FiniteSetTheorems, SequenceTheorems, TLAPS

Alive == {w \in Workers : place[w] \notin {"none", "gone"}}

Placed == DOMAIN place = Workers

Tracked == main # "spawned" => Alive \subseteq registry

TickJoined     == main \in {"janitor", "join", "teardown", "stopped"} => tick # "on"
JanitorJoined  == main \in {"join", "teardown", "stopped"} => janitor # "on"
SessionsJoined == main \in {"teardown", "stopped"} => Alive = {}

IInv == Placed /\ Tracked /\ TickJoined /\ JanitorJoined /\ SessionsJoined

LEMMA InitIInv == Init => IInv
BY DEF Init, IInv, Placed, Tracked, TickJoined, JanitorJoined, SessionsJoined, Alive

\* A step of the main thread that begins and ends no thread.
LEMMA MainStep ==
    ASSUME IInv, UNCHANGED <<threads, place, registry>>,
           main' = "spawned" \/ main # "spawned",
           main' \in {"janitor", "join", "teardown", "stopped"} => main = main',
           main # main' => main' \notin {"janitor", "join", "teardown", "stopped"}
    PROVE  IInv'
BY DEF IInv, Placed, Tracked, TickJoined, JanitorJoined, SessionsJoined, Alive, threads

\* A step of another thread, which begins none.
LEMMA ThreadStep ==
    ASSUME IInv, UNCHANGED <<main, registry>>, DOMAIN place' = Workers,
           tick' = "on" => tick = "on", janitor' = "on" => janitor = "on",
           Alive' \subseteq Alive
    PROVE  IInv'
BY DEF IInv, Placed, Tracked, TickJoined, JanitorJoined, SessionsJoined

LEMMA MainKeeps ==
    ASSUME IInv, Main
    PROVE  IInv'
<1>1. CASE CheckEarlyStop
  BY <1>1, MainStep DEF CheckEarlyStop, MainGoes, threads, sessions
<1>2. CASE CreateListener \/ ListenFails \/ Listen
  BY <1>2, MainStep DEF CreateListener, ListenFails, Listen, MainGoes, threads, sessions
<1>3. CASE Serve
  BY <1>3 DEF Serve, MainGoes, sessions, IInv, Placed, Tracked, TickJoined,
              JanitorJoined, SessionsJoined, Alive
<1>4. CASE AcceptLoop \/ AcceptFails
  BY <1>4, MainStep DEF AcceptLoop, AcceptFails, MainGoes, threads, sessions
<1>5. CASE RegisterThread
  BY <1>5 DEF RegisterThread, MainGoes, threads, sessions, IInv, Placed, Tracked,
              TickJoined, JanitorJoined, SessionsJoined, Alive
<1>6. CASE StopRequested \/ Snapshot \/ Aborted
  BY <1>6, MainStep DEF StopRequested, Snapshot, Aborted, MainGoes, threads, sessions
<1>7. CASE \E w \in Workers : Abort(w)
  BY <1>7, MainStep DEF Abort, threads
<1>8. CASE StopTickLoop
  BY <1>8 DEF StopTickLoop, MainGoes, threads, sessions, IInv, Placed, Tracked,
              TickJoined, JanitorJoined, SessionsJoined, Alive
<1>9. CASE JoinJanitor
  BY <1>9 DEF JoinJanitor, MainGoes, threads, sessions, IInv, Placed, Tracked,
              TickJoined, JanitorJoined, SessionsJoined, Alive
<1>10. CASE JoinSessionThreads
  <2>1. Alive \subseteq registry
    BY <1>10 DEF JoinSessionThreads, MainGoes, IInv, Tracked
  <2>2. Alive = {}
    BY <1>10, <2>1 DEF JoinSessionThreads, Alive
  <2> QED
    BY <1>10, <2>2 DEF JoinSessionThreads, MainGoes, threads, IInv, Placed, Tracked,
              TickJoined, JanitorJoined, SessionsJoined, Alive
<1>11. CASE TearDown
  BY <1>11 DEF TearDown, MainGoes, threads, sessions, IInv, Placed, Tracked,
              TickJoined, JanitorJoined, SessionsJoined, Alive
<1> QED
  BY <1>1, <1>2, <1>3, <1>4, <1>5, <1>6, <1>7, <1>8, <1>9, <1>10, <1>11 DEF Main

\* A session thread that goes from one place to another was alive before.
LEMMA SessionKeeps ==
    ASSUME IInv, NEW w \in Workers, Speaks(w) \/ Proceeds(w)
    PROVE  IInv'
<1>1. /\ UNCHANGED <<main, registry, threads>>
      /\ w \in Alive
      /\ DOMAIN place' = Workers
      /\ \A v \in Workers \ {w} : place'[v] = place[v]
  <2>1. CASE ToStatus(w)
    <3>1. \/ place' = [place EXCEPT ![w] = "loop"]
          \/ place' = [place EXCEPT ![w] = "leaving"]
      BY <2>1 DEF ToStatus
    <3> QED
      BY <2>1, <3>1 DEF ToStatus, Reaches, Alive, IInv, Placed
  <2>2. CASE ToLogin(w) \/ ToPlay(w)
    BY <2>2 DEF ToLogin, ToPlay, Reaches, Alive, IInv, Placed
  <2>3. CASE ReadFails(w) \/ Proceeds(w)
    BY <2>3 DEF ReadFails, Proceeds, RegisterConnection, Loop, Unregister, WorkerEnds,
                Goes, Alive, IInv, Placed
  <2> QED
    BY <2>1, <2>2, <2>3 DEF Speaks
<1>2. Alive' \subseteq Alive
  BY <1>1 DEF Alive
<1> QED
  BY <1>1, <1>2, ThreadStep DEF threads

LEMMA NextIInv ==
    ASSUME IInv, [Next]_vars
    PROVE  IInv'
<1>1. CASE Main
  BY <1>1, MainKeeps
<1>2. CASE Signal
  BY <1>2, ThreadStep DEF Signal, threads, sessions, IInv, Placed, Alive
<1>3. CASE AcceptError
  BY <1>3, MainStep DEF AcceptError, MainGoes, threads, sessions
<1>4. CASE TickEnds
  BY <1>4, ThreadStep DEF TickEnds, sessions, IInv, Placed, Alive
<1>5. CASE TickFails
  BY <1>5, ThreadStep DEF TickFails, sessions, IInv, Placed, Alive
<1>6. CASE JanitorEnds
  BY <1>6, ThreadStep DEF JanitorEnds, sessions, IInv, Placed, Alive
<1>7. CASE \E w \in Workers : Accept(w)
  BY <1>7 DEF Accept, MainGoes, Goes, threads, IInv, Placed, Tracked, TickJoined,
              JanitorJoined, SessionsJoined
<1>8. CASE \E w \in Workers : Speaks(w) \/ Proceeds(w)
  BY <1>8, SessionKeeps
<1>9. CASE UNCHANGED vars
  BY <1>9 DEF vars, threads, sessions, IInv, Placed, Tracked, TickJoined, JanitorJoined,
              SessionsJoined, Alive
<1> QED
  BY <1>1, <1>2, <1>3, <1>4, <1>5, <1>6, <1>7, <1>8, <1>9 DEF Next

\* When GameServer::stop tears down the pool, the JVM and Persistence, no other
\* thread of the server is left.
THEOREM StopIsLast == Spec => []NoThreadOutlivesStop
<1>1. IInv => NoThreadOutlivesStop
  BY DEF IInv, TickJoined, JanitorJoined, SessionsJoined, Alive, NoThreadOutlivesStop
<1> QED
  BY <1>1, InitIInv, NextIInv, PTL DEF Spec

-----------------------------------------------------------------------------
(* Admission. *)

Places == {"none", "new", "loop", "reading", "leaving", "closing", "gone"}
States == {"handshake", "login", "status", "play"}
Slots  == {"none", "session", "status"}

Kind(w) == IF state[w] = "status" THEN "status" ELSE "session"

SlotTypes ==
    place \in [Workers -> Places] /\ state \in [Workers -> States] /\ slot \in [Workers -> Slots]

\* A session holds the slot of its kind from its admission until it leaves or
\* enters play, and it begins with a handshake.
Held ==
    \A w \in Workers :
        /\ place[w] \in {"none", "new"} => state[w] = "handshake"
        /\ place[w] \in {"new", "loop", "reading"} /\ state[w] # "play" => slot[w] = Kind(w)

Limit(kind) == IF kind = "session" THEN SessionLimit ELSE StatusLimit

Within == \A kind \in {"session", "status"} : Holding(kind) <= Limit(kind)

AInv == SlotTypes /\ Held /\ Within

LEMMA HoldersFinite ==
    \A kind : /\ IsFiniteSet({w \in Workers : slot[w] = kind})
              /\ Holding(kind) \in Nat
BY LimitsAssumption, FS_Subset, FS_CardinalityType DEF LimitsAssumption, Holding

\* A session that takes no slot of a kind takes nothing away from its limit.
LEMMA SlotsLeft ==
    ASSUME NEW kind, {w \in Workers : slot'[w] = kind} \subseteq {w \in Workers : slot[w] = kind}
    PROVE  Holding(kind)' <= Holding(kind) /\ Holding(kind)' \in Nat
BY HoldersFinite, FS_Subset, FS_CardinalityType DEF Holding

\* One that takes a slot when there is one stays within it.
LEMMA SlotTaken ==
    ASSUME NEW kind \in {"session", "status"}, NEW w \in Workers, TryAcquire(kind),
           slot \in [Workers -> Slots], slot' = [slot EXCEPT ![w] = kind]
    PROVE  Holding(kind)' <= Limit(kind)
<1> DEFINE S == {v \in Workers : slot[v] = kind}
           T == {v \in Workers : slot'[v] = kind}
<1>1. T = S \cup {w}
  OBVIOUS
<1>2. IsFiniteSet(S) /\ Cardinality(S) = Holding(kind) /\ Holding(kind) \in Nat
  BY HoldersFinite DEF Holding
<1>3. Cardinality(T) <= Cardinality(S) + 1
  <2> HIDE DEF S, T
  <2>1. Cardinality(S \cup {w}) = IF w \in S THEN Cardinality(S) ELSE Cardinality(S) + 1
    BY <1>2, FS_AddElement
  <2> QED BY <2>1, <1>1, <1>2
<1>4. Holding(kind) < Limit(kind) /\ Limit(kind) \in Nat
  BY LimitsAssumption DEF TryAcquire, Limit, LimitsAssumption
<1>5. Cardinality(T) \in Nat
  BY <1>1, <1>2, FS_AddElement, FS_CardinalityType
<1> QED BY <1>2, <1>3, <1>4, <1>5 DEF Holding

\* A kind whose slots nobody takes stays within its limit.
LEMMA NoneMore ==
    ASSUME Within, NEW kind \in {"session", "status"},
           {w \in Workers : slot'[w] = kind} \subseteq {w \in Workers : slot[w] = kind}
    PROVE  Holding(kind)' <= Limit(kind)
<1>1. Holding(kind)' <= Holding(kind) /\ Holding(kind)' \in Nat
  BY SlotsLeft
<1>2. Holding(kind) \in Nat
  BY HoldersFinite
<1>3. Holding(kind) <= Limit(kind)
  BY DEF Within
<1>4. Limit(kind) \in Nat
  BY LimitsAssumption DEF Limit, LimitsAssumption
<1> QED BY <1>1, <1>2, <1>3, <1>4

\* A session whose slot stays, or is given back.
LEMMA NoSlotTaken ==
    ASSUME Within, slot \in [Workers -> Slots], NEW w \in Workers,
           slot' = slot \/ slot' = [slot EXCEPT ![w] = "none"]
    PROVE  Within'
<1>1. ASSUME NEW kind \in {"session", "status"}
      PROVE  Holding(kind)' <= Limit(kind)
  <2>1. {v \in Workers : slot'[v] = kind} \subseteq {v \in Workers : slot[v] = kind}
    OBVIOUS
  <2> QED BY <2>1, NoneMore
<1> QED BY <1>1 DEF Within, Limit

LEMMA AcceptAdmits ==
    ASSUME AInv, NEW w \in Workers, Accept(w)
    PROVE  AInv'
<1>1. /\ place[w] = "none" /\ place' = [place EXCEPT ![w] = "new"] /\ state' = state
      /\ slot' = [slot EXCEPT ![w] = "session"] /\ TryAcquire("session")
  BY DEF Accept, Goes
<1>2. SlotTypes'
  BY <1>1 DEF AInv, SlotTypes, Places, Slots
<1>3. Held'
  BY <1>1 DEF AInv, SlotTypes, Held, Kind
<1>4. Within'
  <2>1. Holding("session")' <= Limit("session")
    BY <1>1, SlotTaken DEF AInv, SlotTypes
  <2>2. {v \in Workers : slot'[v] = "status"} \subseteq {v \in Workers : slot[v] = "status"}
    BY <1>1 DEF AInv, SlotTypes
  <2>3. Holding("status")' <= Limit("status")
    BY <2>2, NoneMore DEF AInv
  <2> QED BY <2>1, <2>3 DEF Within, Limit
<1> QED BY <1>2, <1>3, <1>4 DEF AInv

\* A status session gives its first slot back when it has taken the other.
LEMMA StatusTrades ==
    ASSUME AInv, NEW w \in Workers, ToStatus(w)
    PROVE  AInv'
<1>1. /\ place[w] = "reading" /\ state[w] = "handshake" /\ state' = [state EXCEPT ![w] = "status"]
      /\ \/ /\ TryAcquire("status") /\ slot' = [slot EXCEPT ![w] = "status"]
            /\ place' = [place EXCEPT ![w] = "loop"]
         \/ place' = [place EXCEPT ![w] = "leaving"] /\ slot' = slot
  BY DEF ToStatus, Reaches
<1>2. SlotTypes'
  BY <1>1 DEF AInv, SlotTypes, Places, States, Slots
<1>3. Held'
  BY <1>1 DEF AInv, SlotTypes, Held, Kind
<1>4. Within'
  <2>1. CASE slot' = slot
    BY <2>1, NoSlotTaken DEF AInv, SlotTypes
  <2>2. CASE TryAcquire("status") /\ slot' = [slot EXCEPT ![w] = "status"]
    <3>1. Holding("status")' <= Limit("status")
      BY <2>2, SlotTaken DEF AInv, SlotTypes
    <3>2. {v \in Workers : slot'[v] = "session"} \subseteq {v \in Workers : slot[v] = "session"}
      BY <2>2 DEF AInv, SlotTypes
    <3>3. Holding("session")' <= Limit("session")
      BY <3>2, NoneMore DEF AInv
    <3> QED BY <3>1, <3>3 DEF Within, Limit
  <2> QED BY <1>1, <2>1, <2>2
<1> QED BY <1>2, <1>3, <1>4 DEF AInv

LEMMA SessionAdmitted ==
    ASSUME AInv, NEW w \in Workers, ToLogin(w) \/ ToPlay(w) \/ ReadFails(w) \/ Proceeds(w)
    PROVE  AInv'
<1> USE DEF AInv, SlotTypes
<1>1. /\ slot' = slot \/ slot' = [slot EXCEPT ![w] = "none"]
      /\ SlotTypes' /\ Held'
  <2>1. CASE ToLogin(w)
    BY <2>1 DEF ToLogin, Reaches, Held, Kind, Places, States
  <2>2. CASE ToPlay(w)
    BY <2>2 DEF ToPlay, Reaches, Held, Kind, Places, States, Slots
  <2>3. CASE ReadFails(w)
    BY <2>3 DEF ReadFails, Goes, Held, Kind, Places
  <2>4. CASE RegisterConnection(w)
    BY <2>4 DEF RegisterConnection, Goes, Held, Kind, Places
  <2>5. CASE Loop(w)
    <3>1. place[w] = "loop" /\ UNCHANGED <<state, slot>>
          /\ (place' = [place EXCEPT ![w] = "reading"] \/ place' = [place EXCEPT ![w] = "leaving"])
      BY <2>5 DEF Loop, Goes
    <3> QED BY <3>1 DEF Held, Kind, Places
  <2>6. CASE Unregister(w)
    BY <2>6 DEF Unregister, Goes, Held, Kind, Places
  <2>7. CASE WorkerEnds(w)
    BY <2>7 DEF WorkerEnds, Goes, Held, Kind, Places, Slots
  <2> QED BY <2>1, <2>2, <2>3, <2>4, <2>5, <2>6, <2>7 DEF Proceeds
<1>2. Within'
  BY <1>1, NoSlotTaken
<1> QED BY <1>1, <1>2

LEMMA NextAInv ==
    ASSUME AInv, [Next]_vars
    PROVE  AInv'
<1>1. CASE UNCHANGED <<place, state, slot>>
  BY <1>1 DEF AInv, SlotTypes, Held, Kind, Within, Holding, Limit
<1>2. CASE Main \/ Signal \/ AcceptError \/ TickEnds \/ TickFails \/ JanitorEnds \/ UNCHANGED vars
  BY <1>1, <1>2 DEF Main, CheckEarlyStop, CreateListener, ListenFails, Listen, Serve, AcceptLoop,
     AcceptFails, RegisterThread, StopRequested, Snapshot, Abort, Aborted, StopTickLoop,
     JoinJanitor, JoinSessionThreads, TearDown, Signal, AcceptError, TickEnds, TickFails,
     JanitorEnds, vars, sessions
<1>3. ASSUME NEW w \in Workers, Accept(w) \/ Speaks(w) \/ Proceeds(w)
      PROVE  AInv'
  BY <1>3, AcceptAdmits, StatusTrades, SessionAdmitted DEF Speaks
<1> QED BY <1>2, <1>3 DEF Next

LEMMA InitAInv == Init => AInv
<1> SUFFICES ASSUME Init PROVE AInv
  OBVIOUS
<1>1. SlotTypes /\ Held
  BY DEF Init, SlotTypes, Held, Places, States, Slots
<1>2. ASSUME NEW kind \in {"session", "status"}
      PROVE  Holding(kind) <= Limit(kind)
  <2>1. {w \in Workers : slot[w] = kind} = {}
    BY DEF Init
  <2>2. Holding(kind) = 0
    BY <2>1, FS_EmptySet DEF Holding
  <2> QED BY <2>2, LimitsAssumption DEF Limit, LimitsAssumption
<1> QED BY <1>1, <1>2 DEF AInv, Within

LEMMA AdmissionHolds == AInv => AdmissionBounded
<1> SUFFICES ASSUME AInv PROVE AdmissionBounded
  OBVIOUS
<1> DEFINE Pending == {w \in Workers : /\ place[w] \in {"new", "loop", "reading"}
                                       /\ state[w] \in {"handshake", "login"}}
           Asking == {w \in Workers : /\ place[w] \in {"loop", "reading"}
                                      /\ state[w] = "status"}
           Inside == {w \in Workers : slot[w] = "session"}
           Asked == {w \in Workers : slot[w] = "status"}
<1>1. Pending \subseteq Inside /\ Asking \subseteq Asked
  BY DEF AInv, Held, Kind
<1>0. /\ IsFiniteSet(Inside) /\ Cardinality(Inside) = Holding("session")
      /\ IsFiniteSet(Asked) /\ Cardinality(Asked) = Holding("status")
  BY HoldersFinite DEF Holding
<1>2. /\ Cardinality(Pending) \in Nat /\ Cardinality(Pending) <= Holding("session")
      /\ Cardinality(Asking) \in Nat /\ Cardinality(Asking) <= Holding("status")
  <2> HIDE DEF Pending, Asking, Inside, Asked
  <2>1. Cardinality(Pending) \in Nat /\ Cardinality(Pending) <= Cardinality(Inside)
    BY <1>0, <1>1, FS_Subset, FS_CardinalityType
  <2>2. Cardinality(Asking) \in Nat /\ Cardinality(Asking) <= Cardinality(Asked)
    BY <1>0, <1>1, FS_Subset, FS_CardinalityType
  <2> QED BY <1>0, <2>1, <2>2
<1>3. Holding("session") <= SessionLimit /\ Holding("status") <= StatusLimit
  BY DEF AInv, Within, Limit
<1>4. Cardinality(Pending) <= SessionLimit /\ Cardinality(Asking) <= StatusLimit
  <2> HIDE DEF Pending, Asking
  <2>1. Holding("session") \in Nat /\ Holding("status") \in Nat
    BY HoldersFinite
  <2>2. SessionLimit \in Nat /\ StatusLimit \in Nat
    BY LimitsAssumption DEF LimitsAssumption
  <2> QED BY <1>2, <1>3, <2>1, <2>2
<1> QED BY <1>4 DEF AdmissionBounded

\* However many clients connect, turn to status, log in and leave: sessions that
\* are not in play stay within the pending limit, status sessions within theirs.
THEOREM AdmissionIsBounded == Spec => []AdmissionBounded
BY AdmissionHolds, InitAInv, NextAInv, PTL DEF Spec

-----------------------------------------------------------------------------
(* JavaRuntime: the life of the one machine and the calls in it, for any   *)
(* number of runtimes, threads, starts and nested calls.                   *)

Points == {"idle", "claimed", "created", "resolving", "bootstrap", "draining", "counting",
           "dozing", "asleep", "dazed", "missed", "locking", "shutdown", "clearing", "closed"}
Waits == {"counting", "dozing", "asleep", "dazed", "missed"}
Stops == Waits \cup {"draining", "locking", "shutdown", "clearing"}
Kinds == {"entered", "call", "native", "early", "task", "commanded"}
Frames == [k : Kinds, r : Runtimes, gen : Nat]
Requests == [st : {"none", "noted", "queued", "running", "done"},
             r : Runtimes \cup {NoRuntime}, gen : Nat]

MachineTypes ==
  /\ vm \in [Runtimes -> {"none", "up", "failed"}]
  /\ started \in [Runtimes -> BOOLEAN] /\ stopping \in [Runtimes -> BOOLEAN]
  /\ jMain \in [Runtimes -> [at : Points, within : BOOLEAN]]
  /\ lifetime \in [Runtimes -> [accepting : BOOLEAN, gen : Nat]]

CallTypes ==
  /\ frames \in [J!Threads -> Seq(Frames)]
  /\ \A t \in J!Threads : Len(frames[t]) <= MaxFrames
  /\ request \in [J!Threads -> Requests]
  /\ \A t \in J!Threads : request[t].st # "none" => request[t].r \in Runtimes

\* Who owns the process, and what there is of a machine at each point.
MachineAt(r) ==
  /\ vm[r] = "failed" => poisoned
  /\ jMain[r].at = "claimed" => owner = r /\ \A s \in Runtimes : vm[s] = "none"
  /\ jMain[r].at \in {"created", "resolving", "bootstrap"} => vm[r] = "up"
  /\ jMain[r].at = "bootstrap" => started[r]
  /\ jMain[r].at \in Stops => live # r /\ ~started[r]
  /\ jMain[r].at \in Waits \cup {"locking", "shutdown"} => vm[r] = "up"
  /\ jMain[r].at = "clearing" => vm[r] # "up"
  /\ jMain[r].at \in {"idle", "closed"} /\ vm[r] = "up" => started[r]
MachineFits ==
  /\ J!PublishedOwns
  /\ \A r, s \in Runtimes : vm[r] # "none" /\ vm[s] # "none" => r = s
  /\ \A r \in Runtimes : MachineAt(r)

Leases(f, r) == \E i \in DOMAIN f : f[i].k \in J!Leased /\ f[i].r = r
Holds(f, r) == \E i \in DOMAIN f : f[i].r = r /\ f[i].k \in {"entered", "call"}

\* Whoever is inside has a machine that no stop has found empty.
LeasesFit ==
  \A r \in Runtimes, t \in J!Threads :
    Leases(frames[t], r) => vm[r] = "up" /\ jMain[r].at \notin {"locking", "shutdown"}

\* callMutex has one owner.
MutexFits ==
  \A r \in Runtimes, t \in J!Threads :
    Holds(frames[t], r) =>
      ~J!HeldByMain(r) /\ \A u \in J!Threads : Holds(frames[u], r) => u = t

\* A mutation on the server's thread is under a call of its runtime, or it is the
\* one from the queue, which a stop waits for; one that the thread asks for itself is
\* asked for by the native on top.
Mutations == {"task", "commanded"}
Running == \E t \in J!Threads : request[t].st = "running"
Served(i) ==
  /\ i = 1 /\ Running
  /\ \/ lifetime[frames[Tick][i].r] = [accepting |-> TRUE, gen |-> frames[Tick][i].gen]
     \/ jMain[frames[Tick][i].r].at = "draining"
Under(f, i) == \E j \in 1 .. i : f[j].k \in J!Leased /\ f[j].r = f[i].r
RequestFits ==
  /\ request[Tick].st \in {"none", "noted"}
  /\ request[Tick].st = "noted" =>
       /\ frames[Tick] # <<>> /\ frames[Tick][Len(frames[Tick])].k = "native"
       /\ frames[Tick][Len(frames[Tick])].r = request[Tick].r
TasksFit ==
  \A i \in DOMAIN frames[Tick] :
    frames[Tick][i].k \in Mutations => Under(frames[Tick], i) \/ Served(i)

JavaInv ==
  /\ MachineTypes /\ CallTypes /\ MachineFits
  /\ LeasesFit /\ MutexFits /\ RequestFits /\ TasksFit

LEMMA JavaFacts ==
  /\ NoRuntime \notin Runtimes /\ MaxStarts \in Nat /\ MaxFrames \in Nat \ {0}
  /\ Tick \in J!Threads /\ Tick \notin Sessions \cup Mods
BY JavaAssumption DEF J!JavaConstants, J!Threads, J!Hosts

\* A set whose members are all the same has one at most.
LEMMA AtMostOne ==
  ASSUME NEW S, \A x, y \in S : x = y
  PROVE  J!Cardinality(S) <= 1 /\ (S = {} => J!Cardinality(S) = 0)
<1>1. J!Cardinality(S) = Cardinality(S)
  BY DEF J!Cardinality, Cardinality
<1>2. CASE S = {}
  BY <1>1, <1>2, FS_EmptySet
<1>3. CASE S # {}
  <2>1. PICK x \in S : S = {x}
    BY <1>3
  <2>2. J!Cardinality(S) = 1
    BY <1>1, <2>1, FS_Singleton
  <2> QED BY <1>3, <2>2
<1> QED BY <1>2, <1>3

LEMMA JavaSuffices == JavaInv => J!JavaSound
<1> SUFFICES ASSUME JavaInv PROVE J!JavaSound
  OBVIOUS
<1>1. J!CallsHaveAMachine
  <2> SUFFICES ASSUME NEW r \in Runtimes, NEW c \in J!Calls(r)
               PROVE  vm[r] = "up" /\ jMain[r].at # "shutdown"
    BY DEF J!CallsHaveAMachine
  <2>1. c[1] \in J!Threads /\ Leases(frames[c[1]], r)
    BY DEF J!Calls, Leases
  <2> QED BY <2>1 DEF JavaInv, LeasesFit
<1>2. J!OneMachine
  <2>1. J!Cardinality({r \in Runtimes : vm[r] # "none"}) <= 1
    <3> DEFINE S == {r \in Runtimes : vm[r] # "none"}
    <3>1. \A x, y \in S : x = y
      BY DEF JavaInv, MachineFits
    <3> HIDE DEF S
    <3>2. J!Cardinality(S) <= 1
      BY <3>1, AtMostOne
    <3> QED BY <3>2 DEF S
  <2> QED BY <2>1 DEF J!OneMachine, JavaInv, MachineFits, MachineAt
<1>3. J!MutationsInLife
  <2> SUFFICES ASSUME NEW i \in DOMAIN frames[Tick],
                      frames[Tick][i].k \in {"task", "commanded"}
               PROVE  \/ frames[Tick][i].gen = lifetime[frames[Tick][i].r].gen
                      \/ jMain[frames[Tick][i].r].at = "draining"
                      \/ \E j \in 1 .. i : /\ frames[Tick][j].k \in J!Leased
                                           /\ frames[Tick][j].r = frames[Tick][i].r
    BY DEF J!MutationsInLife
  <2>1. Under(frames[Tick], i) \/ Served(i)
    BY DEF JavaInv, TasksFit, Mutations
  <2> QED BY <2>1 DEF Under, Served
<1>4. J!OneCallback
  <2> SUFFICES ASSUME NEW r \in Runtimes
               PROVE  J!Cardinality({t \in J!Threads : J!HeldBy(t, r)})
                        <= (IF J!HeldByMain(r) THEN 0 ELSE 1)
    BY DEF J!OneCallback
  <2> DEFINE S == {t \in J!Threads : J!HeldBy(t, r)}
  <2>1. \A x, y \in S : x = y
    BY DEF JavaInv, MutexFits, J!HeldBy, Holds
  <2>2. J!HeldByMain(r) => S = {}
    BY DEF JavaInv, MutexFits, J!HeldBy, Holds
  <2> HIDE DEF S
  <2>3. J!Cardinality(S) <= 1 /\ (S = {} => J!Cardinality(S) = 0)
    BY <2>1, AtMostOne
  <2>4. CASE J!HeldByMain(r)
    BY <2>2, <2>3, <2>4 DEF S
  <2>5. CASE ~J!HeldByMain(r)
    BY <2>3, <2>5 DEF S
  <2> QED BY <2>4, <2>5
<1> QED BY <1>1, <1>2, <1>3, <1>4 DEF J!JavaSound, JavaInv, MachineFits

LEMMA JavaBegins == J!Init => JavaInv
<1> SUFFICES ASSUME J!Init PROVE JavaInv
  OBVIOUS
<1>1. MachineTypes
  BY DEF J!Init, MachineTypes, J!Idle, J!At, Points
<1>2. CallTypes
  BY JavaFacts DEF J!Init, CallTypes, J!NoRequest, Requests
<1>3. MachineFits
  BY JavaFacts DEF J!Init, MachineFits, MachineAt, J!PublishedOwns, J!Idle, J!At, Stops, Waits
<1>4. \A t \in J!Threads : frames[t] = <<>>
  BY DEF J!Init
<1>5. LeasesFit /\ MutexFits
  BY <1>4 DEF LeasesFit, MutexFits, Leases, Holds
<1>6. RequestFits /\ TasksFit
  BY <1>4, JavaFacts DEF J!Init, RequestFits, TasksFit, J!NoRequest
<1> QED BY <1>1, <1>2, <1>3, <1>5, <1>6 DEF JavaInv

LEMMA JavaStoppedInv == JavaStopped => JavaInv
<1> SUFFICES ASSUME JavaStopped PROVE JavaInv
  OBVIOUS
<1>1. MachineTypes
  BY DEF JavaStopped, MachineTypes, J!At, Points
<1>2. CallTypes
  BY JavaFacts DEF JavaStopped, CallTypes, J!NoRequest, Requests
<1>3. MachineFits
  BY JavaFacts DEF JavaStopped, MachineFits, MachineAt, J!PublishedOwns, J!At, Stops, Waits
<1>4. \A t \in J!Threads : frames[t] = <<>>
  BY DEF JavaStopped
<1>5. LeasesFit /\ MutexFits
  BY <1>4 DEF LeasesFit, MutexFits, Leases, Holds
<1>6. RequestFits /\ TasksFit
  BY <1>4, JavaFacts DEF JavaStopped, RequestFits, TasksFit, J!NoRequest
<1> QED BY <1>1, <1>2, <1>3, <1>5, <1>6 DEF JavaInv

\* What a step on one runtime leaves to another.
Spared(s) ==
  /\ jMain'[s] = jMain[s] /\ started'[s] = started[s] /\ vm'[s] = vm[s]
  /\ live' = s => live = s
  /\ owner = s => owner' = s
  /\ jMain[s].at = "claimed" => \A q \in Runtimes : vm'[q] = "none"

LEMMA OneFits ==
  ASSUME NEW r \in Runtimes, MachineFits, poisoned => poisoned',
         \A s \in Runtimes \ {r} : Spared(s), MachineAt(r)',
         live' = r \/ started'[r] => owner' = r /\ vm'[r] = "up",
         vm'[r] = "up" => owner' = r,
         vm'[r] # "none" => \A s \in Runtimes \ {r} : vm[s] = "none"
  PROVE  MachineFits'
<1>1. \A s \in Runtimes \ {r} : MachineAt(s)'
  <2> SUFFICES ASSUME NEW s \in Runtimes \ {r} PROVE MachineAt(s)'
    OBVIOUS
  <2>1. MachineAt(s) /\ Spared(s)
    BY DEF MachineFits
  <2>2. vm'[s] = "failed" => poisoned'
    BY <2>1 DEF MachineAt, Spared
  <2>3. jMain'[s].at = "claimed" => owner' = s /\ \A q \in Runtimes : vm'[q] = "none"
    BY <2>1 DEF MachineAt, Spared
  <2>4. jMain'[s].at \in Stops => live' # s /\ ~started'[s]
    BY <2>1 DEF MachineAt, Spared
  <2> HIDE DEF MachineAt
  <2> QED BY <2>1, <2>2, <2>3, <2>4 DEF MachineAt, Spared
<1>2. J!PublishedOwns'
  BY DEF MachineFits, J!PublishedOwns, Spared
<1>3. \A q, s \in Runtimes : vm'[q] # "none" /\ vm'[s] # "none" => q = s
  BY DEF MachineFits, Spared
<1> QED BY <1>1, <1>2, <1>3 DEF MachineFits

\* What the queue drops was not running, and not the server's own.
LEMMA Dropped ==
  ASSUME JavaInv, request' = request \/ request' = J!Cancelled
  PROVE  /\ request' \in [J!Threads -> Requests]
         /\ \A t \in J!Threads : request'[t].st # "none" => request'[t].r \in Runtimes
         /\ request'[Tick] = request[Tick]
         /\ Running => Running'
<1>1. CASE request' = request
  BY <1>1, JavaFacts DEF JavaInv, CallTypes, Running
<1>2. CASE request' = J!Cancelled
  <2>1. \A t \in J!Threads :
          /\ request[t].st = "queued" =>
               request'[t] = [st |-> "done", r |-> request[t].r, gen |-> request[t].gen]
          /\ request[t].st # "queued" => request'[t] = request[t]
    <3> SUFFICES ASSUME NEW t \in J!Threads
                 PROVE  /\ request[t].st = "queued" =>
                             request'[t] = [st |-> "done", r |-> request[t].r, gen |-> request[t].gen]
                        /\ request[t].st # "queued" => request'[t] = request[t]
      OBVIOUS
    <3>1. request[t] \in Requests
      BY DEF JavaInv, CallTypes
    <3>2. request'[t] = IF request[t].st = "queued" THEN [request[t] EXCEPT !.st = "done"]
                        ELSE request[t]
      BY <1>2 DEF J!Cancelled
    <3> QED BY <3>1, <3>2 DEF Requests
  <2>2. request' = [t \in J!Threads |-> request'[t]]
    <3> DEFINE F(t) == IF request[t].st = "queued" THEN [request[t] EXCEPT !.st = "done"]
                       ELSE request[t]
    <3>1. request' = [t \in J!Threads |-> F(t)]
      BY <1>2 DEF J!Cancelled
    <3> HIDE DEF F
    <3> QED BY <3>1
  <2>3. \A t \in J!Threads : request[t] \in Requests /\ request'[t] \in Requests
    <3> SUFFICES ASSUME NEW t \in J!Threads
                 PROVE  request[t] \in Requests /\ request'[t] \in Requests
      OBVIOUS
    <3>1. request[t] \in Requests
      BY DEF JavaInv, CallTypes
    <3>2. [st |-> "done", r |-> request[t].r, gen |-> request[t].gen] \in Requests
      BY <3>1 DEF Requests
    <3> QED BY <2>1, <3>1, <3>2
  <2>4. request' \in [J!Threads -> Requests]
    BY <2>2, <2>3
  <2> QED BY <2>1, <2>4, JavaFacts DEF JavaInv, CallTypes, RequestFits, Running
<1> QED BY <1>1, <1>2

\* Mutations that were on the server's thread before the step are there as they should
\* be; a new one has to be shown to be.
SameTask(i) ==
  /\ i \in DOMAIN frames[Tick] /\ frames[Tick][i].k \in Mutations
  /\ frames'[Tick][i].r = frames[Tick][i].r /\ frames'[Tick][i].gen = frames[Tick][i].gen
  /\ \A j \in 1 .. i : frames[Tick][j].k \in J!Leased =>
       frames'[Tick][j].k \in J!Leased /\ frames'[Tick][j].r = frames[Tick][j].r
Waited(r) ==
  \/ lifetime'[r] = lifetime[r] /\ (jMain[r].at = "draining" => jMain'[r].at = "draining")
  \/ jMain'[r].at = "draining"
  \/ ~lifetime[r].accepting /\ jMain[r].at # "draining"
  \/ ~Running

LEMMA TasksKept ==
  ASSUME JavaInv, Running => Running' \/ frames'[Tick] = <<>>, \A r \in Runtimes : Waited(r),
         \A i \in DOMAIN frames'[Tick] : frames'[Tick][i].k \in Mutations =>
           SameTask(i) \/ Under(frames'[Tick], i) \/ Served(i)'
  PROVE  TasksFit'
<1> SUFFICES ASSUME NEW i \in DOMAIN frames'[Tick], frames'[Tick][i].k \in Mutations
             PROVE  (Under(frames[Tick], i) \/ Served(i))'
  BY DEF TasksFit
<1>1. CASE Under(frames'[Tick], i) \/ Served(i)'
  BY <1>1 DEF Under
<1>2. CASE SameTask(i)
  <2>1. Under(frames[Tick], i) \/ Served(i)
    BY <1>2 DEF SameTask, JavaInv, TasksFit
  <2>2. CASE Under(frames[Tick], i)
    BY <1>2, <2>2 DEF Under, SameTask
  <2>3. CASE Served(i)
    <3> DEFINE r == frames[Tick][i].r
               g == frames[Tick][i].gen
    <3>1. r \in Runtimes
      <4>1. frames[Tick] \in Seq(Frames)
        BY JavaFacts DEF JavaInv, CallTypes
      <4>2. frames[Tick][i] \in Frames
        BY <1>2, <4>1 DEF SameTask
      <4> QED BY <4>2 DEF Frames
    <3>2. i = 1 /\ Running
      BY <2>3 DEF Served
    <3>3. lifetime[r] = [accepting |-> TRUE, gen |-> g] \/ jMain[r].at = "draining"
      BY <2>3 DEF Served
    <3>4. frames'[Tick][i].r = r /\ frames'[Tick][i].gen = g /\ frames'[Tick] # <<>>
      BY <1>2 DEF SameTask
    <3> HIDE DEF r, g
    <3>5. lifetime'[r] = [accepting |-> TRUE, gen |-> g] \/ jMain'[r].at = "draining"
      BY <3>1, <3>2, <3>3 DEF Waited
    <3> QED BY <3>2, <3>4, <3>5 DEF Served
  <2> QED BY <2>1, <2>2, <2>3
<1> QED BY <1>1, <1>2

\* A step that lets calls be.
LEMMA CallsStay ==
  ASSUME JavaInv, frames' = frames, request' = request \/ request' = J!Cancelled,
         \A r \in Runtimes : \A t \in J!Threads :
           Leases(frames[t], r) => vm'[r] = "up" /\ jMain'[r].at \notin {"locking", "shutdown"},
         \A r \in Runtimes :
           J!HeldByMain(r)' => J!HeldByMain(r) \/ \A t \in J!Threads : ~Holds(frames[t], r),
         \A r \in Runtimes : Waited(r)
  PROVE  CallTypes' /\ LeasesFit' /\ MutexFits' /\ RequestFits' /\ TasksFit'
<1>1. CallTypes'
  BY Dropped DEF JavaInv, CallTypes
<1>2. LeasesFit'
  BY DEF LeasesFit
<1>3. MutexFits'
  BY DEF JavaInv, MutexFits
<1>4. RequestFits'
  BY Dropped DEF JavaInv, RequestFits
<1>5. TasksFit'
  <2>1. \A i \in DOMAIN frames[Tick] : frames[Tick][i].k \in Mutations => SameTask(i)
    BY DEF SameTask
  <2> QED BY <2>1, Dropped, TasksKept
<1> QED BY <1>1, <1>2, <1>3, <1>4, <1>5

\* start, up to its end.
LEMMA StartKeeps ==
  ASSUME NEW r \in Runtimes, JavaInv,
         J!StartRefused(r) \/ J!Claim(r) \/ J!NoLibrary(r) \/ J!Create(r) \/ J!Publish(r)
           \/ J!ResolveKnot(r) \/ J!ResolveFallback(r) \/ J!InstallBridge(r) \/ J!Bootstrapped(r)
  PROVE  JavaInv'
<1> USE DEF JavaInv, J!Go
<1>1. CASE J!StartRefused(r) \/ J!Claim(r)
  <2>1. /\ jMain[r].at = "idle" /\ J!CallMutexFree(r) /\ UNCHANGED <<frames, request, vm>>
        /\ lifetime' = [lifetime EXCEPT ![r] = J!Accepting(@)]
        /\ UNCHANGED <<poisoned, live, started, stopping>>
        /\ \/ jMain' = jMain /\ owner' = owner
           \/ /\ jMain' = [jMain EXCEPT ![r].at = "claimed"] /\ owner' = r
              /\ ~started[r] /\ vm[r] # "failed" /\ ~poisoned /\ owner \in {NoRuntime, r}
    BY <1>1 DEF J!StartRefused, J!Claim, J!CallStart, J!process, J!MayClaim
  <2>2. MachineTypes'
    <3>1. J!Accepting(lifetime[r]) \in [accepting : BOOLEAN, gen : Nat]
      BY DEF MachineTypes, J!Accepting
    <3>2. lifetime' \in [Runtimes -> [accepting : BOOLEAN, gen : Nat]]
      BY <2>1, <3>1 DEF MachineTypes
    <3>3. jMain' \in [Runtimes -> [at : Points, within : BOOLEAN]]
      BY <2>1 DEF MachineTypes, Points
    <3> QED BY <2>1, <3>2, <3>3 DEF MachineTypes
  <2>3. MachineFits'
    <3>1. \A s \in Runtimes \ {r} : Spared(s)
      <4> SUFFICES ASSUME NEW s \in Runtimes \ {r} PROVE Spared(s)
        OBVIOUS
      <4>1. jMain'[s] = jMain[s] /\ started' = started /\ vm' = vm /\ live' = live
        BY <2>1 DEF MachineTypes
      <4>2. owner = s => owner' = s
        BY <2>1, JavaFacts
      <4>3. jMain[s].at = "claimed" => \A q \in Runtimes : vm[q] = "none"
        BY DEF MachineFits, MachineAt
      <4> QED BY <4>1, <4>2, <4>3 DEF Spared
    <3>2. \/ jMain'[r].at = jMain[r].at /\ owner' = owner
          \/ jMain'[r].at = "claimed" /\ owner' = r /\ jMain[r].at = "idle"
      BY <2>1 DEF MachineTypes
    <3>4. MachineAt(r)'
      <4>1. CASE jMain'[r].at = jMain[r].at /\ owner' = owner
        BY <2>1, <4>1 DEF MachineFits, MachineAt, Stops, Waits
      <4>2. CASE jMain'[r].at = "claimed" /\ owner' = r /\ jMain[r].at = "idle"
        <5>1. /\ ~started[r] /\ ~poisoned /\ owner \in {NoRuntime, r}
          BY <2>1, <4>2 DEF MachineTypes
        <5>2. vm[r] # "up"
          BY <4>2, <5>1 DEF MachineFits, MachineAt
        <5>3. \A s \in Runtimes : vm[s] # "failed" /\ (vm[s] = "up" => s = r)
          BY <5>1, JavaFacts DEF MachineFits, MachineAt, J!PublishedOwns
        <5>4. \A s \in Runtimes : vm[s] = "none"
          BY <5>2, <5>3 DEF MachineTypes
        <5> QED BY <2>1, <4>2, <5>4 DEF MachineAt, Stops, Waits
      <4> QED BY <2>1, <3>2, <4>1, <4>2
    <3>5. (live' = r \/ started'[r] => owner' = r /\ vm'[r] = "up") /\ (vm'[r] = "up" => owner' = r)
      BY <2>1 DEF MachineFits, J!PublishedOwns
    <3>6. vm'[r] # "none" => \A s \in Runtimes \ {r} : vm[s] = "none"
      BY <2>1 DEF MachineFits
    <3> QED BY <2>1, <3>1, <3>4, <3>5, <3>6, OneFits
  <2>4. CallTypes' /\ LeasesFit' /\ MutexFits' /\ RequestFits' /\ TasksFit'
    <3>1. \A s \in Runtimes : \A t \in J!Threads :
            Leases(frames[t], s) => vm'[s] = "up" /\ jMain'[s].at \notin {"locking", "shutdown"}
      BY <2>1 DEF LeasesFit, MachineTypes
    <3>2. \A s \in Runtimes :
            J!HeldByMain(s)' => J!HeldByMain(s) \/ \A t \in J!Threads : ~Holds(frames[t], s)
      BY <2>1 DEF J!HeldByMain, MachineTypes, J!CallMutexFree, J!HeldBy, Holds
    <3>3. \A s \in Runtimes : Waited(s)
      BY <2>1 DEF MachineTypes, J!Accepting, Waited
    <3> QED BY <2>1, <3>1, <3>2, <3>3, CallsStay
  <2> QED BY <2>2, <2>3, <2>4
<1>2. CASE J!NoLibrary(r) \/ J!Create(r) \/ J!Publish(r) \/ J!ResolveKnot(r)
             \/ J!ResolveFallback(r) \/ J!InstallBridge(r) \/ J!Bootstrapped(r)
  <2>1. /\ jMain[r].at \in {"claimed", "created", "resolving", "bootstrap"}
        /\ UNCHANGED <<frames, request, lifetime>>
        /\ \/ jMain' = jMain
           \/ \E p \in {"idle", "created", "resolving", "bootstrap"} :
                jMain' = [jMain EXCEPT ![r].at = p]
    BY <1>2 DEF J!NoLibrary, J!Create, J!Publish, J!ResolveKnot, J!ResolveFallback,
                J!InstallBridge, J!Bootstrapped
  <2>2. /\ MachineTypes' /\ MachineFits'
        /\ \/ vm' = vm
           \/ vm[r] # "up" /\ \E v : vm' = [vm EXCEPT ![r] = v]
    <3>1. CASE J!NoLibrary(r)
      <4>1. /\ jMain[r].at = "claimed" /\ jMain' = [jMain EXCEPT ![r].at = "idle"]
            /\ owner' = J!Released(r)
            /\ UNCHANGED <<poisoned, live, vm, started, stopping, lifetime>>
        BY <3>1 DEF J!NoLibrary
      <4>2. owner = r /\ (\A s \in Runtimes : vm[s] = "none") /\ live # r /\ ~started[r]
        BY <4>1 DEF MachineFits, MachineAt, J!PublishedOwns
      <4>3. MachineTypes'
        BY <4>1 DEF MachineTypes, Points
      <4>4. jMain'[r].at = "idle" /\ \A s \in Runtimes \ {r} : jMain'[s] = jMain[s]
        BY <4>1 DEF MachineTypes
      <4>5. \A s \in Runtimes \ {r} : Spared(s)
        BY <4>1, <4>2, <4>4 DEF Spared
      <4>6. MachineAt(r)'
        BY <4>1, <4>2, <4>4 DEF MachineAt, Stops, Waits
      <4>7. MachineFits'
        BY <4>1, <4>2, <4>5, <4>6, OneFits
      <4> QED BY <4>1, <4>3, <4>7
    <3>2. CASE J!Create(r)
      <4>1. /\ jMain[r].at = "claimed" /\ vm[r] = "none"
            /\ UNCHANGED <<live, started, stopping, lifetime>>
        BY <3>2 DEF J!Create, J!process, MachineFits, MachineAt
      <4>2. CASE vm' = [vm EXCEPT ![r] = "up"] /\ jMain' = [jMain EXCEPT ![r].at = "created"]
                   /\ UNCHANGED <<owner, poisoned>>
        <5>1. MachineTypes'
          BY <4>1, <4>2 DEF MachineTypes, Points
        <5>2. owner = r /\ (\A s \in Runtimes : vm[s] = "none") /\ live # r /\ ~started[r]
          BY <4>1 DEF MachineFits, MachineAt, J!PublishedOwns
        <5>3. /\ vm'[r] = "up" /\ jMain'[r].at = "created"
              /\ \A s \in Runtimes \ {r} : vm'[s] = "none" /\ jMain'[s] = jMain[s]
          BY <4>2, <5>2 DEF MachineTypes
        <5>4. \A s \in Runtimes \ {r} :
                jMain[s].at \notin {"claimed", "created", "resolving", "bootstrap"}
          BY <5>2, JavaFacts DEF MachineFits, MachineAt, J!PublishedOwns
        <5>5. \A s \in Runtimes \ {r} : Spared(s)
          BY <4>1, <4>2, <5>3, <5>4, <5>2 DEF Spared
        <5>6. MachineAt(r)'
          BY <4>1, <4>2, <5>2, <5>3 DEF MachineAt, Stops, Waits
        <5>7. MachineFits'
          BY <4>1, <4>2, <5>2, <5>3, <5>5, <5>6, OneFits
        <5> QED BY <4>1, <4>2, <5>1, <5>2, <5>7
      <4>3. CASE owner' = J!Released(r) /\ jMain' = [jMain EXCEPT ![r].at = "idle"]
                   /\ UNCHANGED <<vm, poisoned>>
        BY <4>1, <4>3, JavaFacts DEF J!Released, MachineTypes, MachineFits, MachineAt,
           J!PublishedOwns, Points, Stops, Waits
      <4>4. CASE vm' = [vm EXCEPT ![r] = "failed"] /\ jMain' = [jMain EXCEPT ![r].at = "idle"]
                   /\ poisoned' = TRUE /\ UNCHANGED owner
        <5>1. MachineTypes'
          BY <4>1, <4>4 DEF MachineTypes, Points
        <5>2. owner = r /\ (\A s \in Runtimes : vm[s] = "none") /\ live # r /\ ~started[r]
          BY <4>1 DEF MachineFits, MachineAt, J!PublishedOwns
        <5>3. /\ vm'[r] = "failed" /\ jMain'[r].at = "idle"
              /\ \A s \in Runtimes \ {r} : vm'[s] = "none" /\ jMain'[s] = jMain[s]
          BY <4>4, <5>2 DEF MachineTypes
        <5>4. \A s \in Runtimes \ {r} :
                jMain[s].at \notin {"claimed", "created", "resolving", "bootstrap"}
          BY <5>2, JavaFacts DEF MachineFits, MachineAt, J!PublishedOwns
        <5>5. \A s \in Runtimes \ {r} : Spared(s)
          BY <4>1, <4>4, <5>3, <5>4, <5>2 DEF Spared
        <5>6. MachineAt(r)'
          BY <4>1, <4>4, <5>2, <5>3 DEF MachineAt, Stops, Waits
        <5>7. MachineFits'
          BY <4>1, <4>4, <5>2, <5>3, <5>5, <5>6, OneFits
        <5> QED BY <4>1, <4>4, <5>1, <5>2, <5>7
      <4> QED BY <3>2, <4>2, <4>3, <4>4 DEF J!Create, J!process
    <3>3. CASE J!Publish(r)
      <4>1. /\ jMain[r].at = "created" /\ jMain' = [jMain EXCEPT ![r].at = "resolving"]
            /\ live' = r /\ UNCHANGED <<owner, poisoned, vm, started, lifetime>>
            /\ stopping' = [stopping EXCEPT ![r] = FALSE]
        BY <3>3 DEF J!Publish
      <4>2. vm[r] = "up" /\ owner = r /\ \A s \in Runtimes : vm[s] # "none" => s = r
        BY <4>1 DEF MachineFits, MachineAt, J!PublishedOwns
      <4>3. MachineTypes'
        BY <4>1 DEF MachineTypes, Points
      <4>4. jMain'[r].at = "resolving" /\ \A s \in Runtimes \ {r} : jMain'[s] = jMain[s]
        BY <4>1 DEF MachineTypes
      <4>5. \A s \in Runtimes \ {r} : jMain[s].at # "claimed"
        BY <4>2 DEF MachineFits, MachineAt
      <4>6. \A s \in Runtimes \ {r} : Spared(s)
        BY <4>1, <4>4, <4>5 DEF Spared
      <4>7. MachineAt(r)'
        BY <4>1, <4>2, <4>4 DEF MachineAt, Stops, Waits
      <4>8. MachineFits'
        BY <4>1, <4>2, <4>6, <4>7, OneFits
      <4>9. vm' = vm
        BY <4>1
      <4> QED BY <4>3, <4>8, <4>9
    <3>4. CASE J!ResolveKnot(r) \/ J!ResolveFallback(r)
      <4>1. /\ jMain[r].at = "resolving" /\ jMain' = [jMain EXCEPT ![r].at = "bootstrap"]
            /\ started' = [started EXCEPT ![r] = TRUE]
            /\ UNCHANGED <<owner, poisoned, live, vm, stopping, lifetime>>
        BY <3>4 DEF J!ResolveKnot, J!ResolveFallback, J!process
      <4>2. vm[r] = "up" /\ owner = r
        BY <4>1 DEF MachineFits, MachineAt, J!PublishedOwns
      <4>3. MachineTypes'
        BY <4>1 DEF MachineTypes, Points
      <4>4. /\ jMain'[r].at = "bootstrap" /\ started'[r]
            /\ \A s \in Runtimes \ {r} : jMain'[s] = jMain[s] /\ started'[s] = started[s]
        BY <4>1 DEF MachineTypes
      <4>5. \A s \in Runtimes \ {r} : Spared(s)
        BY <4>1, <4>4 DEF Spared, MachineFits, MachineAt
      <4>6. MachineAt(r)'
        BY <4>1, <4>2, <4>4 DEF MachineAt, Stops, Waits
      <4>7. vm[r] # "none" => \A s \in Runtimes \ {r} : vm[s] = "none"
        BY DEF MachineFits
      <4>8. MachineFits'
        BY <4>1, <4>2, <4>5, <4>6, <4>7, OneFits
      <4>9. vm' = vm
        BY <4>1
      <4> QED BY <4>3, <4>8, <4>9
    <3>5. CASE J!InstallBridge(r)
      BY <3>5 DEF J!InstallBridge, J!process, MachineTypes, MachineFits, MachineAt, J!PublishedOwns
    <3>6. CASE J!Bootstrapped(r)
      <4>1. started[r]
        BY <3>6 DEF J!Bootstrapped, MachineFits, MachineAt, J!BridgeRegistered
      <4> QED BY <3>6, <4>1, <2>1, JavaFacts DEF J!Bootstrapped, J!process, MachineTypes,
         MachineFits, MachineAt, J!PublishedOwns, Points, Stops, Waits
    <3> QED BY <1>2, <3>1, <3>2, <3>3, <3>4, <3>5, <3>6
  <2>3. CallTypes' /\ LeasesFit' /\ MutexFits' /\ RequestFits' /\ TasksFit'
    <3>1. \A s \in Runtimes : \A t \in J!Threads :
            Leases(frames[t], s) => vm'[s] = "up" /\ jMain'[s].at \notin {"locking", "shutdown"}
      <4> SUFFICES ASSUME NEW s \in Runtimes, NEW t \in J!Threads, Leases(frames[t], s)
                   PROVE  vm'[s] = "up" /\ jMain'[s].at \notin {"locking", "shutdown"}
        OBVIOUS
      <4>1. vm[s] = "up" /\ jMain[s].at \notin {"locking", "shutdown"}
        BY DEF LeasesFit
      <4>2. vm'[s] = "up"
        BY <2>2, <4>1 DEF MachineTypes
      <4>3. jMain'[s].at \notin {"locking", "shutdown"}
        BY <2>1, <4>1 DEF MachineTypes
      <4> QED BY <4>2, <4>3
    <3>2. \A s \in Runtimes : J!HeldByMain(s)' => J!HeldByMain(s)
      BY <2>1 DEF J!HeldByMain, J!Starting, MachineTypes
    <3>3. \A s \in Runtimes : Waited(s)
      BY <2>1 DEF MachineTypes, Waited
    <3> QED BY <2>1, <3>1, <3>2, <3>3, CallsStay
  <2> QED BY <2>2, <2>3
<1> QED BY <1>1, <1>2

\* stop: the fence.
LEMMA FenceKeeps ==
  ASSUME NEW r \in Runtimes, JavaInv, J!StartFails(r) \/ J!Stop(r)
  PROVE  JavaInv'
<1> USE DEF JavaInv
<1>1. PICK within \in BOOLEAN :
        /\ J!StopFrom(r, within)
        /\ within => jMain[r].at \in J!Starting
        /\ ~within => jMain[r].at = "idle"
  BY DEF J!StartFails, J!Stop
<1>2. /\ lifetime' = [lifetime EXCEPT ![r] = [accepting |-> FALSE, gen |-> lifetime[r].gen + 1]]
      /\ stopping' = [stopping EXCEPT ![r] = stopping[r] \/ vm[r] # "none"]
      /\ started' = [started EXCEPT ![r] = started[r] /\ vm[r] = "none"]
      /\ live' = IF live = r THEN NoRuntime ELSE live
      /\ request' = request \/ request' = J!Cancelled
      /\ jMain' = [jMain EXCEPT ![r] = [at |-> "draining", within |-> within]]
      /\ UNCHANGED <<owner, poisoned, vm, frames>>
  BY <1>1 DEF J!StopFrom
<1>3. MachineTypes'
  <2>1. lifetime' \in [Runtimes -> [accepting : BOOLEAN, gen : Nat]]
    <3>1. lifetime[r].gen \in Nat
      BY DEF MachineTypes
    <3>2. [accepting |-> FALSE, gen |-> lifetime[r].gen + 1] \in [accepting : BOOLEAN, gen : Nat]
      BY <3>1
    <3> QED BY <1>2, <3>2 DEF MachineTypes
  <2>2. jMain' \in [Runtimes -> [at : Points, within : BOOLEAN]]
    BY <1>2 DEF MachineTypes, Points
  <2>3. (started[r] /\ vm[r] = "none") \in BOOLEAN /\ (stopping[r] \/ vm[r] # "none") \in BOOLEAN
    OBVIOUS
  <2>4. started' \in [Runtimes -> BOOLEAN] /\ stopping' \in [Runtimes -> BOOLEAN]
    BY <1>2, <2>3 DEF MachineTypes
  <2> QED BY <1>2, <2>1, <2>2, <2>4 DEF MachineTypes
<1>4. /\ jMain'[r].at = "draining" /\ jMain'[r].within = within
      /\ \A s \in Runtimes \ {r} : jMain'[s] = jMain[s] /\ started'[s] = started[s]
                                   /\ lifetime'[s] = lifetime[s]
  BY <1>2 DEF MachineTypes
<1>5. live' # r /\ ~started'[r] /\ \A s \in Runtimes : live' = s => live = s
  <2>1. live' # r /\ \A s \in Runtimes : live' = s => live = s
    BY <1>2, JavaFacts
  <2>2. started'[r] = (started[r] /\ vm[r] = "none")
    BY <1>2 DEF MachineTypes
  <2>3. ~(started[r] /\ vm[r] = "none")
    BY DEF MachineFits, J!PublishedOwns
  <2> QED BY <2>1, <2>2, <2>3
<1>6. MachineFits'
  <2>1. \A s \in Runtimes \ {r} : Spared(s)
    BY <1>2, <1>4, <1>5 DEF Spared, MachineFits, MachineAt
  <2>2. MachineAt(r)'
    BY <1>2, <1>4, <1>5 DEF MachineAt, MachineFits, Waits
  <2>3. vm[r] = "up" => owner = r
    BY DEF MachineFits, J!PublishedOwns
  <2>4. vm[r] # "none" => \A s \in Runtimes \ {r} : vm[s] = "none"
    BY DEF MachineFits
  <2> QED BY <1>2, <1>5, <2>1, <2>2, <2>3, <2>4, OneFits
<1>7. CallTypes' /\ LeasesFit' /\ MutexFits' /\ RequestFits' /\ TasksFit'
  <2>1. \A s \in Runtimes : \A t \in J!Threads :
          Leases(frames[t], s) => vm'[s] = "up" /\ jMain'[s].at \notin {"locking", "shutdown"}
    BY <1>2, <1>4 DEF LeasesFit
  <2>2. \A s \in Runtimes : J!HeldByMain(s)' => J!HeldByMain(s)
    BY <1>1, <1>4 DEF J!HeldByMain, J!Starting
  <2>3. \A s \in Runtimes : Waited(s)
    BY <1>4 DEF Waited
  <2> QED BY <1>2, <2>1, <2>2, <2>3, CallsStay
<1> QED BY <1>3, <1>6, <1>7

\* stop: the waits.
LEMMA WaitsKeep ==
  ASSUME NEW r \in Runtimes, JavaInv, J!Drain(r) \/ J!AwaitCalls(r) \/ J!ShutdownJava(r)
  PROVE  JavaInv'
<1> USE DEF JavaInv, J!Go
<1>1. /\ UNCHANGED <<owner, poisoned, live, vm, started, stopping, lifetime, frames, request>>
      /\ jMain[r].at \in {"draining", "counting", "dozing", "dazed", "locking"}
  BY DEF J!Drain, J!AwaitCalls, J!ShutdownJava, J!process
<1>2. PICK p \in Points, w \in BOOLEAN :
        /\ jMain' = [jMain EXCEPT ![r] = [at |-> p, within |-> w]]
        /\ w => jMain[r].within
        /\ jMain[r].at = "draining" => ~Running
        /\ \/ p = "idle" /\ vm[r] = "failed"
           \/ p \in Waits \cup {"locking", "shutdown"} /\ vm[r] = "up"
           \/ p = "clearing" /\ vm[r] = "none"
        /\ p = "locking" => \A t \in J!Threads : ~Leases(frames[t], r)
        /\ p = "shutdown" => /\ jMain[r].at = "locking"
                             /\ jMain[r].within \/ \A t \in J!Threads : ~Holds(frames[t], r)
  <2>1. jMain[r] = [at |-> jMain[r].at, within |-> jMain[r].within] /\ jMain[r].within \in BOOLEAN
    BY DEF MachineTypes
  <2>2. \A p : [jMain EXCEPT ![r].at = p]
                 = [jMain EXCEPT ![r] = [at |-> p, within |-> jMain[r].within]]
    <3> SUFFICES ASSUME NEW p
                 PROVE  [jMain EXCEPT ![r].at = p]
                          = [jMain EXCEPT ![r] = [at |-> p, within |-> jMain[r].within]]
      OBVIOUS
    <3>1. [jMain[r] EXCEPT !.at = p] = [at |-> p, within |-> jMain[r].within]
      BY DEF MachineTypes
    <3>2. [jMain EXCEPT ![r].at = p] = [jMain EXCEPT ![r] = [jMain[r] EXCEPT !.at = p]]
      OBVIOUS
    <3> QED BY <3>1, <3>2
  <2>3. CASE J!Drain(r)
    <3>1. jMain[r].at = "draining" /\ ~Running
      BY <2>3 DEF J!Drain, Running
    <3>2. CASE vm[r] = "failed" /\ jMain' = [jMain EXCEPT ![r] = J!Idle]
      <4>1. J!Idle = [at |-> "idle", within |-> FALSE] /\ "idle" \in Points
        BY DEF J!Idle, J!At, Points
      <4>2. jMain' = [jMain EXCEPT ![r] = [at |-> "idle", within |-> FALSE]]
        BY <3>2, <4>1
      <4> QED BY <3>1, <3>2, <4>1, <4>2
    <3>3. CASE vm[r] = "up" /\ jMain' = [jMain EXCEPT ![r].at = "counting"]
      <4>1. "counting" \in Points /\ "counting" \in Waits
        BY DEF Points, Waits
      <4> QED BY <2>1, <2>2, <3>1, <3>3, <4>1
    <3>4. CASE vm[r] = "none" /\ jMain' = [jMain EXCEPT ![r].at = "clearing"]
      <4>1. "clearing" \in Points
        BY DEF Points
      <4> QED BY <2>1, <2>2, <3>1, <3>4, <4>1
    <3> QED BY <2>3, <3>2, <3>3, <3>4 DEF J!Drain
  <2>4. CASE J!AwaitCalls(r)
    <3>1. vm[r] = "up" /\ jMain[r].at \in {"counting", "dozing", "dazed"}
      BY <2>4 DEF J!AwaitCalls, MachineFits, MachineAt, Waits
    <3>2. PICK p \in {"locking", "dozing", "asleep", "missed"} :
            /\ jMain' = [jMain EXCEPT ![r].at = p]
            /\ p = "locking" => J!Calls(r) = {}
      BY <2>4 DEF J!AwaitCalls
    <3>3. p = "locking" => \A t \in J!Threads : ~Leases(frames[t], r)
      <4> SUFFICES ASSUME p = "locking", NEW t \in J!Threads, Leases(frames[t], r)
                   PROVE  FALSE
        OBVIOUS
      <4>1. PICK i \in DOMAIN frames[t] : frames[t][i].k \in J!Leased /\ frames[t][i].r = r
        BY DEF Leases
      <4>2. i \in 1 .. MaxFrames
        BY JavaFacts DEF CallTypes
      <4>3. <<t, i>> \in J!Calls(r)
        BY <4>1, <4>2 DEF J!Calls
      <4> QED BY <3>2, <4>3
    <3>4. p \in Points /\ p \in Waits \cup {"locking"}
      BY DEF Points, Waits
    <3> QED BY <2>1, <2>2, <3>1, <3>2, <3>3, <3>4
  <2>5. CASE J!ShutdownJava(r)
    <3>1. vm[r] = "up" /\ jMain[r].at = "locking"
      BY <2>5 DEF J!ShutdownJava, MachineFits, MachineAt
    <3>2. jMain[r].within \/ \A t \in J!Threads : ~Holds(frames[t], r)
      BY <2>5 DEF J!ShutdownJava, J!CallMutexFree, J!HeldBy, Holds
    <3>3. "shutdown" \in Points /\ jMain' = [jMain EXCEPT ![r].at = "shutdown"]
      BY <2>5 DEF J!ShutdownJava, Points
    <3> QED BY <2>1, <2>2, <3>1, <3>2, <3>3
  <2> QED BY <2>3, <2>4, <2>5
<1>3. /\ jMain'[r] = [at |-> p, within |-> w]
      /\ \A s \in Runtimes \ {r} : jMain'[s] = jMain[s]
  BY <1>2 DEF MachineTypes
<1>4. MachineTypes'
  BY <1>1, <1>2 DEF MachineTypes
<1>5. MachineFits'
  <2>1. live # r /\ ~started[r]
    BY <1>1 DEF MachineFits, MachineAt, Stops, Waits
  <2>2. \A s \in Runtimes \ {r} : Spared(s)
    BY <1>1, <1>3 DEF Spared, MachineFits, MachineAt
  <2>3. MachineAt(r)'
    BY <1>1, <1>2, <1>3, <2>1 DEF MachineAt, MachineFits, Stops, Waits
  <2>4. vm[r] = "up" => owner = r
    BY DEF MachineFits, J!PublishedOwns
  <2>5. vm[r] # "none" => \A s \in Runtimes \ {r} : vm[s] = "none"
    BY DEF MachineFits
  <2> QED BY <1>1, <2>1, <2>2, <2>3, <2>4, <2>5, OneFits
<1>6. CallTypes' /\ LeasesFit' /\ MutexFits' /\ RequestFits' /\ TasksFit'
  <2>1. \A s \in Runtimes : \A t \in J!Threads :
          Leases(frames[t], s) => vm'[s] = "up" /\ jMain'[s].at \notin {"locking", "shutdown"}
    BY <1>1, <1>2, <1>3 DEF LeasesFit
  <2>2. \A s \in Runtimes :
          J!HeldByMain(s)' => J!HeldByMain(s) \/ \A t \in J!Threads : ~Holds(frames[t], s)
    BY <1>2, <1>3 DEF J!HeldByMain, J!Starting, Waits
  <2>3. \A s \in Runtimes : Waited(s)
    BY <1>1, <1>2, <1>3 DEF Waited
  <2> QED BY <1>1, <2>1, <2>2, <2>3, CallsStay
<1> QED BY <1>4, <1>5, <1>6

\* stop: the end of the machine; and of the runtime.
LEMMA EndsKeep ==
  ASSUME NEW r \in Runtimes, JavaInv, J!Destroy(r) \/ J!ClearUp(r) \/ J!Close(r)
  PROVE  JavaInv'
<1> USE DEF JavaInv, J!Go
<1>1. CASE J!Destroy(r)
  <2>1. /\ jMain[r].at = "shutdown" /\ jMain' = [jMain EXCEPT ![r].at = "clearing"]
        /\ UNCHANGED <<owner, live, started, stopping, lifetime, frames, request>>
        /\ \/ vm' = [vm EXCEPT ![r] = "none"] /\ poisoned' = poisoned
           \/ vm' = [vm EXCEPT ![r] = "failed"] /\ poisoned'
    BY <1>1 DEF J!Destroy
  <2>2. /\ vm[r] = "up" /\ live # r /\ ~started[r]
        /\ \A s \in Runtimes : jMain[s].at # "claimed"
        /\ \A t \in J!Threads : ~Leases(frames[t], r)
    BY <2>1 DEF MachineFits, MachineAt, Stops, Waits, LeasesFit
  <2>3. /\ jMain'[r].at = "clearing" /\ jMain'[r].within = jMain[r].within
        /\ vm'[r] \in {"none", "failed"}
        /\ \A s \in Runtimes \ {r} : jMain'[s] = jMain[s] /\ vm'[s] = vm[s]
        /\ vm'[r] = "failed" \/ poisoned => poisoned'
    BY <2>1 DEF MachineTypes
  <2>4. MachineTypes'
    <3>1. vm' \in [Runtimes -> {"none", "up", "failed"}]
      BY <2>1 DEF MachineTypes
    <3>2. jMain' \in [Runtimes -> [at : Points, within : BOOLEAN]]
      BY <2>1 DEF MachineTypes, Points
    <3> QED BY <2>1, <3>1, <3>2 DEF MachineTypes
  <2>5. MachineFits'
    <3>1. \A s \in Runtimes \ {r} : Spared(s) /\ vm[s] = "none"
      BY <2>1, <2>2, <2>3 DEF Spared, MachineFits
    <3>2. MachineAt(r)'
      BY <2>1, <2>2, <2>3 DEF MachineAt, Stops, Waits
    <3> QED BY <2>1, <2>2, <2>3, <3>1, <3>2, OneFits
  <2>6. \A s \in Runtimes : \A t \in J!Threads :
          Leases(frames[t], s) => vm'[s] = "up" /\ jMain'[s].at \notin {"locking", "shutdown"}
    BY <2>2, <2>3 DEF LeasesFit
  <2>7. \A s \in Runtimes : J!HeldByMain(s)' => J!HeldByMain(s)
    BY <2>1, <2>3 DEF J!HeldByMain, J!Starting
  <2>8. \A s \in Runtimes : Waited(s)
    BY <2>1, <2>3 DEF Waited
  <2> QED BY <2>1, <2>4, <2>5, <2>6, <2>7, <2>8, CallsStay
<1>2. CASE J!ClearUp(r) \/ J!Close(r)
  <2>1. /\ jMain[r].at \in {"clearing", "idle"} /\ vm[r] # "up"
    BY <1>2 DEF J!ClearUp, J!Close, MachineFits, MachineAt
  <2>2. PICK p \in {"idle", "closed"} : jMain' = [jMain EXCEPT ![r] = [at |-> p, within |-> FALSE]]
    BY <1>2 DEF J!ClearUp, J!Close, J!Idle, J!At
  <2>3. /\ UNCHANGED <<poisoned, live, vm, lifetime, frames, request>>
        /\ owner' = owner \/ owner' = IF owner = r THEN NoRuntime ELSE owner
        /\ started' = started \/ started' = [started EXCEPT ![r] = FALSE]
        /\ \/ stopping' = stopping
           \/ stopping' = [stopping EXCEPT ![r] = stopping[r] /\ vm[r] = "failed"]
    BY <1>2 DEF J!ClearUp, J!Close, J!Released
  <2>4. /\ jMain'[r] = [at |-> p, within |-> FALSE]
        /\ \A s \in Runtimes \ {r} : jMain'[s] = jMain[s]
        /\ \A s \in Runtimes : (owner = s /\ s # r => owner' = s) /\ (started'[s] => started[s])
        /\ \A s \in Runtimes \ {r} : started'[s] = started[s]
    BY <2>2, <2>3, JavaFacts DEF MachineTypes
  <2>5. live # r /\ ~started[r]
    BY <2>1 DEF MachineFits, J!PublishedOwns
  <2>6. MachineTypes'
    <3>1. (stopping[r] /\ vm[r] = "failed") \in BOOLEAN
      OBVIOUS
    <3>2. stopping' \in [Runtimes -> BOOLEAN] /\ started' \in [Runtimes -> BOOLEAN]
      BY <2>3, <3>1 DEF MachineTypes
    <3>3. jMain' \in [Runtimes -> [at : Points, within : BOOLEAN]]
      BY <2>2 DEF MachineTypes, Points
    <3> QED BY <2>3, <3>2, <3>3 DEF MachineTypes
  <2>7. MachineFits'
    <3>1. \A s \in Runtimes \ {r} : Spared(s)
      BY <2>3, <2>4 DEF Spared, MachineFits, MachineAt
    <3>2. MachineAt(r)'
      BY <2>1, <2>3, <2>4 DEF MachineAt, MachineFits, Stops, Waits
    <3>3. live' # r /\ ~started'[r] /\ vm'[r] # "up"
      BY <2>1, <2>3, <2>4, <2>5
    <3>4. vm'[r] # "none" => \A s \in Runtimes \ {r} : vm[s] = "none"
      BY <2>3 DEF MachineFits
    <3> QED BY <2>3, <3>1, <3>2, <3>3, <3>4, OneFits
  <2>8. \A s \in Runtimes : \A t \in J!Threads :
          Leases(frames[t], s) => vm'[s] = "up" /\ jMain'[s].at \notin {"locking", "shutdown"}
    BY <2>3, <2>4 DEF LeasesFit
  <2>9. \A s \in Runtimes : J!HeldByMain(s)' => J!HeldByMain(s)
    BY <2>4 DEF J!HeldByMain, J!Starting
  <2>10. \A s \in Runtimes : Waited(s)
    BY <2>1, <2>3, <2>4 DEF Waited
  <2> QED BY <2>3, <2>6, <2>7, <2>8, <2>9, <2>10, CallsStay
<1> QED BY <1>1, <1>2

-----------------------------------------------------------------------------
(* Calls. *)

LEMMA StackPushed ==
  ASSUME NEW s \in Seq(Frames), NEW e \in Frames
  PROVE  /\ Append(s, e) \in Seq(Frames) /\ Len(Append(s, e)) = Len(s) + 1
         /\ Append(s, e)[Len(s) + 1] = e
         /\ \A i \in 1 .. Len(s) : Append(s, e)[i] = s[i]
OBVIOUS

LEMMA StackPopped ==
  ASSUME NEW s \in Seq(Frames), s # <<>>
  PROVE  /\ Len(s) \in Nat \ {0} /\ J!Last(s) = s[Len(s)] /\ J!Last(s) \in Frames
         /\ J!Front(s) \in Seq(Frames) /\ Len(J!Front(s)) = Len(s) - 1
         /\ \A i \in 1 .. Len(s) - 1 : J!Front(s)[i] = s[i]
<1>1. Len(s) \in Nat \ {0} /\ J!Last(s) = s[Len(s)]
  BY DEF J!Last
<1>2. s[Len(s)] \in Frames
  BY <1>1
<1>3. J!Front(s) = SubSeq(s, 1, Len(s) - 1)
  BY DEF J!Front
<1>4. /\ SubSeq(s, 1, Len(s) - 1) \in Seq(Frames)
      /\ Len(SubSeq(s, 1, Len(s) - 1)) = Len(s) - 1
      /\ \A i \in 1 .. Len(s) - 1 : SubSeq(s, 1, Len(s) - 1)[i] = s[i]
  <2> DEFINE n == Len(s) - 1
             p == SubSeq(s, 1, n)
  <2>1. n \in Nat /\ \A i \in 1 .. n : s[i] \in Frames
    BY <1>1
  <2> HIDE DEF n
  <2>2. /\ p \in Seq(Frames) /\ Len(p) = IF 1 <= n THEN n - 1 + 1 ELSE 0
        /\ \A i \in 1 .. n - 1 + 1 : p[i] = s[1 + i - 1]
    BY <2>1, SubSeqProperties
  <2> HIDE DEF p
  <2>3. Len(p) = n
    BY <2>1, <2>2
  <2>4. \A i \in 1 .. n : p[i] = s[i]
    <3> SUFFICES ASSUME NEW i \in 1 .. n PROVE p[i] = s[i]
      OBVIOUS
    <3>1. i \in 1 .. n - 1 + 1 /\ 1 + i - 1 = i
      BY <2>1
    <3> QED BY <2>2, <3>1
  <2> QED BY <2>2, <2>3, <2>4 DEF n, p
<1> QED BY <1>1, <1>2, <1>3, <1>4

\* The end of a lease leaves the threads that stop where they are, but for waits.
Woke ==
  /\ jMain' \in [Runtimes -> [at : Points, within : BOOLEAN]]
  /\ \A r \in Runtimes :
       /\ jMain'[r].within = jMain[r].within
       /\ jMain'[r].at = jMain[r].at \/ {jMain[r].at, jMain'[r].at} \subseteq Waits
MachineStays ==
  UNCHANGED <<owner, poisoned, live, vm, started, stopping, lifetime>> /\ Woke

LEMMA MachineKept ==
  ASSUME JavaInv, MachineStays
  PROVE  /\ MachineTypes' /\ MachineFits' /\ \A r \in Runtimes : Waited(r)
         /\ \A r \in Runtimes : J!HeldByMain(r)' = J!HeldByMain(r)
         /\ \A r \in Runtimes : jMain'[r].at \in {"locking", "shutdown"} =>
              jMain[r].at \in {"locking", "shutdown"}
<1> USE DEF JavaInv, MachineStays, Woke
<1>1. MachineTypes'
  BY DEF MachineTypes
<1>2. MachineFits'
  <2>1. J!PublishedOwns'
    BY DEF MachineFits, J!PublishedOwns
  <2> QED BY <2>1 DEF MachineFits, MachineAt, Stops, Waits
<1>3. \A r \in Runtimes : Waited(r)
  BY DEF Waited, Waits
<1>4. \A r \in Runtimes : J!HeldByMain(r)' = J!HeldByMain(r)
  <2> SUFFICES ASSUME NEW r \in Runtimes PROVE J!HeldByMain(r)' = J!HeldByMain(r)
    OBVIOUS
  <2>1. jMain'[r].at \in J!Starting \cup {"shutdown"} <=> jMain[r].at \in J!Starting \cup {"shutdown"}
    BY DEF J!Starting, Waits
  <2>2. jMain'[r].within = jMain[r].within
    OBVIOUS
  <2> QED BY <2>1, <2>2, SMT DEF J!HeldByMain
<1>5. \A r \in Runtimes : jMain'[r].at \in {"locking", "shutdown"} =>
        jMain[r].at \in {"locking", "shutdown"}
  BY DEF Waits
<1> QED BY <1>1, <1>2, <1>3, <1>4, <1>5

\* The stack of one thread changes.
Entered(f, r) == Leases(f, r) => vm[r] = "up" /\ jMain[r].at \notin {"locking", "shutdown"}
LEMMA StackStep ==
  ASSUME JavaInv, MachineStays, NEW t \in J!Threads, NEW f \in Seq(Frames), Len(f) <= MaxFrames,
         frames' = [frames EXCEPT ![t] = f],
         \A r \in Runtimes : Leases(f, r) => Leases(frames[t], r) \/ Entered(f, r),
         \A r \in Runtimes : Holds(f, r) => \/ Holds(frames[t], r)
                                            \/ /\ ~J!HeldByMain(r)
                                               /\ \A u \in J!Threads \ {t} : ~Holds(frames[u], r)
  PROVE  /\ frames' \in [J!Threads -> Seq(Frames)]
         /\ \A u \in J!Threads : Len(frames'[u]) <= MaxFrames
         /\ frames'[t] = f /\ \A u \in J!Threads \ {t} : frames'[u] = frames[u]
         /\ MachineTypes' /\ MachineFits' /\ LeasesFit' /\ MutexFits'
<1> USE DEF JavaInv
<1>1. /\ frames' \in [J!Threads -> Seq(Frames)]
      /\ frames'[t] = f /\ \A u \in J!Threads \ {t} : frames'[u] = frames[u]
  BY DEF CallTypes
<1>2. \A u \in J!Threads : Len(frames'[u]) <= MaxFrames
  BY <1>1 DEF CallTypes
<1>3. LeasesFit'
  <2> SUFFICES ASSUME NEW r \in Runtimes, NEW u \in J!Threads, Leases(frames'[u], r)
               PROVE  vm'[r] = "up" /\ jMain'[r].at \notin {"locking", "shutdown"}
    BY DEF LeasesFit, Leases
  <2>1. vm[r] = "up" /\ jMain[r].at \notin {"locking", "shutdown"}
    BY <1>1 DEF LeasesFit, Entered
  <2>2. vm' = vm
    BY DEF MachineStays
  <2> QED BY <2>1, <2>2, MachineKept
<1>4. MutexFits'
  <2> SUFFICES ASSUME NEW r \in Runtimes, NEW u \in J!Threads, Holds(frames'[u], r)
               PROVE  ~J!HeldByMain(r)' /\ \A v \in J!Threads : Holds(frames'[v], r) => v = u
    BY DEF MutexFits, Holds
  <2>1. ~J!HeldByMain(r) /\ \A v \in J!Threads : Holds(frames'[v], r) => v = u
    BY <1>1 DEF MutexFits
  <2> QED BY <2>1, MachineKept
<1> QED BY <1>1, <1>2, <1>3, <1>4, MachineKept

LEMMA TypesOfStack ==
  ASSUME JavaInv, NEW t \in J!Threads
  PROVE  /\ frames[t] \in Seq(Frames) /\ Len(frames[t]) \in Nat /\ Len(frames[t]) <= MaxFrames
         /\ request[t] \in Requests
         /\ DOMAIN frames[t] = 1 .. Len(frames[t])
         /\ \A i \in DOMAIN frames[t] : frames[t][i] \in Frames /\ frames[t][i].r \in Runtimes
<1>1. frames[t] \in Seq(Frames) /\ Len(frames[t]) <= MaxFrames /\ request[t] \in Requests
  BY DEF JavaInv, CallTypes
<1>2. \A i \in DOMAIN frames[t] : frames[t][i] \in Frames
  BY <1>1
<1>3. \A x \in Frames : x.r \in Runtimes
  BY DEF Frames
<1> QED BY <1>1, <1>2, <1>3

\* A thread of the server enters a callback.
LEMMA CallBackKeeps ==
  ASSUME NEW t \in J!Threads, NEW r \in Runtimes, JavaInv, J!CallBack(t, r)
  PROVE  JavaInv'
<1> DEFINE s == frames[t]
           n == Len(s)
           e == J!Frame("entered", r)
           f == (IF s = <<>> THEN <<>> ELSE Append(J!Front(s), [J!Last(s) EXCEPT !.k = "commanded"])) \o <<e>>
<1>1. s \in Seq(Frames) /\ n \in Nat /\ n < MaxFrames /\ DOMAIN s = 1 .. n
  BY TypesOfStack, JavaFacts DEF J!CallBack
<1>2. /\ frames' = [frames EXCEPT ![t] = f]
      /\ s = <<>> \/ J!Last(s).k = "task"
      /\ UNCHANGED <<owner, poisoned, live, vm, started, stopping, lifetime, jMain, request>>
  BY DEF J!CallBack, J!Inside, J!Top, J!process
<1>3. e \in Frames /\ e.k = "entered" /\ e.r = r
  BY DEF J!Frame, Frames, Kinds
<1>4. /\ f \in Seq(Frames) /\ Len(f) = n + 1 /\ f[n + 1] = e /\ DOMAIN f = 1 .. n + 1
      /\ \A i \in 1 .. n - 1 : f[i] = s[i]
      /\ n # 0 => /\ s[n].k = "task" /\ f[n].k = "commanded"
                  /\ f[n].r = s[n].r /\ f[n].gen = s[n].gen
  <2>1. CASE s = <<>>
    <3>1. f = <<e>> /\ n = 0
      BY <2>1
    <3> QED BY <3>1, <1>3
  <2>2. CASE s # <<>>
    <3> DEFINE c == [J!Last(s) EXCEPT !.k = "commanded"]
               g == J!Front(s)
    <3>1. /\ n \in Nat \ {0} /\ J!Last(s) = s[n] /\ J!Last(s) \in Frames
          /\ g \in Seq(Frames) /\ Len(g) = n - 1 /\ \A i \in 1 .. n - 1 : g[i] = s[i]
      BY <1>1, <2>2, StackPopped
    <3>2. c \in Frames /\ c.k = "commanded" /\ c.r = s[n].r /\ c.gen = s[n].gen
      BY <3>1 DEF Frames, Kinds
    <3>3. f = Append(g, c) \o <<e>>
      BY <2>2
    <3>4. s[n].k = "task"
      BY <1>2, <2>2, <3>1
    <3> HIDE DEF s, n, e, f, c, g
    <3>5. Append(g, c) \o <<e>> = Append(Append(g, c), e)
      BY <1>3, <3>1, <3>2
    <3>6. /\ Append(g, c) \in Seq(Frames) /\ Len(Append(g, c)) = n /\ Append(g, c)[n] = c
          /\ \A i \in 1 .. n - 1 : Append(g, c)[i] = s[i]
      BY <3>1, <3>2
    <3>7. /\ f \in Seq(Frames) /\ Len(f) = n + 1 /\ f[n + 1] = e
          /\ \A i \in 1 .. n : f[i] = Append(g, c)[i]
      BY <1>3, <3>1, <3>3, <3>5, <3>6
    <3> QED BY <3>1, <3>2, <3>4, <3>6, <3>7
  <2> QED BY <2>1, <2>2
<1> HIDE DEF f, e
<1>5. MachineStays
  BY <1>2 DEF MachineStays, Woke, JavaInv, MachineTypes
<1>6. \A q \in Runtimes : Leases(f, q) => Leases(s, q)
  BY <1>1, <1>3, <1>4 DEF Leases, J!Leased
<1>7. \A q \in Runtimes : Holds(f, q) =>
        \/ Holds(s, q)
        \/ ~J!HeldByMain(q) /\ \A u \in J!Threads \ {t} : ~Holds(frames[u], q)
  <2>1. ~J!HeldByMain(r) /\ \A u \in J!Threads \ {t} : ~Holds(frames[u], r)
    BY DEF J!CallBack, J!CallMutexFree, J!HeldBy, Holds
  <2>2. \A q \in Runtimes : Holds(f, q) => Holds(s, q) \/ q = r
    BY <1>1, <1>3, <1>4 DEF Holds
  <2> QED BY <2>1, <2>2
<1>8. Len(f) <= MaxFrames
  BY <1>1, <1>4, JavaFacts
<1>9. /\ frames' \in [J!Threads -> Seq(Frames)] /\ \A u \in J!Threads : Len(frames'[u]) <= MaxFrames
      /\ frames'[t] = f /\ \A u \in J!Threads \ {t} : frames'[u] = frames[u]
      /\ MachineTypes' /\ MachineFits' /\ LeasesFit' /\ MutexFits'
  BY <1>2, <1>4, <1>5, <1>6, <1>7, <1>8, StackStep
<1>10. CallTypes'
  BY <1>2, <1>9 DEF JavaInv, CallTypes
<1>11. RequestFits'
  <2>1. CASE t = Tick
    <3>1. request[Tick].st # "noted"
      BY <1>2, <1>1, <2>1, StackPopped DEF JavaInv, RequestFits
    <3> QED BY <1>2, <3>1 DEF JavaInv, RequestFits
  <2>2. CASE t # Tick
    BY <1>2, <1>9, <2>2, JavaFacts DEF JavaInv, RequestFits
  <2> QED BY <2>1, <2>2
<1>12. TasksFit'
  <2>1. Running => Running'
    BY <1>2 DEF Running
  <2>2. \A i \in DOMAIN frames'[Tick] : frames'[Tick][i].k \in Mutations => SameTask(i)
    <3>1. CASE t = Tick
      <4> SUFFICES ASSUME NEW i \in DOMAIN f, f[i].k \in Mutations
                   PROVE  SameTask(i)
        BY <1>9, <3>1
      <4>1. i \in 1 .. n
        BY <1>1, <1>3, <1>4 DEF Mutations
      <4>2. \A j \in 1 .. i : s[j].k \in J!Leased => f[j] = s[j]
        BY <1>1, <1>4, <4>1 DEF J!Leased
      <4>3. s[i].k \in Mutations /\ f[i].r = s[i].r /\ f[i].gen = s[i].gen
        BY <1>1, <1>4, <4>1 DEF Mutations
      <4> QED BY <1>1, <1>9, <3>1, <4>1, <4>2, <4>3 DEF SameTask
    <3>2. CASE t # Tick
      BY <1>9, <3>2, JavaFacts DEF SameTask
    <3> QED BY <3>1, <3>2
  <2> QED BY <1>5, <2>1, <2>2, MachineKept, TasksKept
<1> QED BY <1>9, <1>10, <1>11, <1>12 DEF JavaInv

LEMMA UpToOneMore ==
  ASSUME NEW n \in Nat, NEW m \in 0 .. n, NEW l \in {m, m + 1}
  PROVE  \A i \in 1 .. l : i \in 1 .. m \/ (i = m + 1 /\ l = m + 1)
OBVIOUS

LEMMA UpTo ==
  ASSUME NEW n \in Nat, NEW m \in 0 .. n, NEW i \in 1 .. m
  PROVE  \A j \in 1 .. i : j \in 1 .. m
OBVIOUS

\* Frames on top of one stack go, or one comes.
LEMMA TopChanges ==
  ASSUME JavaInv, MachineStays, NEW t \in J!Threads, NEW f \in Seq(Frames),
         NEW m \in 0 .. Len(frames[t]), Len(f) \in {m, m + 1}, Len(f) <= MaxFrames,
         frames' = [frames EXCEPT ![t] = f], \A i \in 1 .. m : f[i] = frames[t][i],
         Len(f) = m + 1 =>
           /\ f[m + 1].k \in J!Leased =>
                vm[f[m + 1].r] = "up" /\ jMain[f[m + 1].r].at \notin {"locking", "shutdown"}
           /\ f[m + 1].k \in {"entered", "call"} =>
                /\ m + 1 \in DOMAIN frames[t] /\ frames[t][m + 1].k \in {"entered", "call"}
                /\ frames[t][m + 1].r = f[m + 1].r
           /\ t = Tick /\ f[m + 1].k \in Mutations => Under(f, m + 1) \/ Served(m + 1)',
         Running => Running' \/ frames'[Tick] = <<>>,
         request' \in [J!Threads -> Requests], RequestFits',
         \A u \in J!Threads : request'[u].st # "none" => request'[u].r \in Runtimes
  PROVE  JavaInv'
<1> DEFINE s == frames[t]
<1>1. /\ s \in Seq(Frames) /\ Len(s) \in Nat /\ DOMAIN s = 1 .. Len(s) /\ DOMAIN f = 1 .. Len(f)
      /\ m \in 0 .. Len(s) /\ \A i \in 1 .. m : f[i] = s[i] /\ i \in DOMAIN s
  BY TypesOfStack
<1>0. \A i \in DOMAIN f : i \in 1 .. m \/ (i = m + 1 /\ Len(f) = m + 1)
  <2>1. \A i \in 1 .. Len(f) : i \in 1 .. m \/ (i = m + 1 /\ Len(f) = m + 1)
    BY <1>1, UpToOneMore
  <2> QED BY <1>1, <2>1
<1>2. \A r \in Runtimes : Leases(f, r) => Leases(s, r) \/ Entered(f, r)
  <2> SUFFICES ASSUME NEW r \in Runtimes, NEW i \in DOMAIN f, f[i].k \in J!Leased, f[i].r = r
               PROVE  Leases(s, r) \/ Entered(f, r)
    BY DEF Leases
  <2>1. CASE i \in 1 .. m
    <3>1. i \in DOMAIN s /\ s[i].k \in J!Leased /\ s[i].r = r
      BY <1>1, <2>1
    <3> HIDE DEF s
    <3> QED BY <3>1 DEF Leases
  <2>2. CASE i = m + 1 /\ Len(f) = m + 1
    <3>1. vm[r] = "up" /\ jMain[r].at \notin {"locking", "shutdown"}
      BY <2>2
    <3> QED BY <3>1 DEF Entered
  <2> QED BY <1>0, <2>1, <2>2
<1>3. \A r \in Runtimes : Holds(f, r) => Holds(s, r)
  <2> SUFFICES ASSUME NEW r \in Runtimes, NEW i \in DOMAIN f,
                      f[i].k \in {"entered", "call"}, f[i].r = r
               PROVE  Holds(s, r)
    BY DEF Holds
  <2>1. CASE i \in 1 .. m
    <3>1. i \in DOMAIN s /\ s[i].k \in {"entered", "call"} /\ s[i].r = r
      BY <1>1, <2>1
    <3> HIDE DEF s
    <3> QED BY <3>1 DEF Holds
  <2>2. CASE i = m + 1 /\ Len(f) = m + 1
    <3>1. i \in DOMAIN s /\ s[i].k \in {"entered", "call"} /\ s[i].r = r
      BY <2>2
    <3> HIDE DEF s
    <3> QED BY <3>1 DEF Holds
  <2> QED BY <1>0, <2>1, <2>2
<1>4. /\ frames' \in [J!Threads -> Seq(Frames)] /\ \A u \in J!Threads : Len(frames'[u]) <= MaxFrames
      /\ frames'[t] = f /\ \A u \in J!Threads \ {t} : frames'[u] = frames[u]
      /\ MachineTypes' /\ MachineFits' /\ LeasesFit' /\ MutexFits'
  BY <1>2, <1>3, StackStep
<1>5. CallTypes'
  BY <1>4 DEF CallTypes
<1>6. TasksFit'
  <2>1. \A i \in DOMAIN frames'[Tick] : frames'[Tick][i].k \in Mutations =>
          SameTask(i) \/ Under(frames'[Tick], i) \/ Served(i)'
    <3>1. CASE t = Tick
      <4> SUFFICES ASSUME NEW i \in DOMAIN f, f[i].k \in Mutations
                   PROVE  SameTask(i) \/ Under(f, i) \/ Served(i)'
        BY <1>4, <3>1
      <4>1. CASE i \in 1 .. m
        <5>0. \A j \in 1 .. i : j \in 1 .. m
          BY <1>1, <4>1, UpTo
        <5>1. /\ i \in DOMAIN frames[Tick] /\ f[i] = frames[Tick][i]
              /\ \A j \in 1 .. i : f[j] = frames[Tick][j]
          BY <1>1, <3>1, <4>1, <5>0
        <5>2. frames'[Tick] = f
          BY <1>4, <3>1
        <5> QED BY <5>1, <5>2 DEF SameTask
      <4>2. CASE i = m + 1 /\ Len(f) = m + 1
        BY <3>1, <4>2
      <4> QED BY <1>0, <4>1, <4>2
    <3>2. CASE t # Tick
      BY <1>4, <3>2, JavaFacts DEF SameTask
    <3> QED BY <3>1, <3>2
  <2> QED BY <2>1, MachineKept, TasksKept
<1> QED BY <1>4, <1>5, <1>6 DEF JavaInv

\* Only a request changes.
LEMMA RequestsChange ==
  ASSUME JavaInv, UNCHANGED <<owner, poisoned, live, vm, started, stopping, lifetime, jMain, frames>>,
         request' \in [J!Threads -> Requests], RequestFits', Running => Running',
         \A u \in J!Threads : request'[u].st # "none" => request'[u].r \in Runtimes
  PROVE  JavaInv'
<1>1. MachineStays
  BY DEF MachineStays, Woke, JavaInv, MachineTypes
<1>2. MachineTypes' /\ MachineFits' /\ \A r \in Runtimes : Waited(r)
  BY <1>1, MachineKept
<1>3. CallTypes' /\ LeasesFit' /\ MutexFits'
  BY DEF JavaInv, CallTypes, LeasesFit, MutexFits, J!HeldByMain
<1>4. \A i \in DOMAIN frames'[Tick] : frames'[Tick][i].k \in Mutations => SameTask(i)
  BY DEF SameTask
<1>5. TasksFit'
  BY <1>2, <1>4, TasksKept
<1> QED BY <1>2, <1>3, <1>5 DEF JavaInv

\* The top of the stack is what an action asks for.
LEMMA TopOfStack ==
  ASSUME JavaInv, NEW t \in J!Threads, NEW kinds, J!Inside(t, kinds)
  PROVE  /\ Len(frames[t]) \in Nat \ {0} /\ J!Top(t) = frames[t][Len(frames[t])]
         /\ J!Top(t) \in Frames /\ J!Top(t).k \in kinds /\ J!Top(t).r \in Runtimes
         /\ J!Front(frames[t]) \in Seq(Frames) /\ Len(J!Front(frames[t])) = Len(frames[t]) - 1
         /\ \A i \in 1 .. Len(frames[t]) - 1 : J!Front(frames[t])[i] = frames[t][i]
<1>1. frames[t] # <<>> /\ J!Top(t) = J!Last(frames[t]) /\ J!Top(t).k \in kinds
  BY DEF J!Inside, J!Top
<1>2. \A x \in Frames : x.r \in Runtimes
  BY DEF Frames
<1> QED BY <1>1, <1>2, TypesOfStack, StackPopped

\* A lease is granted.
LEMMA LeaseFits ==
  ASSUME JavaInv, NEW r \in Runtimes, NEW boot \in BOOLEAN, J!MayLease(r, boot)
  PROVE  vm[r] = "up" /\ jMain[r].at \notin {"locking", "shutdown"}
BY DEF J!MayLease, JavaInv, MachineFits, MachineAt, Stops, Waits

LEMMA EnterKeeps ==
  ASSUME NEW t \in J!Threads, JavaInv, J!EnterJava(t)
  PROVE  JavaInv'
<1> DEFINE s == frames[t]
           n == Len(s)
           r == J!Top(t).r
           e == J!Frame("call", r)
<1>1. /\ n \in Nat \ {0} /\ s[n] = J!Top(t) /\ s[n].k = "entered" /\ r \in Runtimes /\ n <= MaxFrames
      /\ J!Front(s) \in Seq(Frames) /\ Len(J!Front(s)) = n - 1
      /\ \A i \in 1 .. n - 1 : J!Front(s)[i] = s[i]
      /\ s \in Seq(Frames)
  BY TopOfStack, TypesOfStack DEF J!EnterJava
<1>2. /\ UNCHANGED <<owner, poisoned, live, vm, started, stopping, lifetime, jMain, request>>
      /\ \/ frames' = [frames EXCEPT ![t] = Append(J!Front(s), e)] /\ J!MayLease(r, FALSE)
         \/ frames' = [frames EXCEPT ![t] = J!Front(s)]
  BY DEF J!EnterJava, J!Popped, J!process
<1>3. MachineStays
  BY <1>2 DEF MachineStays, Woke, JavaInv, MachineTypes
<1>4. e \in Frames /\ e.k = "call" /\ e.r = r
  BY <1>1 DEF J!Frame, Frames, Kinds
<1>5. /\ request' \in [J!Threads -> Requests] /\ (Running => Running')
      /\ \A u \in J!Threads : request'[u].st # "none" => request'[u].r \in Runtimes
  BY <1>2 DEF JavaInv, CallTypes, Running
<1>6. RequestFits'
  <2>1. t = Tick => request[Tick].st # "noted"
    BY <1>1 DEF JavaInv, RequestFits
  <2>2. t # Tick => frames'[Tick] = frames[Tick]
    BY <1>2, JavaFacts DEF JavaInv, CallTypes
  <2> QED BY <1>2, <2>1, <2>2 DEF JavaInv, RequestFits
<1> HIDE DEF e
<1>7. CASE frames' = [frames EXCEPT ![t] = J!Front(s)]
  <2>1. PICK f \in Seq(Frames), m \in 0 .. n :
          /\ frames' = [frames EXCEPT ![t] = f] /\ Len(f) = m /\ Len(f) # m + 1
          /\ \A i \in 1 .. m : f[i] = s[i]
    <3> DEFINE g == J!Front(s)
    <3>1. frames' = [frames EXCEPT ![t] = g]
      BY <1>7
    <3>2. g \in Seq(Frames) /\ Len(g) = n - 1 /\ \A i \in 1 .. n - 1 : g[i] = s[i]
      BY <1>1
    <3>3. n - 1 \in 0 .. n /\ n - 1 # (n - 1) + 1
      BY <1>1
    <3> HIDE DEF g
    <3> QED BY <3>1, <3>2, <3>3
  <2>2. Len(f) <= MaxFrames /\ Len(f) \in {m, m + 1}
    BY <1>1, <2>1, JavaFacts
  <2> QED BY <1>3, <1>5, <1>6, <2>1, <2>2, TopChanges
<1>8. CASE frames' = [frames EXCEPT ![t] = Append(J!Front(s), e)] /\ J!MayLease(r, FALSE)
  <2>1. PICK f \in Seq(Frames), m \in 0 .. n :
          /\ frames' = [frames EXCEPT ![t] = f] /\ Len(f) = m + 1 /\ m + 1 = n
          /\ f[m + 1] = e /\ \A i \in 1 .. m : f[i] = s[i]
    <3> DEFINE g == Append(J!Front(s), e)
    <3>1. /\ g \in Seq(Frames) /\ Len(g) = n /\ g[n] = e
          /\ \A i \in 1 .. n - 1 : g[i] = s[i]
      BY <1>1, <1>4, StackPushed
    <3>2. frames' = [frames EXCEPT ![t] = g]
      BY <1>8
    <3> HIDE DEF g
    <3>3. n - 1 \in 0 .. n /\ (n - 1) + 1 = n
      BY <1>1
    <3> QED BY <3>1, <3>2, <3>3
  <2>2. Len(f) <= MaxFrames /\ Len(f) \in {m, m + 1}
    BY <1>1, <2>1
  <2>3. vm[r] = "up" /\ jMain[r].at \notin {"locking", "shutdown"}
    BY <1>1, <1>8, LeaseFits
  <2>4. m + 1 \in DOMAIN s /\ s[m + 1].k \in {"entered", "call"} /\ s[m + 1].r = r
    BY <1>1, <2>1
  <2>5. /\ f[m + 1].k = "call" /\ f[m + 1].r = r /\ f[m + 1].k \notin Mutations
    BY <1>4, <2>1 DEF Mutations
  <2> QED BY <1>3, <1>5, <1>6, <2>1, <2>2, <2>3, <2>4, <2>5, TopChanges
<1> QED BY <1>2, <1>7, <1>8

LEMMA NativeKeeps ==
  ASSUME NEW t \in J!Threads, JavaInv, J!Native(t)
  PROVE  JavaInv'
<1> DEFINE s == frames[t]
           m == Len(s)
<1>1. PICK r \in Runtimes, k \in {"native", "early"}, boot \in BOOLEAN :
        J!MayLease(r, boot) /\ J!Push(t, J!Frame(k, r))
  BY DEF J!Native
<1> DEFINE e == J!Frame(k, r)
           f == Append(s, e)
<1>2. s \in Seq(Frames) /\ m \in Nat /\ m < MaxFrames /\ frames' = [frames EXCEPT ![t] = f]
  BY <1>1, TypesOfStack DEF J!Push
<1>3. e \in Frames /\ e.k = k /\ e.r = r
  BY DEF J!Frame, Frames, Kinds
<1>4. vm[r] = "up" /\ jMain[r].at \notin {"locking", "shutdown"}
  BY <1>1, LeaseFits
<1>5. /\ UNCHANGED <<owner, poisoned, live, vm, started, stopping, lifetime, jMain, request>>
      /\ s = <<>> \/ (s # <<>> /\ J!Last(s).k = "call")
      /\ t = Tick => s # <<>>
  BY JavaFacts DEF J!Native, J!process, J!Inside, J!Top
<1>6. MachineStays
  BY <1>5 DEF MachineStays, Woke, JavaInv, MachineTypes
<1>7. /\ request' \in [J!Threads -> Requests] /\ (Running => Running')
      /\ \A u \in J!Threads : request'[u].st # "none" => request'[u].r \in Runtimes
  BY <1>5 DEF JavaInv, CallTypes, Running
<1>8. RequestFits'
  <2>1. t = Tick => request[Tick].st # "noted"
    BY <1>2, <1>5, StackPopped DEF JavaInv, RequestFits
  <2>2. t # Tick => frames'[Tick] = frames[Tick]
    BY <1>2, JavaFacts DEF JavaInv, CallTypes
  <2> QED BY <1>5, <2>1, <2>2 DEF JavaInv, RequestFits
<1> HIDE DEF e
<1>9. /\ f \in Seq(Frames) /\ Len(f) = m + 1 /\ f[m + 1] = e
      /\ \A i \in 1 .. m : f[i] = s[i]
  BY <1>2, <1>3, StackPushed
<1>10. e.k \notin Mutations /\ e.k \notin {"entered", "call"}
  BY <1>3 DEF Mutations
<1> HIDE DEF f
<1>11. Len(f) <= MaxFrames /\ Len(f) \in {m, m + 1} /\ m \in 0 .. Len(frames[t])
  BY <1>2, <1>9, JavaFacts
<1> QED BY <1>2, <1>3, <1>4, <1>6, <1>7, <1>8, <1>9, <1>10, <1>11, TopChanges

LEMMA LeaveKeeps ==
  ASSUME NEW t \in J!Threads, JavaInv, J!Leave(t)
  PROVE  JavaInv'
<1> DEFINE s == frames[t]
           f == J!Front(s)
           m == Len(s) - 1
<1>1. /\ s # <<>> /\ UNCHANGED <<owner, poisoned, live, vm, started, stopping, lifetime, request>>
      /\ frames' = [frames EXCEPT ![t] = f] /\ request[t] = J!NoRequest /\ jMain' = J!Woken
  BY DEF J!Leave, J!Inside, J!Popped, J!process
<1>2. /\ s \in Seq(Frames) /\ Len(s) <= MaxFrames /\ m \in 0 .. Len(s)
      /\ f \in Seq(Frames) /\ Len(f) = m /\ \A i \in 1 .. m : f[i] = s[i]
  BY <1>1, TypesOfStack, StackPopped
<1>3. MachineStays
  <2>1. \A r \in Runtimes :
          jMain'[r] = [jMain[r] EXCEPT !.at = CASE @ \in {"asleep", "missed"} -> "counting"
                                                [] @ = "dozing" -> "dazed"
                                                [] OTHER -> @]
    BY <1>1 DEF J!Woken
  <2>2. \A r \in Runtimes : jMain[r] \in [at : Points, within : BOOLEAN]
    BY DEF JavaInv, MachineTypes
  <2>3. \A r \in Runtimes : \E p \in Points :
          /\ jMain'[r] = [at |-> p, within |-> jMain[r].within]
          /\ p = jMain[r].at \/ {jMain[r].at, p} \subseteq Waits
    <3> SUFFICES ASSUME NEW r \in Runtimes
                 PROVE  \E p \in Points : /\ jMain'[r] = [at |-> p, within |-> jMain[r].within]
                                          /\ p = jMain[r].at \/ {jMain[r].at, p} \subseteq Waits
      OBVIOUS
    <3>1. CASE jMain[r].at \in {"asleep", "missed"}
      <4>1. jMain'[r] = [jMain[r] EXCEPT !.at = "counting"]
        BY <2>1, <3>1
      <4> QED BY <2>2, <3>1, <4>1 DEF Waits, Points
    <3>2. CASE jMain[r].at = "dozing"
      <4>1. jMain'[r] = [jMain[r] EXCEPT !.at = "dazed"]
        BY <2>1, <3>2
      <4> QED BY <2>2, <3>2, <4>1 DEF Waits, Points
    <3>3. CASE jMain[r].at \notin {"asleep", "missed", "dozing"}
      <4>1. jMain'[r] = [jMain[r] EXCEPT !.at = jMain[r].at]
        BY <2>1, <3>3
      <4>2. jMain'[r] = [at |-> jMain[r].at, within |-> jMain[r].within] /\ jMain[r].at \in Points
        BY <2>2, <4>1
      <4> QED BY <4>2
    <3> QED BY <3>1, <3>2, <3>3
  <2>4. \A r \in Runtimes :
          /\ jMain'[r] \in [at : Points, within : BOOLEAN] /\ jMain'[r].within = jMain[r].within
          /\ jMain'[r].at = jMain[r].at \/ {jMain[r].at, jMain'[r].at} \subseteq Waits
    <3> SUFFICES ASSUME NEW r \in Runtimes
                 PROVE  /\ jMain'[r] \in [at : Points, within : BOOLEAN]
                        /\ jMain'[r].within = jMain[r].within
                        /\ \/ jMain'[r].at = jMain[r].at
                           \/ {jMain[r].at, jMain'[r].at} \subseteq Waits
      OBVIOUS
    <3>1. PICK p \in Points : /\ jMain'[r] = [at |-> p, within |-> jMain[r].within]
                              /\ p = jMain[r].at \/ {jMain[r].at, p} \subseteq Waits
      BY <2>3
    <3>2. jMain[r].within \in BOOLEAN
      BY <2>2
    <3>3. jMain'[r].at = p /\ jMain'[r].within = jMain[r].within
      BY <3>1
    <3>4. jMain'[r] \in [at : Points, within : BOOLEAN]
      BY <3>1, <3>2
    <3> QED BY <3>1, <3>3, <3>4
  <2>5. jMain' = [r \in Runtimes |-> jMain'[r]]
    BY <1>1 DEF J!Woken
  <2>6. jMain' \in [Runtimes -> [at : Points, within : BOOLEAN]]
    BY <2>4, <2>5
  <2> QED BY <1>1, <2>4, <2>6 DEF MachineStays, Woke
<1>4. /\ request' \in [J!Threads -> Requests] /\ (Running => Running')
      /\ \A u \in J!Threads : request'[u].st # "none" => request'[u].r \in Runtimes
  BY <1>1 DEF JavaInv, CallTypes, Running
<1>5. RequestFits'
  <2>1. t = Tick => request[Tick].st # "noted"
    BY <1>1 DEF J!NoRequest
  <2>2. t # Tick => frames'[Tick] = frames[Tick]
    BY <1>1, JavaFacts DEF JavaInv, CallTypes
  <2> QED BY <1>1, <2>1, <2>2 DEF JavaInv, RequestFits
<1> HIDE DEF f
<1>6. Len(f) # m + 1 /\ Len(f) <= MaxFrames
  BY <1>2, JavaFacts
<1> QED BY <1>1, <1>2, <1>3, <1>4, <1>5, <1>6, TopChanges

\* What is asked, and answered.
LEMMA RequestKeeps ==
  ASSUME NEW t \in J!Threads, JavaInv, J!Mutate(t) \/ J!Enqueue(t) \/ J!Answered(t)
  PROVE  JavaInv'
<1>1. UNCHANGED <<owner, poisoned, live, vm, started, stopping, lifetime, jMain, frames>>
  BY DEF J!Mutate, J!Enqueue, J!Answered, J!process
<1>2. PICK q \in Requests :
        /\ request' = [request EXCEPT ![t] = q] /\ request[t].st # "running"
        /\ q.st # "none" => q.r \in Runtimes
        /\ t = Tick => \/ q.st = "none"
                       \/ /\ q.st = "noted" /\ frames[Tick] # <<>>
                          /\ frames[Tick][Len(frames[Tick])].k = "native"
                          /\ frames[Tick][Len(frames[Tick])].r = q.r
  <2>1. CASE J!Mutate(t)
    <3> DEFINE r == J!Top(t).r
               q == [st |-> "noted", r |-> r, gen |-> lifetime[r].gen]
    <3>1. /\ J!Inside(t, {"native"}) /\ request[t] = J!NoRequest
          /\ request' = [request EXCEPT ![t] = q]
      BY <2>1 DEF J!Mutate
    <3>2. /\ frames[t] # <<>> /\ J!Top(t) = frames[t][Len(frames[t])]
          /\ J!Top(t).k = "native" /\ r \in Runtimes
      BY <3>1, TopOfStack DEF J!Inside
    <3>3. lifetime[r].gen \in Nat
      BY <3>2 DEF JavaInv, MachineTypes
    <3>4. q \in Requests
      BY <3>2, <3>3 DEF Requests
    <3>5. request[t].st = "none"
      BY <3>1 DEF J!NoRequest
    <3> QED BY <3>1, <3>2, <3>4, <3>5
  <2>2. CASE J!Enqueue(t)
    <3> DEFINE q == [request[t] EXCEPT !.st = "queued"]
    <3>1. request[t].st = "noted" /\ t # Tick /\ request' = [request EXCEPT ![t] = q]
      BY <2>2 DEF J!Enqueue, JavaInv, CallTypes
    <3>2. request[t] \in Requests /\ request[t].r \in Runtimes
      BY <3>1 DEF JavaInv, CallTypes
    <3>3. q \in Requests /\ q.r \in Runtimes
      BY <3>2 DEF Requests
    <3> QED BY <3>1, <3>3
  <2>3. CASE J!Answered(t)
    <3>1. request[t].st # "running" /\ request' = [request EXCEPT ![t] = J!NoRequest]
      BY <2>3 DEF J!Answered
    <3>2. J!NoRequest \in Requests /\ J!NoRequest.st = "none"
      BY DEF J!NoRequest, Requests
    <3> QED BY <3>1, <3>2
  <2> QED BY <2>1, <2>2, <2>3
<1>3. /\ request' \in [J!Threads -> Requests] /\ request'[t] = q
      /\ \A u \in J!Threads \ {t} : request'[u] = request[u]
  BY <1>2 DEF JavaInv, CallTypes
<1>4. \A u \in J!Threads : request'[u].st # "none" => request'[u].r \in Runtimes
  BY <1>2, <1>3 DEF JavaInv, CallTypes
<1>5. Running => Running'
  BY <1>2, <1>3 DEF Running
<1>6. RequestFits'
  BY <1>1, <1>2, <1>3, JavaFacts DEF JavaInv, RequestFits
<1> QED BY <1>1, <1>3, <1>4, <1>5, <1>6, RequestsChange

LEMMA RunKeeps ==
  ASSUME JavaInv, J!RunAtOnce
  PROVE  JavaInv'
<1> DEFINE s == frames[Tick]
           m == Len(s)
           q == request[Tick]
           e == J!Task(q)
           f == Append(s, e)
<1>1. /\ UNCHANGED <<owner, poisoned, live, vm, started, stopping, lifetime, jMain>>
      /\ q.st = "noted" /\ request' = [request EXCEPT ![Tick] = J!NoRequest]
      /\ \/ m < MaxFrames /\ frames' = [frames EXCEPT ![Tick] = f]
         \/ frames' = frames
  BY DEF J!RunAtOnce, J!Push, J!process
<1>2. J!NoRequest \in Requests /\ J!NoRequest.st = "none"
  BY DEF J!NoRequest, Requests
<1>3. /\ request' \in [J!Threads -> Requests] /\ request'[Tick].st = "none"
      /\ \A u \in J!Threads \ {Tick} : request'[u] = request[u]
  BY <1>1, <1>2, JavaFacts DEF JavaInv, CallTypes
<1>4. \A u \in J!Threads : request'[u].st # "none" => request'[u].r \in Runtimes
  BY <1>3 DEF JavaInv, CallTypes
<1>5. Running => Running'
  BY <1>1, <1>3 DEF Running
<1>6. RequestFits'
  BY <1>3 DEF RequestFits
<1>7. CASE frames' = frames
  BY <1>1, <1>3, <1>4, <1>5, <1>6, <1>7, RequestsChange
<1>8. CASE m < MaxFrames /\ frames' = [frames EXCEPT ![Tick] = f]
  <2>1. s \in Seq(Frames) /\ m \in Nat /\ q \in Requests
    BY TypesOfStack, JavaFacts
  <2>2. q.r \in Runtimes /\ s # <<>> /\ s[m].k = "native" /\ s[m].r = q.r
    BY <1>1, JavaFacts DEF JavaInv, CallTypes, RequestFits
  <2>3. e \in Frames /\ e.k = "task" /\ e.r = q.r
    BY <2>1, <2>2 DEF J!Task, Frames, Kinds, Requests
  <2>4. MachineStays
    BY <1>1 DEF MachineStays, Woke, JavaInv, MachineTypes
  <2> HIDE DEF e
  <2>5. /\ f \in Seq(Frames) /\ Len(f) = m + 1 /\ f[m + 1] = e
        /\ \A i \in 1 .. m : f[i] = s[i]
    BY <2>1, <2>3, StackPushed
  <2> HIDE DEF f
  <2>6. m \in 1 .. m + 1 /\ f[m].k \in J!Leased /\ f[m].r = f[m + 1].r
    <3>1. m \in 1 .. m
      BY <2>1, <2>2
    <3>2. f[m] = s[m]
      BY <2>5, <3>1
    <3> QED BY <2>2, <2>3, <2>5, <3>1, <3>2 DEF J!Leased
  <2>7. Under(f, m + 1)
    BY <2>6 DEF Under
  <2>8. f[m + 1].k \notin J!Leased /\ f[m + 1].k \notin {"entered", "call"}
    BY <2>3, <2>5 DEF J!Leased
  <2>9. Len(f) <= MaxFrames /\ Len(f) \in {m, m + 1} /\ m \in 0 .. Len(frames[Tick])
    BY <1>8, <2>1, <2>5, JavaFacts
  <2> QED BY <1>3, <1>4, <1>5, <1>6, <1>8, <2>4, <2>5, <2>7, <2>8, <2>9, JavaFacts, TopChanges
<1> QED BY <1>1, <1>7, <1>8

LEMMA ServeKeeps ==
  ASSUME NEW t \in J!Threads, JavaInv, J!Serve(t)
  PROVE  JavaInv'
<1> DEFINE q == request[t]
           e == J!Task(q)
           f == <<e>>
<1>1. /\ UNCHANGED <<owner, poisoned, live, vm, started, stopping, lifetime, jMain>>
      /\ frames[Tick] = <<>> /\ q.st = "queued"
  BY DEF J!Serve, J!process
<1>2. t # Tick /\ q \in Requests /\ q.r \in Runtimes
  BY <1>1, JavaFacts DEF JavaInv, CallTypes, RequestFits
<1>3. PICK x \in {"running", "done"} :
        /\ request' = [request EXCEPT ![t] = [q EXCEPT !.st = x]]
        /\ \/ x = "done" /\ frames' = frames
           \/ x = "running" /\ J!InLife(q) /\ frames' = [frames EXCEPT ![Tick] = f]
  <2>1. CASE J!InLife(q)
    BY <2>1, <1>2 DEF J!Serve, JavaInv, CallTypes
  <2>2. CASE ~J!InLife(q)
    BY <2>2, <1>2 DEF J!Serve, JavaInv, CallTypes
  <2> QED BY <2>1, <2>2
<1>4. [q EXCEPT !.st = x] \in Requests /\ [q EXCEPT !.st = x].st = x /\ [q EXCEPT !.st = x].r = q.r
  BY <1>2 DEF Requests
<1>5. /\ request' \in [J!Threads -> Requests] /\ request'[t].st = x /\ request'[t].r \in Runtimes
      /\ \A u \in J!Threads \ {t} : request'[u] = request[u]
  BY <1>2, <1>3, <1>4 DEF JavaInv, CallTypes
<1>6. \A u \in J!Threads : request'[u].st # "none" => request'[u].r \in Runtimes
  BY <1>5 DEF JavaInv, CallTypes
<1>7. Running => Running'
  BY <1>1, <1>5 DEF Running
<1>8. RequestFits'
  <2>1. request'[Tick] = request[Tick] /\ request[Tick].st = "none"
    BY <1>1, <1>2, <1>5, JavaFacts DEF JavaInv, RequestFits
  <2> QED BY <2>1 DEF RequestFits
<1>9. CASE x = "done" /\ frames' = frames
  BY <1>1, <1>5, <1>6, <1>7, <1>8, <1>9, RequestsChange
<1>10. CASE x = "running" /\ J!InLife(q) /\ frames' = [frames EXCEPT ![Tick] = f]
  <2>1. e \in Frames /\ e.k = "task" /\ e.r = q.r /\ e.gen = q.gen
    BY <1>2 DEF J!Task, Frames, Kinds, Requests
  <2>2. MachineStays
    BY <1>1 DEF MachineStays, Woke, JavaInv, MachineTypes
  <2> HIDE DEF e
  <2>3. f \in Seq(Frames) /\ Len(f) = 1 /\ f[1] = e
    BY <2>1
  <2> HIDE DEF f
  <2>4. frames'[Tick] = f
    BY <1>10, JavaFacts DEF JavaInv, CallTypes
  <2>5. Running'
    BY <1>5, <1>10 DEF Running
  <2>6. Served(1)'
    <3>1. lifetime'[e.r] = [accepting |-> TRUE, gen |-> e.gen]
      BY <1>1, <1>10, <2>1 DEF J!InLife
    <3> QED BY <2>3, <2>4, <2>5, <3>1 DEF Served
  <2>7. f[1].k \notin J!Leased /\ f[1].k \notin {"entered", "call"}
    BY <2>1, <2>3 DEF J!Leased
  <2>8. /\ Len(f) <= MaxFrames /\ Len(f) \in {0, 0 + 1} /\ 0 \in 0 .. Len(frames[Tick])
        /\ \A i \in 1 .. 0 : f[i] = frames[Tick][i]
    BY <1>1, <2>3, JavaFacts
  <2> QED BY <1>5, <1>6, <1>7, <1>8, <1>10, <2>2, <2>3, <2>6, <2>7, <2>8, JavaFacts, TopChanges
<1> QED BY <1>3, <1>9, <1>10

LEMMA FinishKeeps ==
  ASSUME JavaInv, J!FinishTask
  PROVE  JavaInv'
<1> DEFINE s == frames[Tick]
           f == J!Front(s)
           m == Len(s) - 1
           R2 == [t \in J!Threads |-> IF request[t].st = "running"
                                      THEN [request[t] EXCEPT !.st = "done"] ELSE request[t]]
<1>1. /\ s # <<>> /\ J!Last(s).k \in {"task", "commanded"}
      /\ UNCHANGED <<owner, poisoned, live, vm, started, stopping, lifetime, jMain>>
      /\ frames' = [frames EXCEPT ![Tick] = f]
      /\ request' = IF Len(s) > 1 THEN request ELSE R2
  BY DEF J!FinishTask, J!Inside, J!Top, J!Popped, J!process
<1>2. /\ s \in Seq(Frames) /\ Len(s) \in Nat \ {0} /\ Len(s) <= MaxFrames /\ m \in 0 .. Len(s)
      /\ f \in Seq(Frames) /\ Len(f) = m /\ \A i \in 1 .. m : f[i] = s[i]
      /\ J!Last(s) = s[Len(s)]
  BY <1>1, TypesOfStack, StackPopped, JavaFacts
<1>3. MachineStays
  BY <1>1 DEF MachineStays, Woke, JavaInv, MachineTypes
<1>4. \A t \in J!Threads :
        /\ request[t].st = "running" =>
             R2[t] = [st |-> "done", r |-> request[t].r, gen |-> request[t].gen]
        /\ request[t].st # "running" => R2[t] = request[t]
  <2> SUFFICES ASSUME NEW t \in J!Threads
               PROVE  /\ request[t].st = "running" =>
                           R2[t] = [st |-> "done", r |-> request[t].r, gen |-> request[t].gen]
                      /\ request[t].st # "running" => R2[t] = request[t]
    OBVIOUS
  <2>1. request[t] \in Requests
    BY DEF JavaInv, CallTypes
  <2>2. R2[t] = IF request[t].st = "running" THEN [request[t] EXCEPT !.st = "done"] ELSE request[t]
    OBVIOUS
  <2> HIDE DEF R2
  <2> QED BY <2>1, <2>2 DEF Requests
<1>5. R2 \in [J!Threads -> Requests]
  <2>1. \A t \in J!Threads : request[t] \in Requests /\ R2[t] \in Requests
    BY <1>4 DEF JavaInv, CallTypes, Requests
  <2>2. R2 = [t \in J!Threads |-> R2[t]]
    OBVIOUS
  <2> HIDE DEF R2
  <2> QED BY <2>1, <2>2
<1> HIDE DEF R2
<1>6. /\ request' \in [J!Threads -> Requests]
      /\ \A u \in J!Threads : request'[u].st # "none" => request'[u].r \in Runtimes
      /\ request[Tick].st # "running" => request'[Tick] = request[Tick]
  <2>1. CASE request' = request
    BY <2>1, JavaFacts DEF JavaInv, CallTypes
  <2>2. CASE request' = R2
    <3>1. \A u \in J!Threads : R2[u].st # "none" => R2[u].r \in Runtimes
      <4> SUFFICES ASSUME NEW u \in J!Threads, R2[u].st # "none" PROVE R2[u].r \in Runtimes
        OBVIOUS
      <4>1. CASE request[u].st = "running"
        <5>0. R2[u] = [st |-> "done", r |-> request[u].r, gen |-> request[u].gen]
          BY <1>4, <4>1
        <5>1. R2[u].r = request[u].r
          BY <5>0
        <5> QED BY <4>1, <5>1 DEF JavaInv, CallTypes
      <4>2. CASE request[u].st # "running"
        <5>1. R2[u] = request[u]
          BY <1>4, <4>2
        <5> QED BY <5>1 DEF JavaInv, CallTypes
      <4> QED BY <4>1, <4>2
    <3> QED BY <1>4, <1>5, <2>2, <3>1, JavaFacts
  <2> QED BY <1>1, <2>1, <2>2
<1>7. frames'[Tick] = f
  BY <1>1, JavaFacts DEF JavaInv, CallTypes
<1> HIDE DEF f
<1>8. Running => Running' \/ frames'[Tick] = <<>>
  <2>1. CASE Len(s) > 1
    BY <1>1, <2>1 DEF Running
  <2>2. CASE ~(Len(s) > 1)
    <3>0. Len(s) \in Nat \ {0} /\ Len(f) = Len(s) - 1
      BY <1>2
    <3>1. Len(f) = 0
      <4> DEFINE n == Len(s)
      <4>1. n \in Nat \ {0} /\ Len(f) = n - 1 /\ ~(n > 1)
        BY <2>2, <3>0
      <4> HIDE DEF n
      <4> QED BY <4>1
    <3>2. f = <<>>
      BY <1>2, <3>1
    <3> QED BY <1>7, <3>2
  <2> QED BY <2>1, <2>2
<1>9. RequestFits'
  <2>1. request[Tick].st = "none"
    BY <1>1, <1>2 DEF JavaInv, RequestFits
  <2> QED BY <1>6, <2>1 DEF RequestFits
<1>10. Len(f) # m + 1 /\ Len(f) \in {m, m + 1} /\ Len(f) <= MaxFrames
  BY <1>2, JavaFacts
<1> QED BY <1>1, <1>2, <1>3, <1>6, <1>8, <1>9, <1>10, JavaFacts, TopChanges

LEMMA JavaNext == JavaInv /\ (J!Next \/ UNCHANGED java) => JavaInv'
<1> SUFFICES ASSUME JavaInv, J!Next \/ UNCHANGED java
             PROVE  JavaInv'
  OBVIOUS
<1>1. CASE UNCHANGED java
  <2>1. /\ UNCHANGED <<owner, poisoned, live, vm, started, stopping, lifetime, jMain, frames>>
        /\ request' = request
    BY <1>1 DEF java
  <2> QED BY <2>1, RequestsChange DEF JavaInv, CallTypes, RequestFits, Running
<1>2. CASE \E r \in Runtimes :
             \/ J!StartRefused(r) \/ J!Claim(r) \/ J!NoLibrary(r) \/ J!Create(r) \/ J!Publish(r)
             \/ J!ResolveKnot(r) \/ J!ResolveFallback(r) \/ J!InstallBridge(r) \/ J!Bootstrapped(r)
             \/ J!StartFails(r) \/ J!Stop(r) \/ J!MainStep(r) \/ J!ShutdownJava(r) \/ J!Close(r)
  BY <1>2, StartKeeps, FenceKeeps, WaitsKeep, EndsKeep DEF J!MainStep
<1>3. CASE \E t \in J!Hosts, r \in Runtimes : J!CallBack(t, r)
  BY <1>3, CallBackKeeps DEF J!Threads
<1>4. CASE \E t \in J!Threads : J!Native(t) \/ J!Mutate(t) \/ J!Serve(t) \/ J!Progress(t)
  BY <1>4, NativeKeeps, RequestKeeps, ServeKeeps, EnterKeeps, LeaveKeeps, RunKeeps, FinishKeeps
     DEF J!Progress
<1> QED BY <1>1, <1>2, <1>3, <1>4 DEF J!Next

-----------------------------------------------------------------------------
(* The parts together. *)

LEMMA StoppedAdmitsNobody == ServerStopped => AInv
<1> SUFFICES ASSUME ServerStopped PROVE AInv
  OBVIOUS
<1>1. SlotTypes /\ Held
  BY DEF ServerStopped, SlotTypes, Held, Places, States, Slots
<1>2. ASSUME NEW kind \in {"session", "status"}
      PROVE  Holding(kind) <= Limit(kind)
  <2>1. {w \in Workers : slot[w] = kind} = {}
    BY DEF ServerStopped
  <2>2. Holding(kind) = 0
    BY <2>1, FS_EmptySet DEF Holding
  <2> QED BY <2>2, LimitsAssumption DEF Limit, LimitsAssumption
<1> QED BY <1>1, <1>2 DEF AInv, Within

\* Whatever else stops and starts beside them: the limits of admission hold, and nobody
\* is in a call of a Java machine that is gone, the process has one machine at most,
\* whose owner is the one that is published, what Java wants changed is changed in the
\* life in which it asked, and one thread of the server calls Java at a time (start,
\* stop and RuntimeCallLease of JvmRuntime).
THEOREM StopsAreSound == StopSpec => []AdmissionsAndCalls
<1> DEFINE Inv == AInv /\ JavaInv
           all == <<vars, rcon, java>>
<1>1. StopInit => Inv
  BY InitAInv, StoppedAdmitsNobody, JavaBegins, JavaStoppedInv DEF StopInit
<1>2. Inv /\ [StopNext]_all => Inv'
  <2> SUFFICES ASSUME Inv, [StopNext]_all PROVE Inv'
    OBVIOUS
  <2>1. AInv'
    <3>1. Next \/ UNCHANGED server \/ UNCHANGED all
      BY DEF StopNext
    <3>2. UNCHANGED server => UNCHANGED vars
      BY DEF server, vars, service, threads, sessions
    <3>3. UNCHANGED all => UNCHANGED vars
      OBVIOUS
    <3>4. [Next]_vars
      BY <3>1, <3>2, <3>3
    <3> QED BY <3>4, NextAInv
  <2>2. JavaInv'
    <3>1. J!Next \/ UNCHANGED java \/ UNCHANGED all
      BY DEF StopNext
    <3> QED BY <3>1, JavaNext
  <2> QED BY <2>1, <2>2
<1>3. Inv => AdmissionsAndCalls
  BY AdmissionHolds, JavaSuffices DEF AdmissionsAndCalls
<1> QED BY <1>1, <1>2, <1>3, PTL DEF StopSpec
=============================================================================

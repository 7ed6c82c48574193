--------------------------- MODULE ServerLifecycle ---------------------------
(***************************************************************************)
(* The process from main's check for an early stop to the end of           *)
(* GameServer::stop: the listener, the accept loop, the session threads    *)
(* with their admission slots and their registry, the tick and the janitor *)
(* thread, and the order in which stop ends them.                          *)
(*                                                                         *)
(* What stop tears down when no other thread is left (the pool, the JVM,   *)
(* Persistence) is one step here; ChunkStore and ServerExecutor hold the   *)
(* details.  RconServer::stop is in Rcon.                                  *)
(***************************************************************************)
EXTENDS Naturals, FiniteSets

CONSTANTS
    Workers,        \* session threads the clients of a run can cause
    SessionLimit,   \* pendingSessionAdmissionGate_
    StatusLimit     \* statusAdmissionGate_

ASSUME LimitsAssumption ==
    IsFiniteSet(Workers) /\ SessionLimit \in Nat /\ StatusLimit \in Nat

VARIABLES
    main,       \* where the main thread is
    signalled,  \* g_stopRequested
    running,    \* running_
    listener,   \* the socket behind listenFd_
    tick,       \* the tick thread
    janitor,    \* the janitor thread
    place,      \* where each session thread is
    state,      \* Session::state_
    slot,       \* the admission slot each session thread holds
    active,     \* activeConnections_
    aborted,    \* sessions whose connection was aborted
    toAbort,    \* stopClientConnections' snapshot that is still to do
    registry    \* sessionThreads_

service  == <<signalled, running, listener>>
threads  == <<tick, janitor>>
sessions == <<place, state, slot, active, aborted>>
vars     == <<main, service, threads, sessions, toAbort, registry>>

Holding(kind) == Cardinality({w \in Workers : slot[w] = kind})

Init ==
    /\ main = "init" /\ signalled = FALSE /\ running = FALSE /\ listener = "none"
    /\ tick = "off" /\ janitor = "off"
    /\ place = [w \in Workers |-> "none"]
    /\ state = [w \in Workers |-> "handshake"]
    /\ slot  = [w \in Workers |-> "none"]
    /\ active = {} /\ aborted = {} /\ toAbort = {} /\ registry = {}

MainGoes(from, to) == main = from /\ main' = to
Goes(w, from, to)  == place[w] = from /\ place' = [place EXCEPT ![w] = to]

-----------------------------------------------------------------------------
(* Stop requests. *)

\* requestStop: the shutdown of a socket that does not listen yet has no effect.
RequestStop ==
    /\ running' = FALSE
    /\ listener' = IF listener = "listening" THEN "shut" ELSE listener

\* The handler of SIGINT and SIGTERM is installed before init.
Signal ==
    /\ ~signalled
    /\ signalled' = TRUE
    /\ RequestStop
    /\ UNCHANGED <<main, threads, sessions, toAbort, registry>>

-----------------------------------------------------------------------------
(* main and runForever. *)

\* An early stop leaves main; the destructor of the server calls stop.
CheckEarlyStop ==
    /\ MainGoes("init", IF signalled THEN "request" ELSE "checked")
    /\ UNCHANGED <<service, threads, sessions, toAbort, registry>>

CreateListener ==
    /\ MainGoes("checked", "opened")
    /\ listener' = "open"
    /\ UNCHANGED <<signalled, running, threads, sessions, toAbort, registry>>

\* bind or listen fails: the exception ends main.
ListenFails ==
    /\ MainGoes("opened", "request")
    /\ listener' = "none"
    /\ UNCHANGED <<signalled, running, threads, sessions, toAbort, registry>>

Listen ==
    /\ MainGoes("opened", "listening")
    /\ listener' = "listening"
    /\ UNCHANGED <<signalled, running, threads, sessions, toAbort, registry>>

Serve ==
    /\ MainGoes("listening", "head")
    /\ running' = TRUE
    /\ tick' = "on" /\ janitor' = "on"
    /\ UNCHANGED <<signalled, listener, sessions, toAbort, registry>>

AcceptLoop ==
    /\ MainGoes("head", IF running THEN "accept" ELSE "request")
    /\ UNCHANGED <<service, threads, sessions, toAbort, registry>>

\* accept returns an error on a listener that was shut down.
AcceptFails ==
    /\ MainGoes("accept", "request")
    /\ listener = "shut"
    /\ UNCHANGED <<service, threads, sessions, toAbort, registry>>

\* Any other error of accept or of the thread's creation stops the server too.
AcceptError ==
    /\ MainGoes("accept", "request")
    /\ listener = "listening"
    /\ UNCHANGED <<service, threads, sessions, toAbort, registry>>

\* Faulty: the limit itself is admitted.
TryAcquireOneMore(kind) ==
    Holding(kind) <= IF kind = "session" THEN SessionLimit ELSE StatusLimit

\* SessionAdmissionGate::tryAcquire.
TryAcquire(kind) ==
    Holding(kind) < IF kind = "session" THEN SessionLimit ELSE StatusLimit

\* A connection beyond the rate or the slots is closed without a thread.
Accept(w) ==
    /\ MainGoes("accept", "spawned")
    /\ listener = "listening"
    /\ TryAcquire("session")
    /\ Goes(w, "none", "new")
    /\ slot' = [slot EXCEPT ![w] = "session"]
    /\ UNCHANGED <<service, threads, state, active, aborted, toAbort, registry>>

\* Faulty: the threads of other sessions are let go.
RegisterOnly ==
    /\ MainGoes("spawned", "head")
    /\ registry' = {w \in Workers : place[w] # "none"} \ registry
    /\ UNCHANGED <<service, threads, sessions, toAbort>>

\* registerSessionThread: finished threads are joined, the new one is added.
RegisterThread ==
    /\ MainGoes("spawned", "head")
    /\ registry' = {w \in registry : place[w] # "gone"}
                       \cup {w \in Workers \ registry : place[w] \notin {"none", "gone"}}
    /\ UNCHANGED <<service, threads, sessions, toAbort>>

-----------------------------------------------------------------------------
(* The tick and the janitor. *)

TickEnds ==
    /\ tick = "on" /\ ~running
    /\ tick' = "done"
    /\ UNCHANGED <<main, service, janitor, sessions, toAbort, registry>>

\* An exception that escapes tickOnce stops the server.
TickFails ==
    /\ tick = "on" /\ running
    /\ tick' = "done"
    /\ RequestStop
    /\ UNCHANGED <<main, signalled, janitor, sessions, toAbort, registry>>

JanitorEnds ==
    /\ janitor = "on" /\ ~running
    /\ janitor' = "done"
    /\ UNCHANGED <<main, service, tick, sessions, toAbort, registry>>

-----------------------------------------------------------------------------
(* A session thread. *)

\* Faulty: the session looks at running_ before it can be aborted.
RegisterConnectionLate(w) ==
    /\ Goes(w, "new", IF running THEN "reading" ELSE "leaving")
    /\ UNCHANGED <<main, service, threads, state, slot, active, aborted, toAbort, registry>>

RegisterConnection(w) ==
    /\ Goes(w, "new", "loop")
    /\ active' = active \cup {w}
    /\ UNCHANGED <<main, service, threads, state, slot, aborted, toAbort, registry>>

\* The loop of Session::run.
Loop(w) ==
    /\ Goes(w, "loop", IF running THEN "reading" ELSE "leaving")
    /\ UNCHANGED <<main, service, threads, state, slot, active, aborted, toAbort, registry>>

\* The client speaks, and the session moves on to its next state.
Reaches(w, from, next) ==
    /\ place[w] = "reading" /\ w \notin aborted
    /\ state[w] = from
    /\ state' = [state EXCEPT ![w] = next]

\* A status session trades its slot, and is closed if there is none.
ToStatus(w) ==
    /\ Reaches(w, "handshake", "status")
    /\ IF TryAcquire("status")
       THEN /\ slot' = [slot EXCEPT ![w] = "status"]
            /\ place' = [place EXCEPT ![w] = "loop"]
       ELSE /\ place' = [place EXCEPT ![w] = "leaving"]
            /\ UNCHANGED slot
    /\ UNCHANGED <<main, service, threads, active, aborted, toAbort, registry>>

ToLogin(w) ==
    /\ Reaches(w, "handshake", "login")
    /\ place' = [place EXCEPT ![w] = "loop"]
    /\ UNCHANGED <<main, service, threads, slot, active, aborted, toAbort, registry>>

\* A player in play has a slot of the roster instead.
ToPlay(w) ==
    /\ Reaches(w, "login", "play")
    /\ slot' = [slot EXCEPT ![w] = "none"]
    /\ place' = [place EXCEPT ![w] = "loop"]
    /\ UNCHANGED <<main, service, threads, active, aborted, toAbort, registry>>

\* The client or an error ends the session, or the read fails after an abort.
\* handlePlay reads on without a look at running_.
ReadFails(w) ==
    /\ Goes(w, "reading", "leaving")
    /\ UNCHANGED <<main, service, threads, state, slot, active, aborted, toAbort, registry>>

Unregister(w) ==
    /\ Goes(w, "leaving", "closing")
    /\ active' = active \ {w}
    /\ UNCHANGED <<main, service, threads, state, slot, aborted, toAbort, registry>>

\* The slots are destroyed before the thread is marked as finished.
WorkerEnds(w) ==
    /\ Goes(w, "closing", "gone")
    /\ slot' = [slot EXCEPT ![w] = "none"]
    /\ UNCHANGED <<main, service, threads, state, active, aborted, toAbort, registry>>

-----------------------------------------------------------------------------
(* The end of runForever and GameServer::stop. *)

StopRequested ==
    /\ MainGoes("request", "snapshot")
    /\ RequestStop
    /\ UNCHANGED <<signalled, threads, sessions, toAbort, registry>>

\* stopClientConnections
Snapshot ==
    /\ MainGoes("snapshot", "abort")
    /\ toAbort' = active
    /\ UNCHANGED <<service, threads, sessions, registry>>

Abort(w) ==
    /\ main = "abort" /\ w \in toAbort
    /\ toAbort' = toAbort \ {w}
    /\ aborted' = aborted \cup {w}
    /\ UNCHANGED <<main, service, threads, place, state, slot, active, registry>>

\* RconServer::stop and the wait for the executor follow.
Aborted ==
    /\ MainGoes("abort", "tick")
    /\ toAbort = {}
    /\ UNCHANGED <<service, threads, sessions, toAbort, registry>>

StopTickLoop ==
    /\ MainGoes("tick", "janitor")
    /\ tick # "on"
    /\ UNCHANGED <<service, threads, sessions, toAbort, registry>>

JoinJanitor ==
    /\ MainGoes("janitor", "join")
    /\ janitor # "on"
    /\ UNCHANGED <<service, threads, sessions, toAbort, registry>>

JoinSessionThreads ==
    /\ MainGoes("join", "teardown")
    /\ \A w \in registry : place[w] = "gone"
    /\ registry' = {} /\ active' = {}
    /\ UNCHANGED <<service, threads, place, state, slot, aborted, toAbort>>

\* The pool, the JVM, Persistence, the listener and the session lock.
TearDown ==
    /\ MainGoes("teardown", "stopped")
    /\ listener' = "none"
    /\ UNCHANGED <<signalled, running, threads, sessions, toAbort, registry>>

-----------------------------------------------------------------------------
Main ==
    \/ CheckEarlyStop \/ CreateListener \/ ListenFails \/ Listen \/ Serve
    \/ AcceptLoop \/ AcceptFails \/ RegisterThread
    \/ StopRequested \/ Snapshot \/ (\E w \in Workers : Abort(w)) \/ Aborted
    \/ StopTickLoop \/ JoinJanitor \/ JoinSessionThreads \/ TearDown

Speaks(w)   == ToStatus(w) \/ ToLogin(w) \/ ToPlay(w) \/ ReadFails(w)
Proceeds(w) == RegisterConnection(w) \/ Loop(w) \/ Unregister(w) \/ WorkerEnds(w)

Next ==
    \/ Main \/ Signal \/ AcceptError \/ TickEnds \/ TickFails \/ JanitorEnds
    \/ \E w \in Workers : Accept(w) \/ Speaks(w) \/ Proceeds(w)

Spec == Init /\ [][Next]_vars

\* Threads run.  No client need connect, speak or leave; the read of an aborted
\* connection fails.
Fairness ==
    /\ WF_vars(Main) /\ WF_vars(TickEnds) /\ WF_vars(JanitorEnds)
    /\ \A w \in Workers :
          /\ WF_vars(Proceeds(w))
          /\ WF_vars(w \in aborted /\ ReadFails(w))

FairSpec == Spec /\ Fairness

-----------------------------------------------------------------------------
(* What a stop promises. *)

\* When stop tears down what the threads share (the pool, the JVM, Persistence),
\* the tick, the janitor and every session thread have ended.
NoThreadOutlivesStop == main \in {"teardown", "stopped"} =>
    /\ tick # "on" /\ janitor # "on"
    /\ \A w \in Workers : place[w] \in {"none", "gone"}

\* Sessions that are not in play stay within the pending limit, and status
\* sessions within theirs, so that neither kind can exhaust the other.
AdmissionBounded ==
    /\ Cardinality({w \in Workers : /\ place[w] \in {"new", "loop", "reading"}
                                    /\ state[w] \in {"handshake", "login"}}) <= SessionLimit
    /\ Cardinality({w \in Workers : /\ place[w] \in {"loop", "reading"}
                                    /\ state[w] = "status"}) <= StatusLimit

\* A stop request that reaches a serving process ends it, although a client that
\* has just connected may never speak: a session is in the snapshot of
\* stopClientConnections, or sees that the server no longer runs.
StopCompletes == (main \in {"head", "accept", "spawned"} /\ ~running) ~> main = "stopped"

\* A signal ends the process.  main.cpp looks at g_stopRequested before
\* runForever, where "the request would be lost when the listener is created".
StopRequestHonoured == signalled ~> main = "stopped"
=============================================================================

------------------------- MODULE MCServerLifecycle -------------------------
(***************************************************************************)
(* What the end of the server waits for: ServerLifecycle with two clients, *)
(* one pending slot and one for status; RconServer::stop, with two clients *)
(* of its own; and JvmRuntime::stop, of two runtimes that want the one     *)
(* Java machine of the process.  They share no state: a behaviour is one   *)
(* of the three, while the other two have stopped.                         *)
(***************************************************************************)
EXTENDS ServerLifecycle

CONSTANTS w1, w2, Fds,
          Runtimes, Tick, Sessions, Mods, MaxStarts, MaxFrames, NoRuntime

VARIABLES rRunning, accepting, accepted, rPlace, fdOf, authed, open, shut,
          clientFds, joinable, stopper, toShut

VARIABLES owner, poisoned, live, vm, started, stopping, lifetime, refs, jMain, frames,
          request, starts

server == <<main, signalled, running, listener, tick, janitor, place, state, slot, active,
            aborted, toAbort, registry>>
rcon == <<rRunning, accepting, accepted, rPlace, fdOf, authed, open, shut, clientFds,
          joinable, stopper, toShut>>
java == <<owner, poisoned, live, vm, started, stopping, lifetime, refs, jMain, frames,
          request, starts>>

R == INSTANCE Rcon WITH Clients <- Workers, running <- rRunning, place <- rPlace
J == INSTANCE JavaRuntime WITH main <- jMain

ASSUME JavaAssumption == J!JavaConstants

RconStopped ==
    /\ rRunning = FALSE /\ accepting = "done" /\ accepted = 0 /\ stopper = "stopped"
    /\ rPlace = [w \in Workers |-> "gone"] /\ fdOf = [w \in Workers |-> 0]
    /\ authed = {} /\ open = {} /\ shut = {} /\ clientFds = {} /\ joinable = {} /\ toShut = {}

ServerStopped ==
    /\ main = "stopped" /\ signalled = TRUE /\ running = FALSE /\ listener = "none"
    /\ tick = "done" /\ janitor = "done"
    /\ place = [w \in Workers |-> "gone"] /\ state = [w \in Workers |-> "login"]
    /\ slot = [w \in Workers |-> "none"]
    /\ active = {} /\ aborted = {} /\ toAbort = {} /\ registry = {}

JavaStopped ==
    /\ owner = NoRuntime /\ poisoned = FALSE /\ live = NoRuntime /\ starts = MaxStarts
    /\ vm = [r \in Runtimes |-> "none"] /\ refs = vm
    /\ started = [r \in Runtimes |-> FALSE] /\ stopping = started
    /\ lifetime = [r \in Runtimes |-> [accepting |-> FALSE, gen |-> 2]]
    /\ jMain = [r \in Runtimes |-> J!At("closed")]
    /\ frames = [t \in J!Threads |-> <<>>] /\ request = [t \in J!Threads |-> J!NoRequest]

StopInit ==
    \/ Init /\ RconStopped /\ JavaStopped
    \/ ServerStopped /\ R!Init /\ JavaStopped
    \/ ServerStopped /\ RconStopped /\ J!Init

StopNext ==
    \/ Next /\ UNCHANGED <<rcon, java>>
    \/ R!Next /\ UNCHANGED <<server, java>>
    \/ J!Next /\ UNCHANGED <<server, rcon>>

StopSpec ==
    /\ StopInit /\ [][StopNext]_<<vars, rcon, java>>
    /\ Fairness /\ R!Fairness /\ J!Fairness

\* ServerLifecycle and JavaRuntime: sessions that are not in play stay within their
\* limits, and whoever starts, stops or calls the one Java machine of the process finds
\* it there, and alone.
AdmissionsAndCalls == AdmissionBounded /\ J!JavaSound

\* ServerLifecycle, Rcon and JavaRuntime: a stop that was requested while the
\* server serves returns, and so do those of RCON and of Java, although clients
\* never speak or leave; and of Java, only the owner of the machine drops what is
\* queued.
StopsReturn ==
    StopCompletes /\ R!RconStopReturns /\ J!JavaStopReturns /\ J!CancelsOwn
=============================================================================

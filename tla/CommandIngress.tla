-------------------------- MODULE CommandIngress --------------------------
(***************************************************************************)
(* How commands enter the simulation: player sessions, the console and     *)
(* RCON, and Java code that re-enters the server from a command callback.  *)
(*                                                                         *)
(* Three recursive locks meet here.  The simulation gate                   *)
(* (simulationDispatchMtx_) is held by a session for a whole packet and by *)
(* the tick thread for a whole tick; the command lock                      *)
(* (commandDispatchMtx_) nests in it; callMutex admits one thread into     *)
(* Java and is only tried.  A Java callback on a foreign thread may hand a *)
(* command to the tick thread and wait for it with a deadline: see         *)
(* ServerExecutor, of which a request is kept here as a state per caller,  *)
(* one outstanding request each.                                           *)
(***************************************************************************)
EXTENDS Integers, SequencesExt

CONSTANTS
    Sessions,    \* session threads
    Consoles,    \* console and RCON threads
    Impatient,   \* threads whose deadline may pass before their request runs
    Nobody

ASSUME IngressAssumption ==
    /\ Sessions \cap Consoles = {}
    /\ Impatient \subseteq Sessions \cup Consoles
    /\ "tickThread" \notin Sessions \cup Consoles
    /\ Nobody \notin Sessions \cup Consoles \cup {"tickThread"}

VARIABLES
    owner,       \* of each lock
    depth,       \* how often its owner holds it
    pc,          \* where each session and console thread is
    task,        \* state of each thread's request
    queue,       \* threads whose requests wait for the tick thread
    tick,        \* where the tick thread is
    serving,     \* whose request it runs
    drains       \* how many of a tick's two drains are left

vars == <<owner, depth, pc, task, queue, tick, serving, drains>>

Foreign == Sessions \cup Consoles
Ticker  == "tickThread"
Threads == Foreign \cup {Ticker}
Gate    == "simulationDispatchMtx_"
Command == "commandDispatchMtx_"
Java    == "callMutex"
Locks   == {Gate, Command, Java}

Init ==
    /\ owner = [l \in Locks |-> Nobody]
    /\ depth = [l \in Locks |-> 0]
    /\ pc = [f \in Foreign |-> "rest"]
    /\ task = [f \in Foreign |-> "none"]
    /\ queue = <<>>
    /\ tick = "sleep" /\ serving = Nobody /\ drains = 0

----------------------------------------------------------------------------
(* Recursive locks.                                                        *)

Free(l, t) == owner[l] \in {Nobody, t}

Lock(l, t) ==
    /\ Free(l, t)
    /\ owner' = [owner EXCEPT ![l] = t]
    /\ depth' = [depth EXCEPT ![l] = @ + 1]

\* t lets go of the locks of a set once each.
Unlock(ls, t) ==
    /\ depth' = [l \in Locks |-> depth[l] - (IF l \in ls THEN 1 ELSE 0)]
    /\ owner' = [l \in Locks |-> IF l \in ls /\ depth[l] = 1 THEN Nobody
                                                           ELSE owner[l]]

SameLocks == UNCHANGED <<owner, depth>>
Ticking   == <<tick, serving, drains>>
Requests  == <<task, queue>>

At(f, from, to) == pc[f] = from /\ pc' = [pc EXCEPT ![f] = to]

\* A session goes on with its packet, a console waits for its next line.
Home(f) == IF f \in Sessions THEN "handler" ELSE "rest"

----------------------------------------------------------------------------
(* Sessions and consoles.                                                  *)

\* handlePlay: the gate is held while a packet is handled.
BeginPacket(s) ==
    /\ s \in Sessions
    /\ At(s, "rest", "handler")
    /\ Lock(Gate, s)
    /\ UNCHANGED <<Requests, Ticking>>

EndPacket(s) ==
    /\ At(s, "handler", "rest")
    /\ Unlock({Gate}, s)
    /\ UNCHANGED <<Requests, Ticking>>

\* dispatchCommand and dispatchConsole begin in the same way: Java is asked
\* first.
BeginCommand(f) ==
    /\ f \in Foreign
    /\ At(f, Home(f), "enter")
    /\ SameLocks
    /\ UNCHANGED <<Requests, Ticking>>

\* acquireCallbackLock: a callback is skipped while another one is active.
EnterJava(f) ==
    /\ IF Free(Java, f) THEN At(f, "enter", "java") /\ Lock(Java, f)
                        ELSE At(f, "enter", "dispatch") /\ SameLocks
    /\ UNCHANGED <<Requests, Ticking>>

\* Faulty: a consumed command returns without leaving Java.
LeaveJavaLocked(f) ==
    /\ \/ At(f, "java", "dispatch") /\ Unlock({Java}, f)
       \/ At(f, "java", Home(f)) /\ SameLocks
    /\ UNCHANGED <<Requests, Ticking>>

\* The callback consumes the command or leaves it to the native dispatcher.
LeaveJava(f) ==
    /\ At(f, "java", "dispatch") \/ At(f, "java", Home(f))
    /\ Unlock({Java}, f)
    /\ UNCHANGED <<Requests, Ticking>>

\* nativeExecuteCommand: the callback hands a command to the tick thread ...
Request(f) ==
    /\ At(f, "java", "await")
    /\ task[f] = "none"
    /\ task' = [task EXCEPT ![f] = "Pending"]
    /\ queue' = Append(queue, f)
    /\ SameLocks
    /\ UNCHANGED Ticking

\* ... and gets its answer ...
Answered(f) ==
    /\ At(f, "await", "java")
    /\ task[f] = "Done"
    /\ task' = [task EXCEPT ![f] = "none"]
    /\ SameLocks
    /\ UNCHANGED <<queue, Ticking>>

\* ... or gives up: what has not begun is cancelled.
GiveUp(f) ==
    /\ f \in Impatient
    /\ At(f, "await", "java")
    /\ task[f] \in {"Pending", "Running"}
    /\ IF task[f] = "Pending"
         THEN /\ task' = [task EXCEPT ![f] = "none"]
              /\ \E i \in DOMAIN queue :
                   queue[i] = f /\ queue' = RemoveAt(queue, i)
         ELSE /\ task' = [task EXCEPT ![f] = "Abandoned"]
              /\ UNCHANGED queue
    /\ SameLocks
    /\ UNCHANGED Ticking

\* Faulty: only the command lock is taken.
DispatchUngated(f) ==
    /\ At(f, "dispatch", "gated")
    /\ SameLocks
    /\ UNCHANGED <<Requests, Ticking>>

\* The native dispatcher runs the command under both locks.
Dispatch(f) ==
    /\ At(f, "dispatch", "gated")
    /\ Lock(Gate, f)
    /\ UNCHANGED <<Requests, Ticking>>

Execute(f) ==
    /\ At(f, "gated", "execute")
    /\ Lock(Command, f)
    /\ UNCHANGED <<Requests, Ticking>>

\* Faulty: the gate is given back only once per packet.
EndCommandGated(f) ==
    /\ At(f, "execute", Home(f))
    /\ Unlock({Command}, f)
    /\ UNCHANGED <<Requests, Ticking>>

EndCommand(f) ==
    /\ At(f, "execute", Home(f))
    /\ Unlock({Gate, Command}, f)
    /\ UNCHANGED <<Requests, Ticking>>

----------------------------------------------------------------------------
(* The tick thread.                                                        *)

TickAt(from, to) == tick = from /\ tick' = to

BeginTick ==
    /\ TickAt("sleep", "drain")
    /\ drains' = 2
    /\ Lock(Gate, Ticker)
    /\ UNCHANGED <<pc, Requests, serving>>

\* A request is taken from the queue: its command is dispatched as if it came
\* from the console.
ServeRequest ==
    /\ queue # <<>>
    /\ TickAt("drain", "enter")
    /\ queue' = Tail(queue)
    /\ serving' = Head(queue)
    /\ task' = [task EXCEPT ![Head(queue)] = "Running"]
    /\ SameLocks
    /\ UNCHANGED <<pc, drains>>

\* Faulty: the tick thread waits for its turn to enter Java.
ServeEnterJavaWaiting ==
    /\ TickAt("enter", "java") /\ Lock(Java, Ticker)
    /\ UNCHANGED <<pc, Requests, serving, drains>>

ServeEnterJava ==
    /\ IF Free(Java, Ticker) THEN TickAt("enter", "java") /\ Lock(Java, Ticker)
                             ELSE TickAt("enter", "gated") /\ SameLocks
    /\ UNCHANGED <<pc, Requests, serving, drains>>

ServeLeaveJava ==
    /\ TickAt("java", "gated") \/ TickAt("java", "served")
    /\ Unlock({Java}, Ticker)
    /\ UNCHANGED <<pc, Requests, serving, drains>>

\* The gate is held already, so only the command lock can be waited for.
ServeExecute ==
    /\ TickAt("gated", "execute")
    /\ Lock(Command, Ticker)
    /\ UNCHANGED <<pc, Requests, serving, drains>>

ServeEndCommand ==
    /\ TickAt("execute", "served")
    /\ Unlock({Command}, Ticker)
    /\ UNCHANGED <<pc, Requests, serving, drains>>

\* The request is complete; a command that Java gave on the tick thread itself
\* returns to Java.
Served ==
    /\ IF serving = Nobody
         THEN TickAt("served", "hook") /\ UNCHANGED <<task, serving>>
         ELSE /\ TickAt("served", "drain")
              /\ task' = [task EXCEPT ![serving] =
                            IF @ = "Abandoned" THEN "none" ELSE "Done"]
              /\ serving' = Nobody
    /\ SameLocks
    /\ UNCHANGED <<pc, queue, drains>>

\* Between its two drains a tick calls into Java.  (The budget of a drain,
\* kMaxServerThreadTasksPerTick, is more than there are callers.)
EndDrain ==
    /\ queue = <<>>
    /\ drains' = drains - 1
    /\ \/ /\ drains = 2
          /\ IF Free(Java, Ticker)
               THEN TickAt("drain", "hook") /\ Lock(Java, Ticker)
               ELSE TickAt("drain", "drain") /\ SameLocks
       \/ /\ drains = 1
          /\ TickAt("drain", "simulate") /\ SameLocks
    /\ UNCHANGED <<pc, Requests, serving>>

\* In that callback nativeExecuteCommand runs at once.
HookCommand ==
    /\ TickAt("hook", "enter")
    /\ SameLocks
    /\ UNCHANGED <<pc, Requests, serving, drains>>

EndHook ==
    /\ TickAt("hook", "drain")
    /\ Unlock({Java}, Ticker)
    /\ UNCHANGED <<pc, Requests, serving, drains>>

EndTick ==
    /\ TickAt("simulate", "sleep")
    /\ Unlock({Gate}, Ticker)
    /\ UNCHANGED <<pc, Requests, serving, drains>>

----------------------------------------------------------------------------

Work(f) ==
    \/ EndPacket(f) \/ EnterJava(f) \/ LeaveJava(f) \/ Answered(f)
    \/ Dispatch(f) \/ Execute(f) \/ EndCommand(f)

TickNext ==
    \/ BeginTick \/ ServeRequest \/ ServeEnterJava \/ ServeLeaveJava
    \/ ServeExecute \/ ServeEndCommand \/ Served \/ EndDrain \/ HookCommand
    \/ EndHook \/ EndTick

Next ==
    \/ TickNext
    \/ \E f \in Foreign :
         Work(f) \/ BeginPacket(f) \/ BeginCommand(f) \/ Request(f) \/ GiveUp(f)

\* Every thread runs on; Java callbacks and packet handlers come to an end; a
\* thread that keeps asking for the gate gets it, since others let go of it
\* for whole ticks and packets.  Deadlines pass for sessions, and a console is
\* not assumed to time out.
Fairness ==
    /\ WF_vars(TickNext) /\ SF_vars(BeginTick) /\ SF_vars(EndHook)
    /\ \A s \in Sessions : WF_vars(GiveUp(s))
    /\ \A f \in Foreign :
         WF_vars(Work(f)) /\ SF_vars(EndPacket(f)) /\ SF_vars(LeaveJava(f))
            /\ SF_vars(Dispatch(f))

Spec == Init /\ [][Next]_vars
FairSpec == Spec /\ Fairness

----------------------------------------------------------------------------
(* Properties.                                                             *)

\* Every variable has its type.
TypeOK ==
    /\ owner \in [Locks -> Threads \cup {Nobody}]
    /\ depth \in [Locks -> 0 .. 2]
    /\ pc \in [Foreign -> {"rest", "handler", "enter", "java", "await",
                           "dispatch", "gated", "execute"}]
    /\ task \in [Foreign -> {"none", "Pending", "Running", "Done", "Abandoned"}]
    /\ queue \in Seq(Foreign)
    /\ tick \in {"sleep", "drain", "enter", "java", "gated", "execute",
                 "served", "hook", "simulate"}
    /\ serving \in Foreign \cup {Nobody}
    /\ drains \in 0 .. 2

\* No command and no packet handler touches the world during a tick or during
\* each other, whichever of the ways in it came.
OneMutator ==
    /\ Cardinality({f \in Foreign : pc[f] \in {"handler", "execute"}}) <= 1
    /\ tick # "sleep" => \A f \in Foreign : pc[f] \notin {"handler", "execute"}

\* A lock is held exactly by the threads whose place in the code says so; in
\* particular a thread at rest holds none.
LocksMatchPlaces ==
    /\ \A f \in Foreign :
         /\ owner[Java] = f <=> pc[f] \in {"java", "await"}
         /\ owner[Command] = f <=> pc[f] = "execute"
         /\ owner[Gate] = f <=> \/ f \in Sessions /\ pc[f] # "rest"
                                \/ pc[f] \in {"gated", "execute"}
    /\ owner[Gate] = Ticker <=> tick # "sleep"
    /\ \A l \in Locks : owner[l] = Nobody <=> depth[l] = 0

\* A player's command whose Java callback hands a command to the tick thread
\* cannot be served: the session holds the gate all the while, so the request
\* is still pending when the deadline comes.
SessionRequestNeverServed ==
    \A s \in Sessions : task[s] \in {"none", "Pending"}

\* Whatever way commands come in, one thread at a time works on the world, no
\* way out of a command leaves a lock behind, and a request a session's command
\* makes of the tick thread is not served while the session holds the gate.
CommandsApart == OneMutator /\ LocksMatchPlaces /\ SessionRequestNeverServed

\* The Java callback of a command runs outside the gate, so that what it hands
\* to the tick thread can be served.
JavaOutsideGate == \A f \in Foreign : pc[f] = "await" => owner[Gate] # f

\* A Java callback that waits for the tick thread goes on: a console's because
\* it is served, with no deadline, although it keeps Java locked meanwhile.
RequestAnswered == \A f \in Foreign : pc[f] = "await" ~> pc[f] = "java"
=============================================================================

-------------------------- MODULE ServerExecutor --------------------------
(***************************************************************************)
(* Work handed to the server thread: GameServer::runOnServerThread and     *)
(* drainServerThreadTasks.                                                 *)
(*                                                                         *)
(* Threads of the JVM and of native callers queue a task and wait for it   *)
(* with a deadline.  The tick thread, which owns the simulation, runs      *)
(* queued tasks.  The state of a task moves by compare-and-swap, so that a *)
(* caller that gives up and the tick thread that picks the task up agree   *)
(* on who won.  Stopping the server cancels what is queued and waits until *)
(* nothing runs; so does stopping a JVM runtime that is active, while       *)
(* stopping an inactive one only waits.                                    *)
(*                                                                         *)
(* A critical section of serverThreadTasksMtx_ is one action, and so is a  *)
(* compare-and-swap.  serverThreadTaskIdleCv_ is the set of the threads    *)
(* asleep on it.  A task's own condition variable is left out: its wait is *)
(* timed and re-reads the state, so a lost wakeup there only costs time.   *)
(* A change the idle wait reads and the notification that follows it are    *)
(* one action: a thread that looks in between sees the change.              *)
(***************************************************************************)
EXTENDS Integers, Sequences, FiniteSets

CONSTANTS
    Callers,      \* threads that call runOnServerThread
    Stoppers,     \* threads that call GameServer::stop
    Waiters,      \* threads that call JvmRuntime::stop
    Requests,     \* the requests of one behaviour
    NoRequest,
    QueueCap,     \* kMaxServerThreadTaskQueue
    DrainBudget   \* kMaxServerThreadTasksPerTick

ASSUME ExecutorAssumption ==
    /\ NoRequest \notin Requests
    /\ Stoppers \cap Waiters = {}
    /\ "tickThread" \notin Stoppers \cup Waiters
    /\ QueueCap \in Nat \ {0}
    /\ DrainBudget \in Nat \ {0}

VARIABLES
    owner,        \* serverThreadId_: the initialising thread or the tick thread
    accepting,    \* serverThreadAccepting_
    running,      \* running_
    shutdown,     \* shutdownStarted_
    queue,        \* serverThreadTasks_
    status,       \* state of each request, "unused" before its call
    active,       \* activeServerThreadTasks_
    cleanups,     \* pendingServerThreadTaskCleanups_
    tick,         \* where the tick thread is
    current,      \* the request it runs
    budget,       \* tasks it may still run in this drain
    call,         \* where each caller is
    request,      \* the request of each caller
    stopper,      \* where each stopping thread is
    removed,      \* requests each thread took off the queue to cancel
    taken,        \* how many those were
    asleep,       \* threads waiting on serverThreadTaskIdleCv_
    runs,         \* how often each request's task ran
    answer        \* what each request's caller was told

flags    == <<owner, accepting, running, shutdown>>
ticker   == <<tick, current, budget>>
callers  == <<call, request, answer>>
stoppers == <<stopper, removed, taken, cleanups>>
vars     == <<flags, queue, status, active, ticker, callers, stoppers, asleep,
              runs>>

Terminal  == {"Completed", "Failed", "Cancelled"}
Statuses  == {"unused", "Pending", "Running"} \cup Terminal
TickStates == {"unborn", "starting", "tick", "drain", "run",
               "selfCancel", "finish", "release", "take", "cancel", "gone"}
StopStates == {"idle", "away", "selfCancel", "take", "cancel", "wait", "join",
               "done"}

TickThread == "tickThread"
Stopping   == Stoppers \cup Waiters
Cancellers == Stopping \cup {TickThread}

\* Faulty: a task that left the queue is not waited for.
IdleQueue == queue = <<>> /\ cleanups = 0

Idle == active = 0 /\ queue = <<>> /\ cleanups = 0

Init ==
    /\ owner = "init" /\ accepting = TRUE /\ running = FALSE
    /\ shutdown = FALSE
    /\ queue = <<>> /\ status = [r \in Requests |-> "unused"]
    /\ active = 0 /\ cleanups = 0
    /\ tick = "unborn" /\ current = NoRequest /\ budget = 0
    /\ call = [c \in Callers |-> "idle"]
    /\ request = [c \in Callers |-> NoRequest]
    /\ stopper = [s \in Stopping |-> "idle"]
    /\ removed = [s \in Cancellers |-> {}]
    /\ taken = [s \in Cancellers |-> 0]
    /\ asleep = {}
    /\ runs = [r \in Requests |-> 0]
    /\ answer = [r \in Requests |-> "none"]

----------------------------------------------------------------------------
(* Calling.                                                                *)

SetStatus(r, s) == status' = [status EXCEPT ![r] = s]
Answer(r, a)    == answer' = [answer EXCEPT ![r] = a]

Refuses == \/ ~accepting \/ owner = "none" \/ ~running \/ shutdown
           \/ Len(queue) >= QueueCap

Submit(c, r) ==
    /\ call[c] = "idle" /\ status[r] = "unused"
    /\ ~Refuses
    /\ queue' = Append(queue, r)
    /\ SetStatus(r, "Pending")
    /\ call' = [call EXCEPT ![c] = "waiting"]
    /\ request' = [request EXCEPT ![c] = r]
    /\ UNCHANGED <<flags, active, ticker, answer, stoppers, asleep, runs>>

\* The call is turned down at once.
Refuse(c, r) ==
    /\ call[c] = "idle" /\ status[r] = "unused"
    /\ Refuses
    /\ SetStatus(r, "Cancelled")
    /\ Answer(r, "false")
    /\ UNCHANGED <<flags, queue, active, ticker, call, request, stoppers,
                   asleep, runs>>

Leave(c) == /\ call' = [call EXCEPT ![c] = "idle"]
            /\ request' = [request EXCEPT ![c] = NoRequest]

\* The caller sees that its request has ended.
Return(c) ==
    LET r == request[c]
    IN  /\ call[c] = "waiting"
        /\ status[r] \in Terminal
        /\ Answer(r, IF status[r] = "Completed" THEN "true" ELSE "false")
        /\ Leave(c)
        /\ UNCHANGED <<flags, queue, status, active, ticker, stoppers, asleep,
                       runs>>

\* Its deadline passes first ...
TimeOut(c) ==
    /\ call[c] = "waiting"
    /\ status[request[c]] \notin Terminal
    /\ call' = [call EXCEPT ![c] = "timedOut"]
    /\ UNCHANGED <<flags, queue, status, active, ticker, request, answer,
                   stoppers, asleep, runs>>

\* Faulty: the request is cancelled without comparing its state.
GiveUpBlindly(c) ==
    LET r == request[c]
    IN  /\ call[c] = "timedOut"
        /\ SetStatus(r, "Cancelled")
        /\ Answer(r, "false")
        /\ Leave(c)
        /\ UNCHANGED <<flags, queue, active, ticker, stoppers, asleep, runs>>

\* Faulty: a task that has begun is taken for done.
GiveUpHopefully(c) ==
    LET r == request[c]
    IN  /\ call[c] = "timedOut"
        /\ IF status[r] = "Pending" THEN SetStatus(r, "Cancelled")
                                    ELSE UNCHANGED status
        /\ Answer(r, IF status[r] = "Pending" THEN "false" ELSE "true")
        /\ Leave(c)
        /\ UNCHANGED <<flags, queue, active, ticker, stoppers, asleep, runs>>

\* ... and the request is cancelled if the tick thread has not begun it.
GiveUp(c) ==
    LET r == request[c]
    IN  /\ call[c] = "timedOut"
        /\ IF status[r] = "Pending" THEN SetStatus(r, "Cancelled")
                                    ELSE UNCHANGED status
        /\ Answer(r, "false")
        /\ Leave(c)
        /\ UNCHANGED <<flags, queue, active, ticker, stoppers, asleep, runs>>

----------------------------------------------------------------------------
(* The tick thread.                                                        *)

\* runForever: the server runs, and the tick thread is on its way.  It does
\* not look whether a stop has begun.
Start ==
    /\ tick = "unborn"
    /\ running' = TRUE
    /\ tick' = "starting"
    /\ UNCHANGED <<owner, accepting, shutdown, queue, status, active, current,
                   budget, callers, stoppers, asleep, runs>>

Bind ==
    /\ tick = "starting"
    /\ owner' = "tick"
    /\ accepting' = (running /\ ~shutdown)
    /\ tick' = "tick"
    /\ UNCHANGED <<running, shutdown, queue, status, active, current, budget,
                   callers, stoppers, asleep, runs>>

\* A tick begins a drain (it has two), or the loop ends.
TickBegins ==
    /\ tick = "tick"
    /\ IF running THEN tick' = "drain" /\ budget' = DrainBudget
                  ELSE tick' = "release" /\ UNCHANGED budget
    /\ UNCHANGED <<flags, queue, status, active, current, callers, stoppers,
                   asleep, runs>>

\* Faulty: the task is counted as active only once its turn comes.
DrainTakeUncounted ==
    /\ tick = "drain" /\ budget > 0
    /\ owner = "tick" /\ accepting /\ running /\ queue # <<>>
    /\ queue' = Tail(queue)
    /\ budget' = budget - 1
    /\ IF status[Head(queue)] = "Pending"
         THEN /\ SetStatus(Head(queue), "Running")
              /\ current' = Head(queue)
              /\ tick' = "run"
         ELSE UNCHANGED <<status, current, tick>>
    /\ UNCHANGED <<flags, active, callers, stoppers, asleep, runs>>

\* A task that its caller has given up is only taken off the queue.
DrainTake ==
    /\ tick = "drain" /\ budget > 0
    /\ owner = "tick" /\ accepting /\ running /\ queue # <<>>
    /\ queue' = Tail(queue)
    /\ budget' = budget - 1
    /\ IF status[Head(queue)] = "Pending"
         THEN /\ SetStatus(Head(queue), "Running")
              /\ active' = active + 1
              /\ current' = Head(queue)
              /\ tick' = "run"
         ELSE UNCHANGED <<status, active, current, tick>>
    /\ UNCHANGED <<flags, callers, stoppers, asleep, runs>>

DrainEnds ==
    /\ tick = "drain"
    /\ \/ budget = 0 \/ owner # "tick" \/ ~accepting \/ ~running
       \/ queue = <<>>
    /\ tick' = "tick"
    /\ UNCHANGED <<flags, queue, status, active, current, budget, callers,
                   stoppers, asleep, runs>>

\* The task runs and ends well or throws.
RunTask ==
    /\ tick = "run"
    /\ runs' = [runs EXCEPT ![current] = @ + 1]
    /\ \E end \in {"Completed", "Failed"} : SetStatus(current, end)
    /\ tick' = "finish"
    /\ UNCHANGED <<flags, queue, active, current, budget, callers, stoppers,
                   asleep>>

\* A call made on the thread that owns the simulation, by a task, by the rest
\* of the tick or by the initialising thread, is run at once or turned down.
RunInline(r) ==
    /\ tick \in {"unborn", "tick", "run"} /\ status[r] = "unused"
    /\ IF accepting /\ ~shutdown
         THEN /\ runs' = [runs EXCEPT ![r] = @ + 1]
              /\ \E end \in {"Completed", "Failed"} :
                    /\ SetStatus(r, end)
                    /\ Answer(r, IF end = "Completed" THEN "true"
                                                      ELSE "false")
         ELSE /\ SetStatus(r, "Cancelled")
              /\ Answer(r, "false")
              /\ UNCHANGED runs
    /\ UNCHANGED <<flags, queue, active, ticker, call, request, stoppers,
                   asleep>>

\* Faulty: those who wait for the queue to be idle are not told.
FinishTaskQuietly ==
    /\ tick = "finish"
    /\ active' = active - 1
    /\ current' = NoRequest
    /\ tick' = "drain"
    /\ UNCHANGED <<flags, queue, status, budget, callers, stoppers, asleep,
                   runs>>

FinishTask ==
    /\ tick = "finish"
    /\ active' = active - 1
    /\ asleep' = {}
    /\ current' = NoRequest
    /\ tick' = "drain"
    /\ UNCHANGED <<flags, queue, status, budget, callers, stoppers, runs>>

\* requestStop: a signal, the console, a failed tick.
RequestStop ==
    /\ running
    /\ running' = FALSE
    /\ UNCHANGED <<owner, accepting, shutdown, queue, status, active, ticker,
                   callers, stoppers, asleep, runs>>

----------------------------------------------------------------------------
(* Cancelling: cancelServerThreadTasks, run by a stopping thread, by a      *)
(* task or tick callback that stops its own server, or by the tick thread  *)
(* on its way out.                                                         *)

\* Faulty: what is being cancelled does not count as work left.
TakeQueueUncounted(s) ==
    /\ accepting' = FALSE
    /\ removed' = [removed EXCEPT ![s] = {queue[i] : i \in DOMAIN queue}]
    /\ taken' = [taken EXCEPT ![s] = Len(queue)]
    /\ queue' = <<>>
    /\ UNCHANGED cleanups

TakeQueue(s) ==
    /\ accepting' = FALSE
    /\ removed' = [removed EXCEPT ![s] = {queue[i] : i \in DOMAIN queue}]
    /\ taken' = [taken EXCEPT ![s] = Len(queue)]
    /\ cleanups' = cleanups + Len(queue)
    /\ queue' = <<>>

\* One request that was taken off is cancelled if it is still pending; after
\* the last one the waiters are told.
CancelOne(s) ==
    /\ \E r \in removed[s] :
          /\ status' = [status EXCEPT ![r] = IF @ = "Pending" THEN "Cancelled"
                                                              ELSE @]
          /\ removed' = [removed EXCEPT ![s] = @ \ {r}]
    /\ UNCHANGED <<taken, cleanups, asleep>>

CancelEnds(s) ==
    /\ removed[s] = {}
    /\ cleanups' = cleanups - taken[s]
    /\ taken' = [taken EXCEPT ![s] = 0]
    /\ asleep' = {}
    /\ UNCHANGED <<status, removed>>

\* GameServer::stop on the tick thread.
SelfStop ==
    /\ tick \in {"tick", "run"}
    /\ running' = FALSE
    /\ TakeQueue(TickThread)
    /\ tick' = "selfCancel"
    /\ UNCHANGED <<owner, shutdown, status, active, current, budget, callers,
                   stopper, asleep, runs>>

\* Faulty: the loop ends and leaves its queue.
ReleaseThreadOnly ==
    /\ tick = "release"
    /\ owner' = "none" /\ accepting' = FALSE
    /\ tick' = "gone"
    /\ UNCHANGED <<running, shutdown, queue, status, active, current, budget,
                   callers, stoppers, asleep, runs>>

ReleaseThread ==
    /\ tick = "release"
    /\ owner' = "none" /\ accepting' = FALSE
    /\ tick' = "take"
    /\ UNCHANGED <<running, shutdown, queue, status, active, current, budget,
                   callers, stoppers, asleep, runs>>

TickTakesQueue ==
    /\ tick = "take"
    /\ TakeQueue(TickThread)
    /\ tick' = "cancel"
    /\ UNCHANGED <<owner, running, shutdown, status, active, current, budget,
                   callers, stopper, asleep, runs>>

TickCancels ==
    /\ tick \in {"selfCancel", "cancel"}
    /\ \/ CancelOne(TickThread) /\ UNCHANGED tick
       \/ /\ CancelEnds(TickThread)
          /\ tick' = IF tick = "cancel" THEN "gone"
                     ELSE IF current = NoRequest THEN "tick" ELSE "run"
    /\ UNCHANGED <<flags, queue, active, current, budget, callers, stopper,
                   runs>>

TickNext == \/ Bind \/ TickBegins \/ DrainTake \/ DrainEnds \/ RunTask
            \/ FinishTask \/ ReleaseThread \/ TickTakesQueue \/ TickCancels

----------------------------------------------------------------------------
(* Stopping: GameServer::stop on a thread of its own.                      *)

StopperAt(s, place) == stopper' = [stopper EXCEPT ![s] = place]

\* Only the first of several stops tears the server down.
Stop(s) ==
    /\ stopper[s] = "idle"
    /\ IF shutdown
         THEN StopperAt(s, "away") /\ UNCHANGED <<running, shutdown>>
         ELSE /\ shutdown' = TRUE
              /\ running' = FALSE
              /\ StopperAt(s, "take")
    /\ UNCHANGED <<owner, accepting, queue, status, active, ticker, callers,
                   removed, taken, cleanups, asleep, runs>>

\* GameServer::stop on a session thread leaves the teardown to the owner.
SessionStop(s) ==
    /\ stopper[s] = "idle"
    /\ running' = FALSE
    /\ TakeQueue(s)
    /\ StopperAt(s, "selfCancel")
    /\ UNCHANGED <<owner, shutdown, status, active, ticker, callers, asleep,
                   runs>>

StopTakesQueue(s) ==
    /\ stopper[s] = "take"
    /\ TakeQueue(s)
    /\ StopperAt(s, "cancel")
    /\ UNCHANGED <<owner, running, shutdown, status, active, ticker, callers,
                   asleep, runs>>

StopCancels(s) ==
    /\ stopper[s] \in {"selfCancel", "cancel"}
    /\ \/ CancelOne(s) /\ UNCHANGED stopper
       \/ /\ CancelEnds(s)
          /\ StopperAt(s, IF stopper[s] = "cancel" THEN "wait" ELSE "away")
    /\ UNCHANGED <<flags, queue, active, ticker, callers, runs>>

\* JvmRuntime::stop: an active runtime cancels the tasks of the server, an
\* inactive one does not.
StopRuntime(w) ==
    /\ stopper[w] = "idle"
    /\ \E place \in {"take", "wait"} : StopperAt(w, place)
    /\ UNCHANGED <<flags, queue, status, active, ticker, callers, removed,
                   taken, cleanups, asleep, runs>>

\* waitForServerThreadTasks
WaitIdle(w) ==
    /\ stopper[w] = "wait" /\ w \notin asleep
    /\ IF Idle THEN /\ StopperAt(w, IF w \in Waiters THEN "done" ELSE "join")
                    /\ UNCHANGED asleep
               ELSE asleep' = asleep \cup {w} /\ UNCHANGED stopper
    /\ UNCHANGED <<flags, queue, status, active, ticker, callers, removed,
                   taken, cleanups, runs>>

\* stopTickLoop; what the tasks may use is torn down after it.
JoinTick(s) ==
    /\ stopper[s] = "join"
    /\ tick \in {"unborn", "gone"}
    /\ StopperAt(s, "done")
    /\ UNCHANGED <<flags, queue, status, active, ticker, callers, removed,
                   taken, cleanups, asleep, runs>>

StopNext(s) == StopTakesQueue(s) \/ StopCancels(s) \/ WaitIdle(s)
                 \/ JoinTick(s)

----------------------------------------------------------------------------

CallNext(c) == \/ \E r \in Requests : Submit(c, r) \/ Refuse(c, r)
               \/ Return(c) \/ TimeOut(c) \/ GiveUp(c)

Next ==
    \/ \E c \in Callers : CallNext(c)
    \/ Start \/ TickNext
    \/ \E r \in Requests : RunInline(r)
    \/ SelfStop \/ RequestStop
    \/ \E s \in Stoppers : Stop(s) \/ SessionStop(s)
    \/ \E w \in Waiters : StopRuntime(w)
    \/ \E s \in Stopping : StopNext(s)

\* The tick thread and a stopping thread run on, and a task and the rest of a
\* tick come to an end however often they stop the server.  No caller is
\* assumed to time out, and nobody to stop the server.
Fairness ==
    /\ WF_vars(TickNext) /\ SF_vars(RunTask) /\ SF_vars(TickBegins)
    /\ \A s \in Stopping : WF_vars(StopNext(s))

Spec == Init /\ [][Next]_vars
FairSpec == Spec /\ Fairness

----------------------------------------------------------------------------
(* Properties.                                                             *)

\* Every variable has its type.
TypeOK ==
    /\ owner \in {"init", "tick", "none"}
    /\ accepting \in BOOLEAN /\ running \in BOOLEAN /\ shutdown \in BOOLEAN
    /\ queue \in Seq(Requests)
    /\ status \in [Requests -> Statuses]
    /\ active \in {0, 1} /\ cleanups \in Int /\ budget \in Nat
    /\ tick \in TickStates
    /\ current \in Requests \cup {NoRequest}
    /\ call \in [Callers -> {"idle", "waiting", "timedOut"}]
    /\ request \in [Callers -> Requests \cup {NoRequest}]
    /\ stopper \in [Stopping -> StopStates]
    /\ removed \in [Cancellers -> SUBSET Requests]
    /\ taken \in [Cancellers -> Nat]
    /\ asleep \subseteq Stopping
    /\ runs \in [Requests -> Nat]
    /\ answer \in [Requests -> {"none", "true", "false"}]

\* A task runs at most once, and only if its caller did not get it cancelled:
\* a request still pending at its deadline never runs later.
CancelledNeverRuns ==
    \A r \in Requests :
        /\ runs[r] <= 1
        /\ runs[r] = 1 <=> status[r] \in {"Completed", "Failed"}

\* A caller that is told "true" had its task run to its end.
TrueMeansCompleted ==
    \A r \in Requests : answer[r] = "true" => status[r] = "Completed"

\* What callers are told agrees with what ran: none is told of a success that
\* was not, and no task runs behind the back of one that gave up.
Outcomes == CancelledNeverRuns /\ TrueMeansCompleted

\* The numbers the idle wait reads agree with what goes on: a task is counted
\* from the moment it leaves the queue until its effects are over.
CountsAreExact ==
    /\ active = (IF current = NoRequest THEN 0 ELSE 1)
    /\ (\E s \in Cancellers : removed[s] # {}) => cleanups > 0
    /\ cleanups >= 0
    /\ \A r \in Requests : status[r] = "Running" => active = 1

\* Once the server is stopped nothing is left of its tasks and none can start:
\* what the tasks use may be destroyed.
NothingRunsAfterStop ==
    (\E s \in Stoppers : stopper[s] \in {"join", "done"})
        => /\ \A r \in Requests : status[r] \notin {"Pending", "Running"}
           /\ queue = <<>> /\ current = NoRequest

\* Whoever ends the server finds its tasks counted to the end and none left.
StopFindsNone == CountsAreExact /\ NothingRunsAfterStop

\* A thread asleep until the queue is idle is woken when it becomes idle.
NoLostIdleWakeup == asleep # {} => ~Idle

\* Every accepted request ends even if its caller never gives up: the tick
\* thread runs it, or whoever ends the tick loop cancels it.
RequestSettles ==
    \A r \in Requests : status[r] = "Pending" ~> status[r] \in Terminal

\* A stop of the server ends, unless runForever is entered in the middle of
\* it and sets the server running again.
StopEnds ==
    \A s \in Stoppers : stopper[s] = "take" ~> stopper[s] = "done" \/ running
=============================================================================

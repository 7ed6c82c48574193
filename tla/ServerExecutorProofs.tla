----------------------- MODULE ServerExecutorProofs -----------------------
(***************************************************************************)
(* The outcome of a request is decided once, and a stop of the server      *)
(* finds no task left: proofs for any number of callers, stopping threads  *)
(* and requests.                                                           *)
(*                                                                         *)
(* CancelledNeverRuns is not inductive alone.  That the task which ends is *)
(* the one that was claimed needs Claims: the tick thread's current        *)
(* request is the only one in state Running.  That a caller cancels only   *)
(* its own pending request needs Calls.                                    *)
(*                                                                         *)
(* StopFindsNone needs three facts more.  Cleanups: the number the idle    *)
(* wait reads is the size of a set with one element for each request that  *)
(* was taken off the queue and not accounted for.  Found: a pending        *)
(* request is in the queue or in the hands of a thread that cancels.       *)
(* Stopped: what each place of a stopping thread stands for stays so.      *)
(***************************************************************************)
EXTENDS ServerExecutor, FiniteSetTheorems, TLAPS

\* The tick thread works on a request in these places and in no other.
Claims ==
    /\ tick \in {"run", "finish"} => current # NoRequest
    /\ tick \in TickStates \ {"run", "finish", "selfCancel"}
         => current = NoRequest
    /\ active = (IF current = NoRequest THEN 0 ELSE 1)
    /\ \A r \in Requests :
         status[r] = "Running"
            <=> r = current /\ tick \in {"run", "selfCancel"}

Calls == \A c \in Callers : call[c] # "idle" => request[c] \in Requests

IInv == TypeOK /\ Claims /\ Calls /\ Outcomes

USE ExecutorAssumption DEF ExecutorAssumption

\* The server begins with no request made and no thread at work.
LEMMA InitIInv == Init => IInv
<1> SUFFICES ASSUME Init PROVE IInv
  OBVIOUS
<1>1. TypeOK
  <2>1. /\ queue \in Seq(Requests)
        /\ removed \in [Cancellers -> SUBSET Requests]
        /\ taken \in [Cancellers -> Nat]
        /\ asleep \subseteq Stopping
    BY DEF Init
  <2>2. /\ status \in [Requests -> Statuses]
        /\ runs \in [Requests -> Nat]
        /\ answer \in [Requests -> {"none", "true", "false"}]
    BY DEF Init, Statuses
  <2>3. /\ call \in [Callers -> {"idle", "waiting", "timedOut"}]
        /\ request \in [Callers -> Requests \cup {NoRequest}]
        /\ stopper \in [Stopping -> StopStates]
    BY DEF Init, StopStates
  <2>4. accepting \in BOOLEAN /\ running \in BOOLEAN /\ shutdown \in BOOLEAN
    BY DEF Init
  <2>5. active = 0 /\ cleanups = 0 /\ budget = 0
    BY DEF Init
  <2>6. owner \in {"init", "tick", "none"} /\ tick \in TickStates
    BY DEF Init, TickStates
  <2>7. current \in Requests \cup {NoRequest}
    BY DEF Init
  <2> QED
    BY <2>1, <2>2, <2>3, <2>4, <2>5, <2>6, <2>7 DEF TypeOK
<1>2. Claims
  BY DEF Init, Claims, TickStates
<1>3. Calls
  BY DEF Init, Calls
<1>4. Outcomes
  BY DEF Init, Outcomes, CancelledNeverRuns, TrueMeansCompleted
<1> QED
  BY <1>1, <1>2, <1>3, <1>4 DEF IInv

\* Taking the queue over leaves it empty and gives the thread what was in it.
LEMMA TakeQueueTypes ==
  ASSUME TypeOK, NEW s \in Cancellers, TakeQueue(s)
  PROVE  /\ accepting' \in BOOLEAN
         /\ queue' \in Seq(Requests)
         /\ removed' \in [Cancellers -> SUBSET Requests]
         /\ taken' \in [Cancellers -> Nat]
         /\ cleanups' \in Int
<1>1. Len(queue) \in Nat /\ DOMAIN queue = 1 .. Len(queue)
  BY DEF TypeOK
<1>2. {queue[i] : i \in DOMAIN queue} \subseteq Requests
  BY DEF TypeOK
<1>3. accepting' \in BOOLEAN
  BY DEF TakeQueue
<1>4. queue' \in Seq(Requests)
  BY DEF TakeQueue
<1>5. /\ removed' \in [Cancellers -> SUBSET Requests]
      /\ taken' \in [Cancellers -> Nat]
      /\ cleanups' \in Int
  BY <1>1, <1>2 DEF TypeOK, TakeQueue
<1> QED
  BY <1>3, <1>4, <1>5

\* Cancelling one request moves it from Pending to Cancelled, if at all.
LEMMA CancelOneEffect ==
  ASSUME TypeOK, NEW s \in Cancellers, CancelOne(s)
  PROVE  /\ removed' \in [Cancellers -> SUBSET Requests]
         /\ status' \in [Requests -> Statuses]
         /\ \A q \in Requests :
               \/ status'[q] = status[q]
               \/ status[q] = "Pending" /\ status'[q] = "Cancelled"
         /\ UNCHANGED <<taken, cleanups, asleep>>
<1>1. PICK r \in removed[s] :
        /\ status' = [status EXCEPT ![r] = IF @ = "Pending" THEN "Cancelled"
                                                            ELSE @]
        /\ removed' = [removed EXCEPT ![s] = @ \ {r}]
  BY DEF CancelOne
<1>2. r \in Requests
  BY <1>1 DEF TypeOK
<1> QED
  BY <1>1, <1>2 DEF TypeOK, CancelOne, Statuses, Terminal

\* Ending a cancellation only touches the counters.
LEMMA CancelEndsEffect ==
  ASSUME TypeOK, NEW s \in Cancellers, CancelEnds(s)
  PROVE  /\ taken' \in [Cancellers -> Nat]
         /\ cleanups' \in Int
         /\ asleep' = {}
         /\ UNCHANGED <<status, removed>>
BY DEF TypeOK, CancelEnds

\* The invariant survives a step that changes the state of requests only from
\* Pending to Cancelled and leaves the work of the tick thread alone.
LEMMA CancellationKeeps ==
  ASSUME IInv, TypeOK',
         \A q \in Requests :
            \/ status'[q] = status[q]
            \/ status[q] = "Pending" /\ status'[q] = "Cancelled",
         UNCHANGED <<current, active, runs, call, request, answer>>,
         \/ UNCHANGED tick
         \/ tick = "cancel" /\ tick' = "gone"
         \/ tick = "selfCancel" /\ current = NoRequest /\ tick' = "tick"
         \/ tick = "selfCancel" /\ current # NoRequest /\ tick' = "run"
  PROVE  IInv'
<1>1. Claims'
  <2>1. \A q \in Requests : status'[q] = "Running" <=> status[q] = "Running"
    OBVIOUS
  <2> QED
    BY <2>1 DEF IInv, Claims, TickStates
<1>2. Outcomes'
  BY DEF IInv, Outcomes, CancelledNeverRuns, TrueMeansCompleted, TypeOK
<1>3. Calls'
  BY DEF IInv, Calls
<1> QED
  BY <1>1, <1>2, <1>3 DEF IInv

----------------------------------------------------------------------------
(* The steps of callers.                                                   *)

\* A step that leaves the requests' outcomes and the tick thread alone keeps
\* all but, at most, the types.
LEMMA OthersKeep ==
  ASSUME IInv, TypeOK',
         UNCHANGED <<tick, current, active, status, runs, call, request,
                     answer>>
  PROVE  IInv'
BY CancellationKeeps

LEMMA CallersKeep ==
  ASSUME IInv, NEW c \in Callers, CallNext(c)
  PROVE  IInv'
<1> USE DEF IInv
<1>1. ASSUME NEW r \in Requests, Submit(c, r) PROVE IInv'
  <2>1. TypeOK'
    BY <1>1 DEF Submit, TypeOK, SetStatus, Statuses, flags, ticker, stoppers
  <2>2. Claims'
    BY <1>1 DEF Submit, Claims, TypeOK, SetStatus, ticker
  <2>3. Calls'
    BY <1>1 DEF Submit, Calls, TypeOK
  <2>4. Outcomes'
    BY <1>1 DEF Submit, Outcomes, CancelledNeverRuns, TrueMeansCompleted,
                SetStatus, TypeOK
  <2> QED
    BY <2>1, <2>2, <2>3, <2>4
<1>2. ASSUME NEW r \in Requests, Refuse(c, r) PROVE IInv'
  <2>1. TypeOK'
    BY <1>2 DEF Refuse, TypeOK, SetStatus, Answer, Statuses, Terminal, flags,
                ticker, stoppers
  <2>2. Claims'
    BY <1>2 DEF Refuse, Claims, TypeOK, SetStatus, ticker
  <2>3. Calls'
    BY <1>2 DEF Refuse, Calls
  <2>4. Outcomes'
    BY <1>2 DEF Refuse, Outcomes, CancelledNeverRuns, TrueMeansCompleted,
                SetStatus, Answer, TypeOK
  <2> QED
    BY <2>1, <2>2, <2>3, <2>4
<1>3. CASE Return(c)
  <2>0. request[c] \in Requests
    BY <1>3 DEF Return, Calls
  <2>1. TypeOK'
    BY <1>3, <2>0 DEF Return, TypeOK, Leave, Answer, flags, ticker, stoppers
  <2>2. Claims' /\ Calls'
    BY <1>3 DEF Return, Claims, Calls, Leave, TypeOK, ticker
  <2>3. Outcomes'
    BY <1>3, <2>0 DEF Return, Outcomes, CancelledNeverRuns,
                      TrueMeansCompleted, Answer, TypeOK
  <2> QED
    BY <2>1, <2>2, <2>3
<1>4. CASE TimeOut(c)
  <2>1. TypeOK'
    BY <1>4 DEF TimeOut, TypeOK, flags, ticker, stoppers
  <2>2. Claims' /\ Calls' /\ Outcomes'
    BY <1>4 DEF TimeOut, Claims, Calls, Outcomes, CancelledNeverRuns,
                TrueMeansCompleted, TypeOK, ticker
  <2> QED
    BY <2>1, <2>2
<1>5. CASE GiveUp(c)
  <2>0. request[c] \in Requests
    BY <1>5 DEF GiveUp, Calls
  <2>1. TypeOK'
    BY <1>5, <2>0 DEF GiveUp, TypeOK, SetStatus, Leave, Answer, Statuses,
                      Terminal, flags, ticker, stoppers
  <2>2. Claims'
    BY <1>5, <2>0 DEF GiveUp, Claims, SetStatus, TypeOK, ticker
  <2>3. Calls'
    BY <1>5 DEF GiveUp, Calls, Leave, TypeOK
  <2>4. /\ status' = (IF status[request[c]] = "Pending"
                       THEN [status EXCEPT ![request[c]] = "Cancelled"]
                       ELSE status)
        /\ answer' = [answer EXCEPT ![request[c]] = "false"]
        /\ runs' = runs
    BY <1>5 DEF GiveUp, SetStatus, Answer
  <2>5. Outcomes'
    <3>1. \A q \in Requests :
            \/ status'[q] = status[q]
            \/ status[q] = "Pending" /\ status'[q] = "Cancelled"
      BY <2>0, <2>4 DEF TypeOK
    <3>2. \A q \in Requests : answer'[q] = answer[q] \/ answer'[q] = "false"
      BY <2>0, <2>4 DEF TypeOK
    <3> QED
      BY <2>4, <3>1, <3>2 DEF Outcomes, CancelledNeverRuns,
                              TrueMeansCompleted, TypeOK
  <2> QED
    BY <2>1, <2>2, <2>3, <2>5
<1> QED
  BY <1>1, <1>2, <1>3, <1>4, <1>5 DEF CallNext

----------------------------------------------------------------------------
(* The steps of the tick thread and of threads that stop the server.       *)

LEMMA TickKeeps ==
  ASSUME IInv, TickNext
  PROVE  IInv'
<1> USE DEF IInv
<1>1. CASE Bind \/ TickBegins \/ DrainEnds \/ ReleaseThread
  <2>1. TypeOK'
    <3>1. CASE Bind
      <4>1. accepting' \in BOOLEAN
        BY <3>1 DEF Bind, TypeOK
      <4> QED
        BY <3>1, <4>1 DEF Bind, TypeOK, TickStates, callers, stoppers
    <3>2. CASE TickBegins
      BY <3>2 DEF TickBegins, TypeOK, TickStates, flags, callers, stoppers
    <3>3. CASE DrainEnds
      BY <3>3 DEF DrainEnds, TypeOK, TickStates, flags, callers, stoppers
    <3>4. CASE ReleaseThread
      BY <3>4 DEF ReleaseThread, TypeOK, TickStates, callers, stoppers
    <3> QED
      BY <1>1, <3>1, <3>2, <3>3, <3>4
  <2>2. /\ UNCHANGED <<status, current, active, runs, call, request, answer>>
        /\ tick \notin {"run", "finish", "selfCancel"}
        /\ tick' \in TickStates \ {"run", "finish", "selfCancel"}
    BY <1>1 DEF Bind, TickBegins, DrainEnds, ReleaseThread, TickStates, callers
  <2>3. Claims'
    <3>1. current = NoRequest
      BY <2>2 DEF Claims, TypeOK
    <3> QED
      BY <2>2, <3>1 DEF Claims
  <2>4. Calls'
    BY <2>2 DEF Calls
  <2>5. Outcomes'
    BY <2>2 DEF Outcomes, CancelledNeverRuns, TrueMeansCompleted
  <2> QED
    BY <2>1, <2>3, <2>4, <2>5
<1>2. CASE DrainTake
  <2>1. Head(queue) \in Requests /\ Tail(queue) \in Seq(Requests)
    BY <1>2 DEF DrainTake, TypeOK
  <2>2. current = NoRequest /\ active = 0
    BY <1>2 DEF DrainTake, Claims, TickStates
  <2>3. TypeOK'
    <3>1. /\ status' \in [Requests -> Statuses]
          /\ current' \in Requests \cup {NoRequest}
          /\ tick' \in TickStates
      BY <1>2, <2>1 DEF DrainTake, TypeOK, TickStates, SetStatus, Statuses
    <3>2. active' \in {0, 1} /\ budget' \in Nat
      BY <1>2, <2>2 DEF DrainTake, TypeOK
    <3>3. queue' \in Seq(Requests)
      BY <1>2, <2>1 DEF DrainTake
    <3> QED
      BY <1>2, <3>1, <3>2, <3>3 DEF DrainTake, TypeOK, flags, callers, stoppers
  <2>4. Claims'
    BY <1>2, <2>1, <2>2 DEF DrainTake, Claims, TickStates, SetStatus, TypeOK
  <2>5. Outcomes'
    BY <1>2, <2>1 DEF DrainTake, Outcomes, CancelledNeverRuns,
                      TrueMeansCompleted, SetStatus, TypeOK, callers
  <2>6. Calls'
    BY <1>2 DEF DrainTake, Calls, callers
  <2> QED
    BY <2>3, <2>4, <2>5, <2>6
<1>3. CASE RunTask
  <2>1. current \in Requests /\ status[current] = "Running"
    BY <1>3 DEF RunTask, Claims, TypeOK
  <2>2. runs[current] = 0
    <3>1. runs[current] \in Nat
      BY <2>1 DEF TypeOK
    <3>2. runs[current] <= 1 /\ runs[current] # 1
      BY <2>1 DEF Outcomes, CancelledNeverRuns
    <3> QED
      BY <3>1, <3>2
  <2>3. TypeOK'
    BY <1>3, <2>1 DEF RunTask, TypeOK, TickStates, SetStatus, Statuses,
                      Terminal, flags, callers, stoppers
  <2>4. Claims'
    BY <1>3, <2>1 DEF RunTask, Claims, TickStates, SetStatus, TypeOK
  <2>5. Outcomes'
    BY <1>3, <2>1, <2>2 DEF RunTask, Outcomes, CancelledNeverRuns,
                            TrueMeansCompleted, SetStatus, TypeOK, callers
  <2>6. Calls'
    BY <1>3 DEF RunTask, Calls, callers
  <2> QED
    BY <2>3, <2>4, <2>5, <2>6
<1>4. CASE FinishTask
  <2>1. active = 1 /\ current \in Requests /\ current # NoRequest
    BY <1>4 DEF FinishTask, Claims, TypeOK
  <2>2. TypeOK'
    BY <1>4, <2>1 DEF FinishTask, TypeOK, TickStates, flags, callers, stoppers
  <2>3. Claims'
    BY <1>4, <2>1 DEF FinishTask, Claims, TickStates
  <2>4. Outcomes' /\ Calls'
    BY <1>4 DEF FinishTask, Outcomes, CancelledNeverRuns, TrueMeansCompleted,
                Calls, callers
  <2> QED
    BY <2>2, <2>3, <2>4
<1>5. CASE TickTakesQueue
  <2>1. TickThread \in Cancellers
    BY DEF Cancellers
  <2>2. TakeQueue(TickThread)
    BY <1>5 DEF TickTakesQueue
  <2>3. TypeOK'
    <3>1. /\ accepting' \in BOOLEAN /\ queue' \in Seq(Requests)
          /\ removed' \in [Cancellers -> SUBSET Requests]
          /\ taken' \in [Cancellers -> Nat]
          /\ cleanups' \in Int
      BY <2>1, <2>2, TakeQueueTypes
    <3>2. tick' \in TickStates
      BY <1>5 DEF TickTakesQueue, TickStates
    <3>3. running' \in BOOLEAN
      BY <1>5 DEF TickTakesQueue, TypeOK
    <3> QED
      BY <1>5, <3>1, <3>2, <3>3 DEF TickTakesQueue, TypeOK, callers
  <2>4. Claims' /\ Calls' /\ Outcomes'
    BY <1>5 DEF TickTakesQueue, Claims, Calls, Outcomes, CancelledNeverRuns,
                TrueMeansCompleted, TickStates, callers
  <2> QED
    BY <2>3, <2>4
<1>6. CASE TickCancels
  <2>1. TickThread \in Cancellers
    BY DEF Cancellers
  <2>2. CASE CancelOne(TickThread) /\ UNCHANGED tick
    <3>1. TypeOK'
      BY <1>6, <2>1, <2>2, CancelOneEffect
         DEF TickCancels, TypeOK, flags, callers
    <3> QED
      BY <1>6, <2>1, <2>2, <3>1, CancelOneEffect, CancellationKeeps
         DEF TickCancels, callers
  <2>3. CASE /\ CancelEnds(TickThread)
             /\ tick' = IF tick = "cancel" THEN "gone"
                        ELSE IF current = NoRequest THEN "tick" ELSE "run"
    <3>1. TypeOK'
      BY <1>6, <2>1, <2>3, CancelEndsEffect
         DEF TickCancels, TypeOK, TickStates, flags, callers
    <3> QED
      BY <1>6, <2>1, <2>3, <3>1, CancelEndsEffect, CancellationKeeps
         DEF TickCancels, callers
  <2> QED
    BY <1>6, <2>2, <2>3 DEF TickCancels
<1> QED
  BY <1>1, <1>2, <1>3, <1>4, <1>5, <1>6 DEF TickNext

\* Steps that any thread may cause on the tick thread or on the flags.
LEMMA InlineKeeps ==
  ASSUME IInv, NEW r \in Requests, RunInline(r)
  PROVE  IInv'
<1> USE DEF IInv
<1>1. status[r] = "unused" /\ tick \in {"unborn", "tick", "run"}
  BY DEF RunInline
<1>2. runs[r] = 0
  <2>1. runs[r] \in Nat
    BY DEF TypeOK
  <2>2. runs[r] <= 1 /\ runs[r] # 1
    BY <1>1 DEF Outcomes, CancelledNeverRuns
  <2> QED
    BY <2>1, <2>2
<1>3. PICK end \in {"Completed", "Failed", "Cancelled"} :
        /\ status' = [status EXCEPT ![r] = end]
        /\ answer' = [answer EXCEPT ![r] = IF end = "Completed" THEN "true"
                                                              ELSE "false"]
        /\ runs' = IF end = "Cancelled" THEN runs
                                       ELSE [runs EXCEPT ![r] = @ + 1]
  BY DEF RunInline, SetStatus, Answer
<1>4. TypeOK'
  <2>1. /\ status' \in [Requests -> Statuses]
        /\ answer' \in [Requests -> {"none", "true", "false"}]
    BY <1>3 DEF TypeOK, Statuses, Terminal
  <2>2. runs' \in [Requests -> Nat]
    BY <1>3 DEF TypeOK
  <2> QED
    BY <2>1, <2>2 DEF RunInline, TypeOK, flags, ticker, stoppers
<1>5. Claims'
  BY <1>1, <1>3 DEF RunInline, Claims, TypeOK, ticker
<1>6. Calls'
  BY DEF RunInline, Calls
<1>7. CancelledNeverRuns'
  BY <1>1, <1>2, <1>3 DEF Outcomes, CancelledNeverRuns, TypeOK
<1>8. TrueMeansCompleted'
  BY <1>3 DEF Outcomes, TrueMeansCompleted, TypeOK
<1> QED
  BY <1>4, <1>5, <1>6, <1>7, <1>8 DEF Outcomes

LEMMA FlagsKeep ==
  ASSUME IInv, Start \/ RequestStop \/ SelfStop
  PROVE  IInv'
<1> USE DEF IInv
<1>1. CASE Start
  <2>1. TypeOK'
    BY <1>1 DEF Start, TypeOK, TickStates, callers, stoppers
  <2>2. Claims' /\ Calls' /\ Outcomes'
    BY <1>1 DEF Start, Claims, Calls, Outcomes, CancelledNeverRuns,
                TrueMeansCompleted, TickStates, callers
  <2> QED
    BY <2>1, <2>2
<1>2. CASE RequestStop
  <2>1. TypeOK'
    BY <1>2 DEF RequestStop, TypeOK, ticker, callers, stoppers
  <2> QED
    BY <1>2, <2>1, OthersKeep DEF RequestStop, ticker, callers
<1>3. CASE SelfStop
  <2>1. TickThread \in Cancellers
    BY DEF Cancellers
  <2>2. TakeQueue(TickThread)
    BY <1>3 DEF SelfStop
  <2>3. TypeOK'
    <3>1. /\ accepting' \in BOOLEAN /\ queue' \in Seq(Requests)
          /\ removed' \in [Cancellers -> SUBSET Requests]
          /\ taken' \in [Cancellers -> Nat]
          /\ cleanups' \in Int
      BY <2>1, <2>2, TakeQueueTypes
    <3>2. tick' \in TickStates
      BY <1>3 DEF SelfStop, TickStates
    <3>3. running' \in BOOLEAN
      BY <1>3 DEF SelfStop, TypeOK
    <3> QED
      BY <1>3, <3>1, <3>2, <3>3 DEF SelfStop, TypeOK, callers
  <2>4. Claims'
    BY <1>3 DEF SelfStop, Claims, TickStates
  <2>5. Calls' /\ Outcomes'
    BY <1>3 DEF SelfStop, Calls, Outcomes, CancelledNeverRuns,
                TrueMeansCompleted, callers
  <2> QED
    BY <2>3, <2>4, <2>5
<1> QED
  BY <1>1, <1>2, <1>3

LEMMA StopperMoves ==
  ASSUME TypeOK, NEW s \in Stopping, NEW place \in StopStates,
         StopperAt(s, place)
  PROVE  stopper' \in [Stopping -> StopStates]
BY DEF TypeOK, StopperAt

LEMMA StoppersKeep ==
  ASSUME IInv, NEW s \in Stopping,
         StopRuntime(s) \/ Stop(s) \/ SessionStop(s) \/ StopNext(s)
  PROVE  IInv'
<1> USE DEF IInv
<1>0. s \in Cancellers /\ {"idle", "away", "selfCancel", "take", "cancel",
                           "wait", "join", "done"} = StopStates
  BY DEF Cancellers, StopStates
<1>1. CASE StopRuntime(s)
  <2>1. TypeOK'
    BY <1>0, <1>1 DEF StopRuntime, StopperAt, TypeOK, flags, ticker, callers
  <2> QED
    BY <1>1, <2>1, OthersKeep DEF StopRuntime, ticker, callers
<1>2. CASE Stop(s)
  <2>1. stopper' \in [Stopping -> StopStates]
    BY <1>0, <1>2, StopperMoves DEF Stop
  <2>2. running' \in BOOLEAN /\ shutdown' \in BOOLEAN
    BY <1>2 DEF Stop, TypeOK
  <2>3. TypeOK'
    BY <1>2, <2>1, <2>2 DEF Stop, TypeOK, ticker, callers
  <2> QED
    BY <1>2, <2>3, OthersKeep DEF Stop, ticker, callers
<1>3. CASE SessionStop(s) \/ StopTakesQueue(s)
  <2>1. TakeQueue(s)
    BY <1>3 DEF SessionStop, StopTakesQueue
  <2>2. /\ accepting' \in BOOLEAN /\ queue' \in Seq(Requests)
        /\ removed' \in [Cancellers -> SUBSET Requests]
        /\ taken' \in [Cancellers -> Nat]
        /\ cleanups' \in Int
    BY <1>0, <2>1, TakeQueueTypes
  <2>3. stopper' \in [Stopping -> StopStates]
    BY <1>0, <1>3, StopperMoves DEF SessionStop, StopTakesQueue
  <2>4. running' \in BOOLEAN
    BY <1>3 DEF SessionStop, StopTakesQueue, TypeOK
  <2>5. TypeOK'
    BY <1>3, <2>2, <2>3, <2>4
       DEF SessionStop, StopTakesQueue, TypeOK, ticker, callers
  <2> QED
    BY <1>3, <2>5, OthersKeep DEF SessionStop, StopTakesQueue, ticker, callers
<1>4. CASE StopCancels(s)
  <2>1. CASE CancelOne(s) /\ UNCHANGED stopper
    <3>1. TypeOK'
      BY <1>0, <1>4, <2>1, CancelOneEffect
         DEF StopCancels, TypeOK, flags, ticker, callers
    <3> QED
      BY <1>0, <1>4, <2>1, <3>1, CancelOneEffect, CancellationKeeps
         DEF StopCancels, ticker, callers
  <2>2. ASSUME CancelEnds(s), NEW place \in StopStates, StopperAt(s, place)
        PROVE  IInv'
    <3>1. stopper' \in [Stopping -> StopStates]
      BY <2>2, StopperMoves
    <3>2. TypeOK'
      BY <1>0, <1>4, <2>2, <3>1, CancelEndsEffect
         DEF StopCancels, TypeOK, flags, ticker, callers
    <3> QED
      BY <1>0, <1>4, <2>2, <3>2, CancelEndsEffect, OthersKeep
         DEF StopCancels, ticker, callers
  <2> QED
    BY <1>0, <1>4, <2>1, <2>2 DEF StopCancels
<1>5. CASE WaitIdle(s) \/ JoinTick(s)
  <2>1. stopper' \in [Stopping -> StopStates]
    BY <1>0, <1>5, StopperMoves DEF WaitIdle, JoinTick, TypeOK
  <2>2. asleep' \subseteq Stopping
    BY <1>5 DEF WaitIdle, JoinTick, TypeOK
  <2>3. TypeOK'
    BY <1>5, <2>1, <2>2 DEF WaitIdle, JoinTick, TypeOK, flags, ticker, callers
  <2> QED
    BY <1>5, <2>3, OthersKeep DEF WaitIdle, JoinTick, ticker, callers
<1> QED
  BY <1>1, <1>2, <1>3, <1>4, <1>5 DEF StopNext

----------------------------------------------------------------------------

LEMMA StepKeeps == IInv /\ [Next]_vars => IInv'
<1> SUFFICES ASSUME IInv, [Next]_vars PROVE IInv'
  OBVIOUS
<1>1. ASSUME NEW c \in Callers, CallNext(c) PROVE IInv'
  BY <1>1, CallersKeep
<1>2. CASE Start \/ RequestStop \/ SelfStop
  BY <1>2, FlagsKeep
<1>3. CASE TickNext
  BY <1>3, TickKeeps
<1>4. ASSUME NEW r \in Requests, RunInline(r) PROVE IInv'
  BY <1>4, InlineKeeps
<1>5. ASSUME NEW s \in Stoppers, Stop(s) \/ SessionStop(s) PROVE IInv'
  BY <1>5, StoppersKeep DEF Stopping
<1>6. ASSUME NEW w \in Waiters, StopRuntime(w) PROVE IInv'
  BY <1>6, StoppersKeep DEF Stopping
<1>7. ASSUME NEW s \in Stopping, StopNext(s) PROVE IInv'
  BY <1>7, StoppersKeep
<1>8. CASE UNCHANGED vars
  <2>1. TypeOK'
    BY <1>8 DEF IInv, TypeOK, vars, flags, ticker, callers, stoppers
  <2> QED
    BY <1>8, <2>1, OthersKeep DEF vars, ticker, callers
<1> QED
  BY <1>1, <1>2, <1>3, <1>4, <1>5, <1>6, <1>7, <1>8 DEF Next

\* The invariant holds in every reachable state.
THEOREM ExecutorInvariant == Spec => []IInv
BY InitIInv, StepKeeps, PTL DEF Spec

\* Every variable of the executor has its type.
THEOREM ExecutorTypes == Spec => []TypeOK
<1>1. IInv => TypeOK
  BY DEF IInv
<1> QED
  BY <1>1, ExecutorInvariant, PTL

\* A task runs at most once and never after its caller got it cancelled, and a
\* caller that is told "true" had its task run to its end.
THEOREM OutcomesAgree == Spec => []Outcomes
<1>1. IInv => Outcomes
  BY DEF IInv
<1> QED
  BY <1>1, ExecutorInvariant, PTL

----------------------------------------------------------------------------
(* Stopping.                                                                *)

\* Where a stopping thread or the tick thread cancels what it took.
CancelPlaces == {"selfCancel", "cancel"}

\* One element for each request a thread has taken off and not accounted for.
Cleaning == UNION {{s} \X (1 .. taken[s]) : s \in Cancellers}

\* cleanups counts exactly that; only a thread that is cancelling has any.
Cleanups ==
    /\ IsFiniteSet(Cleaning) /\ cleanups = Cardinality(Cleaning)
    /\ \A s \in Cancellers : removed[s] # {} => taken[s] > 0
    /\ \A s \in Stopping : stopper[s] \notin CancelPlaces => taken[s] = 0
    /\ tick \notin CancelPlaces => taken[TickThread] = 0

\* A pending request is in the queue or in the hands of a thread that cancels.
Found ==
    \A r \in Requests : status[r] = "Pending" =>
        \/ \E i \in DOMAIN queue : queue[i] = r
        \/ \E s \in Cancellers : r \in removed[s]

\* No request waits or runs.
NothingLeft ==
    /\ \A r \in Requests : status[r] \notin {"Pending", "Running"}
    /\ current = NoRequest

\* What a stop of the server has reached stays so.
Stopped ==
    \A s \in Stoppers :
        /\ stopper[s] \in {"take", "cancel", "wait", "join", "done"} => shutdown
        /\ stopper[s] \in {"cancel", "wait", "join", "done"}
             => ~accepting /\ queue = << >>
        /\ stopper[s] \in {"join", "done"} => NothingLeft

\* The inductive invariant of stopping.
SInv == IInv /\ Cleanups /\ Found /\ Stopped

----------------------------------------------------------------------------

\* A thread that took n requests has n elements of Cleaning.
LEMMA RowSize ==
  ASSUME NEW s, NEW n \in Nat
  PROVE  IsFiniteSet({s} \X (1 .. n)) /\ Cardinality({s} \X (1 .. n)) = n
<1>1. IsFiniteSet(1 .. n) /\ Cardinality(1 .. n) = n
  <2>1. /\ IsFiniteSet(1 .. n)
        /\ Cardinality(1 .. n) = IF 1 > n THEN 0 ELSE n - 1 + 1
    BY FS_Interval
  <2> QED
    BY <2>1
<1>2. IsFiniteSet({s}) /\ Cardinality({s}) = 1
  BY FS_Singleton
<1> DEFINE I == 1 .. n
<1>3. Cardinality(I) = n /\ IsFiniteSet(I)
  BY <1>1
<1> HIDE DEF I
<1>4. /\ IsFiniteSet({s} \X I)
      /\ Cardinality({s} \X I) = Cardinality({s}) * Cardinality(I)
  BY <1>2, <1>3, FS_Product
<1>5. Cardinality({s} \X I) = 1 * n
  BY <1>2, <1>3, <1>4
<1> QED
  BY <1>4, <1>5 DEF I

\* A step that takes nothing off the queue and cancels nothing.
LEMMA QuietKeeps ==
  ASSUME SInv,
         UNCHANGED <<queue, removed, taken, cleanups>>,
         \A r \in Requests : status'[r] = "Pending" => status[r] = "Pending",
         \A s \in Stopping :
            stopper[s] \in CancelPlaces => stopper'[s] \in CancelPlaces,
         tick \in CancelPlaces => tick' \in CancelPlaces
  PROVE  Cleanups' /\ Found'
<1>1. Cleaning' = Cleaning
  BY DEF Cleaning
<1>2. Cleanups'
  BY <1>1 DEF SInv, Cleanups
<1>3. Found'
  BY DEF SInv, Found
<1> QED
  BY <1>2, <1>3

\* A step that moves no stopping thread of the server, opens nothing and adds
\* nothing keeps what those threads have reached.
LEMMA ReachedStays ==
  ASSUME Stopped,
         \A s \in Stoppers : stopper'[s] = stopper[s],
         shutdown => shutdown',
         shutdown /\ ~accepting => ~accepting',
         ~accepting /\ queue = << >> => queue' = << >>,
         ~accepting /\ queue = << >> /\ NothingLeft => NothingLeft'
  PROVE  Stopped'
BY DEF Stopped

LEMMA CallersSettle ==
  ASSUME SInv, NEW c \in Callers, CallNext(c)
  PROVE  Cleanups' /\ Found' /\ Stopped'
<1> USE DEF SInv, IInv
<1>1. ASSUME NEW r \in Requests, Submit(c, r)
      PROVE  Cleanups' /\ Found' /\ Stopped'
  <2>1. /\ queue' = Append(queue, r)
        /\ status' = [status EXCEPT ![r] = "Pending"]
        /\ accepting /\ accepting' = accepting /\ shutdown' = shutdown
        /\ UNCHANGED <<removed, taken, cleanups, stopper, tick>>
    BY <1>1 DEF Submit, SetStatus, Refuses, flags, stoppers, ticker
  <2>2. Cleaning' = Cleaning
    BY <2>1 DEF Cleaning
  <2>3. Cleanups'
    BY <2>1, <2>2 DEF Cleanups
  <2>4. /\ Len(queue) \in Nat /\ DOMAIN queue = 1 .. Len(queue)
        /\ DOMAIN queue' = 1 .. Len(queue) + 1
        /\ \A i \in DOMAIN queue : queue'[i] = queue[i]
        /\ queue'[Len(queue) + 1] = r
    BY <2>1 DEF TypeOK
  <2>5. Found'
    <3> SUFFICES ASSUME NEW q \in Requests, status'[q] = "Pending"
                 PROVE  \/ \E i \in DOMAIN queue' : queue'[i] = q
                        \/ \E s \in Cancellers : q \in removed'[s]
      BY DEF Found
    <3>1. CASE q = r
      BY <2>4, <3>1
    <3>2. CASE q # r
      <4>1. status[q] = "Pending"
        BY <2>1, <3>2 DEF TypeOK
      <4> QED
        BY <2>1, <2>4, <4>1 DEF Found
    <3> QED
      BY <3>1, <3>2
  <2>6. Stopped'
    BY <2>1 DEF Stopped
  <2> QED
    BY <2>3, <2>5, <2>6
<1>2. ASSUME NEW r \in Requests, Refuse(c, r)
      PROVE  Cleanups' /\ Found' /\ Stopped'
  <2>1. /\ status' = [status EXCEPT ![r] = "Cancelled"]
        /\ UNCHANGED <<queue, removed, taken, cleanups, stopper, tick, current,
                       accepting, shutdown>>
    BY <1>2 DEF Refuse, SetStatus, flags, stoppers, ticker
  <2>2. \A q \in Requests : status'[q] = status[q] \/ status'[q] = "Cancelled"
    BY <2>1 DEF TypeOK
  <2>3. Stopped'
    BY <2>1, <2>2, ReachedStays DEF NothingLeft
  <2> QED
    BY <2>1, <2>2, <2>3, QuietKeeps
<1>3. CASE Return(c) \/ TimeOut(c)
  <2>1. UNCHANGED <<queue, removed, taken, cleanups, stopper, tick, current,
                    accepting, shutdown, status>>
    BY <1>3 DEF Return, TimeOut, flags, stoppers, ticker
  <2>2. Stopped'
    BY <2>1, ReachedStays DEF NothingLeft
  <2> QED
    BY <2>1, <2>2, QuietKeeps
<1>4. CASE GiveUp(c)
  <2>1. /\ UNCHANGED <<queue, removed, taken, cleanups, stopper, tick, current,
                       accepting, shutdown>>
        /\ \/ status' = status
           \/ status' = [status EXCEPT ![request[c]] = "Cancelled"]
    BY <1>4 DEF GiveUp, SetStatus, flags, stoppers, ticker
  <2>2. \A q \in Requests : status'[q] = status[q] \/ status'[q] = "Cancelled"
    BY <2>1 DEF TypeOK
  <2>3. Stopped'
    BY <2>1, <2>2, ReachedStays DEF NothingLeft
  <2> QED
    BY <2>1, <2>2, <2>3, QuietKeeps
<1> QED
  BY <1>1, <1>2, <1>3, <1>4 DEF CallNext

\* Taking the queue over: every pending request is now in the taker's hands.
LEMMA TakeSettles ==
  ASSUME SInv, NEW s \in Cancellers, taken[s] = 0, TakeQueue(s),
         status' = status
  PROVE  /\ IsFiniteSet(Cleaning') /\ cleanups' = Cardinality(Cleaning')
         /\ \A u \in Cancellers : removed'[u] # {} => taken'[u] > 0
         /\ \A u \in Cancellers : u # s => taken'[u] = taken[u]
         /\ Found'
<1> USE DEF SInv, IInv
<1>1. /\ removed' = [removed EXCEPT ![s] = {queue[i] : i \in DOMAIN queue}]
      /\ taken' = [taken EXCEPT ![s] = Len(queue)]
      /\ cleanups' = cleanups + Len(queue) /\ queue' = << >>
  BY DEF TakeQueue
<1>2. Len(queue) \in Nat /\ DOMAIN queue = 1 .. Len(queue)
  BY DEF TypeOK
<1>3. /\ taken'[s] = Len(queue)
      /\ \A u \in Cancellers :
            u # s => taken'[u] = taken[u] /\ removed'[u] = removed[u]
      /\ removed'[s] = {queue[i] : i \in DOMAIN queue}
  BY <1>1 DEF TypeOK
<1>4. Cleaning' = Cleaning \cup ({s} \X (1 .. Len(queue)))
  <2>1. 1 .. taken[s] = {}
    OBVIOUS
  <2>2. \A u \in Cancellers : {u} \X (1 .. taken'[u]) =
           IF u = s THEN {s} \X (1 .. Len(queue)) ELSE {u} \X (1 .. taken[u])
    BY <1>3
  <2> QED
    BY <2>1, <2>2 DEF Cleaning
<1>5. Cleaning \cap ({s} \X (1 .. Len(queue))) = {}
  <2>1. 1 .. taken[s] = {}
    OBVIOUS
  <2> SUFFICES ASSUME NEW x \in Cleaning, x \in {s} \X (1 .. Len(queue))
               PROVE  FALSE
    OBVIOUS
  <2>2. PICK u \in Cancellers : x \in {u} \X (1 .. taken[u])
    BY DEF Cleaning
  <2>3. x[1] = s /\ x[1] = u /\ x[2] \in 1 .. taken[u]
    BY <2>2
  <2> QED
    BY <2>1, <2>3
<1>6. /\ IsFiniteSet({s} \X (1 .. Len(queue)))
      /\ Cardinality({s} \X (1 .. Len(queue))) = Len(queue)
  BY <1>2, RowSize
<1>7. IsFiniteSet(Cleaning') /\ cleanups' = Cardinality(Cleaning')
  <2> DEFINE D == {s} \X (1 .. Len(queue))
  <2>1. IsFiniteSet(Cleaning) /\ cleanups = Cardinality(Cleaning)
    BY DEF Cleanups
  <2>2. /\ IsFiniteSet(D) /\ Cardinality(D) = Len(queue)
        /\ Cleaning \cap D = {} /\ Cleaning' = Cleaning \cup D
    BY <1>4, <1>5, <1>6
  <2> HIDE DEF D
  <2>3. /\ IsFiniteSet(Cleaning \cup D)
        /\ Cardinality(Cleaning \cup D) = Cardinality(Cleaning) + Cardinality(D)
              - Cardinality(Cleaning \cap D)
    BY <2>1, <2>2, FS_Union
  <2>4. Cardinality(Cleaning \cap D) = 0
    BY <2>2, FS_EmptySet
  <2>5. cleanups \in Int
    BY DEF TypeOK
  <2> QED
    BY <1>1, <1>2, <2>1, <2>2, <2>3, <2>4, <2>5
<1>8. \A u \in Cancellers : removed'[u] # {} => taken'[u] > 0
  <2>1. removed'[s] # {} => taken'[s] > 0
    BY <1>2, <1>3
  <2> QED
    BY <1>3, <2>1 DEF Cleanups
<1>9. Found'
  <2> SUFFICES ASSUME NEW q \in Requests, status[q] = "Pending"
               PROVE  \E u \in Cancellers : q \in removed'[u]
    BY DEF Found
  <2>1. CASE \E i \in DOMAIN queue : queue[i] = q
    BY <1>3, <2>1
  <2>2. CASE \E u \in Cancellers : q \in removed[u]
    <3>1. removed[s] = {}
      BY DEF Cleanups
    <3> QED
      BY <1>3, <2>2, <3>1
  <2> QED
    BY <2>1, <2>2 DEF Found
<1> QED
  BY <1>3, <1>7, <1>8, <1>9

\* Cancelling one of them.
LEMMA CancelOneSettles ==
  ASSUME SInv, NEW s \in Cancellers, CancelOne(s), queue' = queue
  PROVE  /\ IsFiniteSet(Cleaning') /\ cleanups' = Cardinality(Cleaning')
         /\ \A u \in Cancellers : removed'[u] # {} => taken'[u] > 0
         /\ taken' = taken /\ Found'
         /\ \A q \in Requests :
               status'[q] = status[q] \/ status'[q] = "Cancelled"
<1> USE DEF SInv, IInv
<1>1. PICK r \in removed[s] :
        /\ status' = [status EXCEPT ![r] = IF @ = "Pending" THEN "Cancelled"
                                                            ELSE @]
        /\ removed' = [removed EXCEPT ![s] = @ \ {r}]
  BY DEF CancelOne
<1>2. r \in Requests /\ UNCHANGED <<taken, cleanups>>
  BY <1>1 DEF CancelOne, TypeOK
<1>3. \A u \in Cancellers : /\ removed'[u] \subseteq removed[u]
                            /\ \A q \in removed[u] : q = r \/ q \in removed'[u]
  BY <1>1 DEF TypeOK
<1>4. /\ status'[r] # "Pending"
      /\ \A q \in Requests :
            status'[q] = status[q] \/ status'[q] = "Cancelled"
  BY <1>1, <1>2 DEF TypeOK
<1>5. Cleaning' = Cleaning
  BY <1>2 DEF Cleaning
<1>6. Found'
  <2> SUFFICES ASSUME NEW q \in Requests, status'[q] = "Pending"
               PROVE  \/ \E i \in DOMAIN queue : queue[i] = q
                      \/ \E u \in Cancellers : q \in removed'[u]
    BY DEF Found
  <2>1. q # r /\ status[q] = "Pending"
    BY <1>4
  <2> QED
    BY <1>3, <2>1 DEF Found
<1>7. \A u \in Cancellers : removed'[u] # {} => taken'[u] > 0
  BY <1>2, <1>3 DEF Cleanups
<1> QED
  BY <1>2, <1>4, <1>5, <1>6, <1>7 DEF Cleanups

\* Accounting for all of them.
LEMMA CancelEndsSettles ==
  ASSUME SInv, NEW s \in Cancellers, CancelEnds(s), queue' = queue
  PROVE  /\ IsFiniteSet(Cleaning') /\ cleanups' = Cardinality(Cleaning')
         /\ \A u \in Cancellers : removed'[u] # {} => taken'[u] > 0
         /\ taken'[s] = 0 /\ \A u \in Cancellers : u # s => taken'[u] = taken[u]
         /\ Found' /\ status' = status
<1> USE DEF SInv, IInv
<1>1. /\ removed[s] = {} /\ cleanups' = cleanups - taken[s]
      /\ taken' = [taken EXCEPT ![s] = 0] /\ UNCHANGED <<status, removed>>
  BY DEF CancelEnds
<1>2. /\ taken'[s] = 0 /\ \A u \in Cancellers : u # s => taken'[u] = taken[u]
      /\ taken[s] \in Nat
  BY <1>1 DEF TypeOK
<1> DEFINE D == {s} \X (1 .. taken[s])
<1>3. Cleaning = Cleaning' \cup D /\ Cleaning' \cap D = {}
  <2>1. 1 .. taken'[s] = {}
    BY <1>2
  <2>2. \A u \in Cancellers : {u} \X (1 .. taken'[u]) =
           IF u = s THEN {} ELSE {u} \X (1 .. taken[u])
    BY <1>2, <2>1
  <2> QED
    BY <2>2 DEF Cleaning
<1>4. IsFiniteSet(D) /\ Cardinality(D) = taken[s]
  BY <1>2, RowSize
<1>5. IsFiniteSet(Cleaning') /\ cleanups' = Cardinality(Cleaning')
  <2> DEFINE C == Cleaning'
  <2>1. IsFiniteSet(Cleaning) /\ cleanups = Cardinality(Cleaning)
    BY DEF Cleanups
  <2>2. IsFiniteSet(C)
    BY <1>3, <2>1, FS_Subset
  <2>3. Cleaning = C \cup D /\ C \cap D = {}
    BY <1>3
  <2> HIDE DEF D, C
  <2>4. Cardinality(C \cup D) = Cardinality(C) + Cardinality(D)
              - Cardinality(C \cap D)
    BY <1>4, <2>2, FS_Union
  <2>5. Cardinality(C \cap D) = 0 /\ Cardinality(C) \in Nat
    BY <2>2, <2>3, FS_EmptySet, FS_CardinalityType
  <2>6. cleanups' = Cardinality(C)
    BY <1>1, <1>2, <1>4, <2>1, <2>3, <2>4, <2>5
  <2> QED
    BY <2>2, <2>6 DEF C
<1>6. \A u \in Cancellers : removed'[u] # {} => taken'[u] > 0
  BY <1>1, <1>2 DEF Cleanups
<1>7. Found'
  BY <1>1 DEF Found
<1> QED
  BY <1>1, <1>2, <1>5, <1>6, <1>7

\* A step after which what a thread took off is accounted for as TakeSettles
\* and CancelEndsSettles say, the thread being where it should.
LEMMA AccountsKeep ==
  ASSUME SInv, NEW s \in Cancellers,
         IsFiniteSet(Cleaning'), cleanups' = Cardinality(Cleaning'),
         \A u \in Cancellers : removed'[u] # {} => taken'[u] > 0,
         \A u \in Cancellers : u # s => taken'[u] = taken[u],
         \A u \in Stopping : u # s => stopper'[u] = stopper[u],
         s # TickThread => stopper'[s] \in CancelPlaces \/ taken'[s] = 0,
         s = TickThread => tick' \in CancelPlaces \/ taken'[s] = 0,
         s # TickThread => tick' = tick
  PROVE  Cleanups'
BY DEF SInv, Cleanups, Cancellers, Stopping, TickThread

\* The tick thread.
LEMMA TickSettles ==
  ASSUME SInv, TickNext
  PROVE  Cleanups' /\ Found' /\ Stopped'
<1> USE DEF SInv, IInv
<1>0. TickThread \in Cancellers /\ TickThread \notin Stopping
  BY DEF Cancellers, Stopping, TickThread
<1>1. CASE Bind \/ TickBegins \/ DrainEnds \/ FinishTask \/ ReleaseThread
  <2>1. /\ UNCHANGED <<queue, removed, taken, cleanups, stopper, status,
                       shutdown>>
        /\ current' = current \/ current' = NoRequest
        /\ tick \notin CancelPlaces
    BY <1>1 DEF Bind, TickBegins, DrainEnds, FinishTask, ReleaseThread, flags,
                callers, stoppers, CancelPlaces
  <2>2. shutdown /\ ~accepting => ~accepting'
    BY <1>1 DEF Bind, TickBegins, DrainEnds, FinishTask, ReleaseThread, flags
  <2>3. NothingLeft => NothingLeft'
    BY <2>1 DEF NothingLeft
  <2>4. Stopped'
    BY <2>1, <2>2, <2>3, ReachedStays
  <2> QED
    BY <2>1, <2>4, QuietKeeps
<1>2. CASE DrainTake
  <2> DEFINE h == Head(queue)
  <2>1. /\ tick = "drain" /\ accepting /\ accepting' = accepting
        /\ queue # << >> /\ queue' = Tail(queue)
        /\ UNCHANGED <<removed, taken, cleanups, stopper, shutdown>>
        /\ tick' \in {"drain", "run"}
        /\ status' = (IF status[h] = "Pending"
                       THEN [status EXCEPT ![h] = "Running"] ELSE status)
    BY <1>2 DEF DrainTake, SetStatus, flags, callers, stoppers
  <2>2. /\ Len(queue) \in Nat \ {0} /\ DOMAIN queue = 1 .. Len(queue)
        /\ h = queue[1] /\ h \in Requests
        /\ DOMAIN queue' = 1 .. Len(queue) - 1
        /\ \A i \in 1 .. Len(queue) - 1 : queue'[i] = queue[i + 1]
    BY <2>1 DEF TypeOK
  <2>3. \A q \in Requests :
           status'[q] = "Pending" => q # h /\ status[q] = "Pending"
    BY <2>1, <2>2 DEF TypeOK
  <2> HIDE DEF h
  <2>4. Found'
    <3> SUFFICES ASSUME NEW q \in Requests, status'[q] = "Pending"
                 PROVE  \/ \E i \in DOMAIN queue' : queue'[i] = q
                        \/ \E s \in Cancellers : q \in removed'[s]
      BY DEF Found
    <3>1. q # h /\ status[q] = "Pending"
      BY <2>3
    <3>2. CASE \E i \in DOMAIN queue : queue[i] = q
      <4>1. PICK i \in DOMAIN queue : queue[i] = q
        BY <3>2
      <4>2. i \in 1 .. Len(queue) /\ i # 1
        BY <2>2, <3>1, <4>1
      <4>3. i - 1 \in 1 .. Len(queue) - 1 /\ (i - 1) + 1 = i
        BY <2>2, <4>2
      <4> QED
        BY <2>2, <4>1, <4>3
    <3>3. CASE \E s \in Cancellers : q \in removed[s]
      BY <2>1, <3>3
    <3> QED
      BY <3>1, <3>2, <3>3 DEF Found
  <2>5. Cleaning' = Cleaning
    BY <2>1 DEF Cleaning
  <2>6. Cleanups'
    BY <2>1, <2>5 DEF Cleanups, CancelPlaces
  <2>7. Stopped'
    BY <2>1 DEF Stopped
  <2> QED
    BY <2>4, <2>6, <2>7
<1>3. CASE RunTask
  <2>1. /\ tick = "run" /\ current # NoRequest
        /\ UNCHANGED <<queue, removed, taken, cleanups, stopper, shutdown,
                       accepting>>
        /\ \/ status' = [status EXCEPT ![current] = "Completed"]
           \/ status' = [status EXCEPT ![current] = "Failed"]
    BY <1>3 DEF RunTask, SetStatus, flags, callers, stoppers, Claims
  <2>2. \A q \in Requests : status'[q] = "Pending" => status[q] = "Pending"
    BY <2>1 DEF TypeOK
  <2>3. ~NothingLeft
    BY <2>1 DEF NothingLeft
  <2>4. Stopped'
    BY <2>1, <2>3, ReachedStays
  <2> QED
    BY <2>1, <2>2, <2>4, QuietKeeps DEF CancelPlaces
<1>4. CASE TickTakesQueue
  <2>1. /\ TakeQueue(TickThread) /\ tick' = "cancel" /\ taken[TickThread] = 0
        /\ UNCHANGED <<status, stopper, shutdown, current>>
    BY <1>4 DEF TickTakesQueue, Cleanups, CancelPlaces
  <2>2. ~accepting' /\ queue' = << >>
    BY <2>1 DEF TakeQueue
  <2>3. Stopped'
    BY <2>1, <2>2, ReachedStays DEF NothingLeft
  <2>4. Cleanups' /\ Found'
    BY <1>0, <2>1, TakeSettles, AccountsKeep DEF CancelPlaces
  <2> QED
    BY <2>3, <2>4
<1>5. CASE TickCancels
  <2>1. /\ tick \in CancelPlaces
        /\ UNCHANGED <<queue, current, stopper, shutdown, accepting>>
    BY <1>5 DEF TickCancels, CancelPlaces, flags
  <2>2. CASE CancelOne(TickThread) /\ UNCHANGED tick
    <3>1. /\ IsFiniteSet(Cleaning') /\ cleanups' = Cardinality(Cleaning')
          /\ \A u \in Cancellers : removed'[u] # {} => taken'[u] > 0
          /\ taken' = taken /\ Found'
          /\ \A q \in Requests :
                status'[q] = status[q] \/ status'[q] = "Cancelled"
      BY <1>0, <2>1, <2>2, CancelOneSettles
    <3>2. Cleanups'
      BY <1>0, <2>1, <2>2, <3>1 DEF Cleanups
    <3>3. Stopped'
      BY <2>1, <3>1, ReachedStays DEF NothingLeft
    <3> QED
      BY <3>1, <3>2, <3>3
  <2>3. CASE CancelEnds(TickThread)
    <3>1. /\ IsFiniteSet(Cleaning') /\ cleanups' = Cardinality(Cleaning')
          /\ \A u \in Cancellers : removed'[u] # {} => taken'[u] > 0
          /\ taken'[TickThread] = 0
          /\ \A u \in Cancellers : u # TickThread => taken'[u] = taken[u]
          /\ Found' /\ status' = status
      BY <1>0, <2>1, <2>3, CancelEndsSettles
    <3>2. Cleanups'
      BY <1>0, <2>1, <3>1, AccountsKeep
    <3>3. Stopped'
      BY <2>1, <3>1, ReachedStays DEF NothingLeft
    <3> QED
      BY <3>1, <3>2, <3>3
  <2> QED
    BY <1>5, <2>2, <2>3 DEF TickCancels
<1> QED
  BY <1>1, <1>2, <1>3, <1>4, <1>5 DEF TickNext

\* Entering the loop, asking it to end, ending the server from a task, and a
\* call made on the owner's own thread.
LEMMA OwnerSettles ==
  ASSUME SInv,
         Start \/ RequestStop \/ SelfStop \/ \E r \in Requests : RunInline(r)
  PROVE  Cleanups' /\ Found' /\ Stopped'
<1> USE DEF SInv, IInv
<1>0. TickThread \in Cancellers /\ TickThread \notin Stopping
  BY DEF Cancellers, Stopping, TickThread
<1>1. CASE Start \/ RequestStop
  <2>1. /\ UNCHANGED <<queue, removed, taken, cleanups, stopper, status,
                       shutdown, accepting, current>>
        /\ tick \in CancelPlaces => tick' = tick
    BY <1>1 DEF Start, RequestStop, callers, stoppers, ticker, CancelPlaces
  <2>2. Stopped'
    BY <2>1, ReachedStays DEF NothingLeft
  <2> QED
    BY <2>1, <2>2, QuietKeeps
<1>2. CASE SelfStop
  <2>1. /\ TakeQueue(TickThread) /\ tick' = "selfCancel"
        /\ taken[TickThread] = 0
        /\ UNCHANGED <<status, stopper, shutdown, current>>
    BY <1>2 DEF SelfStop, Cleanups, CancelPlaces
  <2>2. ~accepting' /\ queue' = << >>
    BY <2>1 DEF TakeQueue
  <2>3. Stopped'
    BY <2>1, <2>2, ReachedStays DEF NothingLeft
  <2>4. Cleanups' /\ Found'
    BY <1>0, <2>1, TakeSettles, AccountsKeep DEF CancelPlaces
  <2> QED
    BY <2>3, <2>4
<1>3. ASSUME NEW r \in Requests, RunInline(r)
      PROVE  Cleanups' /\ Found' /\ Stopped'
  <2>1. /\ UNCHANGED <<queue, removed, taken, cleanups, stopper, shutdown,
                       accepting, current, tick>>
        /\ \E end \in {"Completed", "Failed", "Cancelled"} :
              status' = [status EXCEPT ![r] = end]
    BY <1>3 DEF RunInline, SetStatus, flags, ticker, stoppers
  <2>2. \A q \in Requests :
           \/ status'[q] = status[q]
           \/ status'[q] \in {"Completed", "Failed", "Cancelled"}
    BY <2>1 DEF TypeOK
  <2>3. Stopped'
    BY <2>1, <2>2, ReachedStays DEF NothingLeft
  <2> QED
    BY <2>1, <2>2, <2>3, QuietKeeps
<1> QED
  BY <1>1, <1>2, <1>3

\* An idle server has nothing left: no request runs, none is in the queue and
\* none is in the hands of a thread that cancels.
LEMMA IdleHasNothingLeft ==
  ASSUME SInv, Idle
  PROVE  NothingLeft
<1> USE DEF SInv, IInv
<1>1. active = 0 /\ queue = << >> /\ cleanups = 0
  BY DEF Idle
<1>2. current = NoRequest
  BY <1>1 DEF Claims
<1>3. \A r \in Requests : status[r] # "Running"
  BY <1>2 DEF Claims
<1>4. Cleaning = {}
  BY <1>1, FS_EmptySet DEF Cleanups
<1>5. \A u \in Cancellers : removed[u] = {}
  <2> SUFFICES ASSUME NEW u \in Cancellers, taken[u] > 0
               PROVE  FALSE
    BY DEF Cleanups
  <2>1. taken[u] \in Nat
    BY DEF TypeOK
  <2>2. <<u, 1>> \in {u} \X (1 .. taken[u])
    BY <2>1
  <2> QED
    BY <1>4, <2>2 DEF Cleaning
<1>6. DOMAIN queue = {}
  BY <1>1
<1>7. \A r \in Requests : status[r] # "Pending"
  BY <1>5, <1>6 DEF Found
<1> QED
  BY <1>2, <1>3, <1>7 DEF NothingLeft

\* A stopping thread's first step.
LEMMA StopBegins ==
  ASSUME SInv,
         \/ \E s \in Stoppers : Stop(s) \/ SessionStop(s)
         \/ \E w \in Waiters : StopRuntime(w)
  PROVE  Cleanups' /\ Found' /\ Stopped'
<1> USE DEF SInv, IInv
<1>1. ASSUME NEW s \in Stoppers, Stop(s)
      PROVE  Cleanups' /\ Found' /\ Stopped'
  <2>1. /\ stopper[s] = "idle"
        /\ UNCHANGED <<queue, removed, taken, cleanups, status, tick,
                       accepting, current>>
        /\ shutdown => shutdown'
        /\ \A u \in Stopping : u # s => stopper'[u] = stopper[u]
        /\ stopper'[s] = "away" \/ (stopper'[s] = "take" /\ shutdown')
    BY <1>1 DEF Stop, StopperAt, TypeOK, ticker, Stopping
  <2>2. Stopped'
    BY <2>1 DEF Stopped, NothingLeft, Stopping
  <2>3. \A u \in Stopping :
           stopper[u] \in CancelPlaces => stopper'[u] \in CancelPlaces
    BY <2>1 DEF CancelPlaces
  <2> QED
    BY <2>1, <2>2, <2>3, QuietKeeps
<1>2. ASSUME NEW s \in Stoppers, SessionStop(s)
      PROVE  Cleanups' /\ Found' /\ Stopped'
  <2>1. s \in Cancellers /\ s \in Stopping /\ s # TickThread
    BY DEF Cancellers, Stopping, TickThread
  <2>2. /\ stopper[s] = "idle" /\ TakeQueue(s)
        /\ UNCHANGED <<shutdown, status, tick, current>>
        /\ \A u \in Stopping : u # s => stopper'[u] = stopper[u]
        /\ stopper'[s] = "selfCancel"
    BY <1>2, <2>1 DEF SessionStop, StopperAt, TypeOK, ticker
  <2>3. taken[s] = 0
    BY <2>1, <2>2 DEF Cleanups, CancelPlaces
  <2>4. Cleanups' /\ Found'
    BY <2>1, <2>2, <2>3, TakeSettles, AccountsKeep DEF CancelPlaces
  <2>5. ~accepting' /\ queue' = << >>
    BY <2>2 DEF TakeQueue
  <2>6. Stopped'
    BY <2>2, <2>5 DEF Stopped, NothingLeft, Stopping
  <2> QED
    BY <2>4, <2>6
<1>3. ASSUME NEW w \in Waiters, StopRuntime(w)
      PROVE  Cleanups' /\ Found' /\ Stopped'
  <2>1. /\ stopper[w] = "idle" /\ w \notin Stoppers
        /\ UNCHANGED <<queue, removed, taken, cleanups, status, tick, accepting,
                       current, shutdown>>
        /\ \A u \in Stopping : u # w => stopper'[u] = stopper[u]
    BY <1>3 DEF StopRuntime, StopperAt, TypeOK, flags, ticker, Stopping
  <2>2. \A s \in Stoppers : stopper'[s] = stopper[s]
    BY <2>1 DEF Stopping
  <2>3. Stopped'
    BY <2>1, <2>2, ReachedStays DEF NothingLeft
  <2>4. \A u \in Stopping :
           stopper[u] \in CancelPlaces => stopper'[u] \in CancelPlaces
    BY <2>1 DEF CancelPlaces
  <2> QED
    BY <2>1, <2>3, <2>4, QuietKeeps
<1> QED
  BY <1>1, <1>2, <1>3

\* Its later steps.
LEMMA StopSettles ==
  ASSUME SInv, NEW s \in Stopping, StopNext(s)
  PROVE  Cleanups' /\ Found' /\ Stopped'
<1> USE DEF SInv, IInv
<1>0. s \in Cancellers /\ s # TickThread
  BY DEF Cancellers, Stopping, TickThread
<1>1. CASE StopTakesQueue(s)
  <2>1. /\ stopper[s] = "take" /\ TakeQueue(s)
        /\ UNCHANGED <<shutdown, status, tick, current>>
        /\ \A u \in Stopping : u # s => stopper'[u] = stopper[u]
        /\ stopper'[s] = "cancel"
    BY <1>1 DEF StopTakesQueue, StopperAt, TypeOK, ticker
  <2>2. taken[s] = 0
    BY <2>1 DEF Cleanups, CancelPlaces
  <2>3. Cleanups' /\ Found'
    BY <1>0, <2>1, <2>2, TakeSettles, AccountsKeep DEF CancelPlaces
  <2>4. ~accepting' /\ queue' = << >>
    BY <2>1 DEF TakeQueue
  <2>5. Stopped'
    BY <2>1, <2>4 DEF Stopped, NothingLeft, Stopping
  <2> QED
    BY <2>3, <2>5
<1>2. CASE StopCancels(s)
  <2>1. /\ stopper[s] \in CancelPlaces
        /\ UNCHANGED <<queue, current, tick, shutdown, accepting>>
    BY <1>2 DEF StopCancels, CancelPlaces, flags, ticker
  <2>2. CASE CancelOne(s) /\ UNCHANGED stopper
    <3>1. /\ IsFiniteSet(Cleaning') /\ cleanups' = Cardinality(Cleaning')
          /\ \A u \in Cancellers : removed'[u] # {} => taken'[u] > 0
          /\ taken' = taken /\ Found'
          /\ \A q \in Requests :
                status'[q] = status[q] \/ status'[q] = "Cancelled"
      BY <1>0, <2>1, <2>2, CancelOneSettles
    <3>2. Cleanups'
      BY <2>1, <2>2, <3>1 DEF Cleanups
    <3>3. Stopped'
      BY <2>1, <2>2, <3>1, ReachedStays DEF NothingLeft
    <3> QED
      BY <3>1, <3>2, <3>3
  <2>3. CASE /\ CancelEnds(s)
             /\ StopperAt(s, IF stopper[s] = "cancel" THEN "wait" ELSE "away")
    <3>1. /\ IsFiniteSet(Cleaning') /\ cleanups' = Cardinality(Cleaning')
          /\ \A u \in Cancellers : removed'[u] # {} => taken'[u] > 0
          /\ taken'[s] = 0
          /\ \A u \in Cancellers : u # s => taken'[u] = taken[u]
          /\ Found' /\ status' = status
      BY <1>0, <2>1, <2>3, CancelEndsSettles
    <3>2. /\ \A u \in Stopping : u # s => stopper'[u] = stopper[u]
          /\ \/ stopper'[s] = "wait" /\ stopper[s] = "cancel"
             \/ stopper'[s] = "away"
      BY <2>1, <2>3 DEF StopperAt, TypeOK
    <3>3. Cleanups'
      BY <1>0, <2>1, <3>1, <3>2, AccountsKeep
    <3>4. Stopped'
      BY <2>1, <3>1, <3>2 DEF Stopped, NothingLeft, Stopping
    <3> QED
      BY <3>1, <3>3, <3>4
  <2> QED
    BY <1>2, <2>2, <2>3 DEF StopCancels
<1>3. CASE WaitIdle(s)
  <2>1. /\ stopper[s] = "wait"
        /\ UNCHANGED <<queue, removed, taken, cleanups, status, tick, accepting,
                       current, shutdown>>
        /\ \/ /\ Idle
              /\ StopperAt(s, IF s \in Waiters THEN "done" ELSE "join")
           \/ UNCHANGED stopper
    BY <1>3 DEF WaitIdle, flags, ticker
  <2>2. /\ \A u \in Stopping : u # s => stopper'[u] = stopper[u]
        /\ stopper'[s] # stopper[s] => Idle
    BY <2>1 DEF StopperAt, TypeOK
  <2>3. stopper'[s] # stopper[s] => NothingLeft
    BY <2>2, IdleHasNothingLeft
  <2>4. Stopped'
    BY <2>1, <2>2, <2>3 DEF Stopped, NothingLeft, Stopping
  <2>5. \A u \in Stopping :
           stopper[u] \in CancelPlaces => stopper'[u] \in CancelPlaces
    BY <2>1, <2>2 DEF CancelPlaces
  <2> QED
    BY <2>1, <2>4, <2>5, QuietKeeps
<1>4. CASE JoinTick(s)
  <2>1. /\ stopper[s] = "join"
        /\ UNCHANGED <<queue, removed, taken, cleanups, status, tick, accepting,
                       current, shutdown>>
        /\ \A u \in Stopping : u # s => stopper'[u] = stopper[u]
    BY <1>4 DEF JoinTick, StopperAt, TypeOK, flags, ticker
  <2>2. Stopped'
    BY <2>1 DEF Stopped, NothingLeft, Stopping
  <2>3. \A u \in Stopping :
           stopper[u] \in CancelPlaces => stopper'[u] \in CancelPlaces
    BY <2>1 DEF CancelPlaces
  <2> QED
    BY <2>1, <2>2, <2>3, QuietKeeps
<1> QED
  BY <1>1, <1>2, <1>3, <1>4 DEF StopNext

LEMMA InitSInv == Init => SInv
<1> SUFFICES ASSUME Init PROVE SInv
  OBVIOUS
<1>1. \A s \in Cancellers : taken[s] = 0 /\ removed[s] = {}
  BY DEF Init
<1>2. Cleaning = {}
  <2>1. \A s \in Cancellers : 1 .. taken[s] = {}
    BY <1>1
  <2>2. \A s \in Cancellers : {s} \X (1 .. taken[s]) = {}
    BY <2>1
  <2> QED
    BY <2>2 DEF Cleaning
<1>3. IsFiniteSet(Cleaning) /\ Cardinality(Cleaning) = 0
  BY <1>2, FS_EmptySet
<1>4. Cleanups
  BY <1>1, <1>3 DEF Cleanups, Init, Cancellers
<1>5. Found /\ Stopped
  BY DEF Init, Found, Stopped, Stopping
<1> QED
  BY <1>4, <1>5, InitIInv DEF SInv

LEMMA StepSettles == SInv /\ [Next]_vars => SInv'
<1> SUFFICES ASSUME SInv, [Next]_vars PROVE SInv'
  OBVIOUS
<1>0. IInv'
  BY StepKeeps DEF SInv
<1>1. CASE Next
  BY <1>0, <1>1, CallersSettle, TickSettles, OwnerSettles, StopBegins,
     StopSettles DEF Next, SInv
<1>2. CASE UNCHANGED vars
  <2>1. UNCHANGED <<queue, removed, taken, cleanups, stopper, status, shutdown,
                    accepting, current, tick>>
    BY <1>2 DEF vars, flags, callers, stoppers, ticker
  <2>2. Stopped'
    BY <2>1, ReachedStays DEF SInv, NothingLeft
  <2> QED
    BY <1>0, <2>1, <2>2, QuietKeeps DEF SInv
<1> QED
  BY <1>1, <1>2

\* What the idle wait reads agrees with what goes on, and once a stop of the
\* server has waited no task is left and none can start: what the tasks use
\* may be destroyed.
THEOREM StopFindsNothing == Spec => []StopFindsNone
<1>1. SInv => CountsAreExact
  <2> SUFFICES ASSUME SInv PROVE CountsAreExact
    OBVIOUS
  <2> USE DEF SInv, IInv
  <2>1. cleanups \in Nat
    BY FS_CardinalityType DEF Cleanups
  <2>2. (\E s \in Cancellers : removed[s] # {}) => cleanups # 0
    <3> SUFFICES ASSUME NEW s \in Cancellers, removed[s] # {}, cleanups = 0
                 PROVE  FALSE
      OBVIOUS
    <3>1. taken[s] > 0 /\ taken[s] \in Nat
      BY DEF Cleanups, TypeOK
    <3>2. <<s, 1>> \in {s} \X (1 .. taken[s])
      BY <3>1
    <3>3. Cleaning = {}
      BY FS_EmptySet DEF Cleanups
    <3> QED
      BY <3>2, <3>3 DEF Cleaning
  <2>3. active = (IF current = NoRequest THEN 0 ELSE 1)
    BY DEF Claims
  <2>4. \A r \in Requests : status[r] = "Running" => active = 1
    BY DEF Claims
  <2> QED
    BY <2>1, <2>2, <2>3, <2>4 DEF CountsAreExact
<1>2. SInv => NothingRunsAfterStop
  BY DEF SInv, Stopped, NothingLeft, NothingRunsAfterStop
<1>3. SInv => StopFindsNone
  BY <1>1, <1>2 DEF StopFindsNone
<1> QED
  BY <1>3, InitSInv, StepSettles, PTL DEF Spec
=============================================================================

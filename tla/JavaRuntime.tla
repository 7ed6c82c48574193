---------------------------- MODULE JavaRuntime ----------------------------
(***************************************************************************)
(* The Java machine inside the server: who may create it, when Java and    *)
(* C++ may call each other, and how it is taken down.                      *)
(*                                                                         *)
(* A process has one machine at most.  A JvmRuntime that wants it claims   *)
(* the process, creates the machine, publishes itself and lets the mods    *)
(* start.  From then on the tick and the sessions call into Java one at a  *)
(* time, Java calls back on any thread of its own, and what Java changes   *)
(* is put on the server's queue.  stop publishes a fence, drops the queue, *)
(* waits for whoever is still inside, and destroys the machine; when that  *)
(* fails the process is done with Java for good.                           *)
(*                                                                         *)
(* Abstracted: which callback and which native it is, what they pass and   *)
(* answer; how classes and methods are found (that it can fail at each     *)
(* point is kept); handles (JavaHandles); the server's queue itself        *)
(* (ServerExecutor).  A stop out of a callback, which puts the teardown    *)
(* off, is not modelled: no native stops the server.                       *)
(***************************************************************************)
EXTENDS Naturals, SequencesExt

CONSTANTS
  Runtimes,     \* JvmRuntime objects
  Tick,         \* the server's thread
  Sessions,     \* other threads of the server that call into Java
  Mods,         \* threads that Java has created
  MaxStarts,    \* Bound: calls of start
  MaxFrames,    \* Bound: nesting of calls on one thread
  NoRuntime

JavaConstants ==
  /\ NoRuntime \notin Runtimes /\ MaxStarts \in Nat /\ MaxFrames \in Nat \ {0}
  /\ Tick \notin Sessions \cup Mods /\ Sessions \cap Mods = {}

Hosts == {Tick} \cup Sessions
Threads == Hosts \cup Mods

VARIABLES
  owner,       \* g_runtimeOwner
  poisoned,    \* g_runtimePermanentlyUnavailable
  live,        \* g_activeRuntime
  vm,          \* per runtime: none, up, or failed, which no one can use or undo
  started,     \* started
  stopping,    \* stopping
  lifetime,    \* accepting and generation of MutationLifetime
  refs,        \* global references and methods of this machine: none, those to
               \* call the launcher, or all, and then Java has its natives
  main,        \* where the thread is that starts and stops the runtime
  frames,      \* per thread the calls it is in, the innermost last
  request,     \* per thread what it has put on the server's queue
  starts       \* calls of start so far

process == <<owner, poisoned, live>>
java == <<process, vm, started, stopping, lifetime, refs, main, frames, request, starts>>

NoRequest == [st |-> "none", r |-> NoRuntime, gen |-> 0]
Top(t) == Last(frames[t])
Inside(t, kinds) == frames[t] # <<>> /\ Top(t).k \in kinds

\* Frames that hold a RuntimeCallLease; g_callRuntime is the innermost one's.
\* early: a native that may be called before started (nativeLog).
Leased == {"call", "native", "early"}
Calls(r) ==
  {c \in Threads \X (1 .. MaxFrames) :
     LET t == c[1]  i == c[2]
     IN  i \in DOMAIN frames[t] /\ frames[t][i].k \in Leased /\ frames[t][i].r = r}
InRuntime(t, r) ==
  LET leased == SelectSeq(frames[t], LAMBDA f : f.k \in Leased)
  IN  leased # <<>> /\ Last(leased).r = r

\* callMutex: held by threads in a callback, by all of start and by the end of
\* stop.
HeldBy(t, r) == \E i \in DOMAIN frames[t] : frames[t][i].r = r /\ frames[t][i].k \in {"entered", "call"}
Starting == {"claimed", "created", "resolving", "bootstrap"}
HeldByMain(r) == main[r].at \in Starting \cup {"shutdown"} \/ main[r].within
CallMutexFree(r) == ~HeldByMain(r) /\ \A t \in Threads : ~HeldBy(t, r)

At(p) == [at |-> p, within |-> FALSE]
Idle == At("idle")
Go(r, p) == main' = [main EXCEPT ![r].at = p]

Init ==
  /\ owner = NoRuntime /\ poisoned = FALSE /\ live = NoRuntime
  /\ vm = [r \in Runtimes |-> "none"]
  /\ started = [r \in Runtimes |-> FALSE] /\ stopping = [r \in Runtimes |-> FALSE]
  /\ lifetime = [r \in Runtimes |-> [accepting |-> TRUE, gen |-> 1]]
  /\ refs = [r \in Runtimes |-> "none"] /\ main = [r \in Runtimes |-> Idle]
  /\ frames = [t \in Threads |-> <<>>] /\ request = [t \in Threads |-> NoRequest]
  /\ starts = 0
---------------------------------------------------------------------------
(* start, which holds stopMutex and callMutex until it returns.             *)

Accepting(l) == IF l.accepting THEN l ELSE [accepting |-> TRUE, gen |-> l.gen + 1]

\* claimRuntimeOwnership
MayClaim(r) == ~poisoned /\ owner \in {NoRuntime, r}

CallStart(r) ==
  /\ main[r].at = "idle" /\ starts < MaxStarts /\ CallMutexFree(r)
  /\ starts' = starts + 1
  /\ lifetime' = [lifetime EXCEPT ![r] = Accepting(@)]

\* It is started, or disabled by the configuration, or stopping, or has failed,
\* or there are no classes, or the process is somebody else's.
StartRefused(r) ==
  /\ CallStart(r)
  /\ UNCHANGED <<process, vm, started, stopping, refs, main, frames, request>>

Claim(r) ==
  /\ CallStart(r) /\ ~started[r] /\ ~stopping[r] /\ vm[r] # "failed"
  /\ MayClaim(r)
  /\ owner' = r /\ Go(r, "claimed")
  /\ UNCHANGED <<poisoned, live, vm, started, stopping, refs, frames, request>>

\* releaseRuntimeOwnership
Released(r) == IF owner = r THEN NoRuntime ELSE owner

\* No library of a Java machine, or none that can be loaded.
NoLibrary(r) ==
  /\ main[r].at = "claimed"
  /\ owner' = Released(r) /\ Go(r, "idle")
  /\ UNCHANGED <<poisoned, live, vm, started, stopping, lifetime, refs, frames, request, starts>>

\* JNI_CreateJavaVM: done; nothing done; or an error after a machine was made.
Create(r) ==
  /\ main[r].at = "claimed"
  /\ \/ vm' = [vm EXCEPT ![r] = "up"] /\ Go(r, "created") /\ UNCHANGED process
     \/ /\ owner' = Released(r) /\ Go(r, "idle")
        /\ UNCHANGED <<poisoned, live, vm>>
     \/ /\ vm' = [vm EXCEPT ![r] = "failed"] /\ poisoned' = TRUE /\ Go(r, "idle")
        /\ UNCHANGED <<owner, live>>
  /\ UNCHANGED <<started, stopping, lifetime, refs, frames, request, starts>>

\* The handle of the server exists before anyone can ask for it.
Publish(r) ==
  /\ main[r].at = "created"
  /\ stopping' = [stopping EXCEPT ![r] = FALSE] /\ live' = r /\ Go(r, "resolving")
  /\ UNCHANGED <<owner, poisoned, vm, started, lifetime, refs, frames, request, starts>>

\* registerBridge; resolveDispatchMethods
BridgeRegistered(r) == refs[r] = "all"
DispatchFound(r) == refs[r] # "none"

\* Classes and methods are found and kept; started goes up before the mods are
\* run, which call natives.  The launcher brings its own NativeBridge later;
\* without it the one on the class path is taken at once.
ResolveKnot(r) ==
  /\ main[r].at = "resolving"
  /\ refs' = [refs EXCEPT ![r] = "launcher"] /\ started' = [started EXCEPT ![r] = TRUE]
  /\ Go(r, "bootstrap")
  /\ UNCHANGED <<process, vm, stopping, lifetime, frames, request, starts>>

ResolveFallback(r) ==
  /\ main[r].at = "resolving"
  /\ refs' = [refs EXCEPT ![r] = "all"] /\ started' = [started EXCEPT ![r] = TRUE]
  /\ Go(r, "bootstrap")
  /\ UNCHANGED <<process, vm, stopping, lifetime, frames, request, starts>>

\* The launcher, in its bootstrap, hands over the NativeBridge of its loader.
InstallBridge(r) ==
  /\ main[r].at = "bootstrap" /\ ~stopping[r] /\ vm[r] = "up"
  /\ refs' = [refs EXCEPT ![r] = "all"]
  /\ UNCHANGED <<process, vm, started, stopping, lifetime, main, frames, request, starts>>

Bootstrapped(r) ==
  /\ main[r].at = "bootstrap" /\ BridgeRegistered(r)
  /\ Go(r, "idle")
  /\ UNCHANGED <<process, vm, started, stopping, lifetime, refs, frames, request, starts>>
---------------------------------------------------------------------------
(* stop: by itself, as the end of a start that has failed (within), or by   *)
(* the destructor.                                                          *)

Owns(r) == vm[r] # "none" \/ owner = r \/ live = r \/ started[r] \/ stopping[r]

\* cancelServerThreadTasks: what waits is never run.
Cancelled ==
  [t \in Threads |-> IF request[t].st = "queued" THEN [request[t] EXCEPT !.st = "done"]
                     ELSE request[t]]

\* No mutation is accepted any more; the fence goes up; what waits in the queue
\* is dropped, if the process is this runtime's.
StopFrom(r, within) ==
  /\ lifetime' = [lifetime EXCEPT ![r] = [accepting |-> FALSE, gen |-> @.gen + 1]]
  /\ stopping' = [stopping EXCEPT ![r] = @ \/ vm[r] # "none"]
  /\ started' = [started EXCEPT ![r] = @ /\ vm[r] = "none"]
  /\ live' = IF live = r THEN NoRuntime ELSE live
  /\ request' = IF Owns(r) THEN Cancelled ELSE request
  /\ main' = [main EXCEPT ![r] = [at |-> "draining", within |-> within]]
  /\ UNCHANGED <<owner, poisoned, vm, refs, frames, starts>>

StartFails(r) == main[r].at \in Starting /\ StopFrom(r, TRUE)

\* Bound: no second stop without a start in between, which finds nothing to do.
Stop(r) == main[r].at = "idle" /\ lifetime[r].accepting /\ StopFrom(r, FALSE)

\* waitForServerThreadTasks: what runs, runs to its end; without cancelling,
\* what waits is served first.
Drain(r) ==
  /\ main[r].at = "draining"
  /\ \A t \in Threads : request[t].st \notin {"queued", "running"}
  /\ \/ vm[r] = "failed" /\ main' = [main EXCEPT ![r] = Idle]
     \/ vm[r] = "up" /\ Go(r, "counting")
     \/ vm[r] = "none" /\ Go(r, "clearing")
  /\ UNCHANGED <<process, vm, started, stopping, lifetime, refs, frames, request, starts>>

\* Faulty: stop goes on with calls inside.
AwaitNobody(r) ==
  /\ main[r].at = "counting" /\ Go(r, "locking")
  /\ UNCHANGED <<process, vm, started, stopping, lifetime, refs, frames, request, starts>>

\* waitForRuntimeCalls: the test of the condition, and the sleep after it.
\* Whoever leaves lowers the count and notifies without the mutex of the
\* condition, so a notification between the two reaches nobody (dazed, missed).
AwaitCalls(r) ==
  /\ \/ main[r].at = "counting" /\ Go(r, IF Calls(r) = {} THEN "locking" ELSE "dozing")
     \/ main[r].at = "dozing" /\ Go(r, "asleep")
     \/ main[r].at = "dazed" /\ Go(r, "missed")
  /\ UNCHANGED <<process, vm, started, stopping, lifetime, refs, frames, request, starts>>

\* Java's own shutdown, with the mutex of calls; then the wrappers and the
\* global references go.
ShutdownJava(r) ==
  /\ main[r].at = "locking"
  /\ main[r].within \/ CallMutexFree(r)
  /\ refs' = [refs EXCEPT ![r] = "none"] /\ Go(r, "shutdown")
  /\ UNCHANGED <<process, vm, started, stopping, lifetime, frames, request, starts>>

\* DestroyJavaVM
Destroy(r) ==
  /\ main[r].at = "shutdown"
  /\ \/ vm' = [vm EXCEPT ![r] = "none"] /\ UNCHANGED poisoned
     \/ vm' = [vm EXCEPT ![r] = "failed"] /\ poisoned' = TRUE
  /\ Go(r, "clearing")
  /\ UNCHANGED <<owner, live, started, stopping, lifetime, refs, frames, request, starts>>

\* Handles and routes go, and the process, unless the machine has failed.
ClearUp(r) ==
  /\ main[r].at = "clearing"
  /\ started' = [started EXCEPT ![r] = FALSE]
  /\ stopping' = [stopping EXCEPT ![r] = @ /\ vm[r] = "failed"]
  /\ owner' = IF vm[r] = "failed" THEN owner ELSE Released(r)
  /\ main' = [main EXCEPT ![r] = Idle]
  /\ UNCHANGED <<poisoned, live, vm, lifetime, refs, frames, request, starts>>

\* The destructor, after its stop: no thread of the server is left to call, and
\* the address of the object leaves the process.
Close(r) ==
  /\ main[r].at = "idle" /\ ~started[r] /\ ~lifetime[r].accepting
  /\ \A t \in Threads : \A i \in DOMAIN frames[t] : frames[t][i].r # r
  /\ owner' = Released(r)
  /\ main' = [main EXCEPT ![r] = At("closed")]
  /\ UNCHANGED <<poisoned, live, vm, started, stopping, lifetime, refs, frames, request, starts>>
---------------------------------------------------------------------------
(* Calls.                                                                   *)

\* RuntimeCallLease; boot: natives that may be called before started.
MayLease(r, boot) == live = r /\ ~stopping[r] /\ (boot \/ started[r]) /\ vm[r] = "up"

Push(t, f) == Len(frames[t]) < MaxFrames /\ frames' = [frames EXCEPT ![t] = Append(@, f)]
Frame(k, r) == [k |-> k, r |-> r, gen |-> 0]

\* A thread of the server enters a callback: in a call of its own it locks again;
\* otherwise it only tries, and the callback is skipped when it fails.  A
\* mutation may be a command, which is a callback too (Bound: one of each).
CallBack(t, r) ==
  /\ main[r].at # "closed"
  /\ frames[t] = <<>> \/ Inside(t, {"task"})
  /\ IF InRuntime(t, r) THEN ~HeldByMain(r) /\ \A u \in Threads \ {t} : ~HeldBy(u, r)
     ELSE CallMutexFree(r)
  /\ Len(frames[t]) < MaxFrames
  /\ frames' = [frames EXCEPT
       ![t] = (IF @ = <<>> THEN <<>> ELSE Append(Front(@), [Last(@) EXCEPT !.k = "commanded"]))
              \o <<Frame("entered", r)>>]
  /\ UNCHANGED <<process, vm, started, stopping, lifetime, refs, main, request, starts>>

Popped(t) == frames' = [frames EXCEPT ![t] = Front(@)]

\* The end of a lease wakes a stop that sleeps.
Woken ==
  [r \in Runtimes |->
     [main[r] EXCEPT !.at = CASE @ \in {"asleep", "missed"} -> "counting"
                              [] @ = "dozing" -> "dazed"
                              [] OTHER -> @]]

\* With the mutex held, the lease: Java runs, or the callback is over.
EnterJava(t) ==
  /\ Inside(t, {"entered"})
  /\ LET r == Top(t).r
     IN  IF MayLease(r, FALSE) /\ DispatchFound(r)
         THEN frames' = [frames EXCEPT ![t] = Append(Front(@), Frame("call", r))]
         ELSE Popped(t)
  /\ UNCHANGED <<process, vm, started, stopping, lifetime, refs, main, request, starts>>

\* Java calls a native: in a callback, or on a thread of its own, which may run
\* as soon as classes are looked for.
Native(t) ==
  /\ \/ Inside(t, {"call"})
     \/ t \in Mods /\ frames[t] = <<>>
  /\ \E r \in Runtimes :
       \/ MayLease(r, FALSE) /\ BridgeRegistered(r) /\ Push(t, Frame("native", r))
       \/ MayLease(r, TRUE) /\ main[r].at = "resolving" /\ Push(t, Frame("early", r))
  /\ UNCHANGED <<process, vm, started, stopping, lifetime, refs, main, request, starts>>

\* The innermost callback or native returns.
Leave(t) ==
  /\ Inside(t, Leased) /\ request[t] = NoRequest
  /\ Popped(t)
  /\ main' = Woken
  /\ UNCHANGED <<process, vm, started, stopping, lifetime, refs, request, starts>>
---------------------------------------------------------------------------
(* runServerMutation: on the server's thread at once, from others through   *)
(* the queue, with a time limit.                                            *)

\* The runtime must accept, and its life is noted, before anything is queued.
Mutate(t) ==
  /\ Inside(t, {"native"}) /\ request[t] = NoRequest
  /\ LET r == Top(t).r
     IN  /\ lifetime[r].accepting
         /\ request' = [request EXCEPT ![t] = [st |-> "noted", r |-> r, gen |-> lifetime[r].gen]]
  /\ UNCHANGED <<process, vm, started, stopping, lifetime, refs, main, frames, starts>>

InLife(q) == lifetime[q.r] = [accepting |-> TRUE, gen |-> q.gen]
Task(q) == [k |-> "task", r |-> q.r, gen |-> q.gen]

Enqueue(t) ==
  /\ request[t].st = "noted" /\ t # Tick
  /\ request' = [request EXCEPT ![t].st = "queued"]
  /\ UNCHANGED <<process, vm, started, stopping, lifetime, refs, main, frames, starts>>

RunAtOnce ==
  /\ request[Tick].st = "noted"
  /\ IF InLife(request[Tick]) THEN Push(Tick, Task(request[Tick])) ELSE UNCHANGED frames
  /\ request' = [request EXCEPT ![Tick] = NoRequest]
  /\ UNCHANGED <<process, vm, started, stopping, lifetime, refs, main, starts>>

\* The server's thread takes a mutation from the queue: it looks once more
\* whether its runtime accepts, in the same life, and runs it.
Serve(t) ==
  /\ frames[Tick] = <<>> /\ request[t].st = "queued"
  /\ IF InLife(request[t])
     THEN /\ frames' = [frames EXCEPT ![Tick] = <<Task(request[t])>>]
          /\ request' = [request EXCEPT ![t].st = "running"]
     ELSE request' = [request EXCEPT ![t].st = "done"] /\ UNCHANGED frames
  /\ UNCHANGED <<process, vm, started, stopping, lifetime, refs, main, starts>>

FinishTask ==
  /\ Inside(Tick, {"task", "commanded"})
  /\ Popped(Tick)
  /\ request' = IF Len(frames[Tick]) > 1 THEN request
                ELSE [t \in Threads |-> IF request[t].st = "running"
                                        THEN [request[t] EXCEPT !.st = "done"] ELSE request[t]]
  /\ UNCHANGED <<process, vm, started, stopping, lifetime, refs, main, starts>>

\* The caller gets its answer; or it gives up what nobody has begun.
Answered(t) ==
  /\ request[t].st \in {"done", "queued"}
  /\ request' = [request EXCEPT ![t] = NoRequest]
  /\ UNCHANGED <<process, vm, started, stopping, lifetime, refs, main, frames, starts>>
---------------------------------------------------------------------------
MainStep(r) == Drain(r) \/ AwaitCalls(r) \/ Destroy(r) \/ ClearUp(r)

Progress(t) ==
  \/ EnterJava(t) \/ Leave(t) \/ Enqueue(t) \/ Answered(t)
  \/ t = Tick /\ (RunAtOnce \/ FinishTask)

Next ==
  \/ \E r \in Runtimes :
       \/ StartRefused(r) \/ Claim(r) \/ NoLibrary(r) \/ Create(r) \/ Publish(r)
       \/ ResolveKnot(r) \/ ResolveFallback(r) \/ InstallBridge(r) \/ Bootstrapped(r) \/ StartFails(r)
       \/ Stop(r) \/ MainStep(r) \/ ShutdownJava(r) \/ Close(r)
  \/ \E t \in Hosts, r \in Runtimes : CallBack(t, r)
  \/ \E t \in Threads : Native(t) \/ Mutate(t) \/ Serve(t) \/ Progress(t)

\* A stop goes on; a call that can end is not held up for ever; a wait for the
\* server's thread has a time limit; a mutex that is free again and again is got
\* at last.
Fairness ==
  /\ \A r \in Runtimes : WF_java(MainStep(r)) /\ SF_java(ShutdownJava(r))
  /\ \A t \in Threads : WF_java(Progress(t))

Spec == Init /\ [][Next]_java /\ Fairness
---------------------------------------------------------------------------
(* Properties.                                                              *)

\* Nobody is inside a call of a runtime whose machine is being taken down: its
\* references are there and it has not been asked to shut down.
CallsHaveAMachine == \A r \in Runtimes : Calls(r) # {} => vm[r] = "up" /\ main[r].at # "shutdown"

\* The process has one machine at most, and one that failed is the last.
OneMachine ==
  /\ Cardinality({r \in Runtimes : vm[r] # "none"}) <= 1
  /\ (\E r \in Runtimes : vm[r] = "failed") => poisoned

\* A runtime that is published or started owns the process and its machine, and
\* a machine without an owner is one that has failed.
PublishedOwns ==
  \A r \in Runtimes :
    /\ live = r \/ started[r] => owner = r /\ vm[r] = "up"
    /\ vm[r] = "up" => owner = r

\* What Java wanted changed is changed in the life in which it asked: not after
\* a stop has waited for it, and not after another start.
MutationsInLife ==
  \A i \in DOMAIN frames[Tick] :
    LET f == frames[Tick][i]
    IN  f.k \in {"task", "commanded"} =>
                     \/ f.gen = lifetime[f.r].gen
                        \/ main[f.r].at = "draining"
                        \/ \E j \in 1 .. i : frames[Tick][j].k \in Leased /\ frames[Tick][j].r = f.r

\* While a thread of the server is in Java nobody else is, but on threads that
\* Java made.
OneCallback ==
  \A r \in Runtimes : Cardinality({t \in Threads : HeldBy(t, r)}) <= (IF HeldByMain(r) THEN 0 ELSE 1)

JavaSound == CallsHaveAMachine /\ OneMachine /\ PublishedOwns /\ MutationsInLife /\ OneCallback

\* Only the runtime that owns the process drops what others have queued.
CancelsOwn ==
  [][\A t \in Threads :
       request[t].st = "queued" /\ request'[t].st = "done" =>
         \/ frames[Tick] = <<>> /\ UNCHANGED main
         \/ owner \in Runtimes /\ main'[owner].at = "draining" /\ main[owner].at # "draining"]_java

\* The stop of a runtime that has a machine returns, once those who are inside
\* have left, unless its wakeup was lost.  (One that has none waits until the
\* server's queue is empty, which others may keep it from being.)
JavaStopReturns ==
  \A r \in Runtimes :
    main[r].at = "draining" /\ stopping[r] ~> 
      main[r].at \in {"idle", "closed"} \/ (main[r].at = "missed" /\ Calls(r) = {})
=============================================================================

----------------------------- MODULE EventBus -----------------------------
(***************************************************************************)
(* The event bus: listeners of one event type, called on the thread that   *)
(* fires the event, and unsubscribed for good by resetting a subscription. *)
(*                                                                         *)
(* A fire walks over a snapshot of the listeners.  Resetting a             *)
(* subscription removes the listener, forbids calls that have not begun    *)
(* and waits for those under way on other threads.  A callback may fire    *)
(* again, subscribe and reset, its own subscription included, so each      *)
(* thread has a stack of frames.  A critical section is one action.        *)
(***************************************************************************)
EXTENDS Integers, SequencesExt

CONSTANTS
    Threads,
    Listeners,      \* listeners of one behaviour (Entry)
    Priority,       \* of each listener
    MayReset,       \* <<l, m>>: the callback of l resets the subscription of m
    MaxDepth        \* bound on nested frames of a thread

ASSUME BusAssumption ==
    /\ Priority \in [Listeners -> Int]
    /\ MayReset \subseteq Listeners \X Listeners
    /\ MaxDepth \in Nat

VARIABLES
    registered,     \* entries_
    seq,            \* Entry::seq, 0 before the listener is added
    sequence,       \* sequence_
    active,         \* Entry::active
    inFlight,       \* Entry::inFlight
    drainWaiters,   \* Entry::drainWaiters
    stack,          \* the frames of each thread, innermost first
    resetBy         \* the threads whose reset of a listener has returned

entry == <<active, inFlight, drainWaiters>>
bus   == <<registered, seq, sequence>>
vars  == <<bus, entry, stack, resetBy>>

\* A fire with the listeners it has yet to call, a callback under way, a
\* reset and how far it is.
FireFrame(todo)   == [what |-> "fire", todo |-> todo]
CallFrame(l)      == [what |-> "call", of |-> l]
ResetFrame(l, at) == [what |-> "reset", of |-> l, at |-> at]

Top(t)     == Head(stack[t])
Rest(t)    == Tail(stack[t])
IsAt(t, w) == stack[t] # <<>> /\ Top(t).what = w

\* Code of the program or of a callback runs, as opposed to code of the bus.
InUserCode(t) == stack[t] # <<>> => Top(t).what = "call"

\* The invocations of l among the frames of t (invoking_).
OwnInvocations(t, l) ==
    Cardinality({i \in DOMAIN stack[t] : stack[t][i] = CallFrame(l)})

Push(t, frame) == stack' = [stack EXCEPT ![t] = <<frame>> \o @]
Replace(t, frame) == stack' = [stack EXCEPT ![t] = <<frame>> \o Tail(@)]

Init ==
    /\ registered = {}
    /\ seq = [l \in Listeners |-> 0]
    /\ sequence = 0
    /\ active = [l \in Listeners |-> TRUE]
    /\ inFlight = [l \in Listeners |-> 0]
    /\ drainWaiters = [l \in Listeners |-> 0]
    /\ stack = [t \in Threads |-> <<>>]
    /\ resetBy = [l \in Listeners |-> {}]

----------------------------------------------------------------------------

\* addRaw
Subscribe(t, l) ==
    /\ InUserCode(t) /\ seq[l] = 0
    /\ sequence' = sequence + 1
    /\ seq' = [seq EXCEPT ![l] = sequence + 1]
    /\ registered' = registered \cup {l}
    /\ UNCHANGED <<entry, stack, resetBy>>

\* Faulty: listeners of equal priority in the opposite order.
BeforeLatest(l, m) ==
    \/ Priority[l] < Priority[m]
    \/ Priority[l] = Priority[m] /\ seq[l] > seq[m]

\* The order of the multimap entries_.
Before(l, m) ==
    \/ Priority[l] < Priority[m]
    \/ Priority[l] = Priority[m] /\ seq[l] < seq[m]

\* snapshot
Snapshot == SetToSortSeq(registered, Before)

\* fire walks over a snapshot of the listeners.
Fire(t) ==
    /\ InUserCode(t) /\ Len(stack[t]) < MaxDepth
    /\ Push(t, FireFrame(Snapshot))
    /\ UNCHANGED <<bus, entry, resetBy>>

\* Faulty: the listener is not asked whether it is still active.
InvokeAny(t) ==
    /\ IsAt(t, "fire") /\ Top(t).todo # <<>>
    /\ LET l == Head(Top(t).todo)
           rest == FireFrame(Tail(Top(t).todo))
       IN  /\ inFlight' = [inFlight EXCEPT ![l] = @ + 1]
           /\ stack' = [stack EXCEPT ![t] = <<CallFrame(l), rest>> \o Tail(@)]
    /\ UNCHANGED <<bus, active, drainWaiters, resetBy>>

\* invoke: the callback of the next listener begins if it is still active.
Invoke(t) ==
    /\ IsAt(t, "fire") /\ Top(t).todo # <<>>
    /\ LET l == Head(Top(t).todo)
           rest == FireFrame(Tail(Top(t).todo))
       IN  IF active[l]
             THEN /\ inFlight' = [inFlight EXCEPT ![l] = @ + 1]
                  /\ stack' = [stack EXCEPT ![t] =
                                 <<CallFrame(l), rest>> \o Tail(@)]
             ELSE Replace(t, rest) /\ UNCHANGED inFlight
    /\ UNCHANGED <<bus, active, drainWaiters, resetBy>>

EndFire(t) ==
    /\ IsAt(t, "fire") /\ Top(t).todo = <<>>
    /\ stack' = [stack EXCEPT ![t] = Tail(@)]
    /\ UNCHANGED <<bus, entry, resetBy>>

\* Faulty: waiters are told only when no call at all is left.
WokenByLast(l) == inFlight[l] = 1

\* Whether the end of a callback of l notifies those who wait for its end.
Woken(l) == inFlight[l] = 1 \/ drainWaiters[l] # 0

\* The frames of a thread that the end of a callback of l wakes.
Wake(l, frames) ==
    IF Woken(l) /\ frames # <<>> /\ Head(frames) = ResetFrame(l, "asleep")
      THEN <<ResetFrame(l, "awake")>> \o Tail(frames)
      ELSE frames

\* Faulty: an exception finishes the call once more than it should.
FinishTwice(t, n) ==
    LET l == Top(t).of
    IN  /\ inFlight' = [inFlight EXCEPT ![l] = @ - n]
        /\ stack' = [u \in Threads |->
                       IF u = t THEN SubSeq(stack[t], n + 1, Len(stack[t]))
                                ELSE Wake(l, stack[u])]
        /\ UNCHANGED <<bus, active, drainWaiters, resetBy>>

\* finish: the callback has ended, and n frames with it.
Finish(t, n) ==
    LET l == Top(t).of
    IN  /\ inFlight' = [inFlight EXCEPT ![l] = @ - 1]
        /\ stack' = [u \in Threads |->
                       IF u = t THEN SubSeq(stack[t], n + 1, Len(stack[t]))
                                ELSE Wake(l, stack[u])]
        /\ UNCHANGED <<bus, active, drainWaiters, resetBy>>

Return(t) == IsAt(t, "call") /\ Finish(t, 1)

\* Faulty: an exception passes finish by.
ThrowPast(t) ==
    /\ IsAt(t, "call")
    /\ stack' = [stack EXCEPT ![t] = SubSeq(@, 3, Len(@))]
    /\ UNCHANGED <<bus, entry, resetBy>>

\* An exception, of the callback or for want of memory, also ends the fire; the
\* callback around that, if any, is then free to throw in its turn.
Throw(t) == IsAt(t, "call") /\ Finish(t, 2)

----------------------------------------------------------------------------
(* Resetting a subscription.                                               *)

\* The subscription's owner resets it once: a Subscription gives up its
\* release function before it calls it.
Erase(t, l) ==
    /\ InUserCode(t)
    /\ l \in registered
    /\ stack[t] # <<>> => <<Top(t).of, l>> \in MayReset
    /\ registered' = registered \ {l}
    /\ Push(t, ResetFrame(l, "erased"))
    /\ UNCHANGED <<seq, sequence, entry, resetBy>>

\* Faulty: a reset inside a callback does not wait at all.
DrainedAtOnce(t, l) == OwnInvocations(t, l) > 0 \/ inFlight[l] = 0

Drained(t, l) == inFlight[l] <= OwnInvocations(t, l)

Leave(t, l) ==
    /\ stack' = [stack EXCEPT ![t] = Tail(@)]
    /\ resetBy' = [resetBy EXCEPT ![l] = @ \cup {t}]

Deactivate(t) ==
    /\ IsAt(t, "reset") /\ Top(t).at = "erased"
    /\ LET l == Top(t).of
       IN  /\ active' = [active EXCEPT ![l] = FALSE]
           /\ IF Drained(t, l)
                THEN Leave(t, l) /\ UNCHANGED drainWaiters
                ELSE /\ drainWaiters' = [drainWaiters EXCEPT ![l] = @ + 1]
                     /\ Replace(t, ResetFrame(l, "asleep"))
                     /\ UNCHANGED resetBy
    /\ UNCHANGED <<bus, inFlight>>

WakeUp(t) ==
    /\ IsAt(t, "reset") /\ Top(t).at = "awake"
    /\ LET l == Top(t).of
       IN  IF Drained(t, l)
             THEN /\ drainWaiters' = [drainWaiters EXCEPT ![l] = @ - 1]
                  /\ Leave(t, l)
             ELSE /\ Replace(t, ResetFrame(l, "asleep"))
                  /\ UNCHANGED <<drainWaiters, resetBy>>
    /\ UNCHANGED <<bus, active, inFlight>>

Step(t) == \/ Invoke(t) \/ EndFire(t) \/ Return(t) \/ Throw(t)
           \/ Deactivate(t) \/ WakeUp(t)

Next ==
    \E t \in Threads :
        \/ Step(t) \/ Fire(t)
        \/ \E l \in Listeners : Subscribe(t, l) \/ Erase(t, l)

\* Threads run on, and a callback comes to an end however often it fires.
Fairness ==
    \A t \in Threads : WF_vars(Step(t)) /\ SF_vars(Return(t) \/ Throw(t))

Spec == Init /\ [][Next]_vars
FairSpec == Spec /\ Fairness

----------------------------------------------------------------------------
(* Properties.                                                             *)

Frames == {FireFrame(s) : s \in Seq(Listeners)}
            \cup {CallFrame(l) : l \in Listeners}
            \cup {ResetFrame(l, at) : l \in Listeners,
                                      at \in {"erased", "asleep", "awake"}}

\* Every variable has its type.
TypeOK ==
    /\ registered \subseteq Listeners
    /\ seq \in [Listeners -> Nat] /\ sequence \in Nat
    /\ active \in [Listeners -> BOOLEAN]
    /\ inFlight \in [Listeners -> Nat]
    /\ drainWaiters \in [Listeners -> 0 .. 1]
    /\ resetBy \in [Listeners -> SUBSET Threads]
    /\ \A t \in Threads : \A i \in DOMAIN stack[t] :
         /\ stack[t][i].what \in {"fire", "call", "reset"}
         /\ stack[t][i].what # "fire" => stack[t][i].of \in Listeners

\* Once a reset has returned, no other thread is inside the callback: the code
\* of the listener can be unloaded as soon as the thread that reset it has left
\* the callback itself.
ResetDrains ==
    \A l \in Listeners, t \in Threads :
        t \in resetBy[l] =>
            \A u \in Threads \ {t} : OwnInvocations(u, l) = 0

\* The in-flight count is that of the callbacks on all the stacks, so that it
\* returns to zero whichever way callbacks end.
InFlightExact ==
    \A l \in Listeners :
        inFlight[l] =
            Cardinality({p \in Threads \X (1 .. 2 * MaxDepth + 1) :
                            /\ p[2] <= Len(stack[p[1]])
                            /\ stack[p[1]][p[2]] = CallFrame(l)})

\* A fire calls listeners in order of priority, then of subscription, and no
\* listener twice.
OrderedDelivery ==
    \A t \in Threads : \A i \in DOMAIN stack[t] :
        stack[t][i].what = "fire" =>
            LET todo == stack[t][i].todo
            IN  /\ \A j, k \in DOMAIN todo :
                     j < k => \/ Priority[todo[j]] < Priority[todo[k]]
                              \/ /\ Priority[todo[j]] = Priority[todo[k]]
                                 /\ seq[todo[j]] < seq[todo[k]]
                /\ i > 1 => stack[t][i - 1].of \notin
                               {todo[j] : j \in DOMAIN todo}

\* A reset asleep has a callback on another thread to wait for.
NoLostDrainWakeup ==
    \A t \in Threads :
        (IsAt(t, "reset") /\ Top(t).at = "asleep") => ~Drained(t, Top(t).of)

\* No call of a listener begins after its reset has returned, not even from a
\* snapshot taken before.
NeverCalledAfterReset ==
    [][\A l \in Listeners :
          resetBy[l] # {} => inFlight'[l] <= inFlight[l]]_vars

\* A reset inside the listener's own callback waits for other threads only, so
\* that the frames of its own thread can return.
OwnResetReturns ==
    \A t \in Threads, l \in Listeners :
        (IsAt(t, "reset") /\ Top(t).of = l /\ OwnInvocations(t, l) > 0)
            ~> InUserCode(t)
=============================================================================

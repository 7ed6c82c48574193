---------------------------- MODULE JavaHandles ----------------------------
(***************************************************************************)
(* The numbers by which Java code knows players and mobs.                  *)
(*                                                                         *)
(* Java never sees an address: it holds a handle, NativeHandleTable maps   *)
(* it to the address, and whoever takes a player or mob out of the server  *)
(* takes its handle out of the table before the memory goes.  A native     *)
(* holds the table's mutex for as long as it touches the object.           *)
(*                                                                         *)
(* Three kinds of threads meet in the table: the holder of the simulation  *)
(* gate (Host: spawns, blows, removals, queued mutations), the sessions,   *)
(* whose cleanup runs outside the gate, and threads of mods, which may use *)
(* any handle they were ever given.  The code registers an object when it  *)
(* speaks of it, even when its last invalidation has passed, and drops     *)
(* some candidates after it registered them: the handles made so are in    *)
(* late, and the promises below are made for the others.                   *)
(*                                                                         *)
(* Abstracted: kinds of handles, the generations (which never decide: ids  *)
(* are not reused), worlds (they live as long as the runtime), what a      *)
(* native reads or writes, and refused leases (see JavaRuntime).           *)
(***************************************************************************)
EXTENDS Naturals, Sequences, FiniteSets

CONSTANTS
  Addrs,       \* addresses; the allocator may use one again
  Host,        \* the holder of the simulation gate
  Sessions,    \* threads of sessions
  Mods,        \* threads of Java
  MaxThings,   \* Bound: players and mobs ever made
  MaxHandles,  \* the ids there are (2^40 - 1)
  MaxAsked,    \* Bound: callbacks and lists that begin
  NoThing      \* an address with nothing at it

Callers == {Host} \cup Sessions \cup Mods
JavaHandlesConstants ==
  /\ Host \notin Sessions \cup Mods /\ Sessions \cap Mods = {}
  /\ MaxHandles \in Nat /\ 0 \notin Addrs \cup Callers /\ NoThing \notin Nat

VARIABLES
  heap,    \* per address the number of the thing there
  born,    \* things made
  listed,  \* the addresses in the roster and in mobs_
  refs,    \* <<thread, address>>: who else keeps the thing alive
  table,   \* byHandle_ and byAddress_: per handle its address, or NoAddr
  next,    \* nextId_
  given,   \* the thing a handle was made for
  late,    \* handles that nobody will invalidate in time: see above
  closed,  \* things whose last invalidation has passed
  cache,   \* JavaObjectCache: the handles with a wrapper
  lock,    \* NativeHandleTable::mutex_
  state,   \* per address the holder of stateMtx
  caller,  \* callMutex: the thread that is in a callback
  plan,    \* per thread the steps before it
  of,      \* per thread the address its plan is about
  gone,    \* per thread the handle whose wrapper it will erase
  borrow,  \* per thread the handle and address a native is at, and how far
  wrap,    \* per thread the handle that a wrapper is being made for
  queue,   \* the handles of the mutations on the server's queue
  asked    \* callbacks begun

heapVars == <<heap, born>>
tableVars == <<table, next, given, late, closed>>
vars == <<heap, born, listed, refs, table, next, given, late, closed, cache, lock, state,
          caller, plan, of, gone, borrow, wrap, queue, asked>>

Handles == 1 .. MaxHandles
Free == 0
NoAddr == Free
NoHandle == 0
NoBorrow == [h |-> NoHandle, a |-> NoAddr, locked |-> FALSE]

Idle(t) == plan[t] = <<>>
Facing(t, s) == plan[t] # <<>> /\ Head(plan[t]) = s
InJava(t) == (t \in Mods /\ Idle(t)) \/ Facing(t, "called")
Valid(h) == h \in Handles /\ table[h] # NoAddr
HandlesAt(a) == {h \in Handles : table[h] = a}
Player(s) == of[s]

Init ==
  /\ heap = [a \in Addrs |-> NoThing] /\ born = 0 /\ listed = {} /\ refs = {}
  /\ table = [h \in Handles |-> NoAddr] /\ next = 1 /\ given = [h \in Handles |-> 0]
  /\ late = {} /\ closed = {} /\ cache = {}
  /\ lock = Free /\ state = [a \in Addrs |-> Free] /\ caller = Free
  /\ plan = [t \in Callers |-> <<>>] /\ of = [t \in Callers |-> NoAddr]
  /\ gone = [t \in Callers |-> NoHandle] /\ borrow = [t \in Callers |-> NoBorrow]
  /\ wrap = [t \in Callers |-> NoHandle] /\ queue = {} /\ asked = 0
---------------------------------------------------------------------------
(* What the threads set out to do.                                          *)

Begin(t, a, steps) ==
  /\ Idle(t) /\ borrow[t] = NoBorrow /\ asked < MaxAsked
  /\ plan' = [plan EXCEPT ![t] = steps] /\ of' = [of EXCEPT ![t] = a]
  /\ asked' = asked + 1
  /\ UNCHANGED <<tableVars, cache, lock, state, caller, gone, borrow, wrap, queue>>
Keep(t, a) == refs' = refs \cup {<<t, a>>}
Make(a) ==
  /\ heap[a] = NoThing /\ born < MaxThings
  /\ born' = born + 1 /\ heap' = [heap EXCEPT ![a] = born + 1]

\* A mob is made, Java is asked, the mob is listed.
SpawnMob(a) ==
  /\ Make(a) /\ Keep(Host, a) /\ Begin(Host, a, <<"ask", "list", "free">>)
  /\ UNCHANGED listed

\* A blow at a player or mob of a snapshot: dead already?  Java is asked with
\* no lock held, then the blow is dealt.
Damage(a) ==
  /\ a \in listed /\ Keep(Host, a) /\ Begin(Host, a, <<"state", "ask", "state", "free">>)
  /\ UNCHANGED <<heapVars, listed>>

\* A mob leaves: off the list, its handle invalidated, its memory freed.
RemoveMob(a) ==
  /\ a \in listed /\ \A s \in Sessions : Player(s) # a
  /\ Keep(Host, a) /\ Begin(Host, a, <<"unlist", "invalidate", "free">>)
  /\ UNCHANGED <<heapVars, listed>>

\* A session: its player is listed and Java is told; it chats, digs, places;
\* its cleanup tells Java, invalidates the handle, and at the end takes the
\* player off the roster.
Join(s, a) ==
  /\ Player(s) = NoAddr /\ Make(a) /\ Keep(s, a) /\ Begin(s, a, <<"list", "ask">>)
  /\ UNCHANGED listed
Speak(s) ==
  /\ Player(s) # NoAddr /\ Begin(s, Player(s), <<"ask">>)
  /\ UNCHANGED <<heapVars, listed, refs>>
Quit(s) ==
  /\ Player(s) # NoAddr
  /\ Begin(s, Player(s), <<"state", "ask", "invalidate", "unlist", "free">>)
  /\ UNCHANGED <<heapVars, listed, refs>>

\* nativeEntityHandle: a snapshot, then a handle for one of it.
ListEntities(t, a) ==
  /\ a \in listed /\ Keep(t, a) /\ Begin(t, a, <<"register", "free">>)
  /\ UNCHANGED <<heapVars, listed>>
---------------------------------------------------------------------------
(* The steps.                                                               *)

Go(t) == plan' = [plan EXCEPT ![t] = Tail(@)]

\* registerObject: the handle the address has, or else the next id; with no id
\* left, none.
Register(a) ==
  /\ lock = Free
  /\ IF HandlesAt(a) # {} \/ next > MaxHandles
     THEN UNCHANGED <<table, next, given, late>>
     ELSE /\ table' = [table EXCEPT ![next] = a] /\ next' = next + 1
          /\ given' = [given EXCEPT ![next] = heap[a]]
          /\ late' = IF heap[a] \in closed THEN late \cup {next} ELSE late
  /\ UNCHANGED closed
RegisterListed(t) ==
  /\ Facing(t, "register") /\ Register(of[t]) /\ Go(t)
  /\ UNCHANGED <<heapVars, listed, refs, cache, lock, state, caller, of, gone, borrow, wrap,
                 queue, asked>>

\* onPlayerJoin, onChat, onEntityDamage, ...: register, and call Java unless
\* another thread is in a callback, which counts as a yes.
Ask(t) ==
  /\ Facing(t, "ask") /\ Register(of[t])
  /\ IF caller = Free
     THEN caller' = t /\ plan' = [plan EXCEPT ![t][1] = "called"]
     ELSE Go(t) /\ UNCHANGED caller
  /\ UNCHANGED <<heapVars, listed, refs, cache, lock, state, of, gone, borrow, wrap, queue,
                 asked>>

\* Java returns; it may refuse a mob (onMobSpawn), which is not listed then.
Answer(t) ==
  /\ Facing(t, "called") /\ borrow[t] = NoBorrow /\ wrap[t] = NoHandle
  /\ caller' = Free
  /\ \/ Go(t)
     \/ t = Host /\ Tail(plan[t]) = <<"list", "free">>
        /\ plan' = [plan EXCEPT ![t] = <<"invalidate", "free">>]
  /\ UNCHANGED <<heapVars, listed, refs, tableVars, cache, lock, state, of, gone, borrow, wrap,
                 queue, asked>>

\* Listed; or a mob that was allowed is dropped because the cap was reached
\* meanwhile, with its handle left in the table.
List(t) ==
  /\ Facing(t, "list") /\ Go(t)
  /\ \/ listed' = listed \cup {of[t]} /\ UNCHANGED <<late, closed>>
     \/ /\ t = Host /\ UNCHANGED listed
        /\ late' = late \cup HandlesAt(of[t]) /\ closed' = closed \cup {heap[of[t]]}
  /\ UNCHANGED <<heapVars, refs, table, next, given, cache, lock, state, caller, of, gone,
                 borrow, wrap, queue, asked>>

Unlist(t) ==
  /\ Facing(t, "unlist") /\ Go(t) /\ listed' = listed \ {of[t]}
  /\ UNCHANGED <<heapVars, refs, tableVars, cache, lock, state, caller, of, gone, borrow, wrap,
                 queue, asked>>

\* stateMtx around a look or a change.
TakeState(t) ==
  /\ Facing(t, "state") /\ state[of[t]] = Free
  /\ state' = [state EXCEPT ![of[t]] = t]
  /\ UNCHANGED <<heapVars, listed, refs, tableVars, cache, lock, caller, plan, of, gone,
                 borrow, wrap, queue, asked>>
GiveState(t) ==
  /\ Facing(t, "state") /\ state[of[t]] = t
  /\ state' = [state EXCEPT ![of[t]] = Free] /\ Go(t)
  /\ UNCHANGED <<heapVars, listed, refs, tableVars, cache, lock, caller, of, gone, borrow, wrap,
                 queue, asked>>

\* invalidateObjectHandle: first the table, then, with a lease, the wrapper.
Invalidate(t) ==
  /\ Facing(t, "invalidate") /\ lock = Free
  /\ closed' = closed \cup {heap[of[t]]}
  /\ IF HandlesAt(of[t]) = {}
     THEN Go(t) /\ UNCHANGED <<table, gone>>
     ELSE /\ table' = [h \in Handles |-> IF table[h] = of[t] THEN NoAddr ELSE table[h]]
          /\ plan' = [plan EXCEPT ![t][1] = "erase"]
          /\ gone' = [gone EXCEPT ![t] = CHOOSE h \in HandlesAt(of[t]) : TRUE]
  /\ UNCHANGED <<heapVars, listed, refs, next, given, late, cache, lock, state, caller, of,
                 borrow, wrap, queue, asked>>
EraseWrapper(t) ==
  /\ Facing(t, "erase") /\ Go(t)
  /\ cache' = cache \ {gone[t]} /\ gone' = [gone EXCEPT ![t] = NoHandle]
  /\ UNCHANGED <<heapVars, listed, refs, tableVars, lock, state, caller, of, borrow, wrap,
                 queue, asked>>

\* The last shared_ptr goes, and the thing with it.
Drop(t) ==
  /\ Facing(t, "free") /\ Go(t)
  /\ refs' = refs \ {<<t, of[t]>>}
  /\ heap' = IF of[t] \in listed \/ \E r \in refs' : r[2] = of[t]
             THEN heap ELSE [heap EXCEPT ![of[t]] = NoThing]
  /\ of' = [of EXCEPT ![t] = NoAddr]
  /\ UNCHANGED <<born, listed, tableVars, cache, lock, state, caller, gone, borrow, wrap,
                 queue, asked>>
---------------------------------------------------------------------------
(* Natives.                                                                 *)

\* acquire
Acquire(t, h) ==
  /\ borrow[t] = NoBorrow /\ lock = Free /\ Valid(h)
  /\ borrow' = [borrow EXCEPT ![t] = [h |-> h, a |-> table[h], locked |-> FALSE]]
  /\ lock' = t

\* nativeEntityHealth, ...: any handle that was ever given, from a thread of Java
\* or in a callback.
Native(t, h) ==
  /\ InJava(t) /\ Acquire(t, h)
  /\ UNCHANGED <<heapVars, listed, refs, tableVars, cache, state, caller, plan, of, gone, wrap,
                 queue, asked>>

\* nativeEntitySetHealth, nativePlayerSetInventoryItem, ...: from another thread
\* they go on the server's queue, and the handle is looked up when it is their
\* turn.
QueueMutation(t, h) ==
  /\ t \in Mods /\ Idle(t) /\ borrow[t] = NoBorrow /\ h < next /\ asked < MaxAsked
  /\ queue' = queue \cup {h} /\ asked' = asked + 1
  /\ UNCHANGED <<heapVars, listed, refs, tableVars, cache, lock, state, caller, plan, of, gone,
                 borrow, wrap>>
ServeMutation(h) ==
  /\ Idle(Host) /\ borrow[Host] = NoBorrow /\ h \in queue /\ queue' = queue \ {h}
  /\ IF Valid(h) THEN Acquire(Host, h) ELSE lock = Free /\ UNCHANGED <<lock, borrow>>
  /\ UNCHANGED <<heapVars, listed, refs, tableVars, cache, state, caller, plan, of, gone, wrap,
                 asked>>

\* The object's own lock is taken under the table's.
LockState(t) ==
  /\ borrow[t] # NoBorrow /\ ~borrow[t].locked /\ state[borrow[t].a] = Free
  /\ state' = [state EXCEPT ![borrow[t].a] = t]
  /\ borrow' = [borrow EXCEPT ![t].locked = TRUE]
  /\ UNCHANGED <<heapVars, listed, refs, tableVars, cache, lock, caller, plan, of, gone, wrap,
                 queue, asked>>
Release(t) ==
  /\ borrow[t].locked
  /\ state' = [state EXCEPT ![borrow[t].a] = Free]
  /\ borrow' = [borrow EXCEPT ![t] = NoBorrow]
  /\ lock' = IF lock = t THEN Free ELSE lock
  /\ UNCHANGED <<heapVars, listed, refs, tableVars, cache, caller, plan, of, gone, wrap, queue,
                 asked>>

\* wrapperForHandle: no wrapper in the cache, so a factory of Java is called,
\* with no lock held; then it is cached if the handle is still valid.
MakeWrapper(t, h) ==
  /\ InJava(t) /\ borrow[t] = NoBorrow /\ wrap[t] = NoHandle /\ lock = Free
  /\ Valid(h) /\ h \notin cache
  /\ wrap' = [wrap EXCEPT ![t] = h]
  /\ UNCHANGED <<heapVars, listed, refs, tableVars, cache, lock, state, caller, plan, of, gone,
                 borrow, queue, asked>>
CacheWrapper(t) ==
  /\ wrap[t] # NoHandle /\ borrow[t] = NoBorrow /\ lock = Free
  /\ cache' = IF Valid(wrap[t]) THEN cache \cup {wrap[t]} ELSE cache
  /\ wrap' = [wrap EXCEPT ![t] = NoHandle]
  /\ UNCHANGED <<heapVars, listed, refs, tableVars, lock, state, caller, plan, of, gone,
                 borrow, queue, asked>>

Next ==
  \/ \E a \in Addrs :
       \/ SpawnMob(a) \/ Damage(a) \/ RemoveMob(a)
       \/ \E s \in Sessions : Join(s, a)
       \/ \E t \in Mods : ListEntities(t, a)
  \/ \E s \in Sessions : Speak(s) \/ Quit(s)
  \/ \E t \in Callers :
       \/ RegisterListed(t) \/ Ask(t) \/ Answer(t) \/ List(t) \/ Unlist(t) \/ TakeState(t)
       \/ GiveState(t) \/ Invalidate(t) \/ EraseWrapper(t) \/ Drop(t) \/ LockState(t)
       \/ Release(t) \/ CacheWrapper(t)
       \/ \E h \in Handles : Native(t, h) \/ QueueMutation(t, h) \/ MakeWrapper(t, h)
  \/ \E h \in Handles : ServeMutation(h)

Spec == Init /\ [][Next]_vars
---------------------------------------------------------------------------
\* A handle in the table leads to the thing it was made for, alive (late
\* handles apart): no native reaches freed memory or a newcomer at the address.
LeadsHome(h, a) == h \notin late => heap[a] # NoThing /\ heap[a] = given[h]
HandlesLeadHome ==
  /\ \A h \in Handles : Valid(h) => LeadsHome(h, table[h])
  /\ \A t \in Callers : borrow[t] # NoBorrow => LeadsHome(borrow[t].h, borrow[t].a)

\* A cached wrapper is of a valid handle, or its eraser is on its way.
WrappersCurrent ==
  \A h \in cache : Valid(h) \/ \E t \in Callers : Facing(t, "erase") /\ gone[t] = h

\* Nobody who keeps a thing's state locked waits for the table, whose holder
\* waits for that state.
NoRing ==
  \A t \in Callers :
    borrow[t] # NoBorrow /\ ~borrow[t].locked
      => \/ state[borrow[t].a] = Free
         \/ Facing(state[borrow[t].a], "state") \/ borrow[state[borrow[t].a]].locked

HandlesSound == HandlesLeadHome /\ WrappersCurrent /\ NoRing
=============================================================================

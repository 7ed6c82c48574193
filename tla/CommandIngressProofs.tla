----------------------- MODULE CommandIngressProofs -----------------------
(***************************************************************************)
(* Proofs about the ways commands come in: one thread at a time works on   *)
(* the world, no lock is left behind, and what a session's command asks of *)
(* the tick thread is never served, for any sessions and consoles.         *)
(*                                                                         *)
(* The place of a thread says how often it holds each recursive lock; the  *)
(* owner and the depth of every lock are kept equal to that.               *)
(***************************************************************************)
EXTENDS CommandIngress, FiniteSetTheorems, SequenceTheorems, TLAPS

Places == {"rest", "handler", "enter", "java", "await", "dispatch", "gated",
           "execute"}
Ticks  == {"sleep", "drain", "enter", "java", "gated", "execute", "served",
           "hook", "simulate"}
Tasks  == {"none", "Pending", "Running", "Done", "Abandoned"}

Types ==
    /\ owner \in [Locks -> Threads \cup {Nobody}]
    /\ depth \in [Locks -> Int]
    /\ pc \in [Foreign -> Places]
    /\ \A c \in Consoles : pc[c] # "handler"
    /\ task \in [Foreign -> Tasks]
    /\ queue \in Seq(Foreign)
    /\ tick \in Ticks
    /\ serving \in Foreign \cup {Nobody}
    /\ tick \in {"sleep", "drain", "hook", "simulate"} => serving = Nobody

\* How often a thread holds each lock where it is.
One(b) == IF b THEN 1 ELSE 0

GateOf(t) ==
    IF t = Ticker THEN One(tick # "sleep")
    ELSE One(t \in Sessions /\ pc[t] # "rest") + One(pc[t] \in {"gated", "execute"})

CommandOf(t) == One(IF t = Ticker THEN tick = "execute" ELSE pc[t] = "execute")

JavaOf(t) ==
    IF t = Ticker
      THEN One(tick = "java")
            + One(/\ serving = Nobody
                  /\ tick \in {"enter", "java", "gated", "execute", "served", "hook"})
      ELSE One(pc[t] \in {"java", "await"})

Holds(l, t) == IF l = Gate THEN GateOf(t)
               ELSE IF l = Command THEN CommandOf(t) ELSE JavaOf(t)

\* A lock is held as often as the place of its owner says, and by nobody else.
Held == \A l \in Locks :
           /\ \A t \in Threads : Holds(l, t) = IF owner[l] = t THEN depth[l] ELSE 0
           /\ owner[l] = Nobody => depth[l] = 0
           /\ owner[l] # Nobody => depth[l] > 0

\* What is queued is pending, and once only.
Queued ==
    /\ \A i \in DOMAIN queue : task[queue[i]] = "Pending"
    /\ \A i, j \in DOMAIN queue : queue[i] = queue[j] => i = j
    /\ serving # Nobody => task[serving] \in {"Running", "Abandoned"}

\* A session's request is pending while the session waits, and is not served.
Unserved ==
    /\ serving \notin Sessions
    /\ \A s \in Sessions : \/ task[s] = "none"
                           \/ task[s] = "Pending" /\ pc[s] = "await"

\* The inductive invariant of the ways in.
CInv == Types /\ Held /\ Queued /\ Unserved

USE IngressAssumption DEF IngressAssumption

LEMMA Names ==
  /\ Ticker \notin Foreign /\ Nobody \notin Threads
  /\ Foreign \subseteq Threads /\ Ticker \in Threads
  /\ Gate # Command /\ Gate # Java /\ Command # Java
  /\ Gate \in Locks /\ Command \in Locks /\ Java \in Locks
  /\ \A f \in Foreign : f # Ticker /\ (f \in Sessions \/ f \in Consoles)
  /\ Sessions \subseteq Foreign /\ Consoles \subseteq Foreign
BY DEF Ticker, Foreign, Threads, Gate, Command, Java, Locks

LEMMA HoldsIs ==
  \A t : /\ Holds(Gate, t) = GateOf(t) /\ Holds(Command, t) = CommandOf(t)
         /\ Holds(Java, t) = JavaOf(t)
         /\ GateOf(t) \in Nat /\ CommandOf(t) \in Nat /\ JavaOf(t) \in Nat
BY Names DEF Holds, GateOf, CommandOf, JavaOf, One

----------------------------------------------------------------------------
(* Locks.                                                                  *)

\* A thread's place changes by one lock taken, ...
LEMMA LockKeeps ==
  ASSUME Types, Held, NEW l \in Locks, NEW t \in Threads, Lock(l, t),
         \A m \in Locks, u \in Threads :
            Holds(m, u)' = Holds(m, u) + (IF m = l /\ u = t THEN 1 ELSE 0)
  PROVE  /\ Held' /\ owner' \in [Locks -> Threads \cup {Nobody}]
         /\ depth' \in [Locks -> Int]
<1>1. /\ owner \in [Locks -> Threads \cup {Nobody}] /\ depth \in [Locks -> Int]
      /\ owner[l] \in {Nobody, t} /\ owner' = [owner EXCEPT ![l] = t]
      /\ depth' = [depth EXCEPT ![l] = @ + 1]
  BY DEF Types, Lock, Free
<1>2. owner' \in [Locks -> Threads \cup {Nobody}] /\ depth' \in [Locks -> Int]
  BY <1>1
<1>3. ASSUME NEW m \in Locks
      PROVE  /\ \A u \in Threads :
                   Holds(m, u)' = IF owner'[m] = u THEN depth'[m] ELSE 0
             /\ owner'[m] = Nobody => depth'[m] = 0
             /\ owner'[m] # Nobody => depth'[m] > 0
  <2>1. /\ \A u \in Threads : Holds(m, u) = IF owner[m] = u THEN depth[m] ELSE 0
        /\ owner[m] = Nobody => depth[m] = 0
        /\ owner[m] # Nobody => depth[m] > 0
    BY DEF Held
  <2>2. CASE m # l
    <3>1. owner'[m] = owner[m] /\ depth'[m] = depth[m]
      BY <1>1, <2>2
    <3>2. \A u \in Threads : Holds(m, u)' = Holds(m, u) + 0
      BY <2>2
    <3>3. \A u \in Threads : Holds(m, u) \in Int
      BY <1>1, <2>1
    <3> QED
      BY <2>1, <3>1, <3>2, <3>3
  <2>3. CASE m = l
    <3>1. owner'[m] = t /\ depth'[m] = depth[m] + 1 /\ depth[m] \in Int
      BY <1>1, <2>3
    <3>2. \A u \in Threads : u # t => Holds(m, u) = 0
      BY <1>1, <2>1, <2>3, Names
    <3>3. Holds(m, t) = depth[m]
      BY <1>1, <2>1, <2>3, Names
    <3>4. \A u \in Threads : Holds(m, u)' = Holds(m, u) + (IF u = t THEN 1 ELSE 0)
      BY <2>3
    <3>5. depth[m] >= 0 /\ t # Nobody
      BY <1>1, <2>1, Names
    <3> QED
      BY <3>1, <3>2, <3>3, <3>4, <3>5
  <2> QED
    BY <2>2, <2>3
<1> QED
  BY <1>2, <1>3 DEF Held

\* ... by some locks given back once each, ...
LEMMA UnlockKeeps ==
  ASSUME Types, Held, NEW ls \in SUBSET Locks, NEW t \in Threads, Unlock(ls, t),
         \A l \in ls : Holds(l, t) > 0,
         \A m \in Locks, u \in Threads :
            Holds(m, u)' = Holds(m, u) - (IF m \in ls /\ u = t THEN 1 ELSE 0)
  PROVE  /\ Held' /\ owner' \in [Locks -> Threads \cup {Nobody}]
         /\ depth' \in [Locks -> Int]
<1>1. /\ owner \in [Locks -> Threads \cup {Nobody}] /\ depth \in [Locks -> Int]
      /\ depth' = [l \in Locks |-> depth[l] - (IF l \in ls THEN 1 ELSE 0)]
      /\ owner' = [l \in Locks |-> IF l \in ls /\ depth[l] = 1 THEN Nobody
                                                           ELSE owner[l]]
  BY DEF Types, Unlock
<1>2. owner' \in [Locks -> Threads \cup {Nobody}] /\ depth' \in [Locks -> Int]
  BY <1>1
<1>3. ASSUME NEW m \in Locks
      PROVE  /\ \A u \in Threads :
                   Holds(m, u)' = IF owner'[m] = u THEN depth'[m] ELSE 0
             /\ owner'[m] = Nobody => depth'[m] = 0
             /\ owner'[m] # Nobody => depth'[m] > 0
  <2>1. /\ \A u \in Threads : Holds(m, u) = IF owner[m] = u THEN depth[m] ELSE 0
        /\ owner[m] = Nobody => depth[m] = 0
        /\ owner[m] # Nobody => depth[m] > 0
        /\ depth[m] \in Int
    BY <1>1 DEF Held
  <2>2. CASE m \notin ls
    <3>1. owner'[m] = owner[m] /\ depth'[m] = depth[m] - 0
      BY <1>1, <2>2
    <3>2. \A u \in Threads : Holds(m, u)' = Holds(m, u) - 0
      BY <2>2
    <3>3. \A u \in Threads : Holds(m, u) \in Int
      BY <1>1, <2>1
    <3> QED
      BY <2>1, <3>1, <3>2, <3>3
  <2>3. CASE m \in ls
    <3>1. owner[m] = t /\ Holds(m, t) = depth[m] /\ depth[m] > 0
      BY <2>1, <2>3
    <3>2. \A u \in Threads : u # t => Holds(m, u) = 0
      BY <2>1, <3>1
    <3>3. /\ depth'[m] = depth[m] - 1
          /\ owner'[m] = IF depth[m] = 1 THEN Nobody ELSE t
      BY <1>1, <2>3, <3>1
    <3>4. \A u \in Threads : Holds(m, u)' = Holds(m, u) - (IF u = t THEN 1 ELSE 0)
      BY <2>3
    <3>5. t # Nobody /\ \A u \in Threads : u # Nobody
      BY Names
    <3> QED
      BY <2>1, <3>1, <3>2, <3>3, <3>4, <3>5
  <2> QED
    BY <2>2, <2>3
<1> QED
  BY <1>2, <1>3 DEF Held

\* ... or not at all.
LEMMA SameKeeps ==
  ASSUME Types, Held, SameLocks,
         \A m \in Locks, u \in Threads : Holds(m, u)' = Holds(m, u)
  PROVE  /\ Held' /\ owner' \in [Locks -> Threads \cup {Nobody}]
         /\ depth' \in [Locks -> Int]
BY DEF Types, Held, SameLocks

\* The step of a session or a console from one place to another.
LEMMA MovesHolds ==
  ASSUME Types, NEW f \in Foreign, NEW from, NEW to, At(f, from, to),
         tick' = tick, serving' = serving
  PROVE  /\ pc[f] = from /\ pc'[f] = to /\ \A u \in Foreign : u # f => pc'[u] = pc[u]
         /\ \A m \in Locks, u \in Threads : u # f => Holds(m, u)' = Holds(m, u)
         /\ GateOf(f) = One(f \in Sessions /\ from # "rest")
                           + One(from \in {"gated", "execute"})
         /\ GateOf(f)' = One(f \in Sessions /\ to # "rest")
                           + One(to \in {"gated", "execute"})
         /\ CommandOf(f) = One(from = "execute") /\ CommandOf(f)' = One(to = "execute")
         /\ JavaOf(f) = One(from \in {"java", "await"})
         /\ JavaOf(f)' = One(to \in {"java", "await"})
<1>1. /\ pc[f] = from /\ pc'[f] = to /\ \A u \in Foreign : u # f => pc'[u] = pc[u]
  BY DEF Types, At
<1>2. f # Ticker
  BY Names
<1>3. ASSUME NEW u \in Threads, u # f
      PROVE  GateOf(u)' = GateOf(u) /\ CommandOf(u)' = CommandOf(u) /\ JavaOf(u)' = JavaOf(u)
  <2>1. CASE u = Ticker
    BY <2>1 DEF GateOf, CommandOf, JavaOf
  <2>2. CASE u # Ticker
    <3>1. pc'[u] = pc[u]
      BY <1>1, <1>3, <2>2 DEF Threads
    <3> QED
      BY <2>2, <3>1 DEF GateOf, CommandOf, JavaOf
  <2> QED
    BY <2>1, <2>2
<1>4. \A m \in Locks, u \in Threads : u # f => Holds(m, u)' = Holds(m, u)
  BY <1>3 DEF Holds
<1> QED
  BY <1>1, <1>2, <1>4 DEF GateOf, CommandOf, JavaOf

\* A thread takes one lock, gives some back or keeps what it has, while the
\* others stay where they are.
LEMMA Taking ==
  ASSUME Types, Held, NEW l \in Locks, NEW t \in Threads, Lock(l, t),
         \A m \in Locks, u \in Threads : u # t => Holds(m, u)' = Holds(m, u),
         GateOf(t)' = GateOf(t) + One(l = Gate),
         CommandOf(t)' = CommandOf(t) + One(l = Command),
         JavaOf(t)' = JavaOf(t) + One(l = Java)
  PROVE  /\ Held' /\ owner' \in [Locks -> Threads \cup {Nobody}]
         /\ depth' \in [Locks -> Int]
<1>1. ASSUME NEW m \in Locks, NEW u \in Threads
      PROVE  Holds(m, u)' = Holds(m, u) + (IF m = l /\ u = t THEN 1 ELSE 0)
  <2>1. Holds(m, u) \in Int
    BY HoldsIs DEF Locks
  <2>2. CASE u # t
    BY <2>1, <2>2
  <2>3. CASE u = t
    BY <2>1, <2>3, Names DEF Holds, One, Locks
  <2> QED
    BY <2>2, <2>3
<1> QED
  BY <1>1, LockKeeps

LEMMA Giving ==
  ASSUME Types, Held, NEW ls \in SUBSET Locks, NEW t \in Threads, Unlock(ls, t),
         \A m \in Locks, u \in Threads : u # t => Holds(m, u)' = Holds(m, u),
         GateOf(t) = GateOf(t)' + One(Gate \in ls),
         CommandOf(t) = CommandOf(t)' + One(Command \in ls),
         JavaOf(t) = JavaOf(t)' + One(Java \in ls),
         GateOf(t)' \in Nat, CommandOf(t)' \in Nat, JavaOf(t)' \in Nat
  PROVE  /\ Held' /\ owner' \in [Locks -> Threads \cup {Nobody}]
         /\ depth' \in [Locks -> Int]
<1>1. ASSUME NEW m \in Locks, NEW u \in Threads
      PROVE  Holds(m, u)' = Holds(m, u) - (IF m \in ls /\ u = t THEN 1 ELSE 0)
  <2>1. Holds(m, u) \in Int
    BY HoldsIs DEF Locks
  <2>2. CASE u # t
    BY <2>1, <2>2
  <2>3. CASE u = t
    BY <2>1, <2>3, Names DEF Holds, One, Locks
  <2> QED
    BY <2>2, <2>3
<1>2. \A m \in ls : Holds(m, t) > 0
  BY Names DEF Holds, One, Locks
<1> QED
  BY <1>1, <1>2, UnlockKeeps

LEMMA Keeping ==
  ASSUME Types, Held, NEW t \in Threads, SameLocks,
         \A m \in Locks, u \in Threads : u # t => Holds(m, u)' = Holds(m, u),
         GateOf(t)' = GateOf(t), CommandOf(t)' = CommandOf(t), JavaOf(t)' = JavaOf(t)
  PROVE  /\ Held' /\ owner' \in [Locks -> Threads \cup {Nobody}]
         /\ depth' \in [Locks -> Int]
<1>1. \A m \in Locks, u \in Threads : Holds(m, u)' = Holds(m, u)
  BY DEF Holds
<1> QED
  BY <1>1, SameKeeps

----------------------------------------------------------------------------
(* Sessions and consoles.                                                  *)

\* The locks of a step from one place to another.
LockTypes == /\ owner' \in [Locks -> Threads \cup {Nobody}]
             /\ depth' \in [Locks -> Int]

LEMMA MovesTypes ==
  ASSUME Types, NEW f \in Foreign, NEW from, NEW to \in Places, At(f, from, to),
         f \in Consoles => to # "handler",
         LockTypes, task' \in [Foreign -> Tasks], queue' \in Seq(Foreign),
         tick' = tick, serving' = serving
  PROVE  Types'
<1>1. /\ pc' \in [Foreign -> Places] /\ pc'[f] = to
      /\ \A u \in Foreign : u # f => pc'[u] = pc[u]
  BY DEF Types, At
<1>2. \A c \in Consoles : pc'[c] # "handler"
  BY <1>1, Names DEF Types
<1> QED
  BY <1>1, <1>2 DEF Types, LockTypes

LEMMA MovesQueue ==
  ASSUME Types, Queued, Unserved, NEW f \in Foreign, NEW from, NEW to,
         At(f, from, to), from # "await",
         task' = task, queue' = queue, serving' = serving
  PROVE  Queued' /\ Unserved'
<1>1. pc[f] = from /\ \A u \in Foreign : u # f => pc'[u] = pc[u]
  BY DEF Types, At
<1>2. Queued'
  BY DEF Queued
<1>3. Unserved'
  BY <1>1, Names DEF Unserved
<1> QED
  BY <1>2, <1>3

LEMMA HomeIs ==
  ASSUME NEW f \in Foreign
  PROVE  /\ f \in Sessions => Home(f) = "handler"
         /\ f \notin Sessions => Home(f) = "rest"
         /\ Home(f) \in Places /\ (f \in Consoles => Home(f) = "rest")
BY DEF Home, Places

LEMMA ForeignStep ==
  ASSUME CInv, NEW f \in Foreign,
         \/ BeginPacket(f) \/ EndPacket(f) \/ BeginCommand(f) \/ EnterJava(f)
         \/ LeaveJava(f) \/ Dispatch(f) \/ Execute(f) \/ EndCommand(f)
  PROVE  CInv'
<1> USE DEF CInv
<1>0. /\ task' = task /\ queue' = queue /\ tick' = tick /\ serving' = serving
  BY DEF BeginPacket, EndPacket, BeginCommand, EnterJava, LeaveJava, Dispatch,
         Execute, EndCommand, Requests, Ticking
<1>1. f \in Threads /\ task \in [Foreign -> Tasks] /\ queue \in Seq(Foreign)
  BY Names DEF Types
<1>2. ASSUME NEW from, from # "await", NEW to \in Places, At(f, from, to),
             f \in Consoles => to # "handler", Held', LockTypes
      PROVE  CInv'
  <2>1. Types'
    BY <1>0, <1>1, <1>2, MovesTypes
  <2>2. Queued' /\ Unserved'
    BY <1>0, <1>2, MovesQueue
  <2> QED
    BY <1>2, <2>1, <2>2
<1>3. ASSUME NEW l \in Locks, NEW from, NEW to, At(f, from, to), Lock(l, f),
             One(f \in Sessions /\ to # "rest") + One(to \in {"gated", "execute"})
               = One(f \in Sessions /\ from # "rest")
                   + One(from \in {"gated", "execute"}) + One(l = Gate),
             One(to = "execute") = One(from = "execute") + One(l = Command),
             One(to \in {"java", "await"}) = One(from \in {"java", "await"}) + One(l = Java)
      PROVE  Held' /\ LockTypes
  <2>1. /\ \A m \in Locks, u \in Threads : u # f => Holds(m, u)' = Holds(m, u)
        /\ GateOf(f)' = GateOf(f) + One(l = Gate)
        /\ CommandOf(f)' = CommandOf(f) + One(l = Command)
        /\ JavaOf(f)' = JavaOf(f) + One(l = Java)
    BY <1>0, <1>3, MovesHolds
  <2> QED
    BY <1>1, <1>3, <2>1, Taking DEF LockTypes
<1>4. ASSUME NEW ls \in SUBSET Locks, NEW from, NEW to, At(f, from, to), Unlock(ls, f),
             One(f \in Sessions /\ to # "rest") + One(to \in {"gated", "execute"})
                + One(Gate \in ls)
               = One(f \in Sessions /\ from # "rest")
                   + One(from \in {"gated", "execute"}),
             One(to = "execute") + One(Command \in ls) = One(from = "execute"),
             One(to \in {"java", "await"}) + One(Java \in ls)
               = One(from \in {"java", "await"})
      PROVE  Held' /\ LockTypes
  <2>1. /\ \A m \in Locks, u \in Threads : u # f => Holds(m, u)' = Holds(m, u)
        /\ GateOf(f) = GateOf(f)' + One(Gate \in ls)
        /\ CommandOf(f) = CommandOf(f)' + One(Command \in ls)
        /\ JavaOf(f) = JavaOf(f)' + One(Java \in ls)
        /\ GateOf(f)' \in Nat /\ CommandOf(f)' \in Nat /\ JavaOf(f)' \in Nat
    <3>1. \A b : One(b) \in Nat
      BY DEF One
    <3> QED
      BY <1>0, <1>4, <3>1, MovesHolds
  <2> QED
    BY <1>1, <1>4, <2>1, Giving DEF LockTypes
<1>5. ASSUME NEW from, NEW to, At(f, from, to), SameLocks,
             One(f \in Sessions /\ to # "rest") + One(to \in {"gated", "execute"})
               = One(f \in Sessions /\ from # "rest")
                   + One(from \in {"gated", "execute"}),
             One(to = "execute") = One(from = "execute"),
             One(to \in {"java", "await"}) = One(from \in {"java", "await"})
      PROVE  Held' /\ LockTypes
  <2>1. /\ \A m \in Locks, u \in Threads : u # f => Holds(m, u)' = Holds(m, u)
        /\ GateOf(f) = GateOf(f)' /\ CommandOf(f) = CommandOf(f)'
        /\ JavaOf(f) = JavaOf(f)'
    BY <1>0, <1>5, MovesHolds
  <2> QED
    BY <1>1, <1>5, <2>1, Keeping DEF LockTypes
<1>6. CASE BeginPacket(f)
  <2>1. f \in Sessions /\ At(f, "rest", "handler") /\ Lock(Gate, f)
    BY <1>6 DEF BeginPacket
  <2>2. Held' /\ LockTypes
    BY <1>3, <2>1, Names DEF One
  <2> QED
    BY <1>2, <2>1, <2>2, Names DEF Places
<1>7. CASE EndPacket(f)
  <2>1. At(f, "handler", "rest") /\ Unlock({Gate}, f) /\ f \in Sessions
    BY <1>7, Names DEF EndPacket, Types, At
  <2>2. Held' /\ LockTypes
    BY <1>4, <2>1, Names DEF One
  <2> QED
    BY <1>2, <2>1, <2>2 DEF Places
<1>8. CASE BeginCommand(f)
  <2>1. At(f, Home(f), "enter") /\ SameLocks
    BY <1>8 DEF BeginCommand
  <2>2. Held' /\ LockTypes
    BY <1>5, <2>1, HomeIs DEF One
  <2> QED
    BY <1>2, <2>1, <2>2, HomeIs DEF Places
<1>9. CASE EnterJava(f)
  <2>1. CASE At(f, "enter", "java") /\ Lock(Java, f)
    <3>1. Held' /\ LockTypes
      BY <1>3, <2>1, Names DEF One
    <3> QED
      BY <1>2, <2>1, <3>1 DEF Places
  <2>2. CASE At(f, "enter", "dispatch") /\ SameLocks
    <3>1. Held' /\ LockTypes
      BY <1>5, <2>2 DEF One
    <3> QED
      BY <1>2, <2>2, <3>1 DEF Places
  <2> QED
    BY <1>9, <2>1, <2>2 DEF EnterJava
<1>10. CASE LeaveJava(f)
  <2>1. CASE At(f, "java", "dispatch") /\ Unlock({Java}, f)
    <3>1. Held' /\ LockTypes
      BY <1>4, <2>1, Names DEF One
    <3> QED
      BY <1>2, <2>1, <3>1 DEF Places
  <2>2. CASE At(f, "java", Home(f)) /\ Unlock({Java}, f)
    <3>1. Held' /\ LockTypes
      BY <1>4, <2>2, Names, HomeIs DEF One
    <3> QED
      BY <1>2, <2>2, <3>1, HomeIs
  <2> QED
    BY <1>10, <2>1, <2>2 DEF LeaveJava
<1>11. CASE Dispatch(f)
  <2>1. At(f, "dispatch", "gated") /\ Lock(Gate, f)
    BY <1>11 DEF Dispatch
  <2>2. Held' /\ LockTypes
    BY <1>3, <2>1, Names DEF One
  <2> QED
    BY <1>2, <2>1, <2>2 DEF Places
<1>12. CASE Execute(f)
  <2>1. At(f, "gated", "execute") /\ Lock(Command, f)
    BY <1>12 DEF Execute
  <2>2. Held' /\ LockTypes
    BY <1>3, <2>1, Names DEF One
  <2> QED
    BY <1>2, <2>1, <2>2 DEF Places
<1>13. CASE EndCommand(f)
  <2>1. At(f, "execute", Home(f)) /\ Unlock({Gate, Command}, f)
    BY <1>13 DEF EndCommand
  <2>2. Held' /\ LockTypes
    BY <1>4, <2>1, Names, HomeIs DEF One
  <2> QED
    BY <1>2, <2>1, <2>2, HomeIs
<1> QED
  BY <1>6, <1>7, <1>8, <1>9, <1>10, <1>11, <1>12, <1>13

LEMMA RemoveAtIs ==
  ASSUME NEW S, NEW s \in Seq(S), NEW i \in DOMAIN s
  PROVE  /\ RemoveAt(s, i) \in Seq(S) /\ Len(RemoveAt(s, i)) = Len(s) - 1
         /\ \A j \in 1 .. Len(s) - 1 :
               RemoveAt(s, i)[j] = IF j < i THEN s[j] ELSE s[j + 1]
<1> DEFINE n == Len(s)
           a == SubSeq(s, 1, i - 1)
           b == SubSeq(s, i + 1, n)
<1>1. n \in Nat /\ i \in 1 .. n /\ \A k \in 1 .. n : s[k] \in S
  OBVIOUS
<1>2. i - 1 \in Int /\ i + 1 \in Int /\ 1 \in Int /\ n \in Int
  BY <1>1
<1> HIDE DEF n
<1>3. /\ a \in Seq(S) /\ Len(a) = i - 1 /\ \A k \in 1 .. i - 1 : a[k] = s[k]
  <2>1. \A k \in 1 .. i - 1 : s[k] \in S
    BY <1>1
  <2>2. /\ a \in Seq(S) /\ Len(a) = IF 1 <= i - 1 THEN i - 1 - 1 + 1 ELSE 0
        /\ \A k \in 1 .. i - 1 - 1 + 1 : a[k] = s[1 + k - 1]
    BY <1>2, <2>1, SubSeqProperties
  <2> HIDE DEF a
  <2>3. i - 1 - 1 + 1 = i - 1 /\ \A k \in 1 .. i - 1 : 1 + k - 1 = k
    BY <1>1
  <2> QED
    BY <1>1, <2>2, <2>3
<1>4. /\ b \in Seq(S) /\ Len(b) = n - i /\ \A k \in 1 .. n - i : b[k] = s[i + k]
  <2>1. \A k \in i + 1 .. n : s[k] \in S
    BY <1>1
  <2>2. /\ b \in Seq(S) /\ Len(b) = IF i + 1 <= n THEN n - (i + 1) + 1 ELSE 0
        /\ \A k \in 1 .. n - (i + 1) + 1 : b[k] = s[i + 1 + k - 1]
    BY <1>2, <2>1, SubSeqProperties
  <2> HIDE DEF b
  <2>3. n - (i + 1) + 1 = n - i /\ \A k \in 1 .. n - i : i + 1 + k - 1 = i + k
    BY <1>1
  <2> QED
    BY <1>1, <2>2, <2>3
<1>5. RemoveAt(s, i) = a \o b
  BY DEF RemoveAt, n
<1> HIDE DEF a, b
<1>6. /\ a \o b \in Seq(S) /\ Len(a \o b) = Len(a) + Len(b)
      /\ \A j \in 1 .. Len(a) + Len(b) :
            (a \o b)[j] = IF j <= Len(a) THEN a[j] ELSE b[j - Len(a)]
  <2>1. a \in Seq(S) /\ b \in Seq(S)
    BY <1>3, <1>4
  <2> QED
    BY <2>1, ConcatProperties
<1>7. Len(a) + Len(b) = n - 1
  BY <1>1, <1>3, <1>4
<1>8. ASSUME NEW j \in 1 .. n - 1
      PROVE  (a \o b)[j] = IF j < i THEN s[j] ELSE s[j + 1]
  <2>1. (a \o b)[j] = IF j <= Len(a) THEN a[j] ELSE b[j - Len(a)]
    BY <1>6, <1>7
  <2>2. CASE j < i
    <3>1. j <= Len(a) /\ j \in 1 .. i - 1
      BY <1>1, <1>3, <2>2
    <3> QED
      BY <1>3, <2>1, <2>2, <3>1
  <2>3. CASE ~(j < i)
    <3>1. ~(j <= Len(a)) /\ j - Len(a) \in 1 .. n - i /\ i + (j - Len(a)) = j + 1
      BY <1>1, <1>3, <2>3
    <3> QED
      BY <1>4, <2>1, <2>3, <3>1
  <2> QED
    BY <2>2, <2>3
<1> QED
  BY <1>5, <1>6, <1>7, <1>8 DEF n

\* A step between the places where Java is held.
LEMMA JavaMoves ==
  ASSUME Types, Held, NEW f \in Foreign, NEW from \in {"java", "await"},
         NEW to \in {"java", "await"}, At(f, from, to), SameLocks,
         tick' = tick, serving' = serving,
         task' \in [Foreign -> Tasks], queue' \in Seq(Foreign)
  PROVE  Types' /\ Held'
<1>1. Held' /\ LockTypes
  <2>1. /\ \A m \in Locks, u \in Threads : u # f => Holds(m, u)' = Holds(m, u)
        /\ GateOf(f)' = GateOf(f) /\ CommandOf(f)' = CommandOf(f)
        /\ JavaOf(f)' = JavaOf(f)
    BY MovesHolds DEF One
  <2> QED
    BY <2>1, Names, Keeping DEF LockTypes
<1>2. Types'
  BY <1>1, MovesTypes DEF Places
<1> QED
  BY <1>1, <1>2

LEMMA RequestStep ==
  ASSUME CInv, NEW f \in Foreign, Request(f)
  PROVE  CInv'
<1> USE DEF CInv
<1>1. /\ At(f, "java", "await") /\ task[f] = "none"
      /\ task' = [task EXCEPT ![f] = "Pending"] /\ queue' = Append(queue, f)
      /\ SameLocks /\ tick' = tick /\ serving' = serving
  BY DEF Request, Ticking
<1>2. /\ task \in [Foreign -> Tasks] /\ queue \in Seq(Foreign) /\ pc \in [Foreign -> Places]
  BY DEF Types
<1>3. /\ task' \in [Foreign -> Tasks] /\ task'[f] = "Pending"
      /\ \A u \in Foreign : u # f => task'[u] = task[u]
  BY <1>1, <1>2 DEF Tasks
<1>4. queue' \in Seq(Foreign)
  BY <1>1, <1>2
<1>5. Types' /\ Held'
  BY <1>1, <1>3, <1>4, JavaMoves
<1>6. /\ DOMAIN queue' = 1 .. Len(queue) + 1 /\ queue'[Len(queue) + 1] = f
      /\ DOMAIN queue = 1 .. Len(queue) /\ Len(queue) \in Nat
      /\ \A i \in DOMAIN queue : queue'[i] = queue[i] /\ queue[i] \in Foreign
  BY <1>1, <1>2
<1>7. \A i \in DOMAIN queue : queue[i] # f /\ task'[queue[i]] = "Pending"
  BY <1>1, <1>3, <1>6 DEF Queued
<1>8. Queued'
  <2>1. \A i \in DOMAIN queue' : i \in DOMAIN queue \/ i = Len(queue) + 1
    BY <1>6
  <2>2. \A i \in DOMAIN queue' : task'[queue'[i]] = "Pending"
    BY <1>3, <1>6, <1>7, <2>1
  <2>3. \A i, j \in DOMAIN queue' : queue'[i] = queue'[j] => i = j
    BY <1>6, <1>7, <2>1 DEF Queued
  <2>4. serving' # Nobody => task'[serving'] \in {"Running", "Abandoned"}
    BY <1>1, <1>3 DEF Queued, Types
  <2> QED
    BY <2>2, <2>3, <2>4 DEF Queued
<1>9. Unserved'
  <2>1. pc'[f] = "await" /\ \A u \in Foreign : u # f => pc'[u] = pc[u]
    BY <1>1, <1>2 DEF At
  <2> QED
    BY <1>1, <1>3, <2>1, Names DEF Unserved
<1> QED
  BY <1>5, <1>8, <1>9

LEMMA AnsweredStep ==
  ASSUME CInv, NEW f \in Foreign, Answered(f)
  PROVE  CInv'
<1> USE DEF CInv
<1>1. /\ At(f, "await", "java") /\ task[f] = "Done"
      /\ task' = [task EXCEPT ![f] = "none"] /\ queue' = queue
      /\ SameLocks /\ tick' = tick /\ serving' = serving
  BY DEF Answered, Ticking
<1>2. /\ task \in [Foreign -> Tasks] /\ queue \in Seq(Foreign) /\ pc \in [Foreign -> Places]
  BY DEF Types
<1>3. /\ task' \in [Foreign -> Tasks] /\ task'[f] = "none"
      /\ \A u \in Foreign : u # f => task'[u] = task[u]
  BY <1>1, <1>2 DEF Tasks
<1>4. Types' /\ Held'
  BY <1>1, <1>2, <1>3, JavaMoves
<1>5. \A i \in DOMAIN queue : queue[i] # f /\ queue[i] \in Foreign
  BY <1>1, <1>2 DEF Queued
<1>6. Queued'
  BY <1>1, <1>3, <1>5 DEF Queued, Types
<1>7. Unserved'
  <2>1. \A u \in Foreign : u # f => pc'[u] = pc[u]
    BY <1>1, <1>2 DEF At
  <2> QED
    BY <1>1, <1>3, <2>1, Names DEF Unserved
<1> QED
  BY <1>4, <1>6, <1>7

LEMMA GiveUpStep ==
  ASSUME CInv, NEW f \in Foreign, GiveUp(f)
  PROVE  CInv'
<1> USE DEF CInv
<1>1. /\ At(f, "await", "java") /\ SameLocks /\ tick' = tick /\ serving' = serving
      /\ \/ /\ task[f] = "Pending" /\ task' = [task EXCEPT ![f] = "none"]
            /\ \E i \in DOMAIN queue : queue[i] = f /\ queue' = RemoveAt(queue, i)
         \/ /\ task[f] = "Running" /\ task' = [task EXCEPT ![f] = "Abandoned"]
            /\ queue' = queue
  BY DEF GiveUp, Ticking
<1>2. /\ task \in [Foreign -> Tasks] /\ queue \in Seq(Foreign) /\ pc \in [Foreign -> Places]
      /\ DOMAIN queue = 1 .. Len(queue) /\ Len(queue) \in Nat
  BY DEF Types
<1>3. \A u \in Foreign : u # f => pc'[u] = pc[u]
  BY <1>1, <1>2 DEF At
<1>4. CASE /\ task[f] = "Pending" /\ task' = [task EXCEPT ![f] = "none"]
           /\ \E i \in DOMAIN queue : queue[i] = f /\ queue' = RemoveAt(queue, i)
  <2> PICK i \in DOMAIN queue : queue[i] = f /\ queue' = RemoveAt(queue, i)
    BY <1>4
  <2>1. /\ queue' \in Seq(Foreign) /\ Len(queue') = Len(queue) - 1
        /\ \A j \in 1 .. Len(queue) - 1 :
              queue'[j] = IF j < i THEN queue[j] ELSE queue[j + 1]
    BY <1>2, RemoveAtIs
  <2>2. DOMAIN queue' = 1 .. Len(queue) - 1
    BY <2>1
  <2>3. /\ task' \in [Foreign -> Tasks] /\ task'[f] = "none"
        /\ \A u \in Foreign : u # f => task'[u] = task[u]
    BY <1>2, <1>4 DEF Tasks
  <2>4. Types' /\ Held'
    BY <1>1, <2>1, <2>3, JavaMoves
  <2> DEFINE at(j) == IF j < i THEN j ELSE j + 1
  <2>5. \A j \in DOMAIN queue' : /\ at(j) \in DOMAIN queue /\ at(j) # i
                                 /\ queue'[j] = queue[at(j)]
    BY <1>2, <2>1, <2>2
  <2>6. \A j, k \in DOMAIN queue' : at(j) = at(k) => j = k
    BY <1>2, <2>2
  <2> HIDE DEF at
  <2>7. \A k \in DOMAIN queue : k # i => queue[k] # f /\ queue[k] \in Foreign
    BY <1>2 DEF Queued
  <2>8. Queued'
    <3>1. \A j \in DOMAIN queue' : task'[queue'[j]] = "Pending"
      BY <2>3, <2>5, <2>7 DEF Queued
    <3>2. \A j, k \in DOMAIN queue' : queue'[j] = queue'[k] => j = k
      BY <2>5, <2>6 DEF Queued
    <3>3. serving' # Nobody => task'[serving'] \in {"Running", "Abandoned"}
      BY <1>1, <1>4, <2>3 DEF Queued, Types
    <3> QED
      BY <3>1, <3>2, <3>3 DEF Queued
  <2>9. Unserved'
    BY <1>1, <1>3, <2>3, Names DEF Unserved
  <2> QED
    BY <2>4, <2>8, <2>9
<1>5. CASE /\ task[f] = "Running" /\ task' = [task EXCEPT ![f] = "Abandoned"]
           /\ queue' = queue
  <2>1. /\ task' \in [Foreign -> Tasks] /\ task'[f] = "Abandoned"
        /\ \A u \in Foreign : u # f => task'[u] = task[u]
    BY <1>2, <1>5 DEF Tasks
  <2>2. Types' /\ Held'
    BY <1>1, <1>2, <1>5, <2>1, JavaMoves
  <2>3. \A k \in DOMAIN queue : queue[k] # f /\ queue[k] \in Foreign
    BY <1>2, <1>5 DEF Queued
  <2>4. Queued'
    BY <1>1, <1>5, <2>1, <2>3 DEF Queued, Types
  <2>5. f \notin Sessions
    BY <1>5 DEF Unserved
  <2>6. Unserved'
    BY <1>1, <1>3, <2>1, <2>5, Names DEF Unserved
  <2> QED
    BY <2>2, <2>4, <2>6
<1> QED
  BY <1>1, <1>4, <1>5

----------------------------------------------------------------------------
(* The tick thread.                                                        *)

TickJava(at, who) ==
    One(at = "java")
      + One(who = Nobody /\ at \in {"enter", "java", "gated", "execute", "served", "hook"})

LEMMA TickHolds ==
  ASSUME pc' = pc
  PROVE  /\ \A m \in Locks, u \in Threads : u # Ticker => Holds(m, u)' = Holds(m, u)
         /\ GateOf(Ticker) = One(tick # "sleep") /\ GateOf(Ticker)' = One(tick' # "sleep")
         /\ CommandOf(Ticker) = One(tick = "execute")
         /\ CommandOf(Ticker)' = One(tick' = "execute")
         /\ JavaOf(Ticker) = TickJava(tick, serving)
         /\ JavaOf(Ticker)' = TickJava(tick', serving')
         /\ Ticker \in Threads
BY Names DEF Holds, GateOf, CommandOf, JavaOf, TickJava

LEMMA TickStep ==
  ASSUME CInv,
         \/ BeginTick \/ ServeEnterJava \/ ServeLeaveJava \/ ServeExecute
         \/ ServeEndCommand \/ EndDrain \/ HookCommand \/ EndHook \/ EndTick
  PROVE  CInv'
<1> USE DEF CInv
<1>0. pc' = pc /\ task' = task /\ queue' = queue /\ serving' = serving
  BY DEF BeginTick, ServeEnterJava, ServeLeaveJava, ServeExecute, ServeEndCommand,
         EndDrain, HookCommand, EndHook, EndTick, Requests
<1>1. ASSUME NEW from, NEW to \in Ticks, TickAt(from, to), Held', LockTypes,
             to \in {"sleep", "drain", "hook", "simulate"} => serving = Nobody
      PROVE  CInv'
  <2>1. Types'
    BY <1>0, <1>1 DEF Types, LockTypes, TickAt
  <2>2. Queued' /\ Unserved'
    BY <1>0 DEF Queued, Unserved
  <2> QED
    BY <1>1, <2>1, <2>2
<1>2. ASSUME NEW l \in Locks, NEW from, NEW to, TickAt(from, to), Lock(l, Ticker),
             One(to # "sleep") = One(from # "sleep") + One(l = Gate),
             One(to = "execute") = One(from = "execute") + One(l = Command),
             TickJava(to, serving) = TickJava(from, serving) + One(l = Java)
      PROVE  Held' /\ LockTypes
  <2>1. tick = from /\ tick' = to
    BY <1>2 DEF TickAt
  <2> QED
    BY <1>0, <1>2, <2>1, TickHolds, Taking DEF LockTypes
<1>3. ASSUME NEW ls \in SUBSET Locks, NEW from, NEW to, TickAt(from, to),
             Unlock(ls, Ticker),
             One(to # "sleep") + One(Gate \in ls) = One(from # "sleep"),
             One(to = "execute") + One(Command \in ls) = One(from = "execute"),
             TickJava(to, serving) + One(Java \in ls) = TickJava(from, serving)
      PROVE  Held' /\ LockTypes
  <2>1. tick = from /\ tick' = to
    BY <1>3 DEF TickAt
  <2>2. \A b : One(b) \in Nat
    BY DEF One
  <2>3. \A a, b : TickJava(a, b) \in Nat
    BY <2>2 DEF TickJava
  <2>4. /\ GateOf(Ticker) = One(from # "sleep") /\ GateOf(Ticker)' = One(to # "sleep")
        /\ CommandOf(Ticker) = One(from = "execute")
        /\ CommandOf(Ticker)' = One(to = "execute")
        /\ JavaOf(Ticker) = TickJava(from, serving)
        /\ JavaOf(Ticker)' = TickJava(to, serving)
        /\ Ticker \in Threads
        /\ \A m \in Locks, u \in Threads : u # Ticker => Holds(m, u)' = Holds(m, u)
    BY <1>0, <2>1, TickHolds
  <2>5. /\ GateOf(Ticker) = GateOf(Ticker)' + One(Gate \in ls)
        /\ CommandOf(Ticker) = CommandOf(Ticker)' + One(Command \in ls)
        /\ JavaOf(Ticker) = JavaOf(Ticker)' + One(Java \in ls)
        /\ GateOf(Ticker)' \in Nat /\ CommandOf(Ticker)' \in Nat /\ JavaOf(Ticker)' \in Nat
    BY <1>3, <2>2, <2>3, <2>4
  <2> QED
    BY <1>3, <2>4, <2>5, Giving DEF LockTypes
<1>4. ASSUME NEW from, NEW to, TickAt(from, to), SameLocks,
             One(to # "sleep") = One(from # "sleep"),
             One(to = "execute") = One(from = "execute"),
             TickJava(to, serving) = TickJava(from, serving)
      PROVE  Held' /\ LockTypes
  <2>1. tick = from /\ tick' = to
    BY <1>4 DEF TickAt
  <2> QED
    BY <1>0, <1>4, <2>1, TickHolds, Keeping DEF LockTypes
<1>5. \A from, to : TickAt(from, to) /\ from \in {"sleep", "drain", "hook", "simulate"}
                      => serving = Nobody
  BY DEF Types, TickAt
<1>6. CASE BeginTick
  <2>1. TickAt("sleep", "drain") /\ Lock(Gate, Ticker)
    BY <1>6 DEF BeginTick
  <2>2. Held' /\ LockTypes
    BY <1>2, <2>1, Names DEF One, TickJava
  <2> QED
    BY <1>1, <1>5, <2>1, <2>2 DEF Ticks
<1>7. CASE ServeEnterJava
  <2>1. CASE TickAt("enter", "java") /\ Lock(Java, Ticker)
    <3>1. Held' /\ LockTypes
      BY <1>2, <2>1, Names DEF One, TickJava
    <3> QED
      BY <1>1, <2>1, <3>1 DEF Ticks
  <2>2. CASE TickAt("enter", "gated") /\ SameLocks
    <3>1. Held' /\ LockTypes
      BY <1>4, <2>2 DEF One, TickJava
    <3> QED
      BY <1>1, <2>2, <3>1 DEF Ticks
  <2> QED
    BY <1>7, <2>1, <2>2 DEF ServeEnterJava
<1>8. CASE ServeLeaveJava
  <2>1. CASE TickAt("java", "gated") /\ Unlock({Java}, Ticker)
    <3>1. Held' /\ LockTypes
      BY <1>3, <2>1, Names DEF One, TickJava
    <3> QED
      BY <1>1, <2>1, <3>1 DEF Ticks
  <2>2. CASE TickAt("java", "served") /\ Unlock({Java}, Ticker)
    <3>1. Held' /\ LockTypes
      BY <1>3, <2>2, Names DEF One, TickJava
    <3> QED
      BY <1>1, <2>2, <3>1 DEF Ticks
  <2> QED
    BY <1>8, <2>1, <2>2 DEF ServeLeaveJava
<1>9. CASE ServeExecute
  <2>1. TickAt("gated", "execute") /\ Lock(Command, Ticker)
    BY <1>9 DEF ServeExecute
  <2>2. Held' /\ LockTypes
    BY <1>2, <2>1, Names DEF One, TickJava
  <2> QED
    BY <1>1, <2>1, <2>2 DEF Ticks
<1>10. CASE ServeEndCommand
  <2>1. TickAt("execute", "served") /\ Unlock({Command}, Ticker)
    BY <1>10 DEF ServeEndCommand
  <2>2. Held' /\ LockTypes
    BY <1>3, <2>1, Names DEF One, TickJava
  <2> QED
    BY <1>1, <2>1, <2>2 DEF Ticks
<1>11. CASE EndDrain
  <2>1. CASE TickAt("drain", "hook") /\ Lock(Java, Ticker)
    <3>1. serving = Nobody
      BY <1>5, <2>1
    <3>2. Held' /\ LockTypes
      BY <1>2, <2>1, <3>1, Names DEF One, TickJava
    <3> QED
      BY <1>1, <2>1, <3>1, <3>2 DEF Ticks
  <2>2. CASE TickAt("drain", "drain") /\ SameLocks
    <3>1. serving = Nobody
      BY <1>5, <2>2
    <3>2. Held' /\ LockTypes
      BY <1>4, <2>2
    <3> QED
      BY <1>1, <2>2, <3>1, <3>2 DEF Ticks
  <2>3. CASE TickAt("drain", "simulate") /\ SameLocks
    <3>1. serving = Nobody
      BY <1>5, <2>3
    <3>2. Held' /\ LockTypes
      BY <1>4, <2>3 DEF One, TickJava
    <3> QED
      BY <1>1, <2>3, <3>1, <3>2 DEF Ticks
  <2> QED
    BY <1>11, <2>1, <2>2, <2>3 DEF EndDrain
<1>12. CASE HookCommand
  <2>1. TickAt("hook", "enter") /\ SameLocks
    BY <1>12 DEF HookCommand
  <2>2. Held' /\ LockTypes
    BY <1>4, <2>1 DEF One, TickJava
  <2> QED
    BY <1>1, <2>1, <2>2 DEF Ticks
<1>13. CASE EndHook
  <2>1. TickAt("hook", "drain") /\ Unlock({Java}, Ticker)
    BY <1>13 DEF EndHook
  <2>2. serving = Nobody
    BY <1>5, <2>1
  <2>3. Held' /\ LockTypes
    BY <1>3, <2>1, <2>2, Names DEF One, TickJava
  <2> QED
    BY <1>1, <2>1, <2>2, <2>3 DEF Ticks
<1>14. CASE EndTick
  <2>1. TickAt("simulate", "sleep") /\ Unlock({Gate}, Ticker)
    BY <1>14 DEF EndTick
  <2>2. serving = Nobody
    BY <1>5, <2>1
  <2>3. Held' /\ LockTypes
    BY <1>3, <2>1, <2>2, Names DEF One, TickJava
  <2> QED
    BY <1>1, <2>1, <2>2, <2>3 DEF Ticks
<1> QED
  BY <1>6, <1>7, <1>8, <1>9, <1>10, <1>11, <1>12, <1>13, <1>14

\* Who waits for the gate, or holds it, keeps a tick from going on.
LEMMA GateAlone ==
  ASSUME Held, NEW t \in Threads, NEW u \in Threads, GateOf(t) > 0, GateOf(u) > 0
  PROVE  t = u
<1>1. /\ Holds(Gate, t) = IF owner[Gate] = t THEN depth[Gate] ELSE 0
      /\ Holds(Gate, u) = IF owner[Gate] = u THEN depth[Gate] ELSE 0
  BY Names DEF Held
<1>2. owner[Gate] = t /\ owner[Gate] = u
  BY <1>1, HoldsIs
<1> QED
  BY <1>2

LEMMA ServeStep ==
  ASSUME CInv, ServeRequest
  PROVE  CInv'
<1> USE DEF CInv
<1> DEFINE h == Head(queue)
<1>1. /\ queue # << >> /\ TickAt("drain", "enter") /\ queue' = Tail(queue)
      /\ serving' = h /\ task' = [task EXCEPT ![h] = "Running"]
      /\ SameLocks /\ pc' = pc
  BY DEF ServeRequest
<1>2. tick = "drain" /\ tick' = "enter" /\ serving = Nobody
  BY <1>1 DEF TickAt, Types
<1>3. /\ queue \in Seq(Foreign) /\ DOMAIN queue = 1 .. Len(queue) /\ Len(queue) \in Nat
      /\ Len(queue) > 0 /\ task \in [Foreign -> Tasks]
  BY <1>1 DEF Types
<1>4. /\ h = queue[1] /\ 1 \in DOMAIN queue /\ h \in Foreign /\ task[h] = "Pending"
      /\ h # Nobody
  <2>1. h = queue[1] /\ 1 \in DOMAIN queue /\ h \in Foreign
    BY <1>1, <1>3
  <2> QED
    BY <2>1, Names DEF Queued
<1>5. /\ queue' \in Seq(Foreign) /\ DOMAIN queue' = 1 .. Len(queue) - 1
      /\ \A i \in 1 .. Len(queue) - 1 :
            queue'[i] = queue[i + 1] /\ i + 1 \in DOMAIN queue /\ i + 1 # 1
  BY <1>1, <1>3
<1> HIDE DEF h
<1>6. /\ task' \in [Foreign -> Tasks] /\ task'[h] = "Running"
      /\ \A u \in Foreign : u # h => task'[u] = task[u]
  BY <1>1, <1>3, <1>4 DEF Tasks
<1>7. Held' /\ LockTypes
  <2>1. TickJava(tick', serving') = TickJava(tick, serving)
    BY <1>1, <1>2, <1>4 DEF TickJava, One
  <2>2. One(tick' # "sleep") = One(tick # "sleep") /\ One(tick' = "execute") = One(tick = "execute")
    BY <1>2 DEF One
  <2> QED
    BY <1>1, <2>1, <2>2, TickHolds, Keeping DEF LockTypes
<1>8. Types'
  <2>1. tick' \in Ticks /\ tick' \notin {"sleep", "drain", "hook", "simulate"}
    BY <1>2 DEF Ticks
  <2> QED
    BY <1>1, <1>4, <1>5, <1>6, <1>7, <2>1 DEF Types, LockTypes
<1>9. h \notin Sessions
  <2> SUFFICES ASSUME h \in Sessions PROVE FALSE
    OBVIOUS
  <2>1. pc[h] = "await"
    BY <1>4 DEF Unserved
  <2>2. h # Ticker /\ h \in Threads /\ Ticker \in Threads
    BY <1>4, Names
  <2>3. GateOf(h) > 0 /\ GateOf(Ticker) > 0
    BY <1>2, <2>1, <2>2 DEF GateOf, One
  <2> QED
    BY <2>2, <2>3, GateAlone
<1>10. Queued'
  <2>1. \A i \in DOMAIN queue' : queue'[i] # h /\ queue'[i] \in Foreign
    <3> TAKE i \in DOMAIN queue'
    <3>1. queue'[i] = queue[i + 1] /\ i + 1 \in DOMAIN queue /\ i + 1 # 1
      BY <1>5
    <3>2. queue[i + 1] # queue[1]
      BY <1>4, <3>1 DEF Queued
    <3> QED
      BY <1>3, <1>4, <3>1, <3>2
  <2>2. \A i \in DOMAIN queue' : task'[queue'[i]] = "Pending"
    BY <1>5, <1>6, <2>1 DEF Queued
  <2>3. \A i, j \in DOMAIN queue' : queue'[i] = queue'[j] => i = j
    <3> SUFFICES ASSUME NEW i \in DOMAIN queue', NEW j \in DOMAIN queue',
                        queue'[i] = queue'[j]
                 PROVE  i = j
      OBVIOUS
    <3>1. queue[i + 1] = queue[j + 1] /\ i + 1 \in DOMAIN queue /\ j + 1 \in DOMAIN queue
      BY <1>5
    <3>2. i + 1 = j + 1
      BY <3>1 DEF Queued
    <3> QED
      BY <1>3, <1>5, <3>2
  <2>4. serving' # Nobody => task'[serving'] \in {"Running", "Abandoned"}
    BY <1>1, <1>6
  <2> QED
    BY <2>2, <2>3, <2>4 DEF Queued
<1>11. Unserved'
  BY <1>1, <1>6, <1>9, Names DEF Unserved
<1> QED
  BY <1>7, <1>8, <1>10, <1>11

LEMMA ServedStep ==
  ASSUME CInv, Served
  PROVE  CInv'
<1> USE DEF CInv
<1>1. /\ SameLocks /\ pc' = pc /\ queue' = queue
      /\ \/ /\ serving = Nobody /\ TickAt("served", "hook")
            /\ task' = task /\ serving' = serving
         \/ /\ serving # Nobody /\ TickAt("served", "drain") /\ serving' = Nobody
            /\ task' = [task EXCEPT ![serving] =
                          IF @ = "Abandoned" THEN "none" ELSE "Done"]
  BY DEF Served
<1>2. Held' /\ LockTypes
  <2>1. TickJava(tick', serving') = TickJava(tick, serving)
    BY <1>1 DEF TickJava, One, TickAt
  <2>2. One(tick' # "sleep") = One(tick # "sleep") /\ One(tick' = "execute") = One(tick = "execute")
    BY <1>1 DEF One, TickAt
  <2> QED
    BY <1>1, <2>1, <2>2, TickHolds, Keeping DEF LockTypes
<1>3. /\ task \in [Foreign -> Tasks] /\ queue \in Seq(Foreign)
      /\ serving \in Foreign \cup {Nobody} /\ tick' \in Ticks
  BY <1>1 DEF Types, TickAt, Ticks
<1>4. CASE serving = Nobody
  <2>1. serving' = serving /\ task' = task
    BY <1>1, <1>4
  <2>2. Types'
    BY <1>1, <1>2, <1>3, <1>4, <2>1 DEF Types, LockTypes
  <2>3. Queued' /\ Unserved'
    BY <1>1, <2>1 DEF Queued, Unserved
  <2> QED
    BY <1>2, <2>2, <2>3
<1>5. CASE serving # Nobody
  <2>1. /\ serving' = Nobody /\ serving \in Foreign
        /\ task' = [task EXCEPT ![serving] = IF @ = "Abandoned" THEN "none" ELSE "Done"]
    BY <1>1, <1>3, <1>5
  <2>2. /\ task' \in [Foreign -> Tasks]
        /\ \A u \in Foreign : u # serving => task'[u] = task[u]
    BY <1>3, <2>1 DEF Tasks
  <2>3. Types'
    BY <1>1, <1>2, <1>3, <2>1, <2>2 DEF Types, LockTypes
  <2>4. \A i \in DOMAIN queue : queue[i] \in Foreign /\ queue[i] # serving
    BY <1>3, <1>5 DEF Queued
  <2>5. Queued'
    BY <1>1, <2>1, <2>2, <2>4 DEF Queued
  <2>6. serving \notin Sessions
    BY DEF Unserved
  <2>7. serving' \notin Sessions
    BY <2>1, Names DEF Threads
  <2>8. Unserved'
    BY <1>1, <2>2, <2>6, <2>7, Names DEF Unserved
  <2> QED
    BY <1>2, <2>3, <2>5, <2>8
<1> QED
  BY <1>4, <1>5

----------------------------------------------------------------------------

LEMMA InitCInv == Init => CInv
<1> SUFFICES ASSUME Init PROVE CInv
  OBVIOUS
<1>1. Types
  <2>1. << >> \in Seq(Foreign)
    OBVIOUS
  <2> QED
    BY <2>1, Names DEF Init, Types, Places, Ticks, Tasks
<1>2. \A t \in Threads : Holds(Gate, t) = 0 /\ Holds(Command, t) = 0 /\ Holds(Java, t) = 0
  <2> TAKE t \in Threads
  <2>1. CASE t = Ticker
    BY <2>1, HoldsIs DEF Init, GateOf, CommandOf, JavaOf, One
  <2>2. CASE t # Ticker
    <3>1. pc[t] = "rest"
      BY <2>2 DEF Init, Threads
    <3> QED
      BY <2>2, <3>1, HoldsIs DEF GateOf, CommandOf, JavaOf, One
  <2> QED
    BY <2>1, <2>2
<1>3. Held
  BY <1>2, Names DEF Init, Held, Locks
<1>4. Queued /\ Unserved
  BY Names DEF Init, Queued, Unserved, Threads
<1> QED
  BY <1>1, <1>3, <1>4 DEF CInv

LEMMA NextCInv == CInv /\ [Next]_vars => CInv'
<1> SUFFICES ASSUME CInv, [Next]_vars PROVE CInv'
  OBVIOUS
<1>1. CASE UNCHANGED vars
  <2>1. /\ owner' = owner /\ depth' = depth /\ pc' = pc /\ task' = task
        /\ queue' = queue /\ tick' = tick /\ serving' = serving
    BY <1>1 DEF vars
  <2>2. Types' /\ Queued' /\ Unserved'
    BY <2>1 DEF CInv, Types, Queued, Unserved
  <2>3. Held'
    BY ZenonT(60), <2>1 DEF CInv, Held, Holds, GateOf, CommandOf, JavaOf
  <2> QED
    BY <2>2, <2>3 DEF CInv
<1>2. CASE TickNext
  BY <1>2, TickStep, ServeStep, ServedStep DEF TickNext
<1>3. CASE \E f \in Foreign :
             Work(f) \/ BeginPacket(f) \/ BeginCommand(f) \/ Request(f) \/ GiveUp(f)
  BY <1>3, ForeignStep, RequestStep, AnsweredStep, GiveUpStep DEF Work
<1> QED
  BY <1>1, <1>2, <1>3 DEF Next

LEMMA CommandsInductive == Spec => []CInv
BY InitCInv, NextCInv, PTL DEF Spec

\* Whatever number of sessions and consoles bring commands in, and whoever gives
\* up waiting: one thread at a time works on the world, locks are held exactly
\* where the code says, and a request out of a session's command is never served.
THEOREM CommandsStayApart == Spec => []CommandsApart
<1>1. CInv => CommandsApart
  <2> SUFFICES ASSUME CInv PROVE CommandsApart
    OBVIOUS
  <2> USE DEF CInv
  <2>1. \A f \in Foreign : f \in Threads /\ f # Ticker /\ f # Nobody
    BY Names
  <2>2. \A f \in Foreign : pc[f] \in {"handler", "execute"} => GateOf(f) > 0
    <3> SUFFICES ASSUME NEW f \in Foreign, pc[f] \in {"handler", "execute"}
                 PROVE  GateOf(f) > 0
      OBVIOUS
    <3>1. pc[f] = "handler" => f \in Sessions
      BY Names DEF Types
    <3> QED
      BY <2>1, <3>1 DEF GateOf, One
  <2>3. OneMutator
    <3> DEFINE S == {f \in Foreign : pc[f] \in {"handler", "execute"}}
    <3>1. \A f, g \in S : f = g
      BY <2>1, <2>2, GateAlone
    <3>2. Cardinality(S) <= 1
      <4>1. CASE S = {}
        BY <4>1, FS_EmptySet
      <4>2. CASE S # {}
        <5> PICK f : f \in S
          BY <4>2
        <5> HIDE DEF S
        <5>1. S = {f}
          BY <3>1
        <5> QED
          BY <5>1, FS_Singleton
      <4> QED
        BY <4>1, <4>2
    <3>3. tick # "sleep" => \A f \in Foreign : pc[f] \notin {"handler", "execute"}
      <4> SUFFICES ASSUME tick # "sleep", NEW f \in Foreign,
                          pc[f] \in {"handler", "execute"}
                   PROVE  FALSE
        OBVIOUS
      <4>1. GateOf(Ticker) > 0
        BY DEF GateOf, One
      <4> QED
        BY <2>1, <2>2, <4>1, GateAlone, Names
    <3> QED
      BY <3>2, <3>3 DEF OneMutator
  <2>4. LocksMatchPlaces
    <3>1. \A l \in Locks, t \in Threads :
             /\ owner[l] = t => Holds(l, t) > 0
             /\ owner[l] # t => Holds(l, t) = 0
      BY Names DEF Held
    <3>2. ASSUME NEW f \in Foreign
          PROVE  /\ owner[Java] = f <=> pc[f] \in {"java", "await"}
                 /\ owner[Command] = f <=> pc[f] = "execute"
                 /\ owner[Gate] = f <=> \/ f \in Sessions /\ pc[f] # "rest"
                                        \/ pc[f] \in {"gated", "execute"}
      <4>1. /\ JavaOf(f) = One(pc[f] \in {"java", "await"})
            /\ CommandOf(f) = One(pc[f] = "execute")
            /\ GateOf(f) = One(f \in Sessions /\ pc[f] # "rest")
                             + One(pc[f] \in {"gated", "execute"})
        BY <2>1 DEF JavaOf, CommandOf, GateOf
      <4>2. /\ owner[Java] = f => JavaOf(f) > 0
            /\ owner[Java] # f => JavaOf(f) = 0
            /\ owner[Command] = f => CommandOf(f) > 0
            /\ owner[Command] # f => CommandOf(f) = 0
            /\ owner[Gate] = f => GateOf(f) > 0
            /\ owner[Gate] # f => GateOf(f) = 0
        BY <2>1, <3>1, HoldsIs, Names
      <4> QED
        BY <4>1, <4>2 DEF One
    <3>3. owner[Gate] = Ticker <=> tick # "sleep"
      <4>1. GateOf(Ticker) = One(tick # "sleep")
        BY DEF GateOf
      <4> QED
        BY <3>1, <4>1, HoldsIs, Names DEF One
    <3>4. \A l \in Locks : owner[l] = Nobody <=> depth[l] = 0
      BY DEF Held, Types
    <3> QED
      BY <3>2, <3>3, <3>4 DEF LocksMatchPlaces
  <2>5. SessionRequestNeverServed
    BY DEF Unserved, SessionRequestNeverServed
  <2> QED
    BY <2>3, <2>4, <2>5 DEF CommandsApart
<1> QED
  BY <1>1, CommandsInductive, PTL
=============================================================================

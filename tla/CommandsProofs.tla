-------------------------- MODULE CommandsProofs --------------------------
(***************************************************************************)
(* What plugins and operators hang on to the server, for any threads,      *)
(* listeners, players, objectives, teams, bars, functions and handles.     *)
(*                                                                         *)
(* The event bus: the wait of a reset ends when, and only when, no other   *)
(* thread is inside the callback, and no call begins once it has returned. *)
(* The count of calls under way is the number of call frames on all the    *)
(* stacks.  A thread asleep has such a frame of another thread to wait     *)
(* for, and whoever takes the last but its own away wakes it.              *)
(*                                                                         *)
(* The boards (B): the copy of each client in play, kept by deltas alone,  *)
(* is what the server has.  The handles of Java (J): a thing that is alive *)
(* and not yet given up is listed, or some thread is about to list or to   *)
(* invalidate it; so its memory goes only after its handles.               *)
(*                                                                         *)
(* Execution (X): every frame of the stack of runs holds sources that the  *)
(* innermost execute in below it has placed, the tick is outermost, and    *)
(* the depth is the number of functions on the stack.                      *)
(***************************************************************************)
EXTENDS MCCommands, FiniteSetTheorems, FunctionTheorems, SequenceTheorems, TLAPS

\* The places in a stack, counted from the outermost frame, where the callback
\* of l is under way, ...
CallsIn(s, l) == {j \in 1 .. Len(s) : s[Len(s) + 1 - j] = CallFrame(l)}

\* ... and those in all the stacks.
Calls(l) == UNION {{t} \X CallsIn(stack[t], l) : t \in Threads}

Framed(s) == s \in Seq({s[i] : i \in DOMAIN s})

Types ==
    /\ registered \subseteq Listeners
    /\ seq \in [Listeners -> Nat] /\ sequence \in Nat
    /\ active \in [Listeners -> BOOLEAN]
    /\ inFlight \in [Listeners -> Int]
    /\ drainWaiters \in [Listeners -> Nat]
    /\ resetBy \in [Listeners -> SUBSET Threads]
    /\ stack \in [Threads -> {stack[t] : t \in Threads}]
    /\ \A t \in Threads : Framed(stack[t])

\* A reset is the innermost frame of its thread, and a callback is called by a
\* fire.
ShapeOf(s) ==
    \A i \in DOMAIN s :
        \/ s[i].what = "fire"
        \/ /\ s[i].what = "call" /\ s[i] = CallFrame(s[i].of)
           /\ i + 1 \in DOMAIN s /\ s[i + 1].what = "fire"
        \/ /\ s[i].what = "reset" /\ s[i] = ResetFrame(s[i].of, s[i].at)
           /\ i = 1 /\ s[i].of \in Listeners
           /\ s[i].at \in {"erased", "asleep", "awake"}

Shape == \A t \in Threads : ShapeOf(stack[t])

Resetting(t) == IsAt(t, "reset")

\* A listener is reset once, and who waits for its calls is counted.
OneReset ==
    /\ \A l \in registered : seq[l] > 0
    /\ \A t \in Threads : Resetting(t) =>
          /\ Top(t).of \notin registered /\ seq[Top(t).of] > 0
          /\ Top(t).at # "erased" =>
                drainWaiters[Top(t).of] > 0 /\ ~active[Top(t).of]
    /\ \A t, u \in Threads :
          Resetting(t) /\ Resetting(u) /\ Top(t).of = Top(u).of => t = u

Counted == \A l \in Listeners : /\ IsFiniteSet(Calls(l))
                                /\ inFlight[l] = Cardinality(Calls(l))

\* A thread asleep has a call on another thread to wait for.
Sleepers ==
    \A t \in Threads : Resetting(t) /\ Top(t).at = "asleep" =>
        inFlight[Top(t).of] > Cardinality(CallsIn(stack[t], Top(t).of))

\* A listener whose reset has returned is not called any more, ...
Past == \A l \in Listeners : resetBy[l] # {} => ~active[l]

\* ... and no other thread is still inside it.
Emptied ==
    \A l \in Listeners : \A t \in resetBy[l] : \A u \in Threads \ {t} :
        CallsIn(stack[u], l) = {}

\* The inductive invariant of the bus.
EInv == /\ Types /\ Shape /\ OneReset /\ Counted
        /\ Sleepers /\ Past /\ Emptied

----------------------------------------------------------------------------
(* Stacks.                                                                 *)

LEMMA FramedSeq ==
  ASSUME NEW T, NEW s \in Seq(T)
  PROVE  Framed(s)
BY DEF Framed

LEMMA FramedIs ==
  ASSUME NEW s, Framed(s)
  PROVE  Len(s) \in Nat /\ DOMAIN s = 1 .. Len(s)
BY DEF Framed

\* A stack with one frame more.
Pushed(f, s) == <<f>> \o s

LEMMA PushedIs ==
  ASSUME NEW s, Framed(s), NEW f
  PROVE  /\ Framed(Pushed(f, s)) /\ Pushed(f, s) # << >>
         /\ Len(Pushed(f, s)) = Len(s) + 1
         /\ Head(Pushed(f, s)) = f /\ Pushed(f, s)[1] = f
         /\ \A i \in 1 .. Len(s) : Pushed(f, s)[i + 1] = s[i]
         /\ Tail(Pushed(f, s)) = s
<1> DEFINE T == {s[i] : i \in DOMAIN s} \cup {f}
<1>1. s \in Seq(T)
  BY DEF Framed
<1>2. <<f>> \in Seq(T)
  OBVIOUS
<1> HIDE DEF T
<1>3. Pushed(f, s) \in Seq(T)
  BY <1>1, <1>2 DEF Pushed
<1>4. Framed(Pushed(f, s))
  BY <1>3, FramedSeq
<1>5. /\ Len(Pushed(f, s)) = Len(s) + 1 /\ Len(s) \in Nat
      /\ Pushed(f, s)[1] = f
      /\ \A i \in 1 .. Len(s) : Pushed(f, s)[i + 1] = s[i]
  BY <1>1, <1>2 DEF Pushed
<1>6. Pushed(f, s) # << >> /\ Head(Pushed(f, s)) = f
  BY <1>3, <1>5
<1>7. Tail(Pushed(f, s)) = s
  BY <1>1, <1>3, <1>5
<1> QED
  BY <1>4, <1>5, <1>6, <1>7

\* One frame less.
LEMMA Uncons ==
  ASSUME NEW s, Framed(s), s # << >>
  PROVE  /\ Len(s) \in Nat \ {0} /\ 1 \in DOMAIN s /\ Head(s) = s[1]
         /\ Framed(Tail(s)) /\ Len(Tail(s)) = Len(s) - 1
         /\ \A i \in 1 .. Len(Tail(s)) : Tail(s)[i] = s[i + 1] /\ i + 1 \in DOMAIN s
         /\ s = Pushed(Head(s), Tail(s))
<1> DEFINE T == {s[i] : i \in DOMAIN s}
<1>1. s \in Seq(T)
  BY DEF Framed
<1> HIDE DEF T
<1>2. /\ Len(s) \in Nat \ {0} /\ Head(s) = s[1] /\ Tail(s) \in Seq(T)
      /\ Len(Tail(s)) = Len(s) - 1 /\ DOMAIN s = 1 .. Len(s)
      /\ \A i \in 1 .. Len(Tail(s)) : Tail(s)[i] = s[i + 1]
  BY <1>1
<1>3. Framed(Tail(s))
  BY <1>2, FramedSeq
<1>4. s = Pushed(Head(s), Tail(s))
  BY <1>1 DEF Pushed
<1> QED
  BY <1>2, <1>3, <1>4

LEMMA CallsInCons ==
  ASSUME NEW s, Framed(s), NEW f, NEW l
  PROVE  /\ f = CallFrame(l)
              => CallsIn(Pushed(f, s), l) = CallsIn(s, l) \cup {Len(s) + 1}
         /\ f # CallFrame(l) => CallsIn(Pushed(f, s), l) = CallsIn(s, l)
         /\ Len(s) + 1 \notin CallsIn(s, l)
<1> DEFINE n == Len(s)
           c == Pushed(f, s)
<1>1. n \in Nat
  BY FramedIs
<1>2. /\ Len(c) = n + 1 /\ c[1] = f
      /\ \A i \in 1 .. n : c[i + 1] = s[i]
  BY PushedIs
<1> HIDE DEF n, c
<1>3. \A j \in 1 .. n : c[n + 1 + 1 - j] = s[n + 1 - j]
  <2> TAKE j \in 1 .. n
  <2>1. n + 1 - j \in 1 .. n /\ (n + 1 - j) + 1 = n + 1 + 1 - j
    BY <1>1
  <2> QED
    BY <1>2, <2>1
<1>4. c[n + 1 + 1 - (n + 1)] = f
  BY <1>1, <1>2
<1>5. 1 .. n + 1 = (1 .. n) \cup {n + 1} /\ n + 1 \notin 1 .. n
  BY <1>1
<1>6. CallsIn(c, l) = {j \in 1 .. n + 1 : c[n + 1 + 1 - j] = CallFrame(l)}
  BY <1>2 DEF CallsIn
<1>7. CallsIn(s, l) = {j \in 1 .. n : s[n + 1 - j] = CallFrame(l)}
  BY DEF CallsIn, n
<1>8. /\ f = CallFrame(l) => CallsIn(c, l) = CallsIn(s, l) \cup {n + 1}
      /\ f # CallFrame(l) => CallsIn(c, l) = CallsIn(s, l)
      /\ n + 1 \notin CallsIn(s, l)
  BY <1>3, <1>4, <1>5, <1>6, <1>7
<1> QED
  BY <1>8 DEF n, c

\* Replacing the innermost frame of a thread that is not in a callback.
LEMMA CallsInReplace ==
  ASSUME NEW s, Framed(s), s # << >>, NEW f, NEW l,
         Head(s) # CallFrame(l), f # CallFrame(l)
  PROVE  /\ CallsIn(Pushed(f, Tail(s)), l) = CallsIn(s, l)
         /\ CallsIn(Tail(s), l) = CallsIn(s, l)
<1>1. Framed(Tail(s)) /\ s = Pushed(Head(s), Tail(s))
  BY Uncons
<1>2. CallsIn(Pushed(Head(s), Tail(s)), l) = CallsIn(Tail(s), l)
  BY <1>1, CallsInCons
<1>3. CallsIn(Pushed(f, Tail(s)), l) = CallsIn(Tail(s), l)
  BY <1>1, CallsInCons
<1> QED
  BY <1>1, <1>2, <1>3

\* The frames OwnInvocations counts are those at these places.
LEMMA OwnCalls ==
  ASSUME NEW t \in Threads, Framed(stack[t]), NEW l
  PROVE  /\ IsFiniteSet(CallsIn(stack[t], l))
         /\ OwnInvocations(t, l) = Cardinality(CallsIn(stack[t], l))
<1> DEFINE s == stack[t]
           n == Len(s)
           C == CallsIn(s, l)
           D == {i \in DOMAIN s : s[i] = CallFrame(l)}
           g == [j \in C |-> n + 1 - j]
<1>1. n \in Nat /\ DOMAIN s = 1 .. n
  BY FramedIs
<1>2. IsFiniteSet(1 .. n)
  BY <1>1, FS_Interval
<1>3. IsFiniteSet(C)
  BY <1>2, FS_Subset DEF CallsIn
<1>4. g \in Bijection(C, D)
  <2>1. C = {j \in 1 .. n : s[n + 1 - j] = CallFrame(l)}
    BY DEF CallsIn
  <2>2. D = {i \in 1 .. n : s[i] = CallFrame(l)}
    BY <1>1
  <2> HIDE DEF n, s, C, D
  <2>3. \A j \in C : j \in 1 .. n /\ n + 1 - j \in D
    BY <1>1, <2>1, <2>2
  <2>4. \A i \in D : n + 1 - i \in C /\ n + 1 - (n + 1 - i) = i
    <3> TAKE i \in D
    <3>1. i \in 1 .. n /\ n + 1 - i \in 1 .. n /\ n + 1 - (n + 1 - i) = i
      BY <1>1, <2>2
    <3> QED
      BY <2>1, <2>2, <3>1
  <2>5. g \in [C -> D]
    BY <2>3
  <2>6. \A j, k \in C : g[j] = g[k] => j = k
    BY <1>1, <2>3
  <2>7. \A i \in D : \E j \in C : g[j] = i
    BY <2>4
  <2> QED
    BY <2>5, <2>6, <2>7, Fun_IsBij
<1> HIDE DEF g, C, D
<1>5. ExistsBijection(C, D)
  BY <1>4 DEF ExistsBijection
<1>6. Cardinality(C) = Cardinality(D)
  BY <1>3, <1>5, FS_Bijection
<1> QED
  BY <1>3, <1>6 DEF C, D, OwnInvocations

\* A stack that loses its innermost frame keeps its shape, and what is
\* innermost then is no reset.
LEMMA ShapePop ==
  ASSUME NEW s, Framed(s), ShapeOf(s), s # << >>
  PROVE  /\ ShapeOf(Tail(s))
         /\ Tail(s) # << >> => Head(Tail(s)).what \in {"fire", "call"}
         /\ Head(s).what = "call" => /\ Head(s) = CallFrame(Head(s).of)
                                     /\ Tail(s) # << >>
                                     /\ Head(Tail(s)).what = "fire"
         /\ Head(s).what = "reset" =>
               /\ Head(s) = ResetFrame(Head(s).of, Head(s).at)
               /\ Head(s).of \in Listeners
               /\ Head(s).at \in {"erased", "asleep", "awake"}
<1> DEFINE r == Tail(s)
<1>1. /\ Len(s) \in Nat \ {0} /\ 1 \in DOMAIN s /\ Head(s) = s[1]
      /\ Framed(r) /\ Len(r) = Len(s) - 1
      /\ \A i \in 1 .. Len(r) : r[i] = s[i + 1] /\ i + 1 \in DOMAIN s
  BY Uncons
<1>2. DOMAIN s = 1 .. Len(s) /\ DOMAIN r = 1 .. Len(r) /\ Len(r) \in Nat
  BY <1>1, FramedIs
<1>3. r # << >> => Len(r) > 0 /\ Head(r) = r[1]
  BY <1>1, Uncons
<1>4. Len(r) > 0 => r # << >>
  OBVIOUS
<1> HIDE DEF r
<1>5. \A i \in 1 .. Len(r) : s[i + 1].what # "reset"
  <2> TAKE i \in 1 .. Len(r)
  <2>1. i + 1 # 1 /\ i + 1 \in DOMAIN s
    BY <1>1, <1>2
  <2> QED
    BY <2>1 DEF ShapeOf
<1>6. ShapeOf(r)
  <2> SUFFICES ASSUME NEW i \in 1 .. Len(r), r[i].what # "fire"
               PROVE  /\ r[i].what = "call" /\ r[i] = CallFrame(r[i].of)
                      /\ i + 1 \in DOMAIN r /\ r[i + 1].what = "fire"
    BY <1>2 DEF ShapeOf
  <2>1. r[i] = s[i + 1] /\ i + 1 \in DOMAIN s /\ s[i + 1].what # "reset"
    BY <1>1, <1>5
  <2>2. /\ s[i + 1].what = "call" /\ s[i + 1] = CallFrame(s[i + 1].of)
        /\ (i + 1) + 1 \in DOMAIN s /\ s[(i + 1) + 1].what = "fire"
    BY <2>1 DEF ShapeOf
  <2>3. i + 1 \in 1 .. Len(r)
    BY <1>1, <1>2, <2>2
  <2>4. r[i + 1] = s[(i + 1) + 1]
    BY <1>1, <2>3
  <2> QED
    BY <1>2, <2>1, <2>2, <2>3, <2>4
<1>7. r # << >> => Head(r).what \in {"fire", "call"}
  <2> SUFFICES ASSUME r # << >> PROVE Head(r).what \in {"fire", "call"}
    OBVIOUS
  <2>1. 1 \in 1 .. Len(r) /\ Head(r) = r[1] /\ r[1] = s[1 + 1]
    BY <1>1, <1>2, <1>3
  <2>2. r[1].what # "reset"
    BY <1>5, <2>1
  <2> QED
    BY <1>2, <1>6, <2>1, <2>2 DEF ShapeOf
<1>8. Head(s).what = "call" => /\ Head(s) = CallFrame(Head(s).of)
                               /\ r # << >> /\ Head(r).what = "fire"
  <2> SUFFICES ASSUME s[1].what = "call"
               PROVE  s[1] = CallFrame(s[1].of) /\ r # << >> /\ Head(r).what = "fire"
    BY <1>1
  <2>1. /\ s[1] = CallFrame(s[1].of) /\ 1 + 1 \in DOMAIN s
        /\ s[1 + 1].what = "fire"
    BY <1>1 DEF ShapeOf
  <2>2. Len(r) > 0 /\ 1 \in 1 .. Len(r)
    BY <1>1, <1>2, <2>1
  <2> QED
    BY <1>1, <1>3, <1>4, <2>1, <2>2
<1>9. Head(s).what = "reset" =>
         /\ Head(s) = ResetFrame(Head(s).of, Head(s).at)
         /\ Head(s).of \in Listeners
         /\ Head(s).at \in {"erased", "asleep", "awake"}
  BY <1>1 DEF ShapeOf
<1> QED
  BY <1>6, <1>7, <1>8, <1>9 DEF r

\* What may be put on a stack.
LEMMA ShapePush ==
  ASSUME NEW s, Framed(s), ShapeOf(s), NEW f,
         s # << >> => Head(s).what \in {"fire", "call"},
         \/ f.what = "fire"
         \/ f.what = "call" /\ f = CallFrame(f.of) /\ s # << >> /\ Head(s).what = "fire"
         \/ /\ f.what = "reset" /\ f = ResetFrame(f.of, f.at) /\ f.of \in Listeners
            /\ f.at \in {"erased", "asleep", "awake"}
  PROVE  ShapeOf(Pushed(f, s))
<1> DEFINE c == Pushed(f, s)
<1>1. /\ Framed(c) /\ Len(c) = Len(s) + 1 /\ c[1] = f
      /\ \A i \in 1 .. Len(s) : c[i + 1] = s[i]
  BY PushedIs
<1>2. DOMAIN s = 1 .. Len(s) /\ DOMAIN c = 1 .. Len(s) + 1 /\ Len(s) \in Nat
  BY <1>1, FramedIs
<1>3. s # << >> => 1 \in DOMAIN s /\ Head(s) = s[1]
  BY Uncons
<1>4. 1 \in DOMAIN s => s # << >>
  OBVIOUS
<1> HIDE DEF c
<1> SUFFICES ASSUME NEW i \in DOMAIN c
             PROVE  \/ c[i].what = "fire"
                    \/ /\ c[i].what = "call" /\ c[i] = CallFrame(c[i].of)
                       /\ i + 1 \in DOMAIN c /\ c[i + 1].what = "fire"
                    \/ /\ c[i].what = "reset" /\ c[i] = ResetFrame(c[i].of, c[i].at)
                       /\ i = 1 /\ c[i].of \in Listeners
                       /\ c[i].at \in {"erased", "asleep", "awake"}
  BY DEF ShapeOf, c
<1>5. CASE i = 1
  <2>1. CASE f.what = "call"
    <3>1. 1 \in DOMAIN s /\ Head(s) = s[1] /\ s[1].what = "fire" /\ f = CallFrame(f.of)
      BY <1>3, <2>1
    <3>2. 1 \in 1 .. Len(s) /\ 1 + 1 \in DOMAIN c /\ c[1 + 1] = s[1]
      BY <1>1, <1>2, <3>1
    <3> QED
      BY <1>1, <1>5, <2>1, <3>1, <3>2
  <2>2. CASE f.what # "call"
    BY <1>1, <1>5, <2>2
  <2> QED
    BY <2>1, <2>2
<1>6. CASE i # 1
  <2> DEFINE j == i - 1
  <2>1. j \in 1 .. Len(s) /\ i = j + 1 /\ j \in DOMAIN s
    BY <1>2, <1>6
  <2> HIDE DEF j
  <2>2. c[i] = s[j]
    BY <1>1, <2>1
  <2>3. s[j].what # "reset"
    <3> SUFFICES ASSUME s[j].what = "reset" PROVE FALSE
      OBVIOUS
    <3>1. j = 1
      BY <2>1 DEF ShapeOf
    <3>2. s # << >> /\ Head(s) = s[1]
      BY <1>3, <1>4, <2>1, <3>1
    <3> QED
      BY <3>1, <3>2
  <2>4. CASE s[j].what = "fire"
    BY <2>2, <2>4
  <2>5. CASE s[j].what # "fire"
    <3>1. /\ s[j].what = "call" /\ s[j] = CallFrame(s[j].of)
          /\ j + 1 \in DOMAIN s /\ s[j + 1].what = "fire"
      BY <2>1, <2>3, <2>5 DEF ShapeOf
    <3>2. i + 1 \in DOMAIN c /\ i \in 1 .. Len(s)
      BY <1>2, <2>1, <3>1
    <3>3. c[i + 1] = s[j + 1]
      BY <1>1, <2>1, <3>2
    <3> QED
      BY <2>2, <3>1, <3>2, <3>3
  <2> QED
    BY <2>4, <2>5
<1> QED
  BY <1>5, <1>6

----------------------------------------------------------------------------
(* Counting calls.                                                         *)

LEMMA CallsSame ==
  ASSUME NEW l, \A u \in Threads : CallsIn(stack'[u], l) = CallsIn(stack[u], l)
  PROVE  Calls(l)' = Calls(l)
BY DEF Calls

\* One call of l more ...
LEMMA CallsGrow ==
  ASSUME NEW l, NEW t \in Threads, NEW k,
         \A u \in Threads : u # t => CallsIn(stack'[u], l) = CallsIn(stack[u], l),
         CallsIn(stack'[t], l) = CallsIn(stack[t], l) \cup {k},
         k \notin CallsIn(stack[t], l), IsFiniteSet(Calls(l))
  PROVE  /\ IsFiniteSet(Calls(l)')
         /\ Cardinality(Calls(l)') = Cardinality(Calls(l)) + 1
<1>1. \A u \in Threads : {u} \X CallsIn(stack'[u], l) =
         ({u} \X CallsIn(stack[u], l)) \cup (IF u = t THEN {<<t, k>>} ELSE {})
  OBVIOUS
<1>2. Calls(l)' = Calls(l) \cup {<<t, k>>}
  BY <1>1 DEF Calls
<1>3. <<t, k>> \notin Calls(l)
  BY DEF Calls
<1> DEFINE C == Calls(l)
           D == Calls(l)'
           x == <<t, k>>
<1>4. D = C \cup {x} /\ x \notin C /\ IsFiniteSet(C)
  BY <1>2, <1>3
<1> HIDE DEF C, D, x
<1>5. IsFiniteSet(D) /\ Cardinality(D) = Cardinality(C) + 1
  BY <1>4, FS_AddElement
<1> QED
  BY <1>5 DEF C, D

\* ... and one less.
LEMMA CallsShrink ==
  ASSUME NEW l, NEW t \in Threads, NEW k,
         \A u \in Threads : u # t => CallsIn(stack'[u], l) = CallsIn(stack[u], l),
         CallsIn(stack[t], l) = CallsIn(stack'[t], l) \cup {k},
         k \notin CallsIn(stack'[t], l), IsFiniteSet(Calls(l))
  PROVE  /\ IsFiniteSet(Calls(l)')
         /\ Cardinality(Calls(l)') = Cardinality(Calls(l)) - 1
<1>1. \A u \in Threads : {u} \X CallsIn(stack[u], l) =
         ({u} \X CallsIn(stack'[u], l)) \cup (IF u = t THEN {<<t, k>>} ELSE {})
  OBVIOUS
<1>2. Calls(l) = Calls(l)' \cup {<<t, k>>}
  BY <1>1 DEF Calls
<1>3. <<t, k>> \notin Calls(l)'
  BY DEF Calls
<1> DEFINE C == Calls(l)
           D == Calls(l)'
           x == <<t, k>>
<1>4. D = C \ {x} /\ x \in C /\ IsFiniteSet(C)
  BY <1>2, <1>3
<1> HIDE DEF C, D, x
<1>5. IsFiniteSet(D) /\ Cardinality(D) = Cardinality(C) - 1
  BY <1>4, FS_RemoveElement
<1> QED
  BY <1>5 DEF C, D

\* If the calls in flight are at most a thread's own, no other thread has any.
LEMMA OnlyOwn ==
  ASSUME NEW l, NEW t \in Threads, Framed(stack[t]), IsFiniteSet(Calls(l)),
         Cardinality(Calls(l)) <= Cardinality(CallsIn(stack[t], l))
  PROVE  \A u \in Threads \ {t} : CallsIn(stack[u], l) = {}
<1> DEFINE C == CallsIn(stack[t], l)
           O == {t} \X C
           A == Calls(l)
<1>1. IsFiniteSet(C) /\ Cardinality(C) \in Nat
  BY OwnCalls, FS_CardinalityType
<1>2. IsFiniteSet({t}) /\ Cardinality({t}) = 1
  BY FS_Singleton
<1> HIDE DEF C
<1>3. IsFiniteSet(O) /\ Cardinality(O) = Cardinality({t}) * Cardinality(C)
  BY <1>1, <1>2, FS_Product
<1>4. Cardinality(O) = Cardinality(C)
  <2>1. Cardinality(O) = 1 * Cardinality(C)
    BY <1>2, <1>3
  <2> QED
    BY <1>1, <2>1
<1>5. O \subseteq A
  BY DEF C, Calls
<1>6. IsFiniteSet(A) /\ Cardinality(A) <= Cardinality(C)
  BY DEF C
<1> HIDE DEF O, A
<1>7. Cardinality(A) \in Nat /\ Cardinality(O) \in Nat
  BY <1>3, <1>6, FS_CardinalityType
<1>8. Cardinality(O) <= Cardinality(A) /\ (Cardinality(O) = Cardinality(A) => O = A)
  BY <1>5, <1>6, FS_Subset
<1>9. O = A
  BY <1>4, <1>6, <1>7, <1>8
<1> SUFFICES ASSUME NEW u \in Threads \ {t}, NEW k \in CallsIn(stack[u], l)
             PROVE  FALSE
  OBVIOUS
<1>10. <<u, k>> \in {u} \X CallsIn(stack[u], l)
  OBVIOUS
<1>11. <<u, k>> \in A
  BY <1>10 DEF A, Calls
<1> QED
  BY <1>9, <1>11 DEF O

----------------------------------------------------------------------------
(* The steps of the bus.                                                   *)

LEMMA PushedTwice ==
  ASSUME NEW s, Framed(s), NEW f, NEW g
  PROVE  <<f, g>> \o s = Pushed(f, Pushed(g, s))
<1> DEFINE T == {s[i] : i \in DOMAIN s} \cup {f, g}
<1>1. s \in Seq(T) /\ f \in T /\ g \in T
  BY DEF Framed
<1> HIDE DEF T
<1> DEFINE n == Len(s)
           fg == <<f, g>>
           a == fg \o s
           b == Pushed(f, Pushed(g, s))
<1>2. n \in Nat
  BY FramedIs
<1>3. fg \in Seq(T) /\ Len(fg) = 2 /\ fg[1] = f /\ fg[2] = g
  BY <1>1
<1> HIDE DEF fg
<1>4. /\ a \in Seq(T) /\ Len(a) = n + 2
      /\ \A i \in 1 .. n + 2 : a[i] = IF i <= 2 THEN fg[i] ELSE s[i - 2]
  <2>1. /\ a \in Seq(T) /\ Len(a) = Len(fg) + n
        /\ \A i \in 1 .. Len(fg) + n :
              a[i] = IF i <= Len(fg) THEN fg[i] ELSE s[i - Len(fg)]
    BY <1>1, <1>3, ConcatProperties
  <2> HIDE DEF a, n
  <2>2. 2 + n = n + 2
    BY <1>2
  <2> QED
    BY <1>3, <2>1, <2>2
<1>5. /\ Framed(Pushed(g, s)) /\ Len(Pushed(g, s)) = n + 1 /\ Pushed(g, s)[1] = g
      /\ \A i \in 1 .. n : Pushed(g, s)[i + 1] = s[i]
  BY PushedIs
<1> DEFINE c == Pushed(g, s)
<1>6. /\ Framed(c) /\ Len(c) = n + 1 /\ c[1] = g /\ \A i \in 1 .. n : c[i + 1] = s[i]
  BY <1>5
<1> HIDE DEF c
<1>7. /\ Len(Pushed(f, c)) = n + 1 + 1 /\ Pushed(f, c)[1] = f
      /\ \A i \in 1 .. n + 1 : Pushed(f, c)[i + 1] = c[i]
  BY <1>6, PushedIs
<1>8. b = Pushed(f, c)
  BY DEF c
<1>9. b \in Seq(T)
  <2>1. <<f>> \in Seq(T) /\ <<g>> \in Seq(T)
    BY <1>1
  <2>2. Pushed(g, s) \in Seq(T)
    BY <1>1, <2>1 DEF Pushed
  <2> QED
    BY <2>1, <2>2 DEF Pushed
<1> HIDE DEF n, a, b
<1>10. Len(b) = n + 2
  BY <1>2, <1>7, <1>8
<1>11. \A i \in 1 .. n + 2 : a[i] = b[i]
  <2> TAKE i \in 1 .. n + 2
  <2>1. CASE i = 1
    BY <1>2, <1>3, <1>4, <1>7, <1>8, <2>1
  <2>2. CASE i = 2
    <3>1. b[1 + 1] = c[1] /\ 1 \in 1 .. n + 1
      BY <1>2, <1>7, <1>8
    <3> QED
      BY <1>2, <1>3, <1>4, <1>6, <2>2, <3>1
  <2>3. CASE i > 2
    <3>1. i - 2 \in 1 .. n /\ (i - 2) + 1 \in 1 .. n + 1 /\ (i - 2) + 1 + 1 = i
      BY <1>2, <2>3
    <3>2. a[i] = s[i - 2]
      BY <1>2, <1>4, <2>3
    <3>3. b[(i - 2) + 1 + 1] = c[(i - 2) + 1]
      BY <1>7, <1>8, <3>1
    <3>4. c[(i - 2) + 1] = s[i - 2]
      BY <1>6, <3>1
    <3> QED
      BY <3>1, <3>2, <3>3, <3>4
  <2> QED
    BY <1>2, <2>1, <2>2, <2>3
<1>12. a = b
  BY <1>4, <1>9, <1>10, <1>11
<1> QED
  BY <1>12 DEF a, b, fg

LEMMA Dropped ==
  ASSUME NEW s, Framed(s), s # << >>
  PROVE  /\ SubSeq(s, 2, Len(s)) = Tail(s)
         /\ Tail(s) # << >> => SubSeq(s, 3, Len(s)) = Tail(Tail(s))
<1> DEFINE T == {s[i] : i \in DOMAIN s}
           n == Len(s)
<1>1. s \in Seq(T)
  BY DEF Framed
<1>2. n \in Nat /\ n > 0 /\ 1 \in 1 .. n /\ n \in 1 .. n
  BY Uncons
<1> HIDE DEF T
<1>3. SubSeq(s, 1, n) = s
  BY <1>1, SubSeqFull
<1>4. Tail(SubSeq(s, 1, n)) = SubSeq(s, 1 + 1, n)
  BY <1>1, <1>2, HeadTailOfSubSeq
<1>5. SubSeq(s, 2, n) = Tail(s)
  BY <1>3, <1>4
<1>6. ASSUME Tail(s) # << >> PROVE SubSeq(s, 3, n) = Tail(Tail(s))
  <2>1. Len(Tail(s)) > 0 /\ Len(Tail(s)) = n - 1
    BY <1>1, <1>6, Uncons
  <2>2. 2 \in 1 .. n /\ n \in 2 .. n
    BY <1>2, <2>1
  <2>3. Tail(SubSeq(s, 2, n)) = SubSeq(s, 2 + 1, n)
    BY <1>1, <2>2, HeadTailOfSubSeq
  <2> QED
    BY <1>5, <2>3
<1> QED
  BY <1>5, <1>6

\* Giving one thread another stack.
LEMMA StackMoves ==
  ASSUME Types, NEW t \in Threads, NEW s, stack' = [stack EXCEPT ![t] = s]
  PROVE  /\ stack'[t] = s
         /\ \A u \in Threads : u # t => stack'[u] = stack[u]
         /\ stack' \in [Threads -> {stack'[u] : u \in Threads}]
         /\ Framed(s) => \A u \in Threads : Framed(stack'[u])
BY DEF Types

\* What Wake does to a stack.
LEMMA WakeIs ==
  ASSUME NEW s, Framed(s), ShapeOf(s), NEW l
  PROVE  /\ Framed(Wake(l, s)) /\ ShapeOf(Wake(l, s))
         /\ \A m : CallsIn(Wake(l, s), m) = CallsIn(s, m)
         /\ \/ Wake(l, s) = s /\ (Woken(l) /\ s # << >>
                                    => Head(s) # ResetFrame(l, "asleep"))
            \/ /\ s # << >> /\ Head(s) = ResetFrame(l, "asleep")
               /\ Wake(l, s) # << >> /\ Head(Wake(l, s)) = ResetFrame(l, "awake")
<1> DEFINE woken == Woken(l) /\ s # << >> /\ Head(s) = ResetFrame(l, "asleep")
           r == ResetFrame(l, "awake")
<1>1. CASE ~woken
  <2>1. Wake(l, s) = s
    BY <1>1 DEF Wake
  <2> QED
    BY <1>1, <2>1
<1>2. CASE woken
  <2>1. s # << >> /\ Head(s) = ResetFrame(l, "asleep")
    BY <1>2
  <2>2. Wake(l, s) = Pushed(r, Tail(s))
    BY <1>2 DEF Wake, Pushed
  <2>3. /\ Framed(Tail(s)) /\ ShapeOf(Tail(s))
        /\ Tail(s) # << >> => Head(Tail(s)).what \in {"fire", "call"}
    BY <2>1, Uncons, ShapePop
  <2>4. Head(s).what = "reset" /\ Head(s).of = l
    BY <2>1 DEF ResetFrame
  <2>5. l \in Listeners
    BY <2>1, <2>4, ShapePop
  <2>6. /\ r.what = "reset" /\ r = ResetFrame(r.of, r.at) /\ r.of \in Listeners
        /\ r.at \in {"erased", "asleep", "awake"}
    BY <2>5 DEF ResetFrame
  <2>7. /\ Framed(Pushed(r, Tail(s))) /\ Pushed(r, Tail(s)) # << >>
        /\ Head(Pushed(r, Tail(s))) = r
    BY <2>3, PushedIs
  <2>8. ShapeOf(Pushed(r, Tail(s)))
    <3> HIDE DEF r
    <3> QED
      BY <2>3, <2>6, ShapePush
  <2>9. \A m : Head(s) # CallFrame(m) /\ r # CallFrame(m)
    BY <2>4, <2>6 DEF CallFrame
  <2>10. \A m : CallsIn(Pushed(r, Tail(s)), m) = CallsIn(s, m)
    <3> HIDE DEF r
    <3> QED
      BY <2>1, <2>9, CallsInReplace
  <2> QED
    BY <2>1, <2>2, <2>7, <2>8, <2>10
<1> QED
  BY <1>1, <1>2

\* A step of a thread that leaves it outside any reset, ends no call of
\* another thread and begins none of an inactive listener.
LEMMA CalmStep ==
  ASSUME EInv, NEW t \in Threads,
         UNCHANGED <<registered, seq, active, drainWaiters, resetBy>>,
         \A u \in Threads : u # t => stack'[u] = stack[u],
         stack'[t] # << >> => Head(stack'[t]).what # "reset",
         \A l \in Listeners : inFlight'[l] \in Int /\ inFlight'[l] >= inFlight[l],
         \A l \in Listeners : ~active[l] =>
            CallsIn(stack'[t], l) \subseteq CallsIn(stack[t], l)
  PROVE  OneReset' /\ Sleepers' /\ Past' /\ Emptied'
<1> USE DEF EInv
<1>0. ~Resetting(t)'
  BY DEF Resetting, IsAt, Top
<1>1. \A u \in Threads : u # t => /\ Resetting(u)' = Resetting(u)
                                  /\ Top(u)' = Top(u)
  BY DEF Resetting, IsAt, Top
<1>2. OneReset'
  BY <1>0, <1>1 DEF OneReset
<1>3. Sleepers'
  <2> SUFFICES ASSUME NEW u \in Threads, Resetting(u)', Top(u)'.at = "asleep"
               PROVE  inFlight'[Top(u)'.of]
                         > Cardinality(CallsIn(stack'[u], Top(u)'.of))
    BY DEF Sleepers
  <2>1. u # t /\ Resetting(u) /\ Top(u)' = Top(u) /\ stack'[u] = stack[u]
    BY <1>0, <1>1
  <2>2. Top(u).of \in Listeners
    BY <2>1, ShapePop DEF Resetting, IsAt, Top, Types, Shape
  <2> DEFINE l == Top(u).of
  <2>3. IsFiniteSet(CallsIn(stack[u], l))
    BY OwnCalls DEF Types
  <2>4. Cardinality(CallsIn(stack[u], l)) \in Nat
    BY <2>3, FS_CardinalityType
  <2>5. inFlight[l] > Cardinality(CallsIn(stack[u], l)) /\ inFlight[l] \in Int
    BY <2>1, <2>2 DEF Sleepers, Types
  <2>6. inFlight'[l] \in Int /\ inFlight'[l] >= inFlight[l]
    BY <2>2
  <2> QED
    BY <2>1, <2>4, <2>5, <2>6
<1>4. Past'
  BY DEF Past
<1>5. Emptied'
  <2> SUFFICES ASSUME NEW l \in Listeners, NEW r \in resetBy[l],
                      NEW u \in Threads \ {r}
               PROVE  CallsIn(stack'[u], l) = {}
    BY DEF Emptied
  <2>1. ~active[l] /\ CallsIn(stack[u], l) = {}
    BY DEF Past, Emptied
  <2> QED
    BY <2>1
<1> QED
  BY <1>2, <1>3, <1>4, <1>5

LEMMA ResetIs ==
  ASSUME Types, Shape, NEW t \in Threads, Resetting(t)
  PROVE  /\ stack[t] # << >> /\ Head(stack[t]) = Top(t)
         /\ Top(t) = ResetFrame(Top(t).of, Top(t).at)
         /\ Top(t).of \in Listeners
         /\ Top(t).at \in {"erased", "asleep", "awake"}
         /\ Framed(stack[t]) /\ ShapeOf(stack[t])
         /\ \A m : Top(t) # CallFrame(m)
<1>1. /\ Framed(stack[t]) /\ ShapeOf(stack[t]) /\ stack[t] # << >>
      /\ Head(stack[t]) = Top(t) /\ Top(t).what = "reset"
  BY DEF Types, Shape, Resetting, IsAt, Top
<1>2. \A m : CallFrame(m).what = "call"
  BY DEF CallFrame
<1> QED
  BY <1>1, <1>2, ShapePop

LEMMA SubscribeStep ==
  ASSUME EInv, NEW t \in Threads, NEW l \in Listeners, Subscribe(t, l)
  PROVE  EInv'
<1> USE DEF EInv
<1>1. /\ seq[l] = 0 /\ sequence' = sequence + 1
      /\ seq' = [seq EXCEPT ![l] = sequence + 1]
      /\ registered' = registered \cup {l}
      /\ active' = active /\ inFlight' = inFlight /\ drainWaiters' = drainWaiters
      /\ stack' = stack /\ resetBy' = resetBy
  BY DEF Subscribe, entry
<1>2. /\ sequence \in Nat /\ seq \in [Listeners -> Nat] /\ registered \subseteq Listeners
  BY DEF Types
<1>3. /\ seq' \in [Listeners -> Nat] /\ seq'[l] > 0
      /\ \A m \in Listeners : seq[m] > 0 => seq'[m] > 0 /\ m # l
  BY <1>1, <1>2
<1>4. Types'
  BY <1>1, <1>2, <1>3 DEF Types
<1>5. Shape'
  BY <1>1 DEF Shape
<1>6. \A u : Resetting(u)' = Resetting(u) /\ Top(u)' = Top(u)
  BY <1>1 DEF Resetting, IsAt, Top
<1>7. \A u \in Threads : Resetting(u) => Top(u).of \in Listeners
  BY ResetIs
<1>8. OneReset'
  <2>1. \A m \in registered' : seq'[m] > 0
    BY <1>1, <1>2, <1>3 DEF OneReset
  <2>2. ASSUME NEW u \in Threads, Resetting(u)
        PROVE  /\ Top(u).of \notin registered' /\ seq'[Top(u).of] > 0
               /\ Top(u).at # "erased" =>
                    drainWaiters'[Top(u).of] > 0 /\ ~active'[Top(u).of]
    <3>1. /\ Top(u).of \notin registered /\ seq[Top(u).of] > 0
          /\ Top(u).at # "erased" =>
               drainWaiters[Top(u).of] > 0 /\ ~active[Top(u).of]
      BY <2>2 DEF OneReset
    <3> QED
      BY <1>1, <1>3, <1>7, <2>2, <3>1
  <2>3. \A u, v \in Threads :
           Resetting(u) /\ Resetting(v) /\ Top(u).of = Top(v).of => u = v
    BY DEF OneReset
  <2> QED
    BY <1>6, <2>1, <2>2, <2>3 DEF OneReset
<1>9. Counted'
  <2>1. \A m : Calls(m)' = Calls(m)
    BY <1>1, CallsSame
  <2> QED
    BY <1>1, <2>1 DEF Counted
<1>10. Sleepers' /\ Past' /\ Emptied'
  BY <1>1, <1>6 DEF Sleepers, Past, Emptied
<1> QED
  BY <1>4, <1>5, <1>8, <1>9, <1>10

LEMMA FireStep ==
  ASSUME EInv, NEW t \in Threads, Fire(t)
  PROVE  EInv'
<1> USE DEF EInv
<1> DEFINE f == FireFrame(Snapshot)
           s == stack[t]
           c == Pushed(f, s)
<1>1. /\ stack' = [stack EXCEPT ![t] = c]
      /\ s # << >> => Head(s).what = "call"
      /\ registered' = registered /\ seq' = seq /\ sequence' = sequence
      /\ active' = active /\ inFlight' = inFlight /\ drainWaiters' = drainWaiters
      /\ resetBy' = resetBy
  BY DEF Fire, Push, Pushed, InUserCode, Top, bus, entry
<1>2. f.what = "fire" /\ \A m : f # CallFrame(m)
  <2>1. f.what = "fire" /\ \A m : CallFrame(m).what = "call"
    BY DEF FireFrame, CallFrame
  <2> QED
    BY <2>1
<1>3. Framed(s) /\ ShapeOf(s)
  BY DEF Types, Shape
<1> HIDE DEF f
<1>4. Framed(c) /\ c # << >> /\ Head(c) = f
  BY <1>3, PushedIs
<1>5. ShapeOf(c)
  BY <1>1, <1>2, <1>3, ShapePush
<1>6. \A m : CallsIn(c, m) = CallsIn(s, m)
  BY <1>2, <1>3, CallsInCons
<1> HIDE DEF s, c
<1>7. /\ stack'[t] = c /\ \A u \in Threads : u # t => stack'[u] = stack[u]
      /\ stack' \in [Threads -> {stack'[u] : u \in Threads}]
      /\ \A u \in Threads : Framed(stack'[u])
  BY <1>1, <1>4, StackMoves
<1>8. \A m : \A u \in Threads : CallsIn(stack'[u], m) = CallsIn(stack[u], m)
  BY <1>6, <1>7 DEF s
<1>9. Types'
  BY <1>1, <1>7 DEF Types
<1>10. Shape'
  BY <1>5, <1>7 DEF Shape
<1>11. Counted'
  <2>1. \A m : Calls(m)' = Calls(m)
    BY <1>8, CallsSame
  <2> QED
    BY <1>1, <2>1 DEF Counted
<1>12. OneReset' /\ Sleepers' /\ Past' /\ Emptied'
  <2>1. \A m \in Listeners : inFlight'[m] \in Int /\ inFlight'[m] >= inFlight[m]
    BY <1>1 DEF Types
  <2>2. stack'[t] # << >> => Head(stack'[t]).what # "reset"
    BY <1>2, <1>4, <1>7
  <2>3. UNCHANGED <<registered, seq, active, drainWaiters, resetBy>>
    BY <1>1
  <2> QED
    BY <1>7, <1>8, <2>1, <2>2, <2>3, CalmStep
<1> QED
  BY <1>9, <1>10, <1>11, <1>12

LEMMA EndFireStep ==
  ASSUME EInv, NEW t \in Threads, EndFire(t)
  PROVE  EInv'
<1> USE DEF EInv
<1> DEFINE s == stack[t]
           c == Tail(s)
<1>1. /\ stack' = [stack EXCEPT ![t] = c] /\ s # << >> /\ Head(s).what = "fire"
      /\ registered' = registered /\ seq' = seq /\ sequence' = sequence
      /\ active' = active /\ inFlight' = inFlight /\ drainWaiters' = drainWaiters
      /\ resetBy' = resetBy
  BY DEF EndFire, IsAt, Top, bus, entry
<1>2. \A m : Head(s) # CallFrame(m)
  <2>1. \A m : CallFrame(m).what = "call"
    BY DEF CallFrame
  <2> QED
    BY <1>1, <2>1
<1>3. Framed(s) /\ ShapeOf(s)
  BY DEF Types, Shape
<1>4. Framed(c)
  BY <1>1, <1>3, Uncons
<1>5. c # << >> => Head(c).what \in {"fire", "call"}
  BY <1>1, <1>3, ShapePop
<1>6. \A m : CallsIn(c, m) = CallsIn(s, m)
  <2> TAKE m
  <2>1. FireFrame(<< >>).what = "fire" /\ CallFrame(m).what = "call"
    BY DEF FireFrame, CallFrame
  <2>2. FireFrame(<< >>) # CallFrame(m)
    BY <2>1
  <2> HIDE DEF s
  <2> QED
    BY <1>1, <1>2, <1>3, <2>2, CallsInReplace
<1>50. ShapeOf(c)
  BY <1>1, <1>3, ShapePop
<1> HIDE DEF s, c
<1>7. /\ stack'[t] = c /\ \A u \in Threads : u # t => stack'[u] = stack[u]
      /\ stack' \in [Threads -> {stack'[u] : u \in Threads}]
      /\ \A u \in Threads : Framed(stack'[u])
  BY <1>1, <1>4, StackMoves
<1>8. \A m : \A u \in Threads : CallsIn(stack'[u], m) = CallsIn(stack[u], m)
  BY <1>6, <1>7 DEF s
<1>9. Types'
  BY <1>1, <1>7 DEF Types
<1>10. Shape'
  BY <1>50, <1>7 DEF Shape
<1>11. Counted'
  <2>1. \A m : Calls(m)' = Calls(m)
    BY <1>8, CallsSame
  <2> QED
    BY <1>1, <2>1 DEF Counted
<1>12. OneReset' /\ Sleepers' /\ Past' /\ Emptied'
  <2>1. \A m \in Listeners : inFlight'[m] \in Int /\ inFlight'[m] >= inFlight[m]
    BY <1>1 DEF Types
  <2>2. stack'[t] # << >> => Head(stack'[t]).what # "reset"
    BY <1>5, <1>7
  <2>3. UNCHANGED <<registered, seq, active, drainWaiters, resetBy>>
    BY <1>1
  <2> QED
    BY <1>7, <1>8, <2>1, <2>2, <2>3, CalmStep
<1> QED
  BY <1>9, <1>10, <1>11, <1>12

LEMMA InvokeStep ==
  ASSUME EInv, NEW t \in Threads, Invoke(t)
  PROVE  EInv'
<1> USE DEF EInv
<1> DEFINE s == stack[t]
           l == Head(Head(s).todo)
           g == FireFrame(Tail(Head(s).todo))
           f == CallFrame(l)
           r == Tail(s)
           one == Pushed(g, r)
           two == Pushed(f, Pushed(g, r))
           c == stack'[t]
<1>1. /\ s # << >> /\ Head(s).what = "fire"
      /\ registered' = registered /\ seq' = seq /\ sequence' = sequence
      /\ active' = active /\ drainWaiters' = drainWaiters /\ resetBy' = resetBy
  BY DEF Invoke, IsAt, Top, bus
<1>2. /\ g.what = "fire" /\ \A m : g # CallFrame(m) /\ Head(s) # CallFrame(m)
      /\ f.what = "call" /\ f.of = l /\ f = CallFrame(f.of)
      /\ \A m : m # l => f # CallFrame(m)
  <2>1. g.what = "fire" /\ \A m : CallFrame(m).what = "call" /\ CallFrame(m).of = m
    BY DEF FireFrame, CallFrame
  <2> HIDE DEF g, l
  <2>2. f.what = "call" /\ f.of = l
    BY <2>1
  <2> QED
    BY <1>1, <2>1, <2>2
<1>3. Framed(s) /\ ShapeOf(s)
  BY DEF Types, Shape
<1>4. \/ /\ active[l]
         /\ inFlight' = [inFlight EXCEPT ![l] = @ + 1]
         /\ stack' = [stack EXCEPT ![t] = <<f, g>> \o r]
      \/ ~active[l] /\ inFlight' = inFlight /\ stack' = [stack EXCEPT ![t] = one]
  BY DEF Invoke, Replace, Top, Pushed
<1> HIDE DEF l, g, s, f
<1>5. Framed(r) /\ ShapeOf(r) /\ (r # << >> => Head(r).what \in {"fire", "call"})
  BY <1>1, <1>3, Uncons, ShapePop
<1>6. \A m : CallsIn(one, m) = CallsIn(s, m)
  BY <1>1, <1>2, <1>3, CallsInReplace
<1> HIDE DEF r
<1>7. <<f, g>> \o r = two
  BY <1>5, PushedTwice
<1>8. Framed(one) /\ one # << >> /\ Head(one) = g
  BY <1>5, PushedIs
<1>9. ShapeOf(one)
  BY <1>2, <1>5, ShapePush
<1>10. two = Pushed(f, one)
  OBVIOUS
<1> HIDE DEF one
<1>11. Framed(Pushed(f, one)) /\ Pushed(f, one) # << >> /\ Head(Pushed(f, one)) = f
  BY <1>8, PushedIs
<1>12. ShapeOf(Pushed(f, one))
  BY <1>2, <1>8, <1>9, ShapePush
<1>13. /\ CallsIn(Pushed(f, one), l) = CallsIn(s, l) \cup {Len(one) + 1}
       /\ Len(one) + 1 \notin CallsIn(s, l)
       /\ \A m : m # l => CallsIn(Pushed(f, one), m) = CallsIn(s, m)
  <2>1. /\ CallsIn(Pushed(f, one), l) = CallsIn(one, l) \cup {Len(one) + 1}
        /\ Len(one) + 1 \notin CallsIn(one, l)
    BY <1>8, CallsInCons DEF f
  <2>2. \A m : m # l => CallsIn(Pushed(f, one), m) = CallsIn(one, m)
    BY <1>2, <1>8, CallsInCons
  <2> QED
    BY <1>6, <2>1, <2>2
<1>14. \/ /\ active[l]
          /\ inFlight' = [inFlight EXCEPT ![l] = @ + 1]
          /\ stack' = [stack EXCEPT ![t] = two]
       \/ ~active[l] /\ inFlight' = inFlight /\ stack' = [stack EXCEPT ![t] = one]
  BY <1>4, <1>7
<1> HIDE DEF two
<1>15. Framed(two) /\ ShapeOf(two)
  BY <1>10, <1>11, <1>12
<1>16. /\ c = IF active[l] THEN two ELSE one
       /\ \A u \in Threads : u # t => stack'[u] = stack[u]
       /\ stack' \in [Threads -> {stack'[u] : u \in Threads}]
       /\ \A u \in Threads : Framed(stack'[u])
  <2>1. CASE active[l]
    <3>1. stack' = [stack EXCEPT ![t] = two]
      BY <1>14, <2>1
    <3> QED
      BY <1>15, <2>1, <3>1, StackMoves
  <2>2. CASE ~active[l]
    <3>1. stack' = [stack EXCEPT ![t] = one]
      BY <1>14, <2>2
    <3> QED
      BY <1>8, <2>2, <3>1, StackMoves
  <2> QED
    BY <2>1, <2>2
<1>17. inFlight' \in [Listeners -> Int]
  BY <1>14 DEF Types
<1>18. Types'
  BY <1>1, <1>16, <1>17 DEF Types
<1>19. Shape'
  BY <1>9, <1>15, <1>16 DEF Shape
<1>20. ASSUME NEW m \in Listeners, m # l \/ ~active[l]
       PROVE  /\ inFlight'[m] = inFlight[m]
              /\ \A u \in Threads : CallsIn(stack'[u], m) = CallsIn(stack[u], m)
  <2>1. inFlight'[m] = inFlight[m]
    BY <1>14, <1>20 DEF Types
  <2>2. CallsIn(c, m) = CallsIn(s, m)
    BY <1>6, <1>10, <1>13, <1>16, <1>20
  <2> QED
    BY <1>16, <2>1, <2>2 DEF s
<1>21. ASSUME NEW m \in Listeners, m = l, active[l]
       PROVE  /\ inFlight'[m] = inFlight[m] + 1
              /\ IsFiniteSet(Calls(m)')
              /\ Cardinality(Calls(m)') = Cardinality(Calls(m)) + 1
  <2>1. inFlight'[m] = inFlight[m] + 1
    BY <1>14, <1>21 DEF Types
  <2>2. /\ CallsIn(stack'[t], m) = CallsIn(stack[t], m) \cup {Len(one) + 1}
        /\ Len(one) + 1 \notin CallsIn(stack[t], m)
    BY <1>10, <1>13, <1>16, <1>21 DEF s
  <2>3. \A u \in Threads : u # t => CallsIn(stack'[u], m) = CallsIn(stack[u], m)
    BY <1>16
  <2>4. IsFiniteSet(Calls(m))
    BY <1>21 DEF Counted
  <2> QED
    BY <2>1, <2>2, <2>3, <2>4, CallsGrow
<1>22. Counted'
  <2> SUFFICES ASSUME NEW m \in Listeners
               PROVE  IsFiniteSet(Calls(m)') /\ inFlight'[m] = Cardinality(Calls(m)')
    BY DEF Counted
  <2>1. IsFiniteSet(Calls(m)) /\ inFlight[m] = Cardinality(Calls(m))
    BY DEF Counted
  <2>2. CASE m # l \/ ~active[l]
    <3>1. Calls(m)' = Calls(m)
      BY <1>20, <2>2, CallsSame
    <3> QED
      BY <1>20, <2>1, <2>2, <3>1
  <2>3. CASE m = l /\ active[l]
    BY <1>21, <2>1, <2>3
  <2> QED
    BY <2>2, <2>3
<1>23. \A m \in Listeners : inFlight'[m] \in Int /\ inFlight'[m] >= inFlight[m]
  <2> TAKE m \in Listeners
  <2>1. inFlight[m] \in Int
    BY DEF Types
  <2>2. CASE m # l \/ ~active[l]
    BY <1>20, <2>1, <2>2
  <2>3. CASE m = l /\ active[l]
    BY <1>21, <2>1, <2>3
  <2> QED
    BY <2>2, <2>3
<1>24. \A m \in Listeners : ~active[m] =>
          CallsIn(stack'[t], m) \subseteq CallsIn(stack[t], m)
  BY <1>20
<1>25. stack'[t] # << >> => Head(stack'[t]).what # "reset"
  BY <1>2, <1>8, <1>10, <1>11, <1>16
<1>26. OneReset' /\ Sleepers' /\ Past' /\ Emptied'
  <2>1. UNCHANGED <<registered, seq, active, drainWaiters, resetBy>>
    BY <1>1
  <2> QED
    BY <1>16, <1>23, <1>24, <1>25, <2>1, CalmStep
<1> QED
  BY <1>18, <1>19, <1>22, <1>26

LEMMA FinishStep ==
  ASSUME EInv, NEW t \in Threads, NEW n \in {1, 2}, IsAt(t, "call"), Finish(t, n)
  PROVE  EInv'
<1> USE DEF EInv
<1> DEFINE s == stack[t]
           l == Head(s).of
           q == Tail(s)
           c == stack'[t]
<1>1. /\ s # << >> /\ Head(s).what = "call"
      /\ registered' = registered /\ seq' = seq /\ sequence' = sequence
      /\ active' = active /\ drainWaiters' = drainWaiters /\ resetBy' = resetBy
      /\ inFlight' = [inFlight EXCEPT ![l] = @ - 1]
      /\ stack' = [u \in Threads |-> IF u = t THEN SubSeq(s, n + 1, Len(s))
                                              ELSE Wake(l, stack[u])]
  BY DEF Finish, IsAt, Top, bus
<1>2. Framed(s) /\ ShapeOf(s)
  BY DEF Types, Shape
<1>3. /\ Framed(q) /\ ShapeOf(q) /\ s = Pushed(Head(s), q)
      /\ Head(s) = CallFrame(l) /\ q # << >> /\ Head(q).what = "fire"
  BY <1>1, <1>2, Uncons, ShapePop
<1>4. /\ Framed(Tail(q)) /\ ShapeOf(Tail(q))
      /\ Tail(q) # << >> => Head(Tail(q)).what \in {"fire", "call"}
  BY <1>3, Uncons, ShapePop
<1>5. c = q \/ c = Tail(q)
  <2>1. c = SubSeq(s, n + 1, Len(s))
    BY <1>1
  <2>2. SubSeq(s, 2, Len(s)) = q /\ SubSeq(s, 3, Len(s)) = Tail(q)
    BY <1>1, <1>2, <1>3, Dropped
  <2> HIDE DEF s, q, c
  <2>3. CASE n = 1
    BY <2>1, <2>2, <2>3
  <2>4. CASE n = 2
    BY <2>1, <2>2, <2>4
  <2> QED
    BY <2>3, <2>4
<1>6. \A m : CallsIn(c, m) = CallsIn(q, m)
  <2> TAKE m
  <2>1. CallFrame(m).what = "call" /\ FireFrame(<< >>).what = "fire"
    BY DEF CallFrame, FireFrame
  <2>2. Head(q) # CallFrame(m) /\ FireFrame(<< >>) # CallFrame(m)
    BY <1>3, <2>1
  <2> HIDE DEF q, c
  <2>3. CallsIn(Tail(q), m) = CallsIn(q, m)
    BY <1>3, <2>2, CallsInReplace
  <2> QED
    BY <1>5, <2>3
<1>7. /\ CallsIn(s, l) = CallsIn(q, l) \cup {Len(q) + 1}
      /\ Len(q) + 1 \notin CallsIn(q, l)
      /\ \A m : m # l => CallsIn(s, m) = CallsIn(q, m)
  <2>1. \A m : m # l => CallFrame(l) # CallFrame(m)
    <3>1. \A m : CallFrame(m).of = m
      BY DEF CallFrame
    <3> QED
      BY <3>1
  <2> HIDE DEF s, q, l
  <2>2. s = Pushed(CallFrame(l), q)
    BY <1>3
  <2> QED
    BY <1>3, <2>1, <2>2, CallsInCons
<1>8. c # << >> => Head(c).what # "reset"
  BY <1>3, <1>4, <1>5
<1>9. Framed(c) /\ ShapeOf(c)
  BY <1>3, <1>4, <1>5
<1>10. ASSUME NEW u \in Threads, u # t
       PROVE  /\ stack'[u] = Wake(l, stack[u])
              /\ Framed(stack'[u]) /\ ShapeOf(stack'[u])
              /\ \A m : CallsIn(stack'[u], m) = CallsIn(stack[u], m)
              /\ \/ stack'[u] = stack[u] /\ (Woken(l) /\ stack[u] # << >>
                                     => Head(stack[u]) # ResetFrame(l, "asleep"))
                 \/ /\ stack[u] # << >> /\ Head(stack[u]) = ResetFrame(l, "asleep")
                    /\ stack'[u] # << >> /\ Head(stack'[u]) = ResetFrame(l, "awake")
  <2>1. Framed(stack[u]) /\ ShapeOf(stack[u])
    BY DEF Types, Shape
  <2>2. stack'[u] = Wake(l, stack[u])
    BY <1>1, <1>10
  <2> HIDE DEF l
  <2> QED
    BY <2>1, <2>2, WakeIs
<1>101. inFlight' = [inFlight EXCEPT ![l] = @ - 1]
  BY <1>1
<1> HIDE DEF s, q, c, l
<1>11. Types'
  <2>1. inFlight' \in [Listeners -> Int]
    <3>1. inFlight \in [Listeners -> Int]
      BY DEF Types
    <3>2. l \in Listeners => inFlight[l] - 1 \in Int
      BY <3>1
    <3> QED
      BY <1>101, <3>1, <3>2
  <2>2. \A u \in Threads : Framed(stack'[u])
    BY <1>9, <1>10 DEF c
  <2>3. stack' \in [Threads -> {stack'[u] : u \in Threads}]
    BY <1>1
  <2> QED
    BY <1>1, <2>1, <2>2, <2>3 DEF Types
<1>12. Shape'
  BY <1>9, <1>10 DEF Shape, c
<1>13. \A m : m # l => \A u \in Threads : CallsIn(stack'[u], m) = CallsIn(stack[u], m)
  BY <1>6, <1>7, <1>10 DEF c, s
<1>14. \A m \in Listeners : inFlight'[m] = IF m = l THEN inFlight[m] - 1 ELSE inFlight[m]
  BY <1>1 DEF Types
<1>15. Counted'
  <2> SUFFICES ASSUME NEW m \in Listeners
               PROVE  IsFiniteSet(Calls(m)') /\ inFlight'[m] = Cardinality(Calls(m)')
    BY DEF Counted
  <2>1. IsFiniteSet(Calls(m)) /\ inFlight[m] = Cardinality(Calls(m))
    BY DEF Counted
  <2>2. CASE m # l
    <3>1. Calls(m)' = Calls(m)
      BY <1>13, <2>2, CallsSame
    <3> QED
      BY <1>14, <2>1, <2>2, <3>1
  <2>3. CASE m = l
    <3>1. /\ CallsIn(stack[t], m) = CallsIn(stack'[t], m) \cup {Len(q) + 1}
          /\ Len(q) + 1 \notin CallsIn(stack'[t], m)
      BY <1>6, <1>7, <2>3 DEF c, s
    <3>2. \A u \in Threads : u # t => CallsIn(stack'[u], m) = CallsIn(stack[u], m)
      BY <1>10
    <3>3. /\ IsFiniteSet(Calls(m)')
          /\ Cardinality(Calls(m)') = Cardinality(Calls(m)) - 1
      BY <2>1, <2>3, <3>1, <3>2, CallsShrink
    <3> QED
      BY <1>14, <2>1, <2>3, <3>3
  <2> QED
    BY <2>2, <2>3
<1>16. ASSUME NEW u \in Threads, Resetting(u)'
       PROVE  /\ u # t /\ Resetting(u) /\ Top(u)'.of = Top(u).of
              /\ Top(u)'.at # "erased" => Top(u).at # "erased"
              /\ Top(u)'.at = "asleep" => /\ stack'[u] = stack[u]
                                          /\ Top(u)' = Top(u)
                                          /\ Woken(l) => Top(u).of # l
  <2>1. u # t
    BY <1>8, <1>16 DEF Resetting, IsAt, Top, c
  <2>2. \A x : /\ ResetFrame(l, x).of = l /\ ResetFrame(l, x).at = x
                /\ ResetFrame(l, x).what = "reset"
    BY DEF ResetFrame
  <2>3. CASE stack'[u] = stack[u] /\ (Woken(l) /\ stack[u] # << >>
                                     => Head(stack[u]) # ResetFrame(l, "asleep"))
    <3>1. Resetting(u) /\ Top(u)' = Top(u) /\ stack[u] # << >> /\ Head(stack[u]) = Top(u)
      BY <1>16, <2>3 DEF Resetting, IsAt, Top
    <3>2. Top(u) = ResetFrame(Top(u).of, Top(u).at)
      BY <3>1, ResetIs
    <3>3. Top(u).at = "asleep" /\ Woken(l) => Top(u).of # l
      BY <2>3, <3>1, <3>2
    <3> QED
      BY <2>1, <2>3, <3>1, <3>3
  <2>4. CASE /\ stack[u] # << >> /\ Head(stack[u]) = ResetFrame(l, "asleep")
             /\ stack'[u] # << >> /\ Head(stack'[u]) = ResetFrame(l, "awake")
    <3>1. /\ Top(u) = ResetFrame(l, "asleep") /\ Top(u)' = ResetFrame(l, "awake")
          /\ Resetting(u)
      BY <2>2, <2>4 DEF Resetting, IsAt, Top
    <3> QED
      BY <2>1, <2>2, <3>1
  <2> QED
    BY <1>10, <2>1, <2>3, <2>4
<1>17. OneReset'
  BY <1>1, <1>16 DEF OneReset
<1>18. Sleepers'
  <2> SUFFICES ASSUME NEW u \in Threads, Resetting(u)', Top(u)'.at = "asleep"
               PROVE  inFlight'[Top(u)'.of]
                         > Cardinality(CallsIn(stack'[u], Top(u)'.of))
    BY DEF Sleepers
  <2>1. /\ Resetting(u) /\ Top(u)' = Top(u) /\ stack'[u] = stack[u]
        /\ Woken(l) => Top(u).of # l
    BY <1>16
  <2>2. Top(u).of \in Listeners
    BY <2>1, ResetIs
  <2>3. drainWaiters[Top(u).of] > 0
    BY <2>1 DEF OneReset
  <2>4. Top(u).of # l
    <3>1. drainWaiters[Top(u).of] # 0
      BY <2>2, <2>3 DEF Types
    <3> QED
      BY <2>1, <3>1 DEF Woken
  <2>5. inFlight'[Top(u).of] = inFlight[Top(u).of]
    BY <1>14, <2>2, <2>4
  <2> QED
    BY <2>1, <2>5 DEF Sleepers
<1>19. Past'
  BY <1>1 DEF Past
<1>20. Emptied'
  <2>1. \A m : \A u \in Threads : CallsIn(stack[u], m) = {} => CallsIn(stack'[u], m) = {}
    BY <1>6, <1>7, <1>10, <1>13 DEF c, s
  <2> QED
    BY <1>1, <2>1 DEF Emptied, Types
<1> QED
  BY <1>11, <1>12, <1>15, <1>17, <1>18, <1>19, <1>20

LEMMA EraseStep ==
  ASSUME EInv, NEW t \in Threads, NEW l \in Listeners, Erase(t, l)
  PROVE  EInv'
<1> USE DEF EInv
<1> DEFINE f == ResetFrame(l, "erased")
           s == stack[t]
           c == Pushed(f, s)
<1>1. /\ stack' = [stack EXCEPT ![t] = c]
      /\ s # << >> => Head(s).what = "call"
      /\ l \in registered /\ registered' = registered \ {l}
      /\ seq' = seq /\ sequence' = sequence
      /\ active' = active /\ inFlight' = inFlight /\ drainWaiters' = drainWaiters
      /\ resetBy' = resetBy
  BY DEF Erase, Push, Pushed, InUserCode, Top, entry
<1>2. /\ f.what = "reset" /\ f.of = l /\ f.at = "erased" /\ f = ResetFrame(f.of, f.at)
      /\ \A m : f # CallFrame(m)
  <2>1. f.what = "reset" /\ f.of = l /\ f.at = "erased" /\ \A m : CallFrame(m).what = "call"
    BY DEF ResetFrame, CallFrame
  <2> QED
    BY <2>1
<1>3. Framed(s) /\ ShapeOf(s)
  BY DEF Types, Shape
<1> HIDE DEF f
<1>4. Framed(c) /\ c # << >> /\ Head(c) = f
  BY <1>3, PushedIs
<1> HIDE DEF s
<1>5. ShapeOf(c)
  BY <1>1, <1>2, <1>3, ShapePush
<1>6. \A m : CallsIn(c, m) = CallsIn(s, m)
  BY <1>2, <1>3, CallsInCons
<1> HIDE DEF c
<1>7. /\ stack'[t] = c /\ \A u \in Threads : u # t => stack'[u] = stack[u]
      /\ stack' \in [Threads -> {stack'[u] : u \in Threads}]
      /\ \A u \in Threads : Framed(stack'[u])
  BY <1>1, <1>4, StackMoves
<1>8. \A m : \A u \in Threads : CallsIn(stack'[u], m) = CallsIn(stack[u], m)
  BY <1>6, <1>7 DEF s
<1>9. Types'
  BY <1>1, <1>7 DEF Types
<1>10. Shape'
  BY <1>5, <1>7 DEF Shape
<1>11. Counted'
  <2>1. \A m : Calls(m)' = Calls(m)
    BY <1>8, CallsSame
  <2> QED
    BY <1>1, <2>1 DEF Counted
<1>12. /\ Top(t)' = f /\ ~Resetting(t)
       /\ \A u \in Threads : u # t => /\ Resetting(u)' = Resetting(u)
                                      /\ Top(u)' = Top(u)
  <2>1. s # << >> => Head(s).what # "reset"
    BY <1>1
  <2> QED
    BY <1>4, <1>7, <2>1 DEF Resetting, IsAt, Top, s
<1>13. OneReset'
  <2>1. \A m \in registered' : seq'[m] > 0
    BY <1>1 DEF OneReset
  <2>2. ASSUME NEW u \in Threads, Resetting(u)'
        PROVE  /\ Top(u)'.of \notin registered' /\ seq'[Top(u)'.of] > 0
               /\ Top(u)'.at # "erased" =>
                    drainWaiters'[Top(u)'.of] > 0 /\ ~active'[Top(u)'.of]
    <3>1. CASE u = t
      BY <1>1, <1>2, <1>12, <3>1 DEF OneReset
    <3>2. CASE u # t
      BY <1>1, <1>12, <2>2, <3>2 DEF OneReset
    <3> QED
      BY <3>1, <3>2
  <2>3. \A u \in Threads : u # t /\ Resetting(u)' => Top(u)'.of # l
    BY <1>1, <1>12 DEF OneReset
  <2>4. ASSUME NEW u \in Threads, NEW v \in Threads, Resetting(u)', Resetting(v)',
               Top(u)'.of = Top(v)'.of
        PROVE  u = v
    <3>1. u # t /\ v # t => u = v
      BY <1>12, <2>4 DEF OneReset
    <3>2. u = t \/ v = t => u = v
      BY <1>2, <1>12, <2>3, <2>4
    <3> QED
      BY <3>1, <3>2
  <2> QED
    BY <2>1, <2>2, <2>4 DEF OneReset
<1>14. Sleepers'
  <2> SUFFICES ASSUME NEW u \in Threads, Resetting(u)', Top(u)'.at = "asleep"
               PROVE  inFlight'[Top(u)'.of]
                         > Cardinality(CallsIn(stack'[u], Top(u)'.of))
    BY DEF Sleepers
  <2>1. u # t
    BY <1>2, <1>12
  <2> QED
    BY <1>1, <1>7, <1>12, <2>1 DEF Sleepers
<1>15. Past' /\ Emptied'
  <2>1. Past'
    BY <1>1 DEF Past
  <2>2. Emptied'
    BY <1>1, <1>8 DEF Emptied, Types
  <2> QED
    BY <2>1, <2>2
<1> QED
  BY <1>9, <1>10, <1>11, <1>13, <1>14, <1>15

\* Replacing the frame of a reset, or taking it away, leaves the calls alone.
LEMMA ResetMoves ==
  ASSUME EInv, NEW t \in Threads, Resetting(t), NEW c,
         \/ c = Tail(stack[t])
         \/ c = Pushed(ResetFrame(Top(t).of, "asleep"), Tail(stack[t])),
         stack' = [stack EXCEPT ![t] = c]
  PROVE  /\ stack' \in [Threads -> {stack'[u] : u \in Threads}]
         /\ \A u \in Threads : Framed(stack'[u]) /\ ShapeOf(stack'[u])
         /\ \A m : \A u \in Threads : CallsIn(stack'[u], m) = CallsIn(stack[u], m)
         /\ \A u \in Threads : u # t => /\ stack'[u] = stack[u]
                                        /\ Resetting(u)' = Resetting(u)
                                        /\ Top(u)' = Top(u)
         /\ c = Tail(stack[t]) => ~Resetting(t)'
         /\ c # Tail(stack[t]) => Top(t)' = ResetFrame(Top(t).of, "asleep")
<1> USE DEF EInv
<1> DEFINE l == Top(t).of
           s == stack[t]
           r == Tail(s)
           f == ResetFrame(l, "asleep")
<1>1. /\ s # << >> /\ l \in Listeners /\ Framed(s) /\ ShapeOf(s)
      /\ \A m : Head(s) # CallFrame(m)
  BY ResetIs
<1>2. /\ f.what = "reset" /\ f = ResetFrame(f.of, f.at) /\ f.of = l /\ f.at = "asleep"
      /\ \A m : f # CallFrame(m)
  <2>1. f.what = "reset" /\ f.of = l /\ f.at = "asleep" /\ \A m : CallFrame(m).what = "call"
    BY DEF ResetFrame, CallFrame
  <2> QED
    BY <2>1
<1> HIDE DEF f, l, s
<1>3. Framed(r) /\ ShapeOf(r) /\ (r # << >> => Head(r).what \in {"fire", "call"})
  BY <1>1, Uncons, ShapePop
<1>4. \A m : CallsIn(Pushed(f, r), m) = CallsIn(s, m) /\ CallsIn(r, m) = CallsIn(s, m)
  BY <1>1, <1>2, CallsInReplace
<1>5. c = r \/ c = Pushed(f, r)
  BY DEF f, l, s
<1> HIDE DEF r
<1>6. Framed(Pushed(f, r)) /\ Pushed(f, r) # << >> /\ Head(Pushed(f, r)) = f
  BY <1>3, PushedIs
<1>7. ShapeOf(Pushed(f, r))
  BY <1>1, <1>2, <1>3, ShapePush
<1>8. Framed(c) /\ ShapeOf(c) /\ \A m : CallsIn(c, m) = CallsIn(s, m)
  BY <1>3, <1>4, <1>5, <1>6, <1>7
<1>9. /\ stack'[t] = c /\ \A u \in Threads : u # t => stack'[u] = stack[u]
      /\ stack' \in [Threads -> {stack'[u] : u \in Threads}]
      /\ \A u \in Threads : Framed(stack'[u])
  BY <1>8, StackMoves
<1>10. \A u \in Threads : ShapeOf(stack'[u])
  BY <1>8, <1>9 DEF Shape
<1>11. \A m : \A u \in Threads : CallsIn(stack'[u], m) = CallsIn(stack[u], m)
  BY <1>8, <1>9 DEF s
<1>12. \A u \in Threads : u # t => /\ Resetting(u)' = Resetting(u) /\ Top(u)' = Top(u)
  BY <1>9 DEF Resetting, IsAt, Top
<1>13. c = r => ~Resetting(t)'
  BY <1>3, <1>9 DEF Resetting, IsAt, Top
<1>14. c # r => Top(t)' = f
  BY <1>5, <1>6, <1>9 DEF Top
<1> QED
  BY <1>9, <1>10, <1>11, <1>12, <1>13, <1>14 DEF f, l, r, s

\* A reset that has nobody to wait for returns.
LEMMA LeaveKeeps ==
  ASSUME EInv, NEW t \in Threads, NEW l, Resetting(t), l = Top(t).of,
         Drained(t, l), Leave(t, l),
         UNCHANGED <<bus, inFlight>>,
         active' \in [Listeners -> BOOLEAN], ~active'[l],
         \A m \in Listeners : active'[m] => active[m],
         drainWaiters' \in [Listeners -> Nat],
         \A m \in Listeners : m # l => drainWaiters'[m] = drainWaiters[m]
  PROVE  EInv'
<1> USE DEF EInv
<1>1. /\ stack' = [stack EXCEPT ![t] = Tail(stack[t])]
      /\ resetBy' = [resetBy EXCEPT ![l] = @ \cup {t}]
      /\ registered' = registered /\ seq' = seq /\ sequence' = sequence
      /\ inFlight' = inFlight
  BY DEF Leave, bus
<1>2. /\ stack' \in [Threads -> {stack'[u] : u \in Threads}]
      /\ \A u \in Threads : Framed(stack'[u]) /\ ShapeOf(stack'[u])
      /\ \A m : \A u \in Threads : CallsIn(stack'[u], m) = CallsIn(stack[u], m)
      /\ \A u \in Threads : u # t => /\ stack'[u] = stack[u]
                                     /\ Resetting(u)' = Resetting(u)
                                     /\ Top(u)' = Top(u)
      /\ ~Resetting(t)'
  BY <1>1, ResetMoves
<1>3. l \in Listeners /\ \A u \in Threads : Resetting(u) => Top(u).of \in Listeners
  BY ResetIs
<1>4. /\ resetBy' \in [Listeners -> SUBSET Threads]
      /\ resetBy'[l] = resetBy[l] \cup {t}
      /\ \A m \in Listeners : m # l => resetBy'[m] = resetBy[m]
  BY <1>1, <1>3 DEF Types
<1>5. Types'
  BY <1>1, <1>2, <1>4 DEF Types
<1>6. Shape'
  BY <1>2 DEF Shape
<1>7. Counted'
  <2>1. \A m : Calls(m)' = Calls(m)
    BY <1>2, CallsSame
  <2> QED
    BY <1>1, <2>1 DEF Counted
<1>8. \A u \in Threads : Resetting(u)' =>
         u # t /\ Resetting(u) /\ Top(u)' = Top(u) /\ Top(u).of # l
  BY <1>2 DEF OneReset
<1>9. OneReset'
  <2>1. ASSUME NEW u \in Threads, Resetting(u)', Top(u)'.at # "erased"
        PROVE  drainWaiters'[Top(u)'.of] > 0 /\ ~active'[Top(u)'.of]
    <3>1. drainWaiters[Top(u).of] > 0 /\ ~active[Top(u).of]
      BY <1>8, <2>1 DEF OneReset
    <3> QED
      BY <1>3, <1>8, <2>1, <3>1
  <2>2. \A u \in Threads : Resetting(u)' =>
           Top(u)'.of \notin registered' /\ seq'[Top(u)'.of] > 0
    BY <1>1, <1>8 DEF OneReset
  <2>3. \A u, v \in Threads :
           Resetting(u)' /\ Resetting(v)' /\ Top(u)'.of = Top(v)'.of => u = v
    BY <1>8 DEF OneReset
  <2>4. \A m \in registered' : seq'[m] > 0
    BY <1>1 DEF OneReset
  <2> QED
    BY <2>1, <2>2, <2>3, <2>4 DEF OneReset
<1>10. Sleepers'
  BY <1>1, <1>2, <1>8 DEF Sleepers
<1>11. Past'
  <2> SUFFICES ASSUME NEW m \in Listeners, resetBy'[m] # {}
               PROVE  ~active'[m]
    BY DEF Past
  <2>1. m # l => resetBy[m] # {}
    BY <1>4
  <2>2. m # l => ~active[m]
    BY <2>1 DEF Past
  <2> QED
    BY <2>2
<1>12. \A u \in Threads \ {t} : CallsIn(stack[u], l) = {}
  <2>1. IsFiniteSet(Calls(l)) /\ inFlight[l] = Cardinality(Calls(l))
    BY <1>3 DEF Counted
  <2>2. Framed(stack[t])
    BY DEF Types
  <2>3. OwnInvocations(t, l) = Cardinality(CallsIn(stack[t], l))
    BY <2>2, OwnCalls
  <2>4. Cardinality(Calls(l)) <= Cardinality(CallsIn(stack[t], l))
    BY <2>1, <2>3 DEF Drained
  <2> QED
    BY <2>1, <2>2, <2>4, OnlyOwn
<1>13. Emptied'
  <2> SUFFICES ASSUME NEW m \in Listeners, NEW v \in resetBy'[m],
                      NEW u \in Threads \ {v}
               PROVE  CallsIn(stack[u], m) = {}
    BY <1>2 DEF Emptied
  <2>1. CASE v \in resetBy[m]
    BY <2>1 DEF Emptied
  <2>2. CASE v \notin resetBy[m]
    <3>1. m = l /\ v = t
      BY <1>4, <2>2
    <3> QED
      BY <1>12, <3>1
  <2> QED
    BY <2>1, <2>2
<1> QED
  BY <1>5, <1>6, <1>7, <1>9, <1>10, <1>11, <1>13

\* A reset with a call on another thread to wait for goes to sleep.
LEMMA SleepKeeps ==
  ASSUME EInv, NEW t \in Threads, NEW l, Resetting(t), l = Top(t).of,
         ~Drained(t, l), Replace(t, ResetFrame(l, "asleep")),
         UNCHANGED <<bus, inFlight, resetBy>>,
         active' \in [Listeners -> BOOLEAN], ~active'[l],
         \A m \in Listeners : active'[m] => active[m],
         drainWaiters' \in [Listeners -> Nat], drainWaiters'[l] > 0,
         \A m \in Listeners : m # l => drainWaiters'[m] = drainWaiters[m]
  PROVE  EInv'
<1> USE DEF EInv
<1> DEFINE f == ResetFrame(l, "asleep")
           c == Pushed(f, Tail(stack[t]))
<1>1. /\ stack' = [stack EXCEPT ![t] = c]
      /\ registered' = registered /\ seq' = seq /\ sequence' = sequence
      /\ inFlight' = inFlight /\ resetBy' = resetBy
  BY DEF Replace, Pushed, bus
<1>2. c # Tail(stack[t])
  <2>1. Framed(stack[t]) /\ stack[t] # << >>
    BY ResetIs
  <2>2. Framed(Tail(stack[t]))
    BY <2>1, Uncons
  <2> DEFINE r == Tail(stack[t])
  <2> HIDE DEF r, f
  <2>3. Len(Pushed(f, r)) = Len(r) + 1 /\ Len(r) \in Nat
    BY <2>2, PushedIs, FramedIs DEF r
  <2>4. Pushed(f, r) # r
    BY <2>3
  <2> QED
    BY <2>4 DEF r
<1>3. /\ stack' \in [Threads -> {stack'[u] : u \in Threads}]
      /\ \A u \in Threads : Framed(stack'[u]) /\ ShapeOf(stack'[u])
      /\ \A m : \A u \in Threads : CallsIn(stack'[u], m) = CallsIn(stack[u], m)
      /\ \A u \in Threads : u # t => /\ stack'[u] = stack[u]
                                     /\ Resetting(u)' = Resetting(u)
                                     /\ Top(u)' = Top(u)
      /\ Top(t)' = f
  <2> HIDE DEF c
  <2>1. c = Pushed(ResetFrame(Top(t).of, "asleep"), Tail(stack[t]))
    BY DEF c
  <2> QED
    BY <1>1, <1>2, <2>1, ResetMoves
<1>4. l \in Listeners /\ \A u \in Threads : Resetting(u) => Top(u).of \in Listeners
  BY ResetIs
<1>5. f.of = l /\ f.at = "asleep"
  BY DEF ResetFrame
<1> HIDE DEF f, c
<1>6. Types'
  BY <1>1, <1>3 DEF Types
<1>7. Shape'
  BY <1>3 DEF Shape
<1>8. Counted'
  <2>1. \A m : Calls(m)' = Calls(m)
    BY <1>3, CallsSame
  <2> QED
    BY <1>1, <2>1 DEF Counted
<1>9. \A u \in Threads : Resetting(u)' => /\ Resetting(u) /\ Top(u)'.of = Top(u).of
                                          /\ u # t => /\ Top(u).of # l
                                                      /\ Top(u)' = Top(u)
  BY <1>3, <1>5 DEF OneReset
<1>10. OneReset'
  <2>1. ASSUME NEW u \in Threads, Resetting(u)', Top(u)'.at # "erased"
        PROVE  drainWaiters'[Top(u)'.of] > 0 /\ ~active'[Top(u)'.of]
    <3>1. CASE u = t
      BY <1>3, <1>5, <3>1
    <3>2. CASE u # t
      <4>1. drainWaiters[Top(u).of] > 0 /\ ~active[Top(u).of]
        BY <1>9, <2>1, <3>2 DEF OneReset
      <4> QED
        BY <1>4, <1>9, <2>1, <3>2, <4>1
    <3> QED
      BY <3>1, <3>2
  <2>2. \A u \in Threads : Resetting(u)' =>
           Top(u)'.of \notin registered' /\ seq'[Top(u)'.of] > 0
    BY <1>1, <1>9 DEF OneReset
  <2>3. \A u, v \in Threads :
           Resetting(u)' /\ Resetting(v)' /\ Top(u)'.of = Top(v)'.of => u = v
    BY <1>9 DEF OneReset
  <2>4. \A m \in registered' : seq'[m] > 0
    BY <1>1 DEF OneReset
  <2> QED
    BY <2>1, <2>2, <2>3, <2>4 DEF OneReset
<1>11. Sleepers'
  <2> SUFFICES ASSUME NEW u \in Threads, Resetting(u)', Top(u)'.at = "asleep"
               PROVE  inFlight'[Top(u)'.of]
                         > Cardinality(CallsIn(stack'[u], Top(u)'.of))
    BY DEF Sleepers
  <2>1. CASE u = t
    <3>1. Framed(stack[t]) /\ inFlight[l] \in Int
      BY <1>4 DEF Types
    <3>2. /\ IsFiniteSet(CallsIn(stack[t], l))
          /\ OwnInvocations(t, l) = Cardinality(CallsIn(stack[t], l))
      BY <3>1, OwnCalls
    <3>3. Cardinality(CallsIn(stack[t], l)) \in Nat
      BY <3>2, FS_CardinalityType
    <3>4. inFlight[l] > Cardinality(CallsIn(stack[t], l))
      BY <3>1, <3>2, <3>3 DEF Drained
    <3> QED
      BY <1>1, <1>3, <1>5, <2>1, <3>4
  <2>2. CASE u # t
    BY <1>1, <1>3, <1>9, <2>2 DEF Sleepers
  <2> QED
    BY <2>1, <2>2
<1>12. Past'
  BY <1>1 DEF Past
<1>13. Emptied'
  BY <1>1, <1>3 DEF Emptied, Types
<1> QED
  BY <1>6, <1>7, <1>8, <1>10, <1>11, <1>12, <1>13

LEMMA DeactivateStep ==
  ASSUME EInv, NEW t \in Threads, Deactivate(t)
  PROVE  EInv'
<1> USE DEF EInv
<1> DEFINE l == Top(t).of
<1>1. Resetting(t)
  BY DEF Deactivate, Resetting
<1>2. l \in Listeners
  BY <1>1, ResetIs
<1>3. active \in [Listeners -> BOOLEAN] /\ drainWaiters \in [Listeners -> Nat]
  BY DEF Types
<1>4. /\ active' = [active EXCEPT ![l] = FALSE] /\ UNCHANGED <<bus, inFlight>>
      /\ \/ Drained(t, l) /\ Leave(t, l) /\ drainWaiters' = drainWaiters
         \/ /\ ~Drained(t, l)
            /\ drainWaiters' = [drainWaiters EXCEPT ![l] = @ + 1]
            /\ Replace(t, ResetFrame(l, "asleep"))
            /\ resetBy' = resetBy
  BY DEF Deactivate
<1>41. l = Top(t).of
  OBVIOUS
<1> HIDE DEF l
<1>5. /\ active' \in [Listeners -> BOOLEAN] /\ ~active'[l]
      /\ \A m \in Listeners : active'[m] => active[m]
  BY <1>2, <1>3, <1>4
<1>6. CASE Drained(t, l) /\ Leave(t, l) /\ drainWaiters' = drainWaiters
  BY <1>1, <1>3, <1>4, <1>41, <1>5, <1>6, LeaveKeeps
<1>7. CASE /\ ~Drained(t, l)
           /\ drainWaiters' = [drainWaiters EXCEPT ![l] = @ + 1]
           /\ Replace(t, ResetFrame(l, "asleep"))
           /\ resetBy' = resetBy
  <2>1. /\ drainWaiters' \in [Listeners -> Nat] /\ drainWaiters'[l] > 0
        /\ \A m \in Listeners : m # l => drainWaiters'[m] = drainWaiters[m]
    BY <1>2, <1>3, <1>7
  <2> QED
    BY <1>1, <1>4, <1>41, <1>5, <1>7, <2>1, SleepKeeps
<1> QED
  BY <1>4, <1>6, <1>7

LEMMA WakeUpStep ==
  ASSUME EInv, NEW t \in Threads, WakeUp(t)
  PROVE  EInv'
<1> USE DEF EInv
<1> DEFINE l == Top(t).of
<1>1. Resetting(t) /\ Top(t).at = "awake"
  BY DEF WakeUp, Resetting
<1>2. l \in Listeners /\ drainWaiters[l] > 0 /\ ~active[l]
  BY <1>1, ResetIs DEF OneReset
<1>3. active \in [Listeners -> BOOLEAN] /\ drainWaiters \in [Listeners -> Nat]
  BY DEF Types
<1>4. /\ active' = active /\ UNCHANGED <<bus, inFlight>>
      /\ \/ /\ Drained(t, l) /\ Leave(t, l)
            /\ drainWaiters' = [drainWaiters EXCEPT ![l] = @ - 1]
         \/ /\ ~Drained(t, l) /\ drainWaiters' = drainWaiters
            /\ Replace(t, ResetFrame(l, "asleep"))
            /\ resetBy' = resetBy
  BY DEF WakeUp
<1>41. l = Top(t).of
  OBVIOUS
<1> HIDE DEF l
<1>5. /\ active' \in [Listeners -> BOOLEAN] /\ ~active'[l]
      /\ \A m \in Listeners : active'[m] => active[m]
  BY <1>2, <1>3, <1>4
<1>6. CASE /\ Drained(t, l) /\ Leave(t, l)
           /\ drainWaiters' = [drainWaiters EXCEPT ![l] = @ - 1]
  <2>1. /\ drainWaiters' \in [Listeners -> Nat]
        /\ \A m \in Listeners : m # l => drainWaiters'[m] = drainWaiters[m]
    BY <1>2, <1>3, <1>6
  <2> QED
    BY <1>1, <1>4, <1>41, <1>5, <1>6, <2>1, LeaveKeeps
<1>7. CASE /\ ~Drained(t, l) /\ drainWaiters' = drainWaiters
           /\ Replace(t, ResetFrame(l, "asleep"))
           /\ resetBy' = resetBy
  BY <1>1, <1>2, <1>3, <1>4, <1>41, <1>5, <1>7, SleepKeeps
<1> QED
  BY <1>4, <1>6, <1>7

LEMMA InitEInv == Init \/ NoListeners => EInv
<1> SUFFICES ASSUME Init \/ NoListeners PROVE EInv
  OBVIOUS
<1> USE DEF Init, NoListeners
<1>1. \A t \in Threads : stack[t] = << >>
  OBVIOUS
<1>2. Framed(<< >>) /\ ShapeOf(<< >>) /\ \A m : CallsIn(<< >>, m) = {}
  BY DEF Framed, ShapeOf, CallsIn
<1>3. Types
  <2>1. \A t \in Threads : Framed(stack[t])
    BY <1>1, <1>2
  <2>2. stack \in [Threads -> {stack[t] : t \in Threads}]
    OBVIOUS
  <2>3. active \in [Listeners -> BOOLEAN]
    OBVIOUS
  <2>4. /\ registered = {} /\ sequence = 0 /\ seq = [l \in Listeners |-> 0]
        /\ inFlight = [l \in Listeners |-> 0] /\ drainWaiters = [l \in Listeners |-> 0]
        /\ resetBy = [l \in Listeners |-> {}]
    OBVIOUS
  <2> QED
    BY <2>1, <2>2, <2>3, <2>4 DEF Types
<1>4. Shape
  BY <1>1, <1>2 DEF Shape
<1>5. \A t \in Threads : ~Resetting(t)
  BY <1>1 DEF Resetting, IsAt
<1>6. OneReset /\ Sleepers
  BY <1>5 DEF OneReset, Sleepers
<1>7. Counted
  <2>1. \A m : Calls(m) = {}
    BY <1>1, <1>2 DEF Calls
  <2>2. IsFiniteSet({}) /\ Cardinality({}) = 0
    BY FS_EmptySet
  <2> QED
    BY <2>1, <2>2 DEF Counted
<1>8. Past /\ Emptied
  BY DEF Past, Emptied
<1> QED
  BY <1>3, <1>4, <1>6, <1>7, <1>8 DEF EInv

LEMMA NextEInv == EInv /\ [Next]_vars => EInv'
<1> SUFFICES ASSUME EInv, [Next]_vars PROVE EInv'
  OBVIOUS
<1>1. CASE UNCHANGED vars
  <2>1. /\ registered' = registered /\ seq' = seq /\ sequence' = sequence
        /\ active' = active /\ inFlight' = inFlight /\ drainWaiters' = drainWaiters
        /\ stack' = stack /\ resetBy' = resetBy
    BY <1>1 DEF vars, bus, entry
  <2>2. \A u : Resetting(u)' = Resetting(u) /\ Top(u)' = Top(u)
    BY <2>1 DEF Resetting, IsAt, Top
  <2>3. \A m : Calls(m)' = Calls(m)
    BY <2>1, CallsSame
  <2>4. Types' /\ Shape' /\ Past' /\ Emptied'
    BY <2>1 DEF EInv, Types, Shape, Past, Emptied
  <2>5. OneReset' /\ Sleepers'
    BY <2>1, <2>2 DEF EInv, OneReset, Sleepers
  <2>6. Counted'
    BY <2>1, <2>3 DEF EInv, Counted
  <2> QED
    BY <2>4, <2>5, <2>6 DEF EInv
<1>2. CASE Next
  <2> PICK t \in Threads : \/ Step(t) \/ Fire(t)
                           \/ \E l \in Listeners : Subscribe(t, l) \/ Erase(t, l)
    BY <1>2 DEF Next
  <2>1. CASE Invoke(t)
    BY <2>1, InvokeStep
  <2>2. CASE EndFire(t)
    BY <2>2, EndFireStep
  <2>3. CASE Return(t)
    BY <2>3, FinishStep DEF Return
  <2>4. CASE Throw(t)
    BY <2>4, FinishStep DEF Throw
  <2>5. CASE Deactivate(t)
    BY <2>5, DeactivateStep
  <2>6. CASE WakeUp(t)
    BY <2>6, WakeUpStep
  <2>7. CASE Fire(t)
    BY <2>7, FireStep
  <2>8. CASE \E l \in Listeners : Subscribe(t, l) \/ Erase(t, l)
    BY <2>8, SubscribeStep, EraseStep
  <2> QED
    BY <2>1, <2>2, <2>3, <2>4, <2>5, <2>6, <2>7, <2>8 DEF Step
<1> QED
  BY <1>1, <1>2

LEMMA BusInductive == Spec => []EInv
BY InitEInv, NextEInv, PTL DEF Spec

LEMMA EInvSound == EInv => NoLostDrainWakeup /\ ResetDrains
<1> SUFFICES ASSUME EInv PROVE NoLostDrainWakeup /\ ResetDrains
  OBVIOUS
<1>1. NoLostDrainWakeup
  <2> SUFFICES ASSUME NEW t \in Threads, IsAt(t, "reset"), Top(t).at = "asleep"
               PROVE  ~Drained(t, Top(t).of)
    BY DEF NoLostDrainWakeup
  <2>1. Resetting(t)
    BY DEF Resetting
  <2>2. Top(t).of \in Listeners /\ Framed(stack[t])
    BY <2>1, ResetIs DEF EInv
  <2>3. /\ IsFiniteSet(CallsIn(stack[t], Top(t).of))
        /\ OwnInvocations(t, Top(t).of) = Cardinality(CallsIn(stack[t], Top(t).of))
    BY <2>2, OwnCalls
  <2>4. /\ Cardinality(CallsIn(stack[t], Top(t).of)) \in Nat
        /\ inFlight[Top(t).of] \in Int
    BY <2>2, <2>3, FS_CardinalityType DEF EInv, Types
  <2>5. inFlight[Top(t).of] > Cardinality(CallsIn(stack[t], Top(t).of))
    BY <2>1 DEF EInv, Sleepers
  <2> QED
    BY <2>3, <2>4, <2>5 DEF Drained
<1>2. ResetDrains
  <2> SUFFICES ASSUME NEW l \in Listeners, NEW t \in Threads, t \in resetBy[l],
                      NEW u \in Threads \ {t}
               PROVE  OwnInvocations(u, l) = 0
    BY DEF ResetDrains
  <2>1. CallsIn(stack[u], l) = {}
    BY DEF EInv, Emptied
  <2>2. OwnInvocations(u, l) = Cardinality(CallsIn(stack[u], l))
    BY OwnCalls DEF EInv, Types
  <2>3. Cardinality({}) = 0
    BY FS_EmptySet
  <2> QED
    BY <2>1, <2>2, <2>3
<1> QED
  BY <1>1, <1>2

LEMMA EInvForbids ==
  EInv /\ [Next]_vars =>
     [\A l \in Listeners : resetBy[l] # {} => inFlight'[l] <= inFlight[l]]_vars
<1>1. ASSUME EInv, Next
      PROVE  \A l \in Listeners : resetBy[l] # {} => inFlight'[l] <= inFlight[l]
  <2> SUFFICES ASSUME NEW l \in Listeners, resetBy[l] # {}
               PROVE  inFlight'[l] <= inFlight[l]
    OBVIOUS
  <2>1. ~active[l] /\ inFlight \in [Listeners -> Int]
    BY <1>1 DEF EInv, Past, Types
  <2> PICK t \in Threads : \/ Step(t) \/ Fire(t)
                           \/ \E m \in Listeners : Subscribe(t, m) \/ Erase(t, m)
    BY <1>1 DEF Next
  <2>2. CASE Invoke(t)
    <3> DEFINE m == Head(Top(t).todo)
    <3>1. \/ active[m] /\ inFlight' = [inFlight EXCEPT ![m] = @ + 1]
          \/ inFlight' = inFlight
      BY <2>2 DEF Invoke
    <3> HIDE DEF m
    <3> QED
      BY <2>1, <3>1
  <2>3. CASE \E n \in {1, 2} : Finish(t, n)
    <3> DEFINE m == Top(t).of
    <3>1. inFlight' = [inFlight EXCEPT ![m] = @ - 1]
      BY <2>3 DEF Finish
    <3> HIDE DEF m
    <3>2. m # l => inFlight'[l] = inFlight[l]
      BY <2>1, <3>1
    <3>3. m = l => inFlight'[l] = inFlight[l] - 1
      BY <2>1, <3>1
    <3> QED
      BY <2>1, <3>2, <3>3
  <2>4. CASE EndFire(t) \/ Deactivate(t) \/ WakeUp(t) \/ Fire(t)
    <3>1. inFlight' = inFlight
      BY <2>4 DEF EndFire, Deactivate, WakeUp, Fire, entry
    <3> QED
      BY <2>1, <3>1
  <2>5. CASE \E m \in Listeners : Subscribe(t, m) \/ Erase(t, m)
    <3>1. inFlight' = inFlight
      BY <2>5 DEF Subscribe, Erase, entry
    <3> QED
      BY <2>1, <3>1
  <2> QED
    BY <2>2, <2>3, <2>4, <2>5 DEF Step, Return, Throw
<1> QED
  BY <1>1

\* A reset that waits is woken and, once it has returned, nobody else is inside
\* the callback: the wait of Subscription::reset, for any threads, listeners,
\* priorities and depth of nesting.
THEOREM ResetsWait == Spec => [](NoLostDrainWakeup /\ ResetDrains)
BY EInvSound, BusInductive, PTL

\* No call of a listener begins once a reset of it has returned, not even from a
\* snapshot of the listeners taken before (EventBus::invoke).
THEOREM ResetForbidsCalls == Spec => NeverCalledAfterReset
BY EInvForbids, BusInductive, PTL DEF Spec, NeverCalledAfterReset

-----------------------------------------------------------------------------
(* Boards: what the server has, and what each client was told of it.        *)

Scores == Nat \cup {-1}

BoardTypes ==
  [objs : [Objectives -> B!Formats \cup {B!Absent}], scores : [Objectives -> [Players -> Scores]],
   bars : [BarIds -> Int], triggers : SUBSET Objectives,
   side : [on : BOOLEAN, of : Objectives \cup {None}], teams : SUBSET TeamNames,
   members : [TeamNames -> SUBSET Players]]
ViewTypes ==
  [objs : [Objectives -> B!Formats \cup {B!Absent}], scores : [Objectives -> [Players -> Scores]],
   bars : [BarIds -> Int], side : Objectives \cup {None}, teams : SUBSET TeamNames,
   teamOf : [Players -> TeamNames \cup {None}]]
BTypes ==
  /\ online \subseteq Players /\ board \in BoardTypes /\ view \in [Players -> ViewTypes]
  /\ missed \in [Players -> SUBSET (Objectives \cup TeamNames)]
  /\ orphans \subseteq Objectives \X Players /\ torn \subseteq Players
  /\ cleanup \in [Players -> {"none", "left", "reset"}]
  /\ crossed \subseteq Objectives \X Players

\* What is not there has no score but by mistake, no members and nobody who missed
\* it, and is not displayed.
Vacant ==
  /\ \A o \in Objectives : board.objs[o] = B!Absent =>
       /\ \A h \in Players : <<o, h>> \notin orphans => board.scores[o][h] = -1
       /\ \A p \in Players : o \notin missed[p]
       /\ ~(board.side.on /\ board.side.of = o)
  /\ \A o \in Objectives, h \in Players : <<o, h>> \in orphans => board.scores[o][h] # -1
  /\ \A t \in TeamNames \ board.teams :
       board.members[t] = {} /\ \A p \in Players : t \notin missed[p]

\* No end of a session is about to tell the clients that the score is gone.
Settled(o, h) == cleanup[h] # "reset" /\ <<o, h>> \notin crossed

\* What such an end will tell is so, but for what was set since.
Halfway ==
  \A o \in Objectives, h \in Players :
    cleanup[h] = "reset" /\ <<o, h>> \notin crossed => board.scores[o][h] = -1

SeesObjectives(p) ==
  \A o \in Objectives :
    IF o \in missed[p] THEN view[p].objs[o] = B!Absent
    ELSE /\ view[p].objs[o] = board.objs[o]
         /\ board.objs[o] # B!Absent =>
              \A h \in Players :
                <<o, h>> \notin orphans /\ Settled(o, h) =>
                  view[p].scores[o][h] = board.scores[o][h]
SeesSide(p) ==
  /\ \A o \in Objectives \ missed[p] :
       board.side = [on |-> TRUE, of |-> o] => view[p].side = o
  /\ view[p].side # None => board.objs[view[p].side] # B!Absent
SeesTeams(p) ==
  \A t \in TeamNames \ missed[p] :
    /\ t \in view[p].teams <=> t \in board.teams
    /\ \A h \in Players \ torn : view[p].teamOf[h] = t <=> h \in board.members[t]

BInv ==
  /\ BTypes /\ Vacant /\ Halfway
  /\ \A p \in online : SeesObjectives(p) /\ SeesSide(p) /\ SeesTeams(p) /\ view[p].bars = board.bars

\* An order that touches no score.
LEMMA HalfwaySame ==
  ASSUME Halfway, board'.scores = board.scores, UNCHANGED <<cleanup, crossed>>
  PROVE  Halfway' /\ \A o \in Objectives, h \in Players : Settled(o, h)' = Settled(o, h)
  BY DEF Halfway, Settled

LEMMA ModifyKeeps ==
  ASSUME B!BoardsConstants, BInv, NEW o \in Objectives, NEW f \in B!Formats, B!Modify(o, f)
  PROVE  BInv'
<1> USE DEF BInv
<1>1. /\ board.objs[o] # B!Absent /\ board' = [board EXCEPT !.objs[o] = f]
      /\ view' = [p \in Players |->
                   IF p \in online THEN B!ChangedObjective(view[p], o, f) ELSE view[p]]
      /\ UNCHANGED <<online, missed, orphans, torn, cleanup, crossed>>
  BY DEF B!Modify, B!Tell
<1>2. f # B!Absent
  BY DEF B!Formats, B!Absent
<1>3. BTypes'
  <2>1. board' \in BoardTypes
    BY <1>1 DEF BTypes, BoardTypes
  <2>2. \A v \in ViewTypes : B!ChangedObjective(v, o, f) \in ViewTypes
    BY DEF ViewTypes, B!ChangedObjective
  <2>3. view' \in [Players -> ViewTypes]
    BY <1>1, <2>2 DEF BTypes
  <2> QED BY <1>1, <2>1, <2>3 DEF BTypes
<1>z. Halfway' /\ \A q \in Objectives, g \in Players : Settled(q, g)' = Settled(q, g)
  <2>1. board'.scores = board.scores
    BY <1>1 DEF BTypes, BoardTypes
  <2> QED BY <1>1, <2>1, HalfwaySame
<1>4. Vacant'
  BY <1>1, <1>2 DEF BTypes, BoardTypes, Vacant
<1>5. ASSUME NEW p \in online
      PROVE  (SeesObjectives(p) /\ SeesSide(p) /\ SeesTeams(p) /\ view[p].bars = board.bars)'
  <2>1. view'[p] = B!ChangedObjective(view[p], o, f) /\ view[p] \in ViewTypes
    BY <1>1 DEF BTypes
  <2>2. SeesObjectives(p)'
    BY <1>z, <1>1, <1>2, <2>1 DEF BTypes, BoardTypes, ViewTypes, SeesObjectives, B!ChangedObjective
  <2>3. SeesSide(p)'
    BY <1>1, <1>2, <2>1 DEF BTypes, BoardTypes, ViewTypes, SeesSide, B!ChangedObjective
  <2>4. SeesTeams(p)'
    BY <1>1, <2>1 DEF BTypes, BoardTypes, ViewTypes, SeesTeams, B!ChangedObjective
  <2>5. (view[p].bars = board.bars)'
    BY <1>1, <2>1 DEF BTypes, BoardTypes, ViewTypes, B!ChangedObjective
  <2> QED BY <2>2, <2>3, <2>4, <2>5
<1> QED BY <1>1, <1>z, <1>3, <1>4, <1>5

LEMMA BoardFields ==
  BTypes => /\ board.objs \in [Objectives -> B!Formats \cup {B!Absent}]
            /\ board.scores \in [Objectives -> [Players -> Scores]]
            /\ board.side \in [on : BOOLEAN, of : Objectives \cup {None}]
            /\ board.teams \in SUBSET TeamNames
            /\ board.members \in [TeamNames -> SUBSET Players]
            /\ \A p \in Players :
                 /\ view[p].objs \in [Objectives -> B!Formats \cup {B!Absent}]
                 /\ view[p].scores \in [Objectives -> [Players -> Scores]]
                 /\ view[p].side \in Objectives \cup {None}
                 /\ view[p].teams \in SUBSET TeamNames
                 /\ view[p].teamOf \in [Players -> TeamNames \cup {None}]
  BY DEF BTypes, BoardTypes, ViewTypes

LEMMA AddObjectiveKeeps ==
  ASSUME B!BoardsConstants, BInv, NEW o \in Objectives, NEW trigger \in BOOLEAN,
         B!AddObjective(o, trigger)
  PROVE  BInv'
<1> USE DEF BInv
<1>1. /\ board.objs[o] = B!Absent
      /\ board' = [board EXCEPT !.objs[o] = "plain",
                                !.triggers = IF trigger THEN @ \cup {o} ELSE @]
      /\ view' = [p \in Players |-> IF p \in online THEN B!AddedObjective(view[p], o, "plain")
                                    ELSE view[p]]
      /\ UNCHANGED <<online, missed, orphans, torn, cleanup, crossed>>
  BY DEF B!AddObjective, B!Tell
<1>2. "plain" \in B!Formats /\ "plain" # B!Absent
  BY DEF B!Formats, B!Absent
<1>3. /\ board' \in BoardTypes /\ board'.objs = [board.objs EXCEPT ![o] = "plain"]
      /\ board'.scores = board.scores /\ board'.side = board.side
      /\ board'.teams = board.teams /\ board'.members = board.members /\ board'.bars = board.bars
  BY <1>1, <1>2 DEF BTypes, BoardTypes
<1>4. ASSUME NEW v \in ViewTypes, NEW w, w = B!AddedObjective(v, o, "plain")
      PROVE  /\ w \in ViewTypes /\ w.objs = [v.objs EXCEPT ![o] = "plain"]
             /\ w.scores = [v.scores EXCEPT ![o] = IF v.objs[o] = B!Absent THEN B!NoScores ELSE @]
             /\ w.side = v.side /\ w.teams = v.teams /\ w.teamOf = v.teamOf /\ w.bars = v.bars
  <2>1. B!NoScores \in [Players -> Scores]
    BY DEF B!NoScores, Scores
  <2> DEFINE s == [v.scores EXCEPT ![o] = IF v.objs[o] = B!Absent THEN B!NoScores ELSE @]
  <2>2. s \in [Objectives -> [Players -> Scores]]
    BY <2>1 DEF ViewTypes
  <2>3. w = [v EXCEPT !.objs = [v.objs EXCEPT ![o] = "plain"], !.scores = s]
    BY <1>4 DEF B!AddedObjective, ViewTypes
  <2> HIDE DEF s
  <2>4. w \in ViewTypes /\ w.objs = [v.objs EXCEPT ![o] = "plain"] /\ w.scores = s
        /\ w.side = v.side /\ w.teams = v.teams /\ w.teamOf = v.teamOf /\ w.bars = v.bars
    BY <1>2, <2>2, <2>3 DEF ViewTypes
  <2> QED BY <2>4 DEF s
<1>5. BTypes'
  BY <1>1, <1>3, <1>4 DEF BTypes
<1>z. Halfway' /\ \A q \in Objectives, g \in Players : Settled(q, g)' = Settled(q, g)
  <2>1. board'.scores = board.scores
    BY <1>1, <1>3
  <2> QED BY <1>1, <2>1, HalfwaySame
<1>6. Vacant'
  BY <1>1, <1>2, <1>3, BoardFields DEF Vacant
<1>7. ASSUME NEW p \in online
      PROVE  (SeesObjectives(p) /\ SeesSide(p) /\ SeesTeams(p) /\ view[p].bars = board.bars)'
  <2>1. view'[p] = B!AddedObjective(view[p], o, "plain") /\ view[p] \in ViewTypes /\ p \in Players
    BY <1>1 DEF BTypes
  <2>2. /\ view'[p].objs = [view[p].objs EXCEPT ![o] = "plain"]
        /\ view'[p].scores = [view[p].scores EXCEPT ![o] =
                                IF view[p].objs[o] = B!Absent THEN B!NoScores ELSE @]
        /\ view'[p].side = view[p].side /\ view'[p].teams = view[p].teams
        /\ view'[p].teamOf = view[p].teamOf /\ view'[p].bars = view[p].bars
    BY <1>4, <2>1
  <2>3. view[p].objs[o] = B!Absent /\ o \notin missed[p] /\ \A h \in Players : B!NoScores[h] = -1
    BY <1>1, <2>1 DEF Vacant, SeesObjectives, B!NoScores
  <2>4. SeesObjectives(p)'
    BY <1>z, <1>1, <1>2, <1>3, <2>1, <2>2, <2>3, BoardFields DEF SeesObjectives, Vacant
  <2>5. SeesSide(p)'
    BY <1>1, <1>2, <1>3, <2>1, <2>2, BoardFields DEF SeesSide, Vacant
  <2>6. SeesTeams(p)'
    BY <1>1, <1>3, <2>2 DEF SeesTeams
  <2> QED BY <1>3, <2>2, <2>4, <2>5, <2>6
<1> QED BY <1>1, <1>z, <1>5, <1>6, <1>7

LEMMA RemoveObjectiveKeeps ==
  ASSUME B!BoardsConstants, BInv, NEW o \in Objectives, B!RemoveObjective(o)
  PROVE  BInv'
<1> USE DEF BInv
<1> DEFINE side == IF board.side.of = o THEN [on |-> FALSE, of |-> None] ELSE board.side
<1>1. /\ board.objs[o] # B!Absent
      /\ board' = [board EXCEPT !.objs[o] = B!Absent, !.scores[o] = B!NoScores,
                                !.triggers = @ \ {o}, !.side = side]
      /\ view' = [p \in Players |-> IF p \in online THEN B!RemovedObjective(view[p], o)
                                    ELSE view[p]]
      /\ missed' = [p \in Players |-> missed[p] \ {o}] /\ orphans' = orphans \ ({o} \X Players)
      /\ crossed' = crossed \ ({o} \X Players) /\ UNCHANGED <<online, torn, cleanup>>
  BY DEF B!RemoveObjective, B!Tell, B!Forgotten
<1>2. None \notin Objectives /\ o \notin TeamNames
  BY DEF B!BoardsConstants
<1>n. B!NoScores \in [Players -> Scores] /\ \A h \in Players : B!NoScores[h] = -1
  BY DEF B!NoScores, Scores
<1>s. side \in [on : BOOLEAN, of : Objectives \cup {None}]
  BY BoardFields
<1> HIDE DEF side
<1>3. /\ board' \in BoardTypes /\ board'.objs = [board.objs EXCEPT ![o] = B!Absent]
      /\ board'.scores = [board.scores EXCEPT ![o] = B!NoScores] /\ board'.side = side
      /\ board'.teams = board.teams /\ board'.members = board.members /\ board'.bars = board.bars
  <2>1. board' = [board EXCEPT !.objs = [board.objs EXCEPT ![o] = B!Absent],
                               !.scores = [board.scores EXCEPT ![o] = B!NoScores],
                               !.triggers = board.triggers \ {o}, !.side = side]
    BY <1>1 DEF BTypes, BoardTypes
  <2>2. /\ [board.objs EXCEPT ![o] = B!Absent] \in [Objectives -> B!Formats \cup {B!Absent}]
        /\ [board.scores EXCEPT ![o] = B!NoScores] \in [Objectives -> [Players -> Scores]]
        /\ board.triggers \ {o} \in SUBSET Objectives
    BY <1>n, BoardFields DEF BTypes, BoardTypes
  <2> QED BY <2>1, <2>2, <1>s DEF BTypes, BoardTypes
<1>4. ASSUME NEW v \in ViewTypes, NEW w, w = B!RemovedObjective(v, o)
      PROVE  /\ w \in ViewTypes /\ w.objs = [v.objs EXCEPT ![o] = B!Absent]
             /\ w.scores = [v.scores EXCEPT ![o] = B!NoScores]
             /\ w.side = (IF v.side = o THEN None ELSE v.side)
             /\ w.teams = v.teams /\ w.teamOf = v.teamOf /\ w.bars = v.bars
  <2>1. w = [v EXCEPT !.objs = [v.objs EXCEPT ![o] = B!Absent],
                      !.scores = [v.scores EXCEPT ![o] = B!NoScores],
                      !.side = IF v.side = o THEN None ELSE v.side]
    BY <1>4 DEF B!RemovedObjective, ViewTypes
  <2>2. /\ [v.objs EXCEPT ![o] = B!Absent] \in [Objectives -> B!Formats \cup {B!Absent}]
        /\ [v.scores EXCEPT ![o] = B!NoScores] \in [Objectives -> [Players -> Scores]]
        /\ (IF v.side = o THEN None ELSE v.side) \in Objectives \cup {None}
    BY <1>n DEF ViewTypes
  <2> QED BY <2>1, <2>2 DEF ViewTypes
<1>5. BTypes'
  BY <1>1, <1>3, <1>4 DEF BTypes
<1>6. Vacant'
  BY <1>1, <1>2, <1>3, <1>n, BoardFields DEF Vacant, BTypes, side
<1>z. /\ crossed' \subseteq crossed
      /\ \A q \in Objectives \ {o}, g \in Players : Settled(q, g)' = Settled(q, g)
  BY <1>1 DEF Settled
<1>h. Halfway'
  BY <1>1, <1>3, <1>n, BoardFields DEF Halfway
<1>7. ASSUME NEW p \in online
      PROVE  (SeesObjectives(p) /\ SeesSide(p) /\ SeesTeams(p) /\ view[p].bars = board.bars)'
  <2>1. /\ view'[p] = B!RemovedObjective(view[p], o) /\ view[p] \in ViewTypes /\ p \in Players
        /\ missed'[p] = missed[p] \ {o}
    BY <1>1 DEF BTypes
  <2>2. /\ view'[p].objs = [view[p].objs EXCEPT ![o] = B!Absent]
        /\ view'[p].scores = [view[p].scores EXCEPT ![o] = B!NoScores]
        /\ view'[p].side = (IF view[p].side = o THEN None ELSE view[p].side)
        /\ view'[p].teams = view[p].teams
        /\ view'[p].teamOf = view[p].teamOf /\ view'[p].bars = view[p].bars
    BY <1>4, <2>1
  <2>3. SeesObjectives(p)'
    BY <1>1, <1>z, <1>3, <2>1, <2>2, BoardFields DEF SeesObjectives
  <2>4. SeesSide(p)'
    BY <1>1, <1>2, <1>3, <2>1, <2>2, BoardFields DEF SeesSide, side
  <2>5. SeesTeams(p)'
    BY <1>1, <1>2, <1>3, <2>1, <2>2 DEF SeesTeams
  <2> QED BY <1>3, <2>2, <2>3, <2>4, <2>5
<1> QED BY <1>1, <1>5, <1>6, <1>h, <1>7

LEMMA SetDisplayKeeps ==
  ASSUME B!BoardsConstants, BInv, NEW o \in Objectives, B!SetDisplay(o)
  PROVE  BInv'
<1> USE DEF BInv
<1> DEFINE side == IF board.objs[o] # B!Absent THEN [on |-> TRUE, of |-> o]
                   ELSE [board.side EXCEPT !.on = FALSE]
<1>1. /\ board' = [board EXCEPT !.side = side]
      /\ view' = [p \in Players |-> IF p \in online THEN B!Display(view[p], side) ELSE view[p]]
      /\ UNCHANGED <<online, missed, orphans, torn, cleanup, crossed>>
  BY DEF B!SetDisplay, B!Tell
<1>2. None \notin Objectives
  BY DEF B!BoardsConstants
<1>s. /\ side \in [on : BOOLEAN, of : Objectives \cup {None}]
      /\ side.on => side.of = o /\ board.objs[o] # B!Absent
  BY BoardFields
<1> HIDE DEF side
<1>3. /\ board' \in BoardTypes /\ board'.objs = board.objs
      /\ board'.scores = board.scores /\ board'.side = side
      /\ board'.teams = board.teams /\ board'.members = board.members /\ board'.bars = board.bars
  BY <1>1, <1>s DEF BTypes, BoardTypes
<1>4. ASSUME NEW v \in ViewTypes, NEW w, w = B!Display(v, side)
      PROVE  /\ w \in ViewTypes /\ w.objs = v.objs /\ w.scores = v.scores
             /\ w.side = (IF ~side.on THEN v.side
                          ELSE IF v.objs[o] = B!Absent THEN None ELSE o)
             /\ w.teams = v.teams /\ w.teamOf = v.teamOf /\ w.bars = v.bars
  BY <1>s, <1>4 DEF B!Display, ViewTypes
<1>5. BTypes'
  BY <1>1, <1>3, <1>4 DEF BTypes
<1>z. Halfway' /\ \A q \in Objectives, g \in Players : Settled(q, g)' = Settled(q, g)
  <2>1. board'.scores = board.scores
    BY <1>1, <1>3
  <2> QED BY <1>1, <2>1, HalfwaySame
<1>6. Vacant'
  BY <1>1, <1>s, <1>3, BoardFields DEF Vacant
<1>7. ASSUME NEW p \in online
      PROVE  (SeesObjectives(p) /\ SeesSide(p) /\ SeesTeams(p) /\ view[p].bars = board.bars)'
  <2>1. view'[p] = B!Display(view[p], side) /\ view[p] \in ViewTypes /\ p \in Players
    BY <1>1 DEF BTypes
  <2>2. /\ view'[p].objs = view[p].objs /\ view'[p].scores = view[p].scores
        /\ view'[p].side = (IF ~side.on THEN view[p].side
                            ELSE IF view[p].objs[o] = B!Absent THEN None ELSE o)
        /\ view'[p].teams = view[p].teams
        /\ view'[p].teamOf = view[p].teamOf /\ view'[p].bars = view[p].bars
    BY <1>4, <2>1
  <2>3. SeesObjectives(p)'
    BY <1>z, <1>1, <1>3, <2>2 DEF SeesObjectives
  <2>4. SeesSide(p)'
    BY <1>1, <1>2, <1>s, <1>3, <2>1, <2>2, BoardFields DEF SeesSide, SeesObjectives
  <2>5. SeesTeams(p)'
    BY <1>1, <1>3, <2>2 DEF SeesTeams
  <2> QED BY <1>3, <2>2, <2>3, <2>4, <2>5
<1> QED BY <1>1, <1>z, <1>5, <1>6, <1>7

\* Scores of one objective are set, for some holders.
LEMMA PutKeeps ==
  ASSUME B!BoardsConstants, BInv, NEW o \in Objectives, NEW H \in SUBSET Players, NEW x \in Nat,
         B!Put(o, H, x)
  PROVE  BInv'
<1> USE DEF BInv
<1> DEFINE New(f) == [h \in Players |-> IF h \in H THEN x ELSE f[h]]
<1>1. /\ board' = [board EXCEPT !.scores[o] = New(board.scores[o])]
      /\ view' = [p \in Players |->
                    IF p \notin online \/ view[p].objs[o] = B!Absent THEN view[p]
                    ELSE [view[p] EXCEPT !.scores[o] = New(view[p].scores[o])]]
  BY DEF B!Put
<1>u. UNCHANGED <<online, missed, torn, cleanup>>
  BY DEF B!Put
<1>o. /\ orphans' \subseteq Objectives \X Players
      /\ \A q \in Objectives, h \in Players :
           <<q, h>> \in orphans' <=> IF q = o /\ h \in H THEN board.objs[o] = B!Absent
                                     ELSE <<q, h>> \in orphans
  BY DEF B!Put, BTypes
<1>z. /\ crossed' \subseteq Objectives \X Players
      /\ \A q \in Objectives, h \in Players :
           <<q, h>> \in crossed' <=> IF q = o /\ h \in H THEN cleanup[h] = "reset"
                                     ELSE <<q, h>> \in crossed
  BY DEF B!Put, BTypes
<1>2. \A f \in [Players -> Scores] : New(f) \in [Players -> Scores]
                                  /\ \A h \in Players : New(f)[h] = IF h \in H THEN x ELSE f[h]
  BY DEF Scores
<1> HIDE DEF New
<1>3. /\ board' \in BoardTypes /\ board'.objs = board.objs
      /\ board'.scores = [board.scores EXCEPT ![o] = New(board.scores[o])]
      /\ board'.side = board.side
      /\ board'.teams = board.teams /\ board'.members = board.members /\ board'.bars = board.bars
  BY <1>1, <1>2 DEF BTypes, BoardTypes
<1>p. \A q \in Objectives, h \in Players :
        board'.scores[q][h] = IF q = o /\ h \in H THEN x ELSE board.scores[q][h]
  BY <1>2, <1>3, BoardFields
<1>4. ASSUME NEW v \in ViewTypes, NEW w, w = [v EXCEPT !.scores[o] = New(v.scores[o])]
      PROVE  /\ w \in ViewTypes /\ w.objs = v.objs
             /\ w.scores = [v.scores EXCEPT ![o] = New(v.scores[o])]
             /\ w.side = v.side /\ w.teams = v.teams /\ w.teamOf = v.teamOf /\ w.bars = v.bars
  BY <1>2, <1>4 DEF ViewTypes
<1>5. BTypes'
  BY <1>1, <1>u, <1>o, <1>z, <1>3, <1>4 DEF BTypes
<1>6. Vacant'
  BY <1>u, <1>o, <1>3, <1>p, BoardFields DEF Vacant
<1>h. Halfway'
  BY <1>u, <1>z, <1>p DEF Halfway
<1>s. \A q \in Objectives, h \in Players : (q = o /\ h \in H) \/ Settled(q, h)' = Settled(q, h)
  BY <1>u, <1>z DEF Settled
<1>7. ASSUME NEW p \in online
      PROVE  (SeesObjectives(p) /\ SeesSide(p) /\ SeesTeams(p) /\ view[p].bars = board.bars)'
  <2>1. /\ view'[p] = IF view[p].objs[o] = B!Absent THEN view[p]
                      ELSE [view[p] EXCEPT !.scores[o] = New(view[p].scores[o])]
        /\ view[p] \in ViewTypes /\ p \in Players
    BY <1>1 DEF BTypes
  <2>2. /\ view'[p].objs = view[p].objs
        /\ view'[p].scores = IF view[p].objs[o] = B!Absent THEN view[p].scores
                             ELSE [view[p].scores EXCEPT ![o] = New(view[p].scores[o])]
        /\ view'[p].side = view[p].side /\ view'[p].teams = view[p].teams
        /\ view'[p].teamOf = view[p].teamOf /\ view'[p].bars = view[p].bars
    BY <1>4, <2>1
  <2>p. view[p].objs[o] # B!Absent =>
          \A q \in Objectives, h \in Players :
            view'[p].scores[q][h] = IF q = o /\ h \in H THEN x ELSE view[p].scores[q][h]
    <3> DEFINE f == view[p].scores
               g == view'[p].scores
    <3> SUFFICES ASSUME view[p].objs[o] # B!Absent, NEW q \in Objectives, NEW h \in Players
                 PROVE  g[q][h] = IF q = o /\ h \in H THEN x ELSE f[q][h]
      OBVIOUS
    <3>1. f \in [Objectives -> [Players -> Scores]] /\ g = [f EXCEPT ![o] = New(f[o])]
      BY <2>1, <2>2, BoardFields
    <3> HIDE DEF f, g
    <3> QED BY <1>2, <3>1
  <2>3. SeesObjectives(p)'
    BY <1>u, <1>o, <1>s, <1>3, <1>p, <2>1, <2>2, <2>p DEF SeesObjectives
  <2>4. SeesSide(p)'
    BY <1>u, <1>3, <2>2 DEF SeesSide
  <2>5. SeesTeams(p)'
    BY <1>u, <1>3, <2>2 DEF SeesTeams
  <2> QED BY <1>3, <2>2, <2>3, <2>4, <2>5
<1> QED BY <1>u, <1>5, <1>6, <1>h, <1>7

LEMMA ResetScoreKeeps ==
  ASSUME B!BoardsConstants, BInv, NEW o \in Objectives, NEW h \in Players, B!ResetScore(o, h)
  PROVE  BInv'
<1> USE DEF BInv
<1> DEFINE Gone(f) == [f EXCEPT ![o] = [f[o] EXCEPT ![h] = -1]]
<1>1. /\ board.objs[o] # B!Absent
      /\ board' = [board EXCEPT !.scores = Gone(board.scores)]
      /\ view' = [p \in Players |-> IF p \in online THEN B!Score(view[p], o, h, -1) ELSE view[p]]
      /\ orphans' = orphans \ {<<o, h>>} /\ crossed' = crossed \ {<<o, h>>}
      /\ UNCHANGED <<online, missed, torn, cleanup>>
  BY DEF B!ResetScore, B!Tell
<1>g. \A v : B!Score(v, o, h, -1)
               = IF v.objs[o] = B!Absent THEN v ELSE [v EXCEPT !.scores = Gone(v.scores)]
  BY DEF B!Score
<1>h. \A f \in [Objectives -> [Players -> Scores]] :
        /\ Gone(f) \in [Objectives -> [Players -> Scores]]
        /\ \A q \in Objectives, g \in Players :
             Gone(f)[q][g] = IF q = o /\ g = h THEN -1 ELSE f[q][g]
  BY DEF Scores
<1> HIDE DEF Gone
<1>3. /\ board' \in BoardTypes /\ board'.objs = board.objs
      /\ board'.scores = Gone(board.scores) /\ board'.side = board.side
      /\ board'.teams = board.teams /\ board'.members = board.members /\ board'.bars = board.bars
  BY <1>1, <1>h DEF BTypes, BoardTypes
<1>4. ASSUME NEW v \in ViewTypes, NEW w, w = B!Score(v, o, h, -1)
      PROVE  /\ w \in ViewTypes /\ w.objs = v.objs
             /\ w.scores = IF v.objs[o] = B!Absent THEN v.scores ELSE Gone(v.scores)
             /\ w.side = v.side /\ w.teams = v.teams /\ w.teamOf = v.teamOf /\ w.bars = v.bars
  <2>1. w = IF v.objs[o] = B!Absent THEN v ELSE [v EXCEPT !.scores = Gone(v.scores)]
    BY <1>g, <1>4
  <2>2. v.scores \in [Objectives -> [Players -> Scores]]
        /\ Gone(v.scores) \in [Objectives -> [Players -> Scores]]
    BY <1>h DEF ViewTypes
  <2>3. CASE v.objs[o] = B!Absent
    BY <2>1, <2>3
  <2>4. CASE v.objs[o] # B!Absent
    BY <2>1, <2>2, <2>4 DEF ViewTypes
  <2> QED BY <2>3, <2>4
<1>5. BTypes'
  BY <1>1, <1>3, <1>4 DEF BTypes
<1>6. Vacant'
  BY <1>1, <1>3, <1>h, BoardFields DEF Vacant
<1>b. \A q \in Objectives, g \in Players :
        board'.scores[q][g] = IF q = o /\ g = h THEN -1 ELSE board.scores[q][g]
  BY <1>h, <1>3, BoardFields
<1>z. Halfway'
  BY <1>1, <1>b DEF Halfway
<1>s. \A q \in Objectives, g \in Players : (q = o /\ g = h) \/ Settled(q, g)' = Settled(q, g)
  BY <1>1 DEF Settled
<1>7. ASSUME NEW p \in online
      PROVE  (SeesObjectives(p) /\ SeesSide(p) /\ SeesTeams(p) /\ view[p].bars = board.bars)'
  <2>1. view'[p] = B!Score(view[p], o, h, -1) /\ view[p] \in ViewTypes /\ p \in Players
    BY <1>1 DEF BTypes
  <2>2. /\ view'[p].objs = view[p].objs
        /\ view'[p].scores = IF view[p].objs[o] = B!Absent THEN view[p].scores
                             ELSE Gone(view[p].scores)
        /\ view'[p].side = view[p].side /\ view'[p].teams = view[p].teams
        /\ view'[p].teamOf = view[p].teamOf /\ view'[p].bars = view[p].bars
    BY <1>4, <2>1
  <2>p. view[p].objs[o] # B!Absent =>
          \A q \in Objectives, g \in Players :
            view'[p].scores[q][g] = IF q = o /\ g = h THEN -1 ELSE view[p].scores[q][g]
    BY <1>h, <2>1, <2>2, BoardFields
  <2>3. SeesObjectives(p)'
    BY <1>1, <1>b, <1>s, <1>3, <2>1, <2>2, <2>p DEF SeesObjectives
  <2>4. SeesSide(p)'
    BY <1>1, <1>3, <2>2 DEF SeesSide
  <2>5. SeesTeams(p)'
    BY <1>1, <1>3, <2>2 DEF SeesTeams
  <2> QED BY <1>3, <2>2, <2>3, <2>4, <2>5
<1> QED BY <1>1, <1>5, <1>6, <1>z, <1>7

\* What a reset of a holder's scores makes of a board or of a view.
Without(f, h) == [o \in Objectives |-> [f[o] EXCEPT ![h] = -1]]

LEMMA WithoutIs ==
  ASSUME NEW h \in Players, NEW f \in [Objectives -> [Players -> Scores]]
  PROVE  /\ Without(f, h) \in [Objectives -> [Players -> Scores]]
         /\ \A o \in Objectives, g \in Players :
              Without(f, h)[o][g] = IF g = h THEN -1 ELSE f[o][g]
  BY DEF Without, Scores

LEMMA HolderReset ==
  ASSUME NEW h \in Players
  PROVE  /\ \A v \in ViewTypes : \A w : w = B!ResetHolder(v, h) =>
              /\ w \in ViewTypes /\ w.objs = v.objs /\ w.scores = Without(v.scores, h)
              /\ w.side = v.side /\ w.teams = v.teams /\ w.teamOf = v.teamOf /\ w.bars = v.bars
         /\ \A v \in BoardTypes : \A w : w = B!ResetHolder(v, h) =>
              /\ w \in BoardTypes /\ w.objs = v.objs /\ w.scores = Without(v.scores, h)
              /\ w.side = v.side /\ w.teams = v.teams /\ w.members = v.members /\ w.bars = v.bars
<1>1. \A v : B!ResetHolder(v, h) = [v EXCEPT !.scores = Without(v.scores, h)]
  BY DEF B!ResetHolder, Without
<1>2. ASSUME NEW v \in ViewTypes, NEW w, w = B!ResetHolder(v, h)
      PROVE  /\ w \in ViewTypes /\ w.objs = v.objs /\ w.scores = Without(v.scores, h)
             /\ w.side = v.side /\ w.teams = v.teams /\ w.teamOf = v.teamOf /\ w.bars = v.bars
  <2>1. Without(v.scores, h) \in [Objectives -> [Players -> Scores]]
    BY WithoutIs DEF ViewTypes
  <2>2. w = [v EXCEPT !.scores = Without(v.scores, h)]
    BY <1>1, <1>2
  <2> QED BY <2>1, <2>2 DEF ViewTypes
<1>3. ASSUME NEW v \in BoardTypes, NEW w, w = B!ResetHolder(v, h)
      PROVE  /\ w \in BoardTypes /\ w.objs = v.objs /\ w.scores = Without(v.scores, h)
             /\ w.side = v.side /\ w.teams = v.teams /\ w.members = v.members /\ w.bars = v.bars
  <2>1. Without(v.scores, h) \in [Objectives -> [Players -> Scores]]
    BY WithoutIs DEF BoardTypes
  <2>2. w = [v EXCEPT !.scores = Without(v.scores, h)]
    BY <1>1, <1>3
  <2> QED BY <2>1, <2>2 DEF BoardTypes
<1> QED BY <1>2, <1>3

\* Nothing changes but the scores of one holder, on the server or at the clients,
\* and what is said of them.
OnlyOf(h, f, g) == \A o \in Objectives, k \in Players \ {h} : g[o][k] = f[o][k]
SameOthers(h, S, T) == \A o \in Objectives, k \in Players \ {h} : <<o, k>> \in T <=> <<o, k>> \in S

BoardBut(h) ==
  /\ board' \in BoardTypes /\ board'.objs = board.objs /\ board'.side = board.side
  /\ board'.teams = board.teams /\ board'.members = board.members /\ board'.bars = board.bars
  /\ OnlyOf(h, board.scores, board'.scores)
ViewsBut(h) ==
  /\ view' \in [Players -> ViewTypes]
  /\ \A p \in online :
       /\ view'[p].objs = view[p].objs /\ view'[p].side = view[p].side
       /\ view'[p].teams = view[p].teams /\ view'[p].teamOf = view[p].teamOf
       /\ view'[p].bars = view[p].bars /\ OnlyOf(h, view[p].scores, view'[p].scores)
SaidBut(h) ==
  /\ cleanup' \in [Players -> {"none", "left", "reset"}]
  /\ \A k \in Players \ {h} : cleanup'[k] = cleanup[k]
  /\ crossed' \subseteq Objectives \X Players /\ SameOthers(h, crossed, crossed')
  /\ orphans' \subseteq Objectives \X Players /\ SameOthers(h, orphans, orphans')

\* What the rest needs of the scores of that holder.
HolderFits(h) ==
  /\ \A o \in Objectives :
       /\ <<o, h>> \in orphans' => board'.scores[o][h] # -1
       /\ board.objs[o] = B!Absent /\ <<o, h>> \notin orphans' => board'.scores[o][h] = -1
       /\ cleanup'[h] = "reset" /\ <<o, h>> \notin crossed' => board'.scores[o][h] = -1
  /\ \A p \in online : \A o \in Objectives \ missed[p] :
       board.objs[o] # B!Absent /\ <<o, h>> \notin orphans' /\ Settled(o, h)' =>
         view'[p].scores[o][h] = board'.scores[o][h]

LEMMA HolderKeeps ==
  ASSUME B!BoardsConstants, BInv, NEW h \in Players, UNCHANGED <<online, missed, torn>>,
         BoardBut(h), ViewsBut(h), SaidBut(h), HolderFits(h)
  PROVE  BInv'
<1> USE DEF BInv, BoardBut, ViewsBut, SaidBut, HolderFits
<1>1. BTypes'
  BY DEF BTypes
<1>2. Vacant'
  BY DEF Vacant, OnlyOf, SameOthers
<1>3. Halfway'
  BY DEF Halfway, OnlyOf, SameOthers
<1>4. \A o \in Objectives, k \in Players \ {h} :
        /\ Settled(o, k)' = Settled(o, k) /\ board'.scores[o][k] = board.scores[o][k]
        /\ <<o, k>> \in orphans' <=> <<o, k>> \in orphans
  BY DEF Settled, OnlyOf, SameOthers
<1>5. ASSUME NEW p \in online
      PROVE  (SeesObjectives(p) /\ SeesSide(p) /\ SeesTeams(p) /\ view[p].bars = board.bars)'
  <2>1. ASSUME NEW o \in Objectives, o \notin missed[p], board.objs[o] # B!Absent,
               NEW k \in Players, <<o, k>> \notin orphans', Settled(o, k)'
        PROVE  view'[p].scores[o][k] = board'.scores[o][k]
    <3>1. CASE k = h
      BY <2>1, <3>1
    <3>2. CASE k # h
      <4>1. view'[p].scores[o][k] = view[p].scores[o][k]
        BY <3>2 DEF OnlyOf
      <4>2. <<o, k>> \notin orphans /\ Settled(o, k) /\ board'.scores[o][k] = board.scores[o][k]
        BY <1>4, <2>1, <3>2
      <4> QED BY <2>1, <4>1, <4>2 DEF SeesObjectives
    <3> QED BY <3>1, <3>2
  <2>2. SeesObjectives(p)'
    BY <2>1 DEF SeesObjectives
  <2>3. SeesSide(p)' /\ SeesTeams(p)'
    BY DEF SeesSide, SeesTeams
  <2> QED BY <2>2, <2>3
<1> QED BY <1>1, <1>2, <1>3, <1>5

\* What a reset of a holder changes.
LEMMA HolderResetIs ==
  ASSUME BTypes, NEW h \in Players
  PROVE  /\ B!ResetHolder(board, h) \in BoardTypes
         /\ B!ResetHolder(board, h).objs = board.objs /\ B!ResetHolder(board, h).side = board.side
         /\ B!ResetHolder(board, h).teams = board.teams
         /\ B!ResetHolder(board, h).members = board.members
         /\ B!ResetHolder(board, h).bars = board.bars
         /\ OnlyOf(h, board.scores, B!ResetHolder(board, h).scores)
         /\ \A o \in Objectives : B!ResetHolder(board, h).scores[o][h] = -1
<1>1. /\ B!ResetHolder(board, h).scores = Without(board.scores, h)
      /\ board.scores \in [Objectives -> [Players -> Scores]] /\ board \in BoardTypes
  BY HolderReset, BoardFields DEF BTypes
<1>2. /\ OnlyOf(h, board.scores, Without(board.scores, h))
      /\ \A o \in Objectives : Without(board.scores, h)[o][h] = -1
  BY <1>1, WithoutIs DEF OnlyOf
<1> QED BY <1>1, <1>2, HolderReset

\* What the packet of it changes at a client.
LEMMA ResetSeen ==
  ASSUME BTypes, NEW h \in Players, NEW p \in Players
  PROVE  LET w == B!ResetHolder(view[p], h) IN
         /\ w \in ViewTypes /\ w.objs = view[p].objs /\ w.side = view[p].side
         /\ w.teams = view[p].teams /\ w.teamOf = view[p].teamOf /\ w.bars = view[p].bars
         /\ OnlyOf(h, view[p].scores, w.scores) /\ \A o \in Objectives : w.scores[o][h] = -1
<1>1. /\ B!ResetHolder(view[p], h).scores = Without(view[p].scores, h)
      /\ view[p].scores \in [Objectives -> [Players -> Scores]] /\ view[p] \in ViewTypes
  BY HolderReset, BoardFields DEF BTypes
<1>2. /\ OnlyOf(h, view[p].scores, Without(view[p].scores, h))
      /\ \A o \in Objectives : Without(view[p].scores, h)[o][h] = -1
  BY <1>1, WithoutIs DEF OnlyOf
<1> QED BY <1>1, <1>2, HolderReset

LEMMA ResetAllKeeps ==
  ASSUME B!BoardsConstants, BInv, NEW h \in Players, B!ResetAll(h)
  PROVE  BInv'
<1>1. /\ board' = B!ResetHolder(board, h) /\ orphans' = orphans \ (Objectives \X {h})
      /\ crossed' = crossed \ (Objectives \X {h})
      /\ view' = [p \in Players |-> IF p \in online THEN B!ResetHolder(view[p], h) ELSE view[p]]
      /\ UNCHANGED <<online, missed, torn, cleanup>>
  BY DEF B!ResetAll, B!Tell
<1>2. BTypes /\ online \subseteq Players
  BY DEF BInv, BTypes
<1>3. view' \in [Players -> ViewTypes]
  BY <1>1, <1>2, ResetSeen DEF BTypes
<1>4. \A p \in online : view'[p] = B!ResetHolder(view[p], h)
  BY <1>1, <1>2
<1>5. /\ \A o \in Objectives : <<o, h>> \notin orphans' /\ <<o, h>> \notin crossed'
      /\ orphans' \subseteq Objectives \X Players /\ crossed' \subseteq Objectives \X Players
      /\ SameOthers(h, orphans, orphans') /\ SameOthers(h, crossed, crossed')
  BY <1>1, <1>2 DEF BTypes, SameOthers
<1>6. \A o \in Objectives : board'.scores[o][h] = -1
  BY <1>1, <1>2, HolderResetIs
<1>7. \A p \in online : \A o \in Objectives : view'[p].scores[o][h] = -1
  BY <1>2, <1>4, ResetSeen
<1>b. BoardBut(h)
  BY <1>1, <1>2, HolderResetIs DEF BoardBut
<1>v. ViewsBut(h)
  BY <1>2, <1>3, <1>4, ResetSeen DEF ViewsBut
<1>s. SaidBut(h)
  BY <1>1, <1>2, <1>5 DEF SaidBut, BTypes
<1>f. HolderFits(h)
  BY <1>5, <1>6, <1>7 DEF HolderFits
<1> QED BY <1>1, <1>b, <1>v, <1>s, <1>f, HolderKeeps

\* A session ends: its player is told nothing from now on.
LEMMA PlayerLeaveKeeps ==
  ASSUME B!BoardsConstants, BInv, NEW h \in Players, B!Leave(h)
  PROVE  BInv'
<1> USE DEF BInv
<1>1. /\ view' = [view EXCEPT ![h] = B!Blind] /\ online' = online \ {h}
      /\ missed' = [missed EXCEPT ![h] = {}]
      /\ cleanup[h] = "none" /\ cleanup' = [cleanup EXCEPT ![h] = "left"]
      /\ UNCHANGED <<board, orphans, torn, crossed>>
  BY DEF B!Leave
<1>2. B!Blind \in ViewTypes
  BY DEF ViewTypes, B!Blind, B!NoScores, Scores
<1>3. BTypes'
  BY <1>1, <1>2 DEF BTypes
<1>4. Vacant'
  BY <1>1 DEF Vacant, BTypes
<1>z. Halfway' /\ \A o \in Objectives, k \in Players : Settled(o, k)' = Settled(o, k)
  BY <1>1 DEF Halfway, Settled, BTypes
<1>5. ASSUME NEW p \in online'
      PROVE  (SeesObjectives(p) /\ SeesSide(p) /\ SeesTeams(p) /\ view[p].bars = board.bars)'
  <2>1. p \in online /\ view'[p] = view[p] /\ missed'[p] = missed[p]
    BY <1>1 DEF BTypes
  <2> QED BY <1>1, <1>z, <2>1 DEF SeesObjectives, SeesSide, SeesTeams
<1> QED BY <1>3, <1>4, <1>z, <1>5

\* Its end resets the scores of the player; until it tells, they are not settled.
LEMMA ResetLeaverKeeps ==
  ASSUME B!BoardsConstants, BInv, NEW h \in Players, B!ResetLeaver(h)
  PROVE  BInv'
<1>1. /\ cleanup[h] = "left" /\ board' = B!ResetHolder(board, h)
      /\ cleanup' = [cleanup EXCEPT ![h] = IF board' = board THEN "none" ELSE "reset"]
      /\ orphans' = orphans \ (Objectives \X {h})
      /\ crossed' = IF board' = board THEN crossed ELSE crossed \ (Objectives \X {h})
      /\ UNCHANGED <<online, view, missed, torn>>
  BY DEF B!ResetLeaver
<1>2. BTypes /\ online \subseteq Players
  BY DEF BInv, BTypes
<1>3. /\ cleanup' \in [Players -> {"none", "left", "reset"}]
      /\ cleanup'[h] = IF board' = board THEN "none" ELSE "reset"
      /\ \A k \in Players \ {h} : cleanup'[k] = cleanup[k]
  BY <1>1, <1>2 DEF BTypes
<1>4. /\ \A o \in Objectives : <<o, h>> \notin orphans'
      /\ orphans' \subseteq Objectives \X Players /\ crossed' \subseteq Objectives \X Players
      /\ SameOthers(h, orphans, orphans') /\ SameOthers(h, crossed, crossed')
  BY <1>1, <1>2 DEF BTypes, SameOthers
<1>5. \A o \in Objectives : board'.scores[o][h] = -1
  BY <1>1, <1>2, HolderResetIs
<1>6. ASSUME NEW p \in online, NEW o \in Objectives \ missed[p], board.objs[o] # B!Absent,
             Settled(o, h)'
      PROVE  view'[p].scores[o][h] = board'.scores[o][h]
  <2>1. board' = board /\ <<o, h>> \notin crossed
    BY <1>1, <1>3, <1>6 DEF Settled
  <2>2. <<o, h>> \notin orphans
    BY <1>5, <2>1 DEF BInv, Vacant
  <2>3. Settled(o, h)
    BY <1>1, <2>1 DEF Settled
  <2> QED BY <1>1, <1>6, <2>1, <2>2, <2>3 DEF BInv, SeesObjectives
<1>7. \A p \in online :
        /\ view'[p].objs = view[p].objs /\ view'[p].side = view[p].side
        /\ view'[p].teams = view[p].teams /\ view'[p].teamOf = view[p].teamOf
        /\ view'[p].bars = view[p].bars /\ OnlyOf(h, view[p].scores, view'[p].scores)
  BY <1>1 DEF OnlyOf
<1>8. view' \in [Players -> ViewTypes]
  BY <1>1, <1>2 DEF BTypes
<1>b. BoardBut(h)
  BY <1>1, <1>2, HolderResetIs DEF BoardBut
<1>v. ViewsBut(h)
  BY <1>7, <1>8 DEF ViewsBut
<1>s. SaidBut(h)
  BY <1>3, <1>4 DEF SaidBut
<1>f. HolderFits(h)
  BY <1>4, <1>5, <1>6 DEF HolderFits
<1> QED BY <1>1, <1>b, <1>v, <1>s, <1>f, HolderKeeps

\* It tells: what was not set since is gone for all.
LEMMA TellLeaverKeeps ==
  ASSUME B!BoardsConstants, BInv, NEW h \in Players, B!TellLeaver(h)
  PROVE  BInv'
<1>1. /\ cleanup[h] = "reset" /\ cleanup' = [cleanup EXCEPT ![h] = "none"]
      /\ view' = [p \in Players |-> IF p \in online THEN B!ResetHolder(view[p], h) ELSE view[p]]
      /\ UNCHANGED <<online, board, missed, orphans, torn, crossed>>
  BY DEF B!TellLeaver, B!Tell
<1>2. BTypes /\ online \subseteq Players
  BY DEF BInv, BTypes
<1>3. view' \in [Players -> ViewTypes]
  BY <1>1, <1>2, ResetSeen DEF BTypes
<1>4. \A p \in online : view'[p] = B!ResetHolder(view[p], h)
  BY <1>1, <1>2
<1>5. /\ cleanup' \in [Players -> {"none", "left", "reset"}] /\ cleanup'[h] = "none"
      /\ \A k \in Players \ {h} : cleanup'[k] = cleanup[k]
  BY <1>1, <1>2 DEF BTypes
<1>6. /\ orphans' \subseteq Objectives \X Players /\ crossed' \subseteq Objectives \X Players
      /\ SameOthers(h, orphans, orphans') /\ SameOthers(h, crossed, crossed')
      /\ OnlyOf(h, board.scores, board'.scores) /\ board' \in BoardTypes
  BY <1>1, <1>2 DEF BTypes, SameOthers, OnlyOf
<1>7. \A o \in Objectives : Settled(o, h)' => board'.scores[o][h] = -1
  BY <1>1 DEF BInv, Halfway, Settled
<1>8. \A o \in Objectives :
        /\ <<o, h>> \in orphans' => board'.scores[o][h] # -1
        /\ board.objs[o] = B!Absent /\ <<o, h>> \notin orphans' => board'.scores[o][h] = -1
  BY <1>1 DEF BInv, Vacant
<1>9. /\ board'.objs = board.objs /\ board'.side = board.side /\ board'.teams = board.teams
      /\ board'.members = board.members /\ board'.bars = board.bars
  BY <1>1
<1>10. \A p \in online : \A o \in Objectives : view'[p].scores[o][h] = -1
  BY <1>2, <1>4, ResetSeen
<1>b. BoardBut(h)
  BY <1>6, <1>9 DEF BoardBut
<1>v. ViewsBut(h)
  BY <1>2, <1>3, <1>4, ResetSeen DEF ViewsBut
<1>s. SaidBut(h)
  BY <1>5, <1>6 DEF SaidBut
<1>f. HolderFits(h)
  BY <1>5, <1>7, <1>8, <1>10 DEF HolderFits
<1> QED BY <1>1, <1>b, <1>v, <1>s, <1>f, HolderKeeps

\* It comes between an order and its packet: the packet brings the score back.
LEMMA ResetInsideKeeps ==
  ASSUME B!BoardsConstants, BInv, NEW h \in Players, NEW o \in Objectives, NEW x \in Nat,
         B!ResetInside(h, o, x)
  PROVE  BInv'
<1> DEFINE Back(v) == B!Score(B!ResetHolder(v, h), o, h, x)
<1>1. /\ cleanup' = [cleanup EXCEPT ![h] = "none"] /\ board' = B!ResetHolder(board, h)
      /\ view' = [p \in Players |-> IF p \in online THEN Back(view[p]) ELSE view[p]]
      /\ orphans' = orphans \ (Objectives \X {h})
      /\ crossed' = (crossed \ (Objectives \X {h})) \cup {<<o, h>>}
      /\ UNCHANGED <<online, missed, torn>>
  BY DEF B!ResetInside, B!Tell
<1>2. BTypes /\ online \subseteq Players
  BY DEF BInv, BTypes
<1>3. ASSUME NEW p \in Players
      PROVE  /\ Back(view[p]) \in ViewTypes /\ Back(view[p]).objs = view[p].objs
             /\ Back(view[p]).side = view[p].side /\ Back(view[p]).teams = view[p].teams
             /\ Back(view[p]).teamOf = view[p].teamOf /\ Back(view[p]).bars = view[p].bars
             /\ OnlyOf(h, view[p].scores, Back(view[p]).scores)
             /\ \A q \in Objectives \ {o} : Back(view[p]).scores[q][h] = -1
  <2> DEFINE w == B!ResetHolder(view[p], h)
             f == [w.scores EXCEPT ![o] = [w.scores[o] EXCEPT ![h] = x]]
  <2>1. /\ w \in ViewTypes /\ w.objs = view[p].objs /\ w.side = view[p].side
        /\ w.teams = view[p].teams /\ w.teamOf = view[p].teamOf /\ w.bars = view[p].bars
        /\ OnlyOf(h, view[p].scores, w.scores) /\ \A q \in Objectives : w.scores[q][h] = -1
    BY <1>2, ResetSeen
  <2>2. Back(view[p]) = IF w.objs[o] = B!Absent THEN w ELSE [w EXCEPT !.scores = f]
    BY DEF B!Score
  <2> HIDE DEF w, Back
  <2>3. w.scores \in [Objectives -> [Players -> Scores]]
    BY <2>1 DEF ViewTypes
  <2>4. /\ f \in [Objectives -> [Players -> Scores]] /\ OnlyOf(h, w.scores, f)
        /\ \A q \in Objectives \ {o} : f[q][h] = w.scores[q][h]
    BY <2>3 DEF OnlyOf, Scores
  <2> HIDE DEF f
  <2>5. CASE w.objs[o] = B!Absent
    BY <2>1, <2>2, <2>5
  <2>6. CASE w.objs[o] # B!Absent
    <3>1. /\ Back(view[p]) \in ViewTypes /\ Back(view[p]).objs = w.objs
          /\ Back(view[p]).side = w.side /\ Back(view[p]).teams = w.teams
          /\ Back(view[p]).teamOf = w.teamOf /\ Back(view[p]).bars = w.bars
          /\ Back(view[p]).scores = f
      BY <2>1, <2>2, <2>4, <2>6 DEF ViewTypes
    <3>2. OnlyOf(h, view[p].scores, f)
      BY <2>1, <2>4 DEF OnlyOf
    <3> QED BY <2>1, <2>4, <3>1, <3>2
  <2> QED BY <2>5, <2>6
<1> HIDE DEF Back
<1>4. view' \in [Players -> ViewTypes]
  BY <1>1, <1>2, <1>3 DEF BTypes
<1>5. \A p \in online : view'[p] = Back(view[p]) /\ p \in Players
  BY <1>1, <1>2
<1>6. /\ cleanup' \in [Players -> {"none", "left", "reset"}] /\ cleanup'[h] = "none"
      /\ \A k \in Players \ {h} : cleanup'[k] = cleanup[k]
  BY <1>1, <1>2 DEF BTypes
<1>7. /\ \A q \in Objectives : <<q, h>> \notin orphans'
      /\ orphans' \subseteq Objectives \X Players /\ crossed' \subseteq Objectives \X Players
      /\ SameOthers(h, orphans, orphans') /\ SameOthers(h, crossed, crossed')
  BY <1>1, <1>2 DEF BTypes, SameOthers
<1>8. \A q \in Objectives : Settled(q, h)' => q # o
  BY <1>1 DEF Settled
<1>9. \A q \in Objectives : board'.scores[q][h] = -1
  BY <1>1, <1>2, HolderResetIs
<1>10. \A p \in online : \A q \in Objectives \ missed[p] :
         Settled(q, h)' => view'[p].scores[q][h] = board'.scores[q][h]
  BY <1>3, <1>5, <1>8, <1>9
<1>b. BoardBut(h)
  BY <1>1, <1>2, HolderResetIs DEF BoardBut
<1>v. ViewsBut(h)
  BY <1>3, <1>4, <1>5 DEF ViewsBut
<1>s. SaidBut(h)
  BY <1>6, <1>7 DEF SaidBut
<1>f. HolderFits(h)
  BY <1>7, <1>9, <1>10 DEF HolderFits
<1> QED BY <1>1, <1>b, <1>v, <1>s, <1>f, HolderKeeps

\* Who comes in is blind but for the bars; all that is there is missed.
LEMMA JoinKeeps ==
  ASSUME B!BoardsConstants, BInv, NEW p \in Players, B!Join(p)
  PROVE  BInv'
<1> USE DEF BInv
<1> DEFINE there == {o \in Objectives : board.objs[o] # B!Absent} \cup board.teams
           v == [B!Blind EXCEPT !.bars = board.bars]
<1>1. /\ p \notin online /\ online' = online \cup {p}
      /\ view' = [view EXCEPT ![p] = v] /\ missed' = [missed EXCEPT ![p] = there]
      /\ UNCHANGED <<board, orphans, torn, cleanup, crossed>>
  BY DEF B!Join
<1>2. /\ v \in ViewTypes /\ v.objs = [o \in Objectives |-> B!Absent] /\ v.side = None
      /\ v.teams = {} /\ v.teamOf = [h \in Players |-> None] /\ v.bars = board.bars
  BY DEF BTypes, BoardTypes, ViewTypes, B!Blind, B!NoScores, Scores
<1>3. None \notin TeamNames /\ None \notin Objectives /\ Objectives \cap TeamNames = {}
  BY DEF B!BoardsConstants
<1>4. /\ there \subseteq Objectives \cup TeamNames
      /\ \A o \in Objectives : o \in there <=> board.objs[o] # B!Absent
      /\ \A t \in TeamNames : t \in there <=> t \in board.teams
  BY <1>3, BoardFields
<1> HIDE DEF v, there
<1>5. BTypes'
  BY <1>1, <1>2, <1>4 DEF BTypes
<1>z. Halfway' /\ \A q \in Objectives, g \in Players : Settled(q, g)' = Settled(q, g)
  <2>1. board'.scores = board.scores
    BY <1>1
  <2> QED BY <1>1, <2>1, HalfwaySame
<1>6. Vacant'
  BY <1>1, <1>4 DEF Vacant, BTypes
<1>7. ASSUME NEW q \in online'
      PROVE  (SeesObjectives(q) /\ SeesSide(q) /\ SeesTeams(q) /\ view[q].bars = board.bars)'
  <2>1. CASE q # p
    <3>1. q \in online /\ view'[q] = view[q] /\ missed'[q] = missed[q]
      BY <1>1, <2>1 DEF BTypes
    <3> QED BY <1>1, <1>z, <3>1 DEF SeesObjectives, SeesSide, SeesTeams
  <2>2. CASE q = p
    <3>1. view'[q] = v /\ missed'[q] = there
      BY <1>1, <2>2 DEF BTypes
    <3>2. SeesObjectives(q)'
      BY <1>z, <1>1, <1>2, <1>4, <3>1 DEF SeesObjectives
    <3>3. SeesSide(q)'
      <4>1. \A o \in Objectives \ there : board.side # [on |-> TRUE, of |-> o]
        BY <1>4 DEF Vacant
      <4> QED BY <1>1, <1>2, <3>1, <4>1 DEF SeesSide
    <3>4. SeesTeams(q)'
      BY <1>1, <1>2, <1>3, <1>4, <3>1, BoardFields DEF SeesTeams, Vacant
    <3> QED BY <1>1, <1>2, <3>1, <3>2, <3>3, <3>4
  <2> QED BY <2>1, <2>2
<1> QED BY <1>1, <1>z, <1>5, <1>6, <1>7

\* What neither the server's boards nor a client's view show.
LEMMA BoardsSame ==
  ASSUME BInv, UNCHANGED <<online, board, view, missed, orphans, torn, cleanup, crossed>>
  PROVE  BInv'
  BY DEF BInv, BTypes, Vacant, Halfway, Settled, SeesObjectives, SeesSide, SeesTeams

LEMMA BarKeeps ==
  ASSUME B!BoardsConstants, BInv, NEW b \in BarIds, NEW x \in Int, B!Bar(b, x)
  PROVE  BInv'
<1> USE DEF BInv
<1>1. /\ board' = [board EXCEPT !.bars = [board.bars EXCEPT ![b] = x]]
      /\ view' = [p \in Players |->
                    IF p \in online THEN [view[p] EXCEPT !.bars = [view[p].bars EXCEPT ![b] = x]]
                    ELSE view[p]]
      /\ UNCHANGED <<online, missed, orphans, torn, cleanup, crossed>>
  BY DEF B!Bar, B!Tell
<1>2. /\ board' \in BoardTypes /\ board'.objs = board.objs
      /\ board'.scores = board.scores /\ board'.side = board.side
      /\ board'.teams = board.teams /\ board'.members = board.members
      /\ board'.bars = [board.bars EXCEPT ![b] = x]
  BY <1>1 DEF BTypes, BoardTypes
<1>3. ASSUME NEW v \in ViewTypes, NEW w, w = [v EXCEPT !.bars = [v.bars EXCEPT ![b] = x]]
      PROVE  /\ w \in ViewTypes /\ w.objs = v.objs /\ w.scores = v.scores
             /\ w.side = v.side /\ w.teams = v.teams /\ w.teamOf = v.teamOf
             /\ w.bars = [v.bars EXCEPT ![b] = x]
  BY <1>3 DEF ViewTypes
<1>4. BTypes'
  BY <1>1, <1>2, <1>3 DEF BTypes
<1>z. Halfway' /\ \A q \in Objectives, g \in Players : Settled(q, g)' = Settled(q, g)
  <2>1. board'.scores = board.scores
    BY <1>1, <1>2
  <2> QED BY <1>1, <2>1, HalfwaySame
<1>5. Vacant'
  BY <1>1, <1>2 DEF Vacant
<1>6. ASSUME NEW p \in online
      PROVE  (SeesObjectives(p) /\ SeesSide(p) /\ SeesTeams(p) /\ view[p].bars = board.bars)'
  <2>1. /\ view'[p] = [view[p] EXCEPT !.bars = [view[p].bars EXCEPT ![b] = x]]
        /\ view[p] \in ViewTypes /\ p \in Players
    BY <1>1 DEF BTypes
  <2>2. /\ view'[p].objs = view[p].objs /\ view'[p].scores = view[p].scores
        /\ view'[p].side = view[p].side /\ view'[p].teams = view[p].teams
        /\ view'[p].teamOf = view[p].teamOf /\ view'[p].bars = [view[p].bars EXCEPT ![b] = x]
    BY <1>3, <2>1
  <2>3. SeesObjectives(p)'
    BY <1>z, <1>1, <1>2, <2>2 DEF SeesObjectives
  <2>4. SeesSide(p)'
    BY <1>1, <1>2, <2>2 DEF SeesSide
  <2>5. SeesTeams(p)'
    BY <1>1, <1>2, <2>2 DEF SeesTeams
  <2>6. view[p].bars = board.bars
    OBVIOUS
  <2> QED BY <1>2, <2>2, <2>3, <2>4, <2>5, <2>6
<1> QED BY <1>1, <1>z, <1>4, <1>5, <1>6

LEMMA AddTeamKeeps ==
  ASSUME B!BoardsConstants, BInv, NEW t \in TeamNames, B!AddTeam(t)
  PROVE  BInv'
<1> USE DEF BInv
<1>1. /\ t \notin board.teams /\ board' = [board EXCEPT !.teams = board.teams \cup {t}]
      /\ view' = [p \in Players |-> IF p \in online THEN B!CreatedTeam(view[p], t) ELSE view[p]]
      /\ UNCHANGED <<online, missed, orphans, torn, cleanup, crossed>>
  BY DEF B!AddTeam, B!Tell
<1>2. /\ board' \in BoardTypes /\ board'.objs = board.objs
      /\ board'.scores = board.scores /\ board'.side = board.side
      /\ board'.teams = board.teams \cup {t} /\ board'.members = board.members
      /\ board'.bars = board.bars
  BY <1>1 DEF BTypes, BoardTypes
<1>3. ASSUME NEW v \in ViewTypes, NEW w, w = B!CreatedTeam(v, t)
      PROVE  /\ w \in ViewTypes /\ w.objs = v.objs /\ w.scores = v.scores
             /\ w.side = v.side /\ w.teams = v.teams \cup {t} /\ w.teamOf = v.teamOf
             /\ w.bars = v.bars
  BY <1>3 DEF ViewTypes, B!CreatedTeam
<1>4. BTypes'
  BY <1>1, <1>2, <1>3 DEF BTypes
<1>z. Halfway' /\ \A q \in Objectives, g \in Players : Settled(q, g)' = Settled(q, g)
  <2>1. board'.scores = board.scores
    BY <1>1, <1>2
  <2> QED BY <1>1, <2>1, HalfwaySame
<1>5. Vacant'
  BY <1>1, <1>2 DEF Vacant
<1>6. ASSUME NEW p \in online
      PROVE  (SeesObjectives(p) /\ SeesSide(p) /\ SeesTeams(p) /\ view[p].bars = board.bars)'
  <2>1. view'[p] = B!CreatedTeam(view[p], t) /\ view[p] \in ViewTypes /\ p \in Players
    BY <1>1 DEF BTypes
  <2>2. /\ view'[p].objs = view[p].objs /\ view'[p].scores = view[p].scores
        /\ view'[p].side = view[p].side /\ view'[p].teams = view[p].teams \cup {t}
        /\ view'[p].teamOf = view[p].teamOf /\ view'[p].bars = view[p].bars
    BY <1>3, <2>1
  <2>3. SeesObjectives(p)'
    BY <1>z, <1>1, <1>2, <2>2 DEF SeesObjectives
  <2>4. SeesSide(p)'
    BY <1>1, <1>2, <2>2 DEF SeesSide
  <2>5. SeesTeams(p)'
    BY <1>1, <1>2, <2>2 DEF SeesTeams
  <2>6. view[p].bars = board.bars
    OBVIOUS
  <2> QED BY <1>2, <2>2, <2>3, <2>4, <2>5, <2>6
<1> QED BY <1>1, <1>z, <1>4, <1>5, <1>6

\* Some holders leave a team, and the team perhaps its name.
LEMMA LeftIs ==
  ASSUME NEW t \in TeamNames, NEW H \in SUBSET Players, NEW v \in ViewTypes,
         NEW w, w = B!Left(v, t, H)
  PROVE  /\ w \in ViewTypes /\ w.objs = v.objs /\ w.scores = v.scores
         /\ w.side = v.side /\ w.teams = v.teams /\ w.bars = v.bars
         /\ \A h \in Players :
              w.teamOf[h] = IF h \in H /\ v.teamOf[h] = t THEN None ELSE v.teamOf[h]
<1> DEFINE f == [h \in Players |-> IF h \in H /\ v.teamOf[h] = t THEN None ELSE v.teamOf[h]]
<1>1. f \in [Players -> TeamNames \cup {None}]
  BY DEF ViewTypes
<1>2. w = [v EXCEPT !.teamOf = f]
  BY DEF B!Left
<1>3. \A h \in Players : f[h] = IF h \in H /\ v.teamOf[h] = t THEN None ELSE v.teamOf[h]
  OBVIOUS
<1> HIDE DEF f
<1> QED BY <1>1, <1>2, <1>3 DEF ViewTypes

LEMMA RemoveTeamKeeps ==
  ASSUME B!BoardsConstants, BInv, NEW t \in TeamNames, B!RemoveTeam(t)
  PROVE  BInv'
<1> USE DEF BInv
<1>1. /\ board' = [board EXCEPT !.teams = board.teams \ {t},
                                !.members = [board.members EXCEPT ![t] = {}]]
      /\ view' = [p \in Players |-> IF p \in online THEN B!RemovedTeam(view[p], t) ELSE view[p]]
      /\ missed' = [p \in Players |-> missed[p] \ {t}]
      /\ UNCHANGED <<online, orphans, torn, cleanup, crossed>>
  BY DEF B!RemoveTeam, B!Tell, B!Forgotten
<1>n. None \notin TeamNames /\ t \notin Objectives
  BY DEF B!BoardsConstants
<1>2. /\ board' \in BoardTypes /\ board'.objs = board.objs
      /\ board'.scores = board.scores /\ board'.side = board.side
      /\ board'.teams = board.teams \ {t} /\ board'.members = [board.members EXCEPT ![t] = {}]
      /\ board'.bars = board.bars
  BY <1>1 DEF BTypes, BoardTypes
<1>3. ASSUME NEW v \in ViewTypes, NEW w, w = B!RemovedTeam(v, t)
      PROVE  /\ w \in ViewTypes /\ w.objs = v.objs /\ w.scores = v.scores
             /\ w.side = v.side /\ w.teams = v.teams \ {t} /\ w.bars = v.bars
             /\ \A h \in Players : w.teamOf[h] = IF v.teamOf[h] = t THEN None ELSE v.teamOf[h]
  <2> DEFINE u == B!Left(v, t, Players)
  <2>1. /\ u \in ViewTypes /\ u.objs = v.objs /\ u.scores = v.scores
        /\ u.side = v.side /\ u.teams = v.teams /\ u.bars = v.bars
        /\ \A h \in Players : u.teamOf[h] = IF v.teamOf[h] = t THEN None ELSE v.teamOf[h]
    BY LeftIs
  <2>2. w = [u EXCEPT !.teams = u.teams \ {t}]
    BY <1>3 DEF B!RemovedTeam
  <2> HIDE DEF u
  <2> QED BY <2>1, <2>2 DEF ViewTypes
<1>4. BTypes'
  BY <1>1, <1>2, <1>3 DEF BTypes
<1>z. Halfway' /\ \A q \in Objectives, g \in Players : Settled(q, g)' = Settled(q, g)
  <2>1. board'.scores = board.scores
    BY <1>1, <1>2
  <2> QED BY <1>1, <2>1, HalfwaySame
<1>5. Vacant'
  BY <1>1, <1>n, <1>2, BoardFields DEF Vacant, BTypes
<1>6. ASSUME NEW p \in online
      PROVE  (SeesObjectives(p) /\ SeesSide(p) /\ SeesTeams(p) /\ view[p].bars = board.bars)'
  <2>1. /\ view'[p] = B!RemovedTeam(view[p], t) /\ view[p] \in ViewTypes /\ p \in Players
        /\ missed'[p] = missed[p] \ {t}
    BY <1>1 DEF BTypes
  <2>2. /\ view'[p].objs = view[p].objs /\ view'[p].scores = view[p].scores
        /\ view'[p].side = view[p].side /\ view'[p].teams = view[p].teams \ {t}
        /\ view'[p].bars = view[p].bars
        /\ \A h \in Players : view'[p].teamOf[h] = IF view[p].teamOf[h] = t THEN None
                                                   ELSE view[p].teamOf[h]
    BY <1>3, <2>1
  <2>3. SeesObjectives(p)'
    BY <1>z, <1>1, <1>n, <1>2, <2>1, <2>2 DEF SeesObjectives
  <2>4. SeesSide(p)'
    BY <1>1, <1>n, <1>2, <2>1, <2>2 DEF SeesSide
  <2>5. ASSUME NEW u \in TeamNames \ missed'[p]
        PROVE  /\ u \in view'[p].teams <=> u \in board'.teams
               /\ \A h \in Players \ torn : view'[p].teamOf[h] = u <=> h \in board'.members[u]
    <3>1. board'.members[u] = IF u = t THEN {} ELSE board.members[u]
      BY <1>2, BoardFields
    <3>2. CASE u = t
      BY <1>n, <1>2, <2>2, <3>1, <3>2
    <3>3. CASE u # t
      <4>1. u \in TeamNames \ missed[p]
        BY <2>1, <3>3
      <4>2. /\ u \in view[p].teams <=> u \in board.teams
            /\ \A h \in Players \ torn : view[p].teamOf[h] = u <=> h \in board.members[u]
        BY <4>1 DEF SeesTeams
      <4> QED BY <1>n, <1>2, <2>2, <3>1, <3>3, <4>2
    <3> QED BY <3>2, <3>3
  <2>6. SeesTeams(p)'
    BY <1>1, <2>5 DEF SeesTeams
  <2>7. view[p].bars = board.bars
    OBVIOUS
  <2> QED BY <1>2, <2>2, <2>3, <2>4, <2>6, <2>7
<1> QED BY <1>1, <1>z, <1>4, <1>5, <1>6

LEMMA LeaveTeamKeeps ==
  ASSUME B!BoardsConstants, BInv, NEW t \in TeamNames, NEW G \in SUBSET Players,
         B!LeaveTeam(t, G)
  PROVE  BInv'
<1> USE DEF BInv
<1> DEFINE H == G \cap board.members[t]
<1>1. /\ board' = [board EXCEPT !.members = [board.members EXCEPT ![t] = board.members[t] \ G]]
      /\ view' = [p \in Players |-> IF p \in online THEN B!Left(view[p], t, H) ELSE view[p]]
      /\ UNCHANGED <<online, missed, orphans, torn, cleanup, crossed>>
  BY DEF B!LeaveTeam, B!Tell
<1>n. None \notin TeamNames
  BY DEF B!BoardsConstants
<1>2. /\ board' \in BoardTypes /\ board'.objs = board.objs
      /\ board'.scores = board.scores /\ board'.side = board.side
      /\ board'.teams = board.teams
      /\ board'.members = [board.members EXCEPT ![t] = board.members[t] \ G]
      /\ board'.bars = board.bars
  BY <1>1 DEF BTypes, BoardTypes
<1>h. H \in SUBSET Players /\ \A h \in Players : h \in H <=> h \in G /\ h \in board.members[t]
  OBVIOUS
<1> HIDE DEF H
<1>4. BTypes'
  BY <1>1, <1>h, <1>2, LeftIs DEF BTypes
<1>z. Halfway' /\ \A q \in Objectives, g \in Players : Settled(q, g)' = Settled(q, g)
  <2>1. board'.scores = board.scores
    BY <1>1, <1>2
  <2> QED BY <1>1, <2>1, HalfwaySame
<1>5. Vacant'
  BY <1>1, <1>2, BoardFields DEF Vacant
<1>6. ASSUME NEW p \in online
      PROVE  (SeesObjectives(p) /\ SeesSide(p) /\ SeesTeams(p) /\ view[p].bars = board.bars)'
  <2>1. view'[p] = B!Left(view[p], t, H) /\ view[p] \in ViewTypes /\ p \in Players
    BY <1>1 DEF BTypes
  <2>2. /\ view'[p].objs = view[p].objs /\ view'[p].scores = view[p].scores
        /\ view'[p].side = view[p].side /\ view'[p].teams = view[p].teams
        /\ view'[p].bars = view[p].bars
        /\ \A h \in Players : view'[p].teamOf[h] = IF h \in H /\ view[p].teamOf[h] = t THEN None
                                                   ELSE view[p].teamOf[h]
    BY <1>h, <2>1, LeftIs
  <2>3. SeesObjectives(p)'
    BY <1>z, <1>1, <1>2, <2>2 DEF SeesObjectives
  <2>4. SeesSide(p)'
    BY <1>1, <1>2, <2>2 DEF SeesSide
  <2>5. SeesTeams(p)'
    BY <1>1, <1>n, <1>h, <1>2, <2>1, <2>2, BoardFields DEF SeesTeams
  <2>6. view[p].bars = board.bars
    OBVIOUS
  <2> QED BY <1>2, <2>2, <2>3, <2>4, <2>5, <2>6
<1> QED BY <1>1, <1>z, <1>4, <1>5, <1>6

\* Who joins a second team is torn.
LEMMA JoinTeamKeeps ==
  ASSUME B!BoardsConstants, BInv, NEW t \in TeamNames, NEW H \in SUBSET Players,
         B!JoinTeam(t, H)
  PROVE  BInv'
<1> USE DEF BInv
<1>1. /\ t \in board.teams
      /\ board' = [board EXCEPT !.members = [board.members EXCEPT ![t] = board.members[t] \cup H]]
      /\ view' = [p \in Players |-> IF p \in online THEN B!Joined(view[p], t, H) ELSE view[p]]
      /\ UNCHANGED <<online, missed, orphans, cleanup, crossed>>
  BY DEF B!JoinTeam, B!Tell
<1>t. torn' = torn \cup {h \in H : \E u \in TeamNames \ {t} : h \in board.members[u]}
  BY DEF B!JoinTeam
<1>2. /\ board' \in BoardTypes /\ board'.objs = board.objs
      /\ board'.scores = board.scores /\ board'.side = board.side
      /\ board'.teams = board.teams
      /\ board'.members = [board.members EXCEPT ![t] = board.members[t] \cup H]
      /\ board'.bars = board.bars
  BY <1>1 DEF BTypes, BoardTypes
<1>3. ASSUME NEW v \in ViewTypes, NEW w, w = B!Joined(v, t, H)
      PROVE  /\ w \in ViewTypes /\ w.objs = v.objs /\ w.scores = v.scores
             /\ w.side = v.side /\ w.teams = v.teams /\ w.bars = v.bars
             /\ t \notin v.teams => w.teamOf = v.teamOf
             /\ t \in v.teams =>
                  \A h \in Players : w.teamOf[h] = IF h \in H THEN t ELSE v.teamOf[h]
  <2> DEFINE f == [h \in Players |-> IF h \in H THEN t ELSE v.teamOf[h]]
  <2>1. f \in [Players -> TeamNames \cup {None}]
    BY DEF ViewTypes
  <2>2. w = IF t \notin v.teams THEN v ELSE [v EXCEPT !.teamOf = f]
    BY <1>3 DEF B!Joined
  <2>3. \A h \in Players : f[h] = IF h \in H THEN t ELSE v.teamOf[h]
    OBVIOUS
  <2> HIDE DEF f
  <2>4. CASE t \notin v.teams
    BY <2>2, <2>4
  <2>5. CASE t \in v.teams
    BY <2>1, <2>2, <2>3, <2>5 DEF ViewTypes
  <2> QED BY <2>4, <2>5
<1>4. BTypes'
  BY <1>1, <1>t, <1>2, <1>3 DEF BTypes
<1>z. Halfway' /\ \A q \in Objectives, g \in Players : Settled(q, g)' = Settled(q, g)
  <2>1. board'.scores = board.scores
    BY <1>1, <1>2
  <2> QED BY <1>1, <2>1, HalfwaySame
<1>5. Vacant'
  BY <1>1, <1>2, BoardFields DEF Vacant
<1>6. ASSUME NEW p \in online
      PROVE  (SeesObjectives(p) /\ SeesSide(p) /\ SeesTeams(p) /\ view[p].bars = board.bars)'
  <2>1. view'[p] = B!Joined(view[p], t, H) /\ view[p] \in ViewTypes /\ p \in Players
    BY <1>1 DEF BTypes
  <2>2. /\ view'[p].objs = view[p].objs /\ view'[p].scores = view[p].scores
        /\ view'[p].side = view[p].side /\ view'[p].teams = view[p].teams
        /\ view'[p].bars = view[p].bars
        /\ t \notin view[p].teams => view'[p].teamOf = view[p].teamOf
        /\ t \in view[p].teams =>
             \A h \in Players : view'[p].teamOf[h] = IF h \in H THEN t ELSE view[p].teamOf[h]
    BY <1>3, <2>1
  <2>3. SeesObjectives(p)'
    BY <1>z, <1>1, <1>2, <2>2 DEF SeesObjectives
  <2>4. SeesSide(p)'
    BY <1>1, <1>2, <2>2 DEF SeesSide
  <2>5. ASSUME NEW u \in TeamNames \ missed[p], NEW h \in Players \ torn'
        PROVE  view'[p].teamOf[h] = u <=> h \in board'.members[u]
    <3>1. h \notin torn /\ (h \in H => \A s \in TeamNames \ {t} : h \notin board.members[s])
      BY <1>t
    <3>2. view[p].teamOf[h] = u <=> h \in board.members[u]
      BY <3>1 DEF SeesTeams
    <3>3. t \notin missed[p] => t \in view[p].teams
      BY <1>1 DEF SeesTeams
    <3>4. board'.members[u] = IF u = t THEN board.members[t] \cup H ELSE board.members[u]
      BY <1>2, BoardFields
    <3> QED BY <2>2, <3>1, <3>2, <3>3, <3>4
  <2>6. SeesTeams(p)'
    BY <1>1, <1>2, <2>2, <2>5 DEF SeesTeams
  <2>7. view[p].bars = board.bars
    OBVIOUS
  <2> QED BY <1>2, <2>2, <2>3, <2>4, <2>6, <2>7
<1> QED BY <1>1, <1>z, <1>4, <1>5, <1>6

LEMMA InitBInv == B!BoardsConstants /\ B!Init => BInv
<1> SUFFICES ASSUME B!BoardsConstants, B!Init PROVE BInv
  OBVIOUS
<1>1. B!NoScores \in [Players -> Scores] /\ \A h \in Players : B!NoScores[h] = -1
  BY DEF B!NoScores, Scores
<1>2. B!Blind \in ViewTypes
  BY <1>1 DEF ViewTypes, B!Blind, Scores
<1>3. /\ board \in BoardTypes /\ board.objs = [o \in Objectives |-> B!Absent]
      /\ board.scores = [o \in Objectives |-> B!NoScores]
      /\ board.side = [on |-> FALSE, of |-> None]
      /\ board.teams = {} /\ board.members = [t \in TeamNames |-> {}]
  BY <1>1 DEF BoardTypes, B!Init, B!Empty, B!Blind, Scores
<1>4. /\ online = {} /\ orphans = {} /\ torn = {} /\ missed = [p \in Players |-> {}]
      /\ crossed = {} /\ cleanup = [p \in Players |-> "none"]
      /\ view = [p \in Players |-> B!Blind]
  BY DEF B!Init
<1>5. BTypes
  BY <1>2, <1>3, <1>4 DEF BTypes
<1>6. Vacant
  BY <1>1, <1>3, <1>4 DEF Vacant
<1>7. Halfway
  BY <1>4 DEF Halfway
<1> QED BY <1>4, <1>5, <1>6, <1>7 DEF BInv

\* A counted score is one that Put may put.
LEMMA PlusIs ==
  ASSUME BInv, NEW o \in Objectives, NEW h \in Players, NEW d \in Nat
  PROVE  B!Plus(o, h, d) \in Nat
  BY BoardFields DEF BInv, B!Plus, Scores

LEMMA NextBInv == B!BoardsConstants /\ BInv /\ [B!Next]_boards => BInv'
<1> SUFFICES ASSUME B!BoardsConstants, BInv, [B!Next]_boards PROVE BInv'
  OBVIOUS
<1>c. MaxScore \in Nat /\ MaxScore \in Int
  BY DEF B!BoardsConstants
<1>1. CASE UNCHANGED boards
  BY <1>1, BoardsSame DEF boards
<1>2. CASE B!Scoring
  <2> PICK o \in Objectives :
        \/ \E trigger \in BOOLEAN : B!AddObjective(o, trigger)
        \/ B!RemoveObjective(o)
        \/ \E f \in B!Formats : B!Modify(o, f)
        \/ B!SetDisplay(o)
        \/ \E h \in Players : \/ \E x \in 0 .. MaxScore : B!SetScore(o, h, x) \/ B!Trigger(h, o, x)
                                                          \/ B!ResetInside(h, o, x)
                              \/ B!Count(o, h) \/ B!ResetScore(o, h) \/ B!Enable(h, o)
                              \/ B!ResetAll(h)
        \/ \E H \in SUBSET Players, x \in 0 .. MaxScore : B!Store(o, H, x)
    BY <1>2 DEF B!Scoring
  <2>1. ASSUME NEW trigger \in BOOLEAN, B!AddObjective(o, trigger) PROVE BInv'
    BY <2>1, AddObjectiveKeeps
  <2>2. CASE B!RemoveObjective(o)
    BY <2>2, RemoveObjectiveKeeps
  <2>3. ASSUME NEW f \in B!Formats, B!Modify(o, f) PROVE BInv'
    BY <2>3, ModifyKeeps
  <2>4. CASE B!SetDisplay(o)
    BY <2>4, SetDisplayKeeps
  <2>5. ASSUME NEW h \in Players, NEW x \in 0 .. MaxScore, B!SetScore(o, h, x) PROVE BInv'
    <3>1. B!Put(o, {h}, x) /\ x \in Nat /\ {h} \in SUBSET Players
      BY <1>c, <2>5 DEF B!SetScore
    <3> QED BY <3>1, PutKeeps
  <2>6. ASSUME NEW h \in Players, NEW x \in 0 .. MaxScore, B!Trigger(h, o, x) PROVE BInv'
    <3>1. x \in Nat /\ {h} \in SUBSET Players /\ B!Plus(o, h, x) \in Nat
      BY <1>c, PlusIs
    <3>2. B!Put(o, {h}, B!Plus(o, h, x)) \/ B!Put(o, {h}, x)
      BY <2>6 DEF B!Trigger
    <3>3. \A y \in Nat : B!Put(o, {h}, y) => BInv'
      BY <3>1, PutKeeps
    <3> QED BY <3>1, <3>2, <3>3
  <2>7. ASSUME NEW h \in Players, B!Count(o, h) PROVE BInv'
    <3>1. {h} \in SUBSET Players /\ B!Plus(o, h, 1) \in Nat
      BY PlusIs
    <3>2. B!Put(o, {h}, B!Plus(o, h, 1))
      BY <2>7 DEF B!Count
    <3> QED BY <3>1, <3>2, PutKeeps
  <2>8. ASSUME NEW h \in Players, B!ResetScore(o, h) PROVE BInv'
    BY <2>8, ResetScoreKeeps
  <2>9. ASSUME NEW h \in Players, B!Enable(h, o) PROVE BInv'
    BY <2>9, BoardsSame DEF B!Enable
  <2>10. ASSUME NEW h \in Players, B!ResetAll(h) PROVE BInv'
    BY <2>10, ResetAllKeeps
  <2>11. ASSUME NEW H \in SUBSET Players, NEW x \in 0 .. MaxScore, B!Store(o, H, x) PROVE BInv'
    <3>1. x \in Nat /\ (IF H = {} THEN online ELSE H) \in SUBSET Players
      BY <1>c DEF BInv, BTypes
    <3>2. B!Put(o, IF H = {} THEN online ELSE H, x)
      BY <2>11 DEF B!Store
    <3> QED BY <3>1, <3>2, PutKeeps
  <2>12. ASSUME NEW h \in Players, NEW x \in 0 .. MaxScore, B!ResetInside(h, o, x) PROVE BInv'
    <3>1. x \in Nat
      BY <1>c
    <3> QED BY <2>12, <3>1, ResetInsideKeeps
  <2> QED BY <2>1, <2>2, <2>3, <2>4, <2>5, <2>6, <2>7, <2>8, <2>9, <2>10, <2>11, <2>12
<1>3. CASE B!Teaming
  <2> PICK t \in TeamNames : \/ B!AddTeam(t) \/ B!RemoveTeam(t)
                             \/ \E H \in SUBSET Players : B!JoinTeam(t, H) \/ B!LeaveTeam(t, H)
    BY <1>3 DEF B!Teaming
  <2>1. CASE B!AddTeam(t)
    BY <2>1, AddTeamKeeps
  <2>2. CASE B!RemoveTeam(t)
    BY <2>2, RemoveTeamKeeps
  <2>3. ASSUME NEW H \in SUBSET Players, B!JoinTeam(t, H) PROVE BInv'
    BY <2>3, JoinTeamKeeps
  <2>4. ASSUME NEW H \in SUBSET Players, B!LeaveTeam(t, H) PROVE BInv'
    BY <2>4, LeaveTeamKeeps
  <2> QED BY <2>1, <2>2, <2>3, <2>4
<1>4. CASE B!Barring
  <2>1. PICK b \in BarIds :
          \/ B!AddBar(b) \/ B!RemoveBar(b) \/ B!BossSpawns(b) \/ B!BossGone(b)
          \/ \E x \in 0 .. MaxScore : B!SetBar(b, x) \/ B!BossHurt(b, x)
    BY <1>4 DEF B!Barring
  <2>2. \A x \in 0 .. MaxScore : x \in Int /\ (IF board.bars[b] = -1 THEN -1 ELSE x) \in Int
    OBVIOUS
  <2>3. \E x \in Int : B!Bar(b, x)
    BY <1>c, <2>1, <2>2 DEF B!AddBar, B!RemoveBar, B!BossSpawns, B!BossGone, B!SetBar, B!BossHurt
  <2> QED BY <2>3, BarKeeps
<1>5. CASE B!ComeAndGo
  BY <1>5, JoinKeeps, PlayerLeaveKeeps, ResetLeaverKeeps, TellLeaverKeeps DEF B!ComeAndGo
<1> QED BY <1>1, <1>2, <1>3, <1>4, <1>5 DEF B!Next, B!Order

LEMMA BoardsAgree == B!BoardsConstants /\ BInv => B!ClientsAgree
<1> SUFFICES ASSUME B!BoardsConstants, BInv PROVE B!ClientsAgree
  OBVIOUS
<1>1. ASSUME NEW p \in online
      PROVE  /\ \A o \in Objectives \ missed[p] :
                  /\ view[p].objs[o] = board.objs[o]
                  /\ board.objs[o] # B!Absent =>
                       \A h \in Players :
                         <<o, h>> \notin orphans \cup crossed /\ cleanup[h] # "reset" =>
                           view[p].scores[o][h] = board.scores[o][h]
                  /\ board.side = [on |-> TRUE, of |-> o] => view[p].side = o
             /\ \A o \in Objectives \cap missed[p] : view[p].objs[o] = B!Absent
             /\ view[p].side \in {None} \cup {o \in Objectives : board.objs[o] # B!Absent}
             /\ \A t \in TeamNames \ missed[p] :
                  /\ t \in view[p].teams <=> t \in board.teams
                  /\ \A h \in Players \ torn : view[p].teamOf[h] = t <=> h \in board.members[t]
             /\ view[p].bars = board.bars
  <2>1. p \in Players /\ SeesObjectives(p) /\ SeesSide(p) /\ SeesTeams(p)
        /\ view[p].bars = board.bars
    BY <1>1 DEF BInv, BTypes
  <2>2. view[p].side \in {None} \cup {o \in Objectives : board.objs[o] # B!Absent}
    BY <2>1, BoardFields DEF BInv, SeesSide
  <2> QED BY <2>1, <2>2 DEF SeesObjectives, Settled, SeesSide, SeesTeams
<1> QED BY <1>1 DEF B!ClientsAgree

-----------------------------------------------------------------------------
(* Handles: no memory goes while a handle leads to it.                      *)

\* Things have numbers of their own.
HeapTypes ==
  /\ heap \in [Addrs -> Nat \cup {NoThing}] /\ born \in Nat /\ closed \subseteq 1 .. born
  /\ listed \subseteq Addrs /\ refs \subseteq J!Callers \X Addrs
  /\ \A x, y \in Addrs : /\ heap[x] # NoThing => heap[x] \in 1 .. born
                         /\ heap[x] = heap[y] /\ heap[x] # NoThing => x = y

\* An address has one handle, and ids are not reused.
TableTypes ==
  /\ table \in [J!Handles -> Addrs \cup {J!NoAddr}] /\ given \in [J!Handles -> Nat]
  /\ next \in Nat \ {0} /\ late \subseteq J!Handles
  /\ \A h \in J!Handles : table[h] # J!NoAddr => h < next
  /\ \A h, i \in J!Handles : table[h] = table[i] /\ table[h] # J!NoAddr => h = i

\* Plans that will still list a thing or invalidate its handle, those of a
\* session that has invalidated it and is about to take its player off the
\* roster, and the others.
Promising ==
  {<<"ask", "list", "free">>, <<"called", "list", "free">>, <<"list", "free">>,
   <<"list", "ask">>, <<"unlist", "invalidate", "free">>, <<"invalidate", "free">>,
   <<"state", "ask", "invalidate", "unlist", "free">>,
   <<"ask", "invalidate", "unlist", "free">>, <<"called", "invalidate", "unlist", "free">>,
   <<"invalidate", "unlist", "free">>}
Kept == {<<"erase", "unlist", "free">>, <<"unlist", "free">>}
Plans ==
  Promising \cup Kept \cup
  {<<>>, <<"erase", "free">>, <<"free">>, <<"register", "free">>, <<"ask">>, <<"called">>,
   <<"state", "ask", "state", "free">>, <<"ask", "state", "free">>,
   <<"called", "state", "free">>, <<"state", "free">>}

PlanTypes ==
  /\ plan \in [J!Callers -> Plans] /\ of \in [J!Callers -> Addrs \cup {J!NoAddr}]
  /\ gone \in [J!Callers -> J!Handles \cup {J!NoHandle}]
LockTypes ==
  /\ cache \subseteq J!Handles /\ state \in [Addrs -> J!Callers \cup {J!Free}]
  /\ borrow \in [J!Callers -> [h : J!Handles \cup {J!NoHandle}, a : Addrs \cup {J!NoAddr},
                             locked : BOOLEAN]]
  /\ wrap \in [J!Callers -> J!Handles \cup {J!NoHandle}]

\* Whoever is at work on a thing keeps it alive.
Owned ==
  \A t \in J!Callers : /\ plan[t] # <<>> => of[t] \in Addrs
                       /\ of[t] # J!NoAddr => <<t, of[t]>> \in refs
Alive ==
  /\ \A r \in refs : heap[r[2]] # NoThing
  /\ \A x \in listed : heap[x] # NoThing

\* A thing not given up is listed, or somebody will list or invalidate it.
Promise ==
  \A x \in Addrs :
    heap[x] # NoThing /\ heap[x] \notin closed =>
      x \in listed \/ \E t \in J!Callers : of[t] = x /\ plan[t] \in Promising
\* What is taken off the roster was invalidated.
Parting == \A t \in J!Callers : plan[t] \in Kept => heap[of[t]] \in closed
\* A handle made after that is late, and no other leads astray.
ClosedLate == \A x \in Addrs, h \in J!Handles : heap[x] \in closed /\ table[h] = x => h \in late
Home == \A h \in J!Handles : table[h] # J!NoAddr => J!LeadsHome(h, table[h])

\* A native holds the mutex of the table, and its thread does nothing else.
BorrowFits ==
  \A t \in J!Callers :
    /\ borrow[t] # J!NoBorrow =>
         /\ lock = t /\ borrow[t].h \in J!Handles /\ borrow[t].a \in Addrs
         /\ table[borrow[t].h] = borrow[t].a
         /\ plan[t] = <<>> \/ J!Facing(t, "called")
    /\ borrow[t].locked => borrow[t] # J!NoBorrow /\ state[borrow[t].a] = t
\* Who holds a state is at a step of its plan, or in a native.
StateFits ==
  \A x \in Addrs : state[x] # J!Free =>
    \/ J!Facing(state[x], "state") /\ of[state[x]] = x
    \/ borrow[state[x]].locked /\ borrow[state[x]].a = x

World == HeapTypes /\ Owned /\ Alive /\ Promise /\ Parting /\ PlanTypes
Handed == TableTypes /\ ClosedLate /\ Home
HInv == World /\ Handed /\ LockTypes /\ BorrowFits /\ StateFits /\ J!WrappersCurrent

\* What the steps make of a plan.
LEMMA PlanSteps ==
  ASSUME NEW p \in Plans, p # <<>>
  PROVE  /\ Tail(p) \in Plans
         /\ Head(p) = "ask" =>
              /\ [p EXCEPT ![1] = "called"] \in Plans \ Kept
              /\ [p EXCEPT ![1] = "called"] # <<>> /\ Head([p EXCEPT ![1] = "called"]) = "called"
              /\ p \in Promising => [p EXCEPT ![1] = "called"] \in Promising
         /\ Head(p) = "invalidate" =>
              /\ [p EXCEPT ![1] = "erase"] \in Plans
              /\ [p EXCEPT ![1] = "erase"] # <<>> /\ Head([p EXCEPT ![1] = "erase"]) = "erase"
         /\ Tail(p) \in Kept => p \in Kept \/ Head(p) = "invalidate"
         /\ p \in Promising => Tail(p) \in Promising \/ Head(p) \in {"list", "invalidate"}
         /\ Head(p) = "free" => p \notin Promising /\ Tail(p) = <<>>
         /\ Head(p) = "unlist" => p \in Promising \cup Kept
         /\ p \in Kept => Head(p) \in {"erase", "unlist"}
<1>1. CASE p = <<"ask", "list", "free">>
  BY <1>1 DEF Plans, Promising, Kept
<1>2. CASE p = <<"called", "list", "free">>
  BY <1>2 DEF Plans, Promising, Kept
<1>3. CASE p = <<"list", "free">>
  BY <1>3 DEF Plans, Promising, Kept
<1>4. CASE p = <<"list", "ask">>
  BY <1>4 DEF Plans, Promising, Kept
<1>5. CASE p = <<"unlist", "invalidate", "free">>
  BY <1>5 DEF Plans, Promising, Kept
<1>6. CASE p = <<"invalidate", "free">>
  BY <1>6 DEF Plans, Promising, Kept
<1>7. CASE p = <<"state", "ask", "invalidate", "unlist", "free">>
  BY <1>7 DEF Plans, Promising, Kept
<1>8. CASE p = <<"ask", "invalidate", "unlist", "free">>
  BY <1>8 DEF Plans, Promising, Kept
<1>9. CASE p = <<"called", "invalidate", "unlist", "free">>
  BY <1>9 DEF Plans, Promising, Kept
<1>10. CASE p = <<"invalidate", "unlist", "free">>
  BY <1>10 DEF Plans, Promising, Kept
<1>11. CASE p = <<"erase", "unlist", "free">>
  BY <1>11 DEF Plans, Promising, Kept
<1>12. CASE p = <<"unlist", "free">>
  BY <1>12 DEF Plans, Promising, Kept
<1>13. CASE p = <<"erase", "free">>
  BY <1>13 DEF Plans, Promising, Kept
<1>14. CASE p = <<"free">>
  BY <1>14 DEF Plans, Promising, Kept
<1>15. CASE p = <<"register", "free">>
  BY <1>15 DEF Plans, Promising, Kept
<1>16. CASE p = <<"ask">>
  BY <1>16 DEF Plans, Promising, Kept
<1>17. CASE p = <<"called">>
  BY <1>17 DEF Plans, Promising, Kept
<1>18. CASE p = <<"state", "ask", "state", "free">>
  BY <1>18 DEF Plans, Promising, Kept
<1>19. CASE p = <<"ask", "state", "free">>
  BY <1>19 DEF Plans, Promising, Kept
<1>20. CASE p = <<"called", "state", "free">>
  BY <1>20 DEF Plans, Promising, Kept
<1>21. CASE p = <<"state", "free">>
  BY <1>21 DEF Plans, Promising, Kept
<1> QED BY <1>1, <1>2, <1>3, <1>4, <1>5, <1>6, <1>7, <1>8, <1>9, <1>10, <1>11, <1>12, <1>13,
           <1>14, <1>15, <1>16, <1>17, <1>18, <1>19, <1>20, <1>21 DEF Plans, Promising, Kept

LEMMA PlansBegun ==
  /\ <<"ask", "list", "free">> \in Promising /\ <<"list", "ask">> \in Promising
  /\ <<"invalidate", "free">> \in Promising
  /\ \A p \in {<<"state", "ask", "state", "free">>, <<"unlist", "invalidate", "free">>, <<"ask">>,
               <<"state", "ask", "invalidate", "unlist", "free">>, <<"register", "free">>} :
        p \in Plans \ Kept
  /\ Promising \subseteq Plans \ (Kept \cup {<<>>}) /\ <<>> \in Plans \ Kept
  BY DEF Plans, Promising, Kept

LEMMA PlanMoves ==
  ASSUME World, NEW t \in J!Callers, NEW q \in Plans, plan[t] # <<>>,
         plan' = [plan EXCEPT ![t] = q], of' = of,
         gone' \in [J!Callers -> J!Handles \cup {J!NoHandle}],
         heap' = heap, born' = born, listed' = listed, refs' = refs, closed' = closed,
         plan[t] \in Promising => q \in Promising, q \in Kept => plan[t] \in Kept
  PROVE  World'
<1>1. HeapTypes'
  BY DEF World, HeapTypes
<1>2. PlanTypes'
  BY DEF World, PlanTypes
<1>3. Owned' /\ Alive'
  BY DEF World, Owned, Alive, PlanTypes
<1>4. Promise'
  BY DEF World, Promise, PlanTypes
<1>5. Parting'
  BY DEF World, Parting, PlanTypes
<1> QED BY <1>1, <1>2, <1>3, <1>4, <1>5 DEF World

LEMMA LocksStay ==
  ASSUME J!JavaHandlesConstants, HInv, NEW t \in J!Callers, NEW q, borrow[t] = J!NoBorrow,
         ~J!Facing(t, "state"), plan' = [plan EXCEPT ![t] = q],
         \A u \in J!Callers \ {t} : of'[u] = of[u], lock' = lock, state' = state,
         borrow' = borrow, table' = table \/ lock = J!Free
  PROVE  BorrowFits' /\ StateFits'
<1>1. plan \in [J!Callers -> Plans] /\ state \in [Addrs -> J!Callers \cup {J!Free}]
  BY DEF HInv, World, PlanTypes, LockTypes
<1>2. BorrowFits'
  <2>1. \A u \in J!Callers : borrow[u] # J!NoBorrow => u # J!Free /\ plan'[u] = plan[u]
    BY <1>1 DEF J!JavaHandlesConstants, J!Free
  <2>2. \A u \in J!Callers : borrow[u] # J!NoBorrow =>
          /\ lock' = u /\ borrow'[u].h \in J!Handles /\ borrow'[u].a \in Addrs
          /\ table'[borrow'[u].h] = borrow'[u].a
          /\ plan'[u] = <<>> \/ J!Facing(u, "called")'
    BY <2>1 DEF HInv, BorrowFits, J!Facing
  <2> QED BY <2>2 DEF HInv, BorrowFits
<1>3. StateFits'
  <2> SUFFICES ASSUME NEW x \in Addrs, state[x] # J!Free
               PROVE  \/ J!Facing(state[x], "state")' /\ of'[state[x]] = x
                      \/ borrow[state[x]].locked /\ borrow[state[x]].a = x
    BY DEF StateFits
  <2>1. state[x] \in J!Callers
    BY <1>1
  <2>2. CASE J!Facing(state[x], "state") /\ of[state[x]] = x
    <3>1. state[x] # t
      BY <2>2
    <3> QED BY <1>1, <2>1, <2>2, <3>1 DEF J!Facing
  <2> QED BY <2>2 DEF HInv, StateFits
<1> QED BY <1>2, <1>3

LEMMA WrappersStay ==
  ASSUME HInv, NEW t \in J!Callers, NEW q, ~J!Facing(t, "erase"),
         plan' = [plan EXCEPT ![t] = q], \A u \in J!Callers \ {t} : gone'[u] = gone[u],
         cache' = cache, \A h \in J!Handles : table[h] # J!NoAddr => table'[h] # J!NoAddr
  PROVE  J!WrappersCurrent'
<1>1. plan \in [J!Callers -> Plans] /\ cache \subseteq J!Handles
  BY DEF HInv, World, PlanTypes, LockTypes
<1> SUFFICES ASSUME NEW h \in cache, table'[h] = J!NoAddr
             PROVE  \E u \in J!Callers : J!Facing(u, "erase")' /\ gone'[u] = h
  BY <1>1 DEF J!WrappersCurrent, J!Valid, J!Handles
<1>2. PICK u \in J!Callers : J!Facing(u, "erase") /\ gone[u] = h
  BY <1>1 DEF HInv, J!WrappersCurrent, J!Valid
<1>3. u # t /\ plan'[u] = plan[u] /\ gone'[u] = h
  BY <1>1, <1>2
<1> QED BY <1>2, <1>3 DEF J!Facing

LEMMA Registers ==
  ASSUME J!JavaHandlesConstants, HInv, NEW x \in Addrs, heap[x] # NoThing, J!Register(x),
         heap' = heap, born' = born
  PROVE  /\ Handed' /\ closed' = closed /\ lock = J!Free
         /\ \A h \in J!Handles : table[h] # J!NoAddr => table'[h] # J!NoAddr
<1>1. HeapTypes /\ TableTypes /\ ClosedLate /\ Home
  BY DEF HInv, World, Handed
<1>2. CASE J!HandlesAt(x) # {} \/ next > MaxHandles
  <2>1. UNCHANGED <<table, next, given, late, closed>>
    BY <1>2 DEF J!Register
  <2> QED BY <1>1, <2>1 DEF J!Register, Handed, TableTypes, ClosedLate, Home, J!LeadsHome
<1>3. CASE J!HandlesAt(x) = {} /\ ~(next > MaxHandles)
  <2>1. /\ table' = [table EXCEPT ![next] = x] /\ next' = next + 1
        /\ given' = [given EXCEPT ![next] = heap[x]] /\ closed' = closed /\ lock = J!Free
        /\ late' = IF heap[x] \in closed THEN late \cup {next} ELSE late
    BY <1>3 DEF J!Register
  <2>2. next \in J!Handles /\ heap[x] \in Nat /\ x # J!NoAddr /\ table[next] = J!NoAddr
    BY <1>1, <1>3 DEF J!JavaHandlesConstants, J!Handles, TableTypes, HeapTypes, J!NoAddr, J!Free
  <2>3. \A h \in J!Handles : table[h] # x
    BY <1>3 DEF J!HandlesAt
  <2>4. TableTypes'
    <3>1. /\ table' \in [J!Handles -> Addrs \cup {J!NoAddr}] /\ given' \in [J!Handles -> Nat]
          /\ next' \in Nat \ {0} /\ late' \subseteq J!Handles
      BY <1>1, <2>1, <2>2 DEF TableTypes
    <3>2. \A h \in J!Handles : table'[h] # J!NoAddr => h < next'
      BY <1>1, <2>1, <2>2 DEF TableTypes, J!Handles
    <3>3. \A h, i \in J!Handles : table'[h] = table'[i] /\ table'[h] # J!NoAddr => h = i
      BY <1>1, <2>1, <2>2, <2>3 DEF TableTypes
    <3> QED BY <3>1, <3>2, <3>3 DEF TableTypes
  <2>5. ClosedLate'
    BY <1>1, <2>1, <2>2 DEF ClosedLate, TableTypes
  <2>6. Home'
    BY <1>1, <2>1, <2>2 DEF Home, J!LeadsHome, TableTypes
  <2>7. \A h \in J!Handles : table[h] # J!NoAddr => table'[h] # J!NoAddr
    BY <1>1, <2>1, <2>2 DEF TableTypes
  <2> QED BY <2>1, <2>4, <2>5, <2>6, <2>7 DEF Handed
<1> QED BY <1>2, <1>3

LEMMA Begins ==
  ASSUME J!JavaHandlesConstants, HInv, NEW t \in J!Callers, NEW x \in Addrs,
         NEW s \in Plans \ Kept, J!Begin(t, x, s), listed' = listed, refs' = refs \cup {<<t, x>>},
         \/ heap' = heap /\ born' = born /\ heap[x] # NoThing
         \/ /\ heap[x] = NoThing /\ born' = born + 1 /\ heap' = [heap EXCEPT ![x] = born + 1]
            /\ s \in Promising
  PROVE  HInv'
<1>1. /\ plan[t] = <<>> /\ borrow[t] = J!NoBorrow /\ plan' = [plan EXCEPT ![t] = s]
      /\ of' = [of EXCEPT ![t] = x]
      /\ UNCHANGED <<table, next, given, late, closed, cache, lock, state, gone, borrow, wrap>>
  BY DEF J!Begin, J!Idle, J!tableVars
<1>2. /\ HeapTypes /\ Owned /\ Alive /\ Promise /\ Parting /\ PlanTypes
      /\ TableTypes /\ ClosedLate /\ Home
  BY DEF HInv, World, Handed
<1>3. NoThing \notin Nat /\ born \in Nat /\ born + 1 \in Nat
  BY <1>2 DEF J!JavaHandlesConstants, HeapTypes
<1>4. /\ \A y \in Addrs : heap[y] # NoThing => heap'[y] = heap[y]
      /\ \A y \in Addrs \ {x} : heap'[y] = heap[y]
      /\ heap'[x] # NoThing /\ \A y \in Addrs \ {x} : heap'[y] # heap'[x]
      /\ heap[x] = NoThing => heap'[x] \notin closed /\ s \in Promising
  <2>1. CASE heap' = heap /\ heap[x] # NoThing
    BY <1>2, <2>1 DEF HeapTypes
  <2>2. CASE heap[x] = NoThing /\ heap' = [heap EXCEPT ![x] = born + 1] /\ s \in Promising
    <3>1. heap'[x] = born + 1 /\ \A y \in Addrs \ {x} : heap'[y] = heap[y]
      BY <1>2, <2>2 DEF HeapTypes
    <3>2. born + 1 # NoThing /\ born + 1 \notin closed
      BY <1>2, <1>3 DEF HeapTypes
    <3>3. \A y \in Addrs : heap[y] # born + 1
      BY <1>2, <1>3, <3>2 DEF HeapTypes
    <3> QED BY <2>2, <3>1, <3>2, <3>3
  <2> QED BY <2>1, <2>2
<1>5. HeapTypes'
  <2>1. heap' \in [Addrs -> Nat \cup {NoThing}] /\ born' \in Nat /\ closed' \subseteq 1 .. born'
    BY <1>1, <1>2, <1>3 DEF HeapTypes
  <2>2. \A y \in Addrs : heap'[y] # NoThing => heap'[y] \in 1 .. born'
    BY <1>2, <1>3 DEF HeapTypes
  <2>3. \A y, z \in Addrs : heap'[y] = heap'[z] /\ heap'[y] # NoThing => y = z
    BY <1>2, <1>4 DEF HeapTypes
  <2>4. listed' \subseteq Addrs /\ refs' \subseteq J!Callers \X Addrs
    BY <1>2 DEF HeapTypes
  <2> QED BY <2>1, <2>2, <2>3, <2>4 DEF HeapTypes
<1>6. PlanTypes'
  BY <1>1, <1>2 DEF PlanTypes
<1>7. Owned' /\ Alive'
  <2>1. \A u \in J!Callers : /\ plan'[u] # <<>> => of'[u] \in Addrs
                             /\ of'[u] # J!NoAddr => <<u, of'[u]>> \in refs'
    <3>1. \A u \in J!Callers \ {t} : plan'[u] = plan[u] /\ of'[u] = of[u]
      BY <1>1, <1>2 DEF PlanTypes
    <3>2. of'[t] = x
      BY <1>1, <1>2 DEF PlanTypes
    <3> QED BY <1>2, <3>1, <3>2 DEF Owned
  <2>2. \A r \in refs' : heap'[r[2]] # NoThing
    <3>1. \A r \in refs : r[2] \in Addrs /\ heap[r[2]] # NoThing
      BY <1>2 DEF Alive, HeapTypes
    <3> QED BY <1>4, <3>1
  <2>3. \A y \in listed' : heap'[y] # NoThing
    BY <1>2, <1>4 DEF Alive, HeapTypes
  <2> QED BY <2>1, <2>2, <2>3 DEF Owned, Alive
<1>8. Promise'
  <2> SUFFICES ASSUME NEW y \in Addrs, heap'[y] # NoThing, heap'[y] \notin closed
               PROVE  y \in listed \/ \E u \in J!Callers : of'[u] = y /\ plan'[u] \in Promising
    BY <1>1 DEF Promise
  <2>1. CASE heap[y] = NoThing
    <3>1. y = x /\ s \in Promising
      BY <1>4, <2>1
    <3>2. of'[t] = y /\ plan'[t] \in Promising
      BY <1>1, <1>2, <3>1 DEF PlanTypes
    <3> QED BY <3>2
  <2>2. CASE heap[y] # NoThing
    <3>1. y \in listed \/ \E u \in J!Callers : of[u] = y /\ plan[u] \in Promising
      BY <1>2, <1>4, <2>2 DEF Promise
    <3>2. \A u \in J!Callers : plan[u] \in Promising => plan'[u] = plan[u] /\ of'[u] = of[u]
      BY <1>1, <1>2, PlansBegun DEF PlanTypes
    <3> QED BY <3>1, <3>2
  <2> QED BY <2>1, <2>2
<1>9. Parting'
  <2> SUFFICES ASSUME NEW u \in J!Callers, plan'[u] \in Kept PROVE heap'[of'[u]] \in closed
    BY <1>1 DEF Parting
  <2>1. u # t /\ plan'[u] = plan[u] /\ of'[u] = of[u]
    BY <1>1, <1>2 DEF PlanTypes
  <2>2. heap[of[u]] \in closed /\ of[u] \in Addrs
    <3>1. plan[u] # <<>>
      BY <2>1, PlansBegun
    <3> QED BY <1>2, <2>1, <3>1 DEF Parting, Owned
  <2>3. heap[of[u]] # NoThing
    <3>1. 1 .. born \subseteq Nat
      BY <1>3
    <3> QED BY <1>2, <1>3, <2>2, <3>1 DEF HeapTypes
  <2> QED BY <1>4, <2>1, <2>2, <2>3
<1>10. TableTypes'
  BY <1>1, <1>2 DEF TableTypes
<1>11. ClosedLate'
  BY <1>1, <1>2, <1>4 DEF ClosedLate
<1>12. Home'
  BY <1>1, <1>2, <1>4 DEF Home, J!LeadsHome, TableTypes
<1>13. BorrowFits' /\ StateFits'
  <2>1. ~J!Facing(t, "state") /\ \A u \in J!Callers \ {t} : of'[u] = of[u]
    BY <1>1, <1>2 DEF J!Facing, PlanTypes
  <2> QED BY <1>1, <2>1, LocksStay
<1>14. J!WrappersCurrent'
  <2>1. ~J!Facing(t, "erase")
    BY <1>1 DEF J!Facing
  <2> QED BY <1>1, <2>1, WrappersStay
<1>15. LockTypes'
  BY <1>1 DEF HInv, LockTypes
<1> QED BY <1>5, <1>6, <1>7, <1>8, <1>9, <1>10, <1>11, <1>12, <1>13, <1>14, <1>15
        DEF HInv, World, Handed

LEMMA BeginningKeeps ==
  ASSUME J!JavaHandlesConstants, HInv, NEW x \in Addrs,
         \/ J!SpawnMob(x) \/ J!Damage(x) \/ J!RemoveMob(x)
         \/ \E s \in Sessions : J!Join(s, x)
         \/ \E t \in Mods : J!ListEntities(t, x)
  PROVE  HInv'
<1>1. \A y \in listed : heap[y] # NoThing
  BY DEF HInv, World, Alive
<1>2. Host \in J!Callers /\ Sessions \subseteq J!Callers /\ Mods \subseteq J!Callers
  BY DEF J!Callers
<1>3. CASE J!SpawnMob(x)
  BY <1>2, <1>3, PlansBegun, Begins DEF J!SpawnMob, J!Make, J!Keep
<1>4. CASE J!Damage(x)
  BY <1>1, <1>2, <1>4, PlansBegun, Begins DEF J!Damage, J!Keep, J!heapVars
<1>5. CASE J!RemoveMob(x)
  BY <1>1, <1>2, <1>5, PlansBegun, Begins DEF J!RemoveMob, J!Keep, J!heapVars
<1>6. ASSUME NEW s \in Sessions, J!Join(s, x) PROVE HInv'
  BY <1>2, <1>6, PlansBegun, Begins DEF J!Join, J!Make, J!Keep
<1>7. ASSUME NEW t \in Mods, J!ListEntities(t, x) PROVE HInv'
  BY <1>1, <1>2, <1>7, PlansBegun, Begins DEF J!ListEntities, J!Keep, J!heapVars
<1> QED BY <1>3, <1>4, <1>5, <1>6, <1>7

LEMMA SpeakingKeeps ==
  ASSUME J!JavaHandlesConstants, HInv, NEW s \in Sessions, J!Speak(s) \/ J!Quit(s)
  PROVE  HInv'
<1>1. s \in J!Callers /\ of[s] # J!NoAddr /\ heap' = heap /\ born' = born /\ listed' = listed
      /\ refs' = refs
  BY DEF J!Speak, J!Quit, J!Player, J!heapVars, J!Callers
<1>2. <<s, of[s]>> \in refs /\ of[s] \in Addrs /\ refs' = refs \cup {<<s, of[s]>>}
  BY <1>1 DEF HInv, World, Owned, PlanTypes
<1>3. heap[of[s]] # NoThing
  <2>1. \A r \in refs : heap[r[2]] # NoThing
    BY DEF HInv, World, Alive
  <2>2. <<s, of[s]>>[2] = of[s]
    OBVIOUS
  <2> QED BY <1>2, <2>1, <2>2
<1>4. CASE J!Speak(s)
  BY <1>1, <1>2, <1>3, <1>4, PlansBegun, Begins DEF J!Speak, J!Player
<1>5. CASE J!Quit(s)
  BY <1>1, <1>2, <1>3, <1>5, PlansBegun, Begins DEF J!Quit, J!Player
<1> QED BY <1>4, <1>5

LEMMA AtWork ==
  ASSUME J!JavaHandlesConstants, HInv, NEW t \in J!Callers, plan[t] # <<>>
  PROVE  /\ plan[t] \in Plans /\ Tail(plan[t]) \in Plans /\ of[t] \in Addrs
         /\ <<t, of[t]>> \in refs /\ heap[of[t]] \in Nat \ {NoThing}
         /\ ~J!Facing(t, "called") => borrow[t] = J!NoBorrow
<1>1. plan[t] \in Plans /\ of[t] \in Addrs
  BY DEF HInv, World, PlanTypes, Owned
<1>2. <<t, of[t]>> \in refs
  BY <1>1 DEF HInv, World, Owned, J!JavaHandlesConstants, J!NoAddr, J!Free
<1>3. heap[of[t]] # NoThing
  <2>1. \A r \in refs : heap[r[2]] # NoThing
    BY DEF HInv, World, Alive
  <2>2. <<t, of[t]>>[2] = of[t]
    OBVIOUS
  <2> QED BY <1>2, <2>1, <2>2
<1>4. heap[of[t]] \in Nat
  BY <1>1, <1>3 DEF HInv, World, HeapTypes
<1>5. ~J!Facing(t, "called") => borrow[t] = J!NoBorrow
  BY DEF HInv, BorrowFits
<1> QED BY <1>1, <1>2, <1>3, <1>4, <1>5, PlanSteps

LEMMA LocksAside ==
  ASSUME J!JavaHandlesConstants, HInv, NEW t \in J!Callers, NEW q, borrow[t] = J!NoBorrow,
         ~J!Facing(t, "state"), ~J!Facing(t, "erase"), plan' = [plan EXCEPT ![t] = q],
         \A u \in J!Callers \ {t} : of'[u] = of[u], gone' = gone, cache' = cache, lock' = lock,
         state' = state, borrow' = borrow, wrap' = wrap, table' = table \/ lock = J!Free,
         \A h \in J!Handles : table[h] # J!NoAddr => table'[h] # J!NoAddr
  PROVE  LockTypes' /\ BorrowFits' /\ StateFits' /\ J!WrappersCurrent'
<1>1. LockTypes'
  BY DEF HInv, LockTypes
<1>2. BorrowFits' /\ StateFits'
  BY LocksStay
<1>3. J!WrappersCurrent'
  BY WrappersStay
<1> QED BY <1>1, <1>2, <1>3

LEMMA RegisterKeeps ==
  ASSUME J!JavaHandlesConstants, HInv, NEW t \in J!Callers, J!RegisterListed(t) \/ J!Ask(t)
  PROVE  HInv'
<1>1. /\ J!Facing(t, "register") \/ J!Facing(t, "ask")
      /\ J!Register(of[t])
      /\ UNCHANGED <<heap, born, listed, refs, cache, lock, state, of, gone, borrow, wrap>>
  BY DEF J!RegisterListed, J!Ask, J!heapVars
<1>2. plan[t] # <<>> /\ Head(plan[t]) \in {"register", "ask"}
  BY <1>1 DEF J!Facing
<1>3. /\ plan[t] \in Plans /\ Tail(plan[t]) \in Plans /\ of[t] \in Addrs /\ heap[of[t]] # NoThing
      /\ borrow[t] = J!NoBorrow
  BY <1>2, AtWork DEF J!Facing
<1>4. PICK q \in Plans \ Kept : /\ plan' = [plan EXCEPT ![t] = q]
                                /\ plan[t] \in Promising => q \in Promising
  <2>1. Tail(plan[t]) \in Plans \ Kept /\ (plan[t] \in Promising => Tail(plan[t]) \in Promising)
    BY <1>2, <1>3, PlanSteps
  <2>2. CASE plan' = [plan EXCEPT ![t] = Tail(@)]
    BY <2>1, <2>2
  <2>3. CASE J!Facing(t, "ask") /\ plan' = [plan EXCEPT ![t][1] = "called"]
    <3> DEFINE q == [plan[t] EXCEPT ![1] = "called"]
    <3>1. q \in Plans \ Kept /\ (plan[t] \in Promising => q \in Promising)
      BY <1>2, <1>3, <2>3, PlanSteps DEF J!Facing
    <3>2. plan' = [plan EXCEPT ![t] = q]
      BY <2>3
    <3> QED BY <3>1, <3>2
  <2> QED BY <2>2, <2>3 DEF J!RegisterListed, J!Ask, J!Go
<1>5. /\ Handed' /\ closed' = closed /\ lock = J!Free
      /\ \A h \in J!Handles : table[h] # J!NoAddr => table'[h] # J!NoAddr
  BY <1>1, <1>3, Registers
<1>6. World'
  <2>1. World /\ gone' \in [J!Callers -> J!Handles \cup {J!NoHandle}]
    BY <1>1 DEF HInv, World, PlanTypes
  <2> QED BY <1>1, <1>2, <1>4, <1>5, <2>1, PlanMoves
<1>7. LockTypes' /\ BorrowFits' /\ StateFits' /\ J!WrappersCurrent'
  BY <1>1, <1>2, <1>3, <1>4, <1>5, LocksAside DEF J!Facing
<1> QED BY <1>5, <1>6, <1>7 DEF HInv

LEMMA AnswerKeeps ==
  ASSUME J!JavaHandlesConstants, HInv, NEW t \in J!Callers, J!Answer(t)
  PROVE  HInv'
<1>1. /\ plan[t] # <<>> /\ Head(plan[t]) = "called" /\ borrow[t] = J!NoBorrow
      /\ UNCHANGED <<heap, born, listed, refs, table, next, given, late, closed, cache, lock,
                     state, of, gone, borrow, wrap>>
  BY DEF J!Answer, J!heapVars, J!tableVars, J!Facing
<1>2. plan[t] \in Plans
  BY <1>1, AtWork
<1>3. PICK q \in Plans \ Kept : /\ plan' = [plan EXCEPT ![t] = q]
                                /\ plan[t] \in Promising => q \in Promising
  <2>1. CASE plan' = [plan EXCEPT ![t] = Tail(@)]
    <3>1. Tail(plan[t]) \in Plans \ Kept /\ (plan[t] \in Promising => Tail(plan[t]) \in Promising)
      BY <1>1, <1>2, PlanSteps
    <3> QED BY <2>1, <3>1
  <2>2. CASE plan' = [plan EXCEPT ![t] = <<"invalidate", "free">>]
    BY <2>2, PlansBegun
  <2> QED BY <2>1, <2>2 DEF J!Answer, J!Go
<1>4. World'
  <2>1. World /\ gone' \in [J!Callers -> J!Handles \cup {J!NoHandle}]
    BY <1>1 DEF HInv, World, PlanTypes
  <2> QED BY <1>1, <1>3, <2>1, PlanMoves
<1>5. Handed'
  BY <1>1 DEF HInv, Handed, TableTypes, ClosedLate, Home, J!LeadsHome
<1>6. LockTypes' /\ BorrowFits' /\ StateFits' /\ J!WrappersCurrent'
  BY <1>1, <1>3, LocksAside DEF J!Facing
<1> QED BY <1>4, <1>5, <1>6 DEF HInv

\* Handles stay good when more things are closed whose handles are late.
LEMMA HandedStays ==
  ASSUME HInv, NEW x \in Addrs, heap[x] # NoThing, table' = table, next' = next, given' = given,
         heap' = heap,
         \/ late' = late /\ closed' = closed
         \/ late' = late \cup J!HandlesAt(x) /\ closed' = closed \cup {heap[x]}
  PROVE  Handed'
<1>1. HeapTypes /\ TableTypes /\ ClosedLate /\ Home
  BY DEF HInv, World, Handed
<1>2. TableTypes'
  BY <1>1 DEF TableTypes, J!HandlesAt
<1>3. ClosedLate'
  BY <1>1 DEF ClosedLate, J!HandlesAt, HeapTypes
<1>4. Home'
  BY <1>1 DEF Home, J!LeadsHome
<1> QED BY <1>2, <1>3, <1>4 DEF Handed

LEMMA ListKeeps ==
  ASSUME J!JavaHandlesConstants, HInv, NEW t \in J!Callers, J!List(t)
  PROVE  HInv'
<1> DEFINE x == of[t]
           q == Tail(plan[t])
<1>1. /\ plan[t] # <<>> /\ Head(plan[t]) = "list" /\ plan' = [plan EXCEPT ![t] = q]
      /\ UNCHANGED <<heap, born, refs, table, next, given, cache, lock, state, of, gone, borrow,
                     wrap>>
  BY DEF J!List, J!heapVars, J!Facing, J!Go
<1>2. \/ listed' = listed \cup {x} /\ late' = late /\ closed' = closed
      \/ /\ listed' = listed
         /\ late' = late \cup J!HandlesAt(x) /\ closed' = closed \cup {heap[x]}
  BY DEF J!List
<1>3. /\ plan[t] \in Plans /\ q \in Plans \ Kept /\ x \in Addrs /\ heap[x] \in Nat \ {NoThing}
      /\ borrow[t] = J!NoBorrow
  BY <1>1, AtWork, PlanSteps DEF J!Facing
<1> HIDE DEF x, q
<1>4. HeapTypes /\ Owned /\ Alive /\ Promise /\ Parting /\ PlanTypes
  BY DEF HInv, World
<1>5. HeapTypes'
  BY <1>1, <1>2, <1>3, <1>4 DEF HeapTypes
<1>6. PlanTypes'
  BY <1>1, <1>3, <1>4 DEF PlanTypes
<1>7. Owned'
  BY <1>1, <1>4 DEF Owned, PlanTypes
<1>8. Alive'
  BY <1>1, <1>2, <1>3, <1>4 DEF Alive
<1>9. Promise'
  <2> SUFFICES ASSUME NEW y \in Addrs, heap[y] # NoThing, heap[y] \notin closed'
               PROVE  y \in listed' \/ \E u \in J!Callers : of[u] = y /\ plan'[u] \in Promising
    BY <1>1 DEF Promise
  <2>1. y \in listed \/ \E u \in J!Callers : of[u] = y /\ plan[u] \in Promising
    BY <1>2, <1>4 DEF Promise
  <2>2. CASE y = x
    BY <1>2, <2>2
  <2>3. CASE y # x
    BY <1>1, <1>2, <1>4, <2>1, <2>3 DEF PlanTypes, x
  <2> QED BY <2>2, <2>3
<1>10. Parting'
  BY <1>1, <1>2, <1>3, <1>4 DEF Parting, PlanTypes
<1>11. Handed'
  BY <1>1, <1>2, <1>3, HandedStays
<1>12. LockTypes' /\ BorrowFits' /\ StateFits' /\ J!WrappersCurrent'
  BY <1>1, <1>3, LocksAside DEF J!Facing
<1> QED BY <1>5, <1>6, <1>7, <1>8, <1>9, <1>10, <1>11, <1>12 DEF HInv, World

LEMMA UnlistKeeps ==
  ASSUME J!JavaHandlesConstants, HInv, NEW t \in J!Callers, J!Unlist(t)
  PROVE  HInv'
<1> DEFINE x == of[t]
           q == Tail(plan[t])
<1>1. /\ plan[t] # <<>> /\ Head(plan[t]) = "unlist" /\ plan' = [plan EXCEPT ![t] = q]
      /\ listed' = listed \ {x}
      /\ UNCHANGED <<heap, born, refs, table, next, given, late, closed, cache, lock, state, of,
                     gone, borrow, wrap>>
  BY DEF J!Unlist, J!heapVars, J!tableVars, J!Facing, J!Go
<1>2. HeapTypes /\ Owned /\ Alive /\ Promise /\ Parting /\ PlanTypes
  BY DEF HInv, World
<1>3. /\ plan[t] \in Plans /\ q \in Plans /\ x \in Addrs /\ heap[x] \in Nat \ {NoThing}
      /\ borrow[t] = J!NoBorrow
      /\ q \in Promising \/ heap[x] \in closed
      /\ q \in Kept => plan[t] \in Kept
  BY <1>1, <1>2, AtWork, PlanSteps DEF J!Facing, Parting
<1> HIDE DEF x, q
<1>4. HeapTypes'
  BY <1>1, <1>2 DEF HeapTypes
<1>5. PlanTypes'
  BY <1>1, <1>2, <1>3 DEF PlanTypes
<1>6. Owned' /\ Alive'
  BY <1>1, <1>2 DEF Owned, Alive, PlanTypes
<1>7. Promise'
  <2> SUFFICES ASSUME NEW y \in Addrs, heap[y] # NoThing, heap[y] \notin closed
               PROVE  y \in listed' \/ \E u \in J!Callers : of[u] = y /\ plan'[u] \in Promising
    BY <1>1 DEF Promise
  <2>1. y \in listed \/ \E u \in J!Callers : of[u] = y /\ plan[u] \in Promising
    BY <1>2 DEF Promise
  <2>2. CASE y = x
    BY <1>1, <1>2, <1>3, <2>2 DEF PlanTypes, x
  <2>3. CASE y # x
    BY <1>1, <1>2, <2>1, <2>3 DEF PlanTypes, x
  <2> QED BY <2>2, <2>3
<1>8. Parting'
  BY <1>1, <1>2, <1>3 DEF Parting, PlanTypes
<1>9. Handed'
  BY <1>1, <1>3, HandedStays
<1>10. LockTypes' /\ BorrowFits' /\ StateFits' /\ J!WrappersCurrent'
  BY <1>1, <1>3, LocksAside DEF J!Facing
<1> QED BY <1>4, <1>5, <1>6, <1>7, <1>8, <1>9, <1>10 DEF HInv, World

LEMMA TakeStateKeeps ==
  ASSUME J!JavaHandlesConstants, HInv, NEW t \in J!Callers, J!TakeState(t)
  PROVE  HInv'
<1>1. /\ J!Facing(t, "state") /\ state[of[t]] = J!Free /\ state' = [state EXCEPT ![of[t]] = t]
      /\ UNCHANGED <<heap, born, listed, refs, table, next, given, late, closed, cache, lock,
                     plan, of, gone, borrow, wrap>>
  BY DEF J!TakeState, J!heapVars, J!tableVars
<1>2. of[t] \in Addrs /\ borrow[t] = J!NoBorrow
  BY <1>1, AtWork DEF J!Facing
<1>3. World' /\ Handed'
  BY <1>1 DEF HInv, World, Handed, HeapTypes, PlanTypes, Owned, Alive, Promise, Parting,
              TableTypes, ClosedLate, Home, J!LeadsHome
<1>4. LockTypes'
  BY <1>1, <1>2 DEF HInv, LockTypes
<1>5. BorrowFits'
  <2>1. \A u \in J!Callers : borrow[u].locked => state[borrow[u].a] = u /\ borrow[u].a \in Addrs
    BY DEF HInv, BorrowFits
  <2>2. \A u \in J!Callers : borrow[u].locked => state'[borrow[u].a] = u
    BY <1>1, <2>1 DEF HInv, LockTypes, J!JavaHandlesConstants, J!Free
  <2> QED BY <1>1, <2>2 DEF HInv, BorrowFits, J!Facing
<1>6. StateFits'
  BY <1>1, <1>2 DEF HInv, LockTypes, StateFits, J!Facing
<1>7. J!WrappersCurrent'
  BY <1>1 DEF HInv, J!WrappersCurrent, J!Valid, J!Facing
<1> QED BY <1>3, <1>4, <1>5, <1>6, <1>7 DEF HInv

LEMMA GiveStateKeeps ==
  ASSUME J!JavaHandlesConstants, HInv, NEW t \in J!Callers, J!GiveState(t)
  PROVE  HInv'
<1>1. /\ J!Facing(t, "state") /\ state[of[t]] = t /\ state' = [state EXCEPT ![of[t]] = J!Free]
      /\ plan' = [plan EXCEPT ![t] = Tail(plan[t])]
      /\ UNCHANGED <<heap, born, listed, refs, table, next, given, late, closed, cache, lock,
                     of, gone, borrow, wrap>>
  BY DEF J!GiveState, J!heapVars, J!tableVars, J!Go
<1>2. /\ of[t] \in Addrs /\ borrow[t] = J!NoBorrow /\ plan[t] # <<>> /\ plan[t] \in Plans
      /\ Tail(plan[t]) \in Plans \ Kept
      /\ plan[t] \in Promising => Tail(plan[t]) \in Promising
  BY <1>1, AtWork, PlanSteps DEF J!Facing
<1>3. World'
  <2>1. World /\ gone' \in [J!Callers -> J!Handles \cup {J!NoHandle}]
    BY <1>1 DEF HInv, World, PlanTypes
  <2> QED BY <1>1, <1>2, <2>1, PlanMoves
<1>4. Handed'
  BY <1>1 DEF HInv, Handed, TableTypes, ClosedLate, Home, J!LeadsHome
<1>5. LockTypes'
  BY <1>1, <1>2 DEF HInv, LockTypes
<1>6. plan \in [J!Callers -> Plans] /\ state \in [Addrs -> J!Callers \cup {J!Free}]
  BY DEF HInv, World, PlanTypes, LockTypes
<1>7. BorrowFits'
  <2>1. \A u \in J!Callers : borrow[u] # J!NoBorrow => u # t /\ plan'[u] = plan[u]
    BY <1>1, <1>2, <1>6
  <2>2. \A u \in J!Callers : borrow[u].locked =>
          borrow[u] # J!NoBorrow /\ state'[borrow[u].a] = u
    <3>1. \A u \in J!Callers : borrow[u].locked =>
            borrow[u] # J!NoBorrow /\ state[borrow[u].a] = u /\ borrow[u].a \in Addrs
      BY DEF HInv, BorrowFits
    <3> QED BY <1>1, <1>2, <1>6, <2>1, <3>1
  <2>3. \A u \in J!Callers : borrow[u] # J!NoBorrow => plan'[u] = <<>> \/ J!Facing(u, "called")'
    BY <2>1 DEF HInv, BorrowFits, J!Facing
  <2> QED BY <1>1, <2>2, <2>3 DEF HInv, BorrowFits
<1>8. StateFits'
  <2> SUFFICES ASSUME NEW y \in Addrs, NEW u, u = state'[y], u # J!Free
               PROVE  \/ J!Facing(u, "state")' /\ of[u] = y
                      \/ borrow[u].locked /\ borrow[u].a = y
    BY <1>1 DEF StateFits
  <2>1. y # of[t] /\ state[y] = u /\ u \in J!Callers
    BY <1>1, <1>2, <1>6
  <2>2. CASE J!Facing(u, "state") /\ of[u] = y
    <3>1. u # t
      BY <2>1, <2>2
    <3> QED BY <1>1, <1>6, <2>1, <2>2, <3>1 DEF J!Facing
  <2> QED BY <2>1, <2>2 DEF HInv, StateFits
<1>9. J!WrappersCurrent'
  <2>1. ~J!Facing(t, "erase")
    BY <1>1 DEF J!Facing
  <2> QED BY <1>1, <2>1, WrappersStay
<1> QED BY <1>3, <1>4, <1>5, <1>7, <1>8, <1>9 DEF HInv

LEMMA InvalidateKeeps ==
  ASSUME J!JavaHandlesConstants, HInv, NEW t \in J!Callers, J!Invalidate(t)
  PROVE  HInv'
<1> DEFINE x == of[t]
           g == CHOOSE h \in J!HandlesAt(x) : TRUE
<1>1. /\ plan[t] # <<>> /\ Head(plan[t]) = "invalidate" /\ lock = J!Free
      /\ closed' = closed \cup {heap[x]}
      /\ UNCHANGED <<heap, born, listed, refs, next, given, late, cache, lock, state, of, borrow,
                     wrap>>
  BY DEF J!Invalidate, J!heapVars, J!Facing
<1>2. \/ /\ J!HandlesAt(x) = {} /\ plan' = [plan EXCEPT ![t] = Tail(plan[t])]
         /\ table' = table /\ gone' = gone
      \/ /\ J!HandlesAt(x) # {}
         /\ table' = [h \in J!Handles |-> IF table[h] = x THEN J!NoAddr ELSE table[h]]
         /\ plan' = [plan EXCEPT ![t] = [plan[t] EXCEPT ![1] = "erase"]]
         /\ gone' = [gone EXCEPT ![t] = g]
  BY DEF J!Invalidate, J!Go
<1>3. /\ plan[t] \in Plans /\ x \in Addrs /\ heap[x] \in Nat \ {NoThing}
      /\ borrow[t] = J!NoBorrow /\ ~J!Facing(t, "state") /\ ~J!Facing(t, "erase")
  BY <1>1, AtWork DEF J!Facing
<1>4. PICK q \in Plans : /\ plan' = [plan EXCEPT ![t] = q]
                         /\ J!HandlesAt(x) # {} => q # <<>> /\ Head(q) = "erase"
  <2>1. Tail(plan[t]) \in Plans
    BY <1>1, <1>3, PlanSteps
  <2>2. /\ [plan[t] EXCEPT ![1] = "erase"] \in Plans
        /\ [plan[t] EXCEPT ![1] = "erase"] # <<>>
        /\ Head([plan[t] EXCEPT ![1] = "erase"]) = "erase"
    BY <1>1, <1>3, PlanSteps
  <2>3. CASE J!HandlesAt(x) = {}
    BY <1>2, <2>1, <2>3
  <2>4. CASE J!HandlesAt(x) # {}
    BY <1>2, <2>2, <2>4
  <2> QED BY <2>3, <2>4
<1>5. J!HandlesAt(x) # {} => g \in J!HandlesAt(x)
  OBVIOUS
<1> HIDE DEF x, g
<1>6. HeapTypes /\ Owned /\ Alive /\ Promise /\ Parting /\ PlanTypes
  BY DEF HInv, World
<1>7. TableTypes /\ ClosedLate /\ Home
  BY DEF HInv, Handed
<1>8. /\ table' \in [J!Handles -> Addrs \cup {J!NoAddr}] /\ x # J!NoAddr
      /\ \A h \in J!Handles : table'[h] = IF table[h] = x THEN J!NoAddr ELSE table[h]
  <2>1. x # J!NoAddr
    BY <1>3 DEF J!JavaHandlesConstants, J!NoAddr, J!Free
  <2>2. CASE J!HandlesAt(x) = {}
    BY <1>2, <1>7, <2>1, <2>2 DEF J!HandlesAt, TableTypes
  <2>3. CASE J!HandlesAt(x) # {}
    BY <1>2, <1>7, <2>1, <2>3 DEF TableTypes
  <2> QED BY <2>2, <2>3
<1>9. HeapTypes'
  BY <1>1, <1>3, <1>6 DEF HeapTypes
<1>10. PlanTypes'
  BY <1>1, <1>2, <1>4, <1>5, <1>6 DEF PlanTypes, J!HandlesAt
<1>11. Owned' /\ Alive'
  BY <1>1, <1>4, <1>6 DEF Owned, Alive, PlanTypes, x
<1>12. Promise'
  <2> SUFFICES ASSUME NEW y \in Addrs, heap[y] # NoThing, heap[y] \notin closed'
               PROVE  y \in listed \/ \E u \in J!Callers : of[u] = y /\ plan'[u] \in Promising
    BY <1>1 DEF Promise
  <2>1. y \in listed \/ \E u \in J!Callers : of[u] = y /\ plan[u] \in Promising
    BY <1>1, <1>6 DEF Promise
  <2>2. y # x
    BY <1>1
  <2> QED BY <1>4, <1>6, <2>1, <2>2 DEF PlanTypes, x
<1>13. Parting'
  BY <1>1, <1>4, <1>6 DEF Parting, PlanTypes, x
<1>14. TableTypes'
  BY <1>1, <1>7, <1>8 DEF TableTypes
<1>15. ClosedLate'
  <2> SUFFICES ASSUME NEW y \in Addrs, NEW h \in J!Handles, heap[y] \in closed', table'[h] = y
               PROVE  h \in late
    BY <1>1 DEF ClosedLate
  <2>1. y # x /\ table[h] = y
    BY <1>3, <1>8 DEF J!JavaHandlesConstants, J!NoAddr, J!Free
  <2>2. heap[y] \in closed
    BY <1>1, <1>3, <1>6, <2>1 DEF HeapTypes
  <2> QED BY <1>7, <2>1, <2>2 DEF ClosedLate
<1>16. Home'
  BY <1>1, <1>7, <1>8 DEF Home, J!LeadsHome
<1>17. LockTypes' /\ BorrowFits' /\ StateFits'
  <2>1. LockTypes'
    BY <1>1 DEF HInv, LockTypes
  <2>2. BorrowFits' /\ StateFits'
    BY <1>1, <1>3, <1>4, LocksStay
  <2> QED BY <2>1, <2>2
<1>18. J!WrappersCurrent'
  <2> SUFFICES ASSUME NEW h \in cache, h \in J!Handles, table'[h] = J!NoAddr
               PROVE  \E u \in J!Callers : J!Facing(u, "erase")' /\ gone'[u] = h
    BY <1>1 DEF J!WrappersCurrent, J!Valid, HInv, LockTypes
  <2>1. CASE table[h] = x
    <3>1. J!HandlesAt(x) # {} /\ g \in J!HandlesAt(x)
      BY <1>5, <2>1 DEF J!HandlesAt
    <3>2. g = h
      BY <1>7, <1>8, <2>1, <3>1 DEF TableTypes, J!HandlesAt
    <3>3. J!Facing(t, "erase")' /\ gone'[t] = h
      BY <1>2, <1>4, <1>6, <3>1, <3>2 DEF J!Facing, PlanTypes
    <3> QED BY <3>3
  <2>2. CASE table[h] # x
    <3>1. table[h] = J!NoAddr
      BY <1>8, <2>2
    <3>2. PICK u \in J!Callers : J!Facing(u, "erase") /\ gone[u] = h
      BY <3>1 DEF HInv, J!WrappersCurrent, J!Valid
    <3>3. u # t
      BY <1>3, <3>2
    <3>4. plan'[u] = plan[u] /\ gone'[u] = gone[u]
      BY <1>2, <1>4, <1>6, <3>3 DEF PlanTypes
    <3> QED BY <3>2, <3>4 DEF J!Facing
  <2> QED BY <2>1, <2>2
<1> QED BY <1>9, <1>10, <1>11, <1>12, <1>13, <1>14, <1>15, <1>16, <1>17, <1>18
        DEF HInv, World, Handed

LEMMA EraseWrapperKeeps ==
  ASSUME J!JavaHandlesConstants, HInv, NEW t \in J!Callers, J!EraseWrapper(t)
  PROVE  HInv'
<1>1. /\ plan[t] # <<>> /\ Head(plan[t]) = "erase" /\ plan' = [plan EXCEPT ![t] = Tail(plan[t])]
      /\ cache' = cache \ {gone[t]} /\ gone' = [gone EXCEPT ![t] = J!NoHandle]
      /\ UNCHANGED <<heap, born, listed, refs, table, next, given, late, closed, lock, state, of,
                     borrow, wrap>>
  BY DEF J!EraseWrapper, J!heapVars, J!tableVars, J!Facing, J!Go
<1>2. /\ plan[t] \in Plans /\ Tail(plan[t]) \in Plans /\ borrow[t] = J!NoBorrow
      /\ plan[t] \in Promising => Tail(plan[t]) \in Promising
      /\ Tail(plan[t]) \in Kept => plan[t] \in Kept
  BY <1>1, AtWork, PlanSteps DEF J!Facing
<1>3. World'
  <2>1. World /\ gone' \in [J!Callers -> J!Handles \cup {J!NoHandle}]
    BY <1>1 DEF HInv, World, PlanTypes
  <2> QED BY <1>1, <1>2, <2>1, PlanMoves
<1>4. Handed'
  BY <1>1 DEF HInv, Handed, TableTypes, ClosedLate, Home, J!LeadsHome
<1>5. LockTypes'
  BY <1>1 DEF HInv, LockTypes
<1>6. BorrowFits' /\ StateFits'
  <2>1. ~J!Facing(t, "state")
    BY <1>1 DEF J!Facing
  <2> QED BY <1>1, <1>2, <2>1, LocksStay
<1>7. J!WrappersCurrent'
  <2> SUFFICES ASSUME NEW h \in cache, h # gone[t], ~J!Valid(h)
               PROVE  \E u \in J!Callers : J!Facing(u, "erase")' /\ gone'[u] = h
    BY <1>1 DEF J!WrappersCurrent, J!Valid
  <2>1. PICK u \in J!Callers : J!Facing(u, "erase") /\ gone[u] = h
    BY DEF HInv, J!WrappersCurrent
  <2>2. plan'[u] = plan[u] /\ gone'[u] = gone[u]
    BY <1>1, <2>1 DEF HInv, World, PlanTypes
  <2> QED BY <2>1, <2>2 DEF J!Facing
<1> QED BY <1>3, <1>4, <1>5, <1>6, <1>7 DEF HInv

LEMMA DropKeeps ==
  ASSUME J!JavaHandlesConstants, HInv, NEW t \in J!Callers, J!Drop(t)
  PROVE  HInv'
<1> DEFINE x == of[t]
<1>1. /\ plan[t] # <<>> /\ Head(plan[t]) = "free" /\ plan' = [plan EXCEPT ![t] = Tail(plan[t])]
      /\ refs' = refs \ {<<t, x>>} /\ of' = [of EXCEPT ![t] = J!NoAddr]
      /\ \/ heap' = heap
         \/ /\ x \notin listed /\ \A r \in refs' : r[2] # x
            /\ heap' = [heap EXCEPT ![x] = NoThing]
      /\ UNCHANGED <<born, listed, table, next, given, late, closed, cache, lock, state, gone,
                     borrow, wrap>>
  BY DEF J!Drop, J!tableVars, J!Facing, J!Go
<1>2. /\ plan[t] \in Plans /\ plan[t] \notin Promising /\ Tail(plan[t]) = <<>> /\ x \in Addrs
      /\ heap[x] \in Nat \ {NoThing} /\ borrow[t] = J!NoBorrow
  BY <1>1, AtWork, PlanSteps DEF J!Facing
<1> HIDE DEF x
<1>3. HeapTypes /\ Owned /\ Alive /\ Promise /\ Parting /\ PlanTypes
  BY DEF HInv, World
<1>4. TableTypes /\ ClosedLate /\ Home
  BY DEF HInv, Handed
<1>5. \A u \in J!Callers \ {t} :
        /\ plan'[u] = plan[u] /\ of'[u] = of[u]
        /\ of[u] # J!NoAddr => <<u, of[u]>> \in refs'
  BY <1>1, <1>3 DEF PlanTypes, Owned
<1>6. plan'[t] = <<>> /\ of'[t] = J!NoAddr
  BY <1>1, <1>2, <1>3 DEF PlanTypes
<1>7. /\ \A y \in Addrs \ {x} : heap'[y] = heap[y]
      /\ heap' # heap =>
           /\ heap'[x] = NoThing /\ x \notin listed
           /\ \A u \in J!Callers \ {t} : of[u] # x
  <2>1. CASE heap' = heap
    BY <2>1
  <2>2. CASE /\ x \notin listed /\ \A r \in refs' : r[2] # x
             /\ heap' = [heap EXCEPT ![x] = NoThing]
    <3>1. heap'[x] = NoThing /\ \A y \in Addrs \ {x} : heap'[y] = heap[y]
      BY <1>2, <1>3, <2>2 DEF HeapTypes
    <3>2. ASSUME NEW u \in J!Callers \ {t}, of[u] = x PROVE FALSE
      <4>1. of[u] # J!NoAddr
        BY <1>2, <3>2 DEF J!JavaHandlesConstants, J!NoAddr, J!Free
      <4>2. <<u, of[u]>> \in refs'
        BY <1>5, <4>1
      <4>3. <<u, of[u]>>[2] = x
        BY <3>2
      <4> QED BY <2>2, <4>2, <4>3
    <3> QED BY <2>2, <3>1, <3>2
  <2> QED BY <1>1, <2>1, <2>2
<1>8. HeapTypes'
  <2>1. heap' \in [Addrs -> Nat \cup {NoThing}]
    BY <1>1, <1>3 DEF HeapTypes
  <2>2. \A y \in Addrs : heap'[y] # NoThing => heap'[y] = heap[y]
    BY <1>7
  <2> QED BY <1>1, <1>3, <2>1, <2>2 DEF HeapTypes
<1>9. PlanTypes'
  BY <1>1, <1>2, <1>3, PlansBegun DEF PlanTypes
<1>10. Owned'
  BY <1>3, <1>5, <1>6 DEF Owned
<1>11. Alive'
  <2>1. CASE heap' = heap
    BY <1>1, <1>3, <2>1 DEF Alive
  <2>2. CASE heap' # heap
    <3>1. \A r \in refs' : r[2] # x /\ r[2] \in Addrs /\ heap[r[2]] # NoThing
      BY <1>1, <1>3, <2>2 DEF Alive, HeapTypes
    <3>2. \A y \in listed : y \in Addrs \ {x} /\ heap[y] # NoThing
      BY <1>3, <1>7, <2>2 DEF Alive, HeapTypes
    <3> QED BY <1>1, <1>7, <3>1, <3>2 DEF Alive
  <2> QED BY <2>1, <2>2
<1>12. Promise'
  <2> SUFFICES ASSUME NEW y \in Addrs, heap'[y] # NoThing, heap'[y] \notin closed
               PROVE  y \in listed \/ \E u \in J!Callers : of'[u] = y /\ plan'[u] \in Promising
    BY <1>1 DEF Promise
  <2>1. heap[y] = heap'[y]
    BY <1>7
  <2>2. y \in listed \/ \E u \in J!Callers : of[u] = y /\ plan[u] \in Promising
    BY <1>3, <2>1 DEF Promise
  <2> QED BY <1>2, <1>5, <2>2
<1>13. Parting'
  <2> SUFFICES ASSUME NEW u \in J!Callers, plan'[u] \in Kept PROVE heap'[of'[u]] \in closed
    BY <1>1 DEF Parting
  <2>1. u # t
    BY <1>6, PlansBegun
  <2>2. plan[u] \in Kept /\ plan[u] # <<>> /\ of'[u] = of[u]
    BY <1>5, <2>1, PlansBegun
  <2>3. of[u] \in Addrs /\ heap[of[u]] \in closed
    BY <1>3, <2>2 DEF Owned, Parting
  <2>4. heap'[of[u]] = heap[of[u]]
    BY <1>7, <2>1, <2>3
  <2> QED BY <2>2, <2>3, <2>4
<1>14. TableTypes'
  BY <1>1, <1>4 DEF TableTypes
<1>15. ClosedLate'
  <2>1. NoThing \notin closed
    <3>1. 1 .. born \subseteq Nat
      BY <1>3 DEF HeapTypes
    <3> QED BY <1>3, <3>1 DEF HeapTypes, J!JavaHandlesConstants
  <2>2. \A y \in Addrs : heap'[y] = heap[y] \/ heap'[y] = NoThing
    BY <1>7
  <2> QED BY <1>1, <1>4, <2>1, <2>2 DEF ClosedLate
<1>16. Home'
  <2> SUFFICES ASSUME NEW h \in J!Handles, table[h] # J!NoAddr, h \notin late
               PROVE  heap'[table[h]] # NoThing /\ heap'[table[h]] = given[h]
    BY <1>1 DEF Home, J!LeadsHome
  <2>1. table[h] \in Addrs /\ heap[table[h]] # NoThing /\ heap[table[h]] = given[h]
    BY <1>4 DEF Home, J!LeadsHome, TableTypes
  <2>2. CASE table[h] = x
    <3>1. heap[x] \notin closed
      BY <1>2, <1>4, <2>2 DEF ClosedLate
    <3>2. x \in listed \/ \E u \in J!Callers : of[u] = x /\ plan[u] \in Promising
      BY <1>2, <1>3, <3>1 DEF Promise
    <3>3. heap' = heap
      BY <1>2, <1>7, <3>2
    <3> QED BY <2>1, <3>3
  <2>3. CASE table[h] # x
    BY <1>7, <2>1, <2>3
  <2> QED BY <2>2, <2>3
<1>17. LockTypes' /\ BorrowFits' /\ StateFits' /\ J!WrappersCurrent'
  <2>1. ~J!Facing(t, "state") /\ ~J!Facing(t, "erase")
    BY <1>1 DEF J!Facing
  <2> QED BY <1>1, <1>2, <1>5, <2>1, LocksAside
<1> QED BY <1>8, <1>9, <1>10, <1>11, <1>12, <1>13, <1>14, <1>15, <1>16, <1>17
        DEF HInv, World, Handed

LEMMA WorldAside ==
  ASSUME HInv, UNCHANGED <<heap, born, listed, refs, table, next, given, late, closed, plan, of,
                           gone>>
  PROVE  World' /\ Handed'
  BY DEF HInv, World, Handed, HeapTypes, PlanTypes, Owned, Alive, Promise, Parting,
         TableTypes, ClosedLate, Home, J!LeadsHome

LEMMA OutsideKeeps ==
  ASSUME HInv, UNCHANGED <<heap, born, listed, refs, table, next, given, late, closed, plan, of,
                           gone, cache, lock, state, borrow, wrap>>
  PROVE  HInv'
<1>1. World' /\ Handed'
  BY WorldAside
<1>2. LockTypes' /\ BorrowFits' /\ StateFits' /\ J!WrappersCurrent'
  BY DEF HInv, LockTypes, BorrowFits, StateFits, J!WrappersCurrent, J!Valid, J!Facing
<1> QED BY <1>1, <1>2 DEF HInv

LEMMA AcquireKeeps ==
  ASSUME J!JavaHandlesConstants, HInv, NEW t \in J!Callers, NEW h \in J!Handles,
         J!Acquire(t, h), plan[t] = <<>> \/ J!Facing(t, "called"),
         UNCHANGED <<heap, born, listed, refs, table, next, given, late, closed, plan, of, gone,
                     cache, state, wrap>>
  PROVE  HInv'
<1>1. /\ lock = J!Free /\ borrow[t] = J!NoBorrow /\ lock' = t /\ table[h] # J!NoAddr
      /\ borrow' = [borrow EXCEPT ![t] = [h |-> h, a |-> table[h], locked |-> FALSE]]
  BY DEF J!Acquire, J!Valid
<1>2. World' /\ Handed'
  BY WorldAside
<1>3. table[h] \in Addrs
  BY <1>1 DEF HInv, Handed, TableTypes
<1>4. LockTypes /\ BorrowFits /\ StateFits
  BY DEF HInv
<1>5. LockTypes'
  BY <1>1, <1>3, <1>4 DEF LockTypes
<1>6. /\ borrow'[t] = [h |-> h, a |-> table[h], locked |-> FALSE]
      /\ \A u \in J!Callers \ {t} : borrow'[u] = borrow[u] /\ borrow[u] = J!NoBorrow
  BY <1>1, <1>4 DEF LockTypes, BorrowFits, J!JavaHandlesConstants, J!Free
<1>7. BorrowFits'
  <2> SUFFICES ASSUME NEW u \in J!Callers
               PROVE  /\ borrow'[u] # J!NoBorrow =>
                           /\ lock' = u /\ borrow'[u].h \in J!Handles /\ borrow'[u].a \in Addrs
                           /\ table[borrow'[u].h] = borrow'[u].a
                           /\ plan[u] = <<>> \/ J!Facing(u, "called")
                      /\ ~borrow'[u].locked
    BY DEF BorrowFits, J!Facing
  <2>1. CASE u = t
    BY <1>1, <1>3, <1>6, <2>1
  <2>2. CASE u # t
    <3>1. borrow'[u] = J!NoBorrow
      BY <1>6, <2>2
    <3>2. ~J!NoBorrow.locked
      BY DEF J!NoBorrow
    <3> QED BY <3>1, <3>2
  <2> QED BY <2>1, <2>2
<1>8. StateFits'
  <2> SUFFICES ASSUME NEW y \in Addrs, state[y] # J!Free
               PROVE  J!Facing(state[y], "state") /\ of[state[y]] = y
    BY DEF StateFits, J!Facing
  <2>1. state[y] \in J!Callers
    BY <1>4 DEF LockTypes
  <2>2. ~borrow[state[y]].locked
    BY <1>1, <1>6, <2>1 DEF J!NoBorrow
  <2> QED BY <1>4, <2>2 DEF StateFits
<1>9. J!WrappersCurrent'
  BY DEF HInv, J!WrappersCurrent, J!Valid, J!Facing
<1> QED BY <1>2, <1>5, <1>7, <1>8, <1>9 DEF HInv

LEMMA LockStateKeeps ==
  ASSUME J!JavaHandlesConstants, HInv, NEW t \in J!Callers, J!LockState(t)
  PROVE  HInv'
<1> DEFINE x == borrow[t].a
<1>1. /\ borrow[t] # J!NoBorrow /\ state[x] = J!Free /\ state' = [state EXCEPT ![x] = t]
      /\ borrow' = [borrow EXCEPT ![t].locked = TRUE]
      /\ UNCHANGED <<heap, born, listed, refs, table, next, given, late, closed, plan, of, gone,
                     cache, lock, wrap>>
  BY DEF J!LockState, J!heapVars, J!tableVars
<1>2. World' /\ Handed'
  BY <1>1, WorldAside
<1>3. LockTypes /\ BorrowFits /\ StateFits
  BY DEF HInv
<1>4. /\ lock = t /\ borrow[t].h \in J!Handles /\ x \in Addrs /\ table[borrow[t].h] = x
      /\ plan[t] = <<>> \/ J!Facing(t, "called")
  BY <1>1, <1>3 DEF BorrowFits
<1>5. /\ borrow'[t].h = borrow[t].h /\ borrow'[t].a = x /\ borrow'[t].locked
      /\ \A u \in J!Callers \ {t} : borrow'[u] = borrow[u] /\ borrow[u] = J!NoBorrow
      /\ borrow' \in [J!Callers -> [h : J!Handles \cup {J!NoHandle},
                                    a : Addrs \cup {J!NoAddr}, locked : BOOLEAN]]
  <2>1. borrow[t] \in [h : J!Handles \cup {J!NoHandle}, a : Addrs \cup {J!NoAddr},
                      locked : BOOLEAN]
    BY <1>3 DEF LockTypes
  <2>2. borrow' = [borrow EXCEPT ![t] = [borrow[t] EXCEPT !.locked = TRUE]]
    BY <1>1
  <2>3. \A u \in J!Callers \ {t} : borrow[u] = J!NoBorrow
    BY <1>3, <1>4 DEF BorrowFits
  <2> DEFINE b == [borrow[t] EXCEPT !.locked = TRUE]
  <2>4. b.h = borrow[t].h /\ b.a = x /\ b.locked
    BY <2>1
  <2>5. b \in [h : J!Handles \cup {J!NoHandle}, a : Addrs \cup {J!NoAddr}, locked : BOOLEAN]
    BY <2>1
  <2> HIDE DEF b
  <2>6. borrow'[t] = b /\ \A u \in J!Callers \ {t} : borrow'[u] = borrow[u]
    BY <1>3, <2>2 DEF LockTypes, b
  <2>7. borrow' \in [J!Callers -> [h : J!Handles \cup {J!NoHandle},
                                  a : Addrs \cup {J!NoAddr}, locked : BOOLEAN]]
    BY <1>3, <2>2, <2>5 DEF LockTypes, b
  <2> QED BY <2>3, <2>4, <2>6, <2>7
<1> HIDE DEF x
<1>6. LockTypes'
  BY <1>1, <1>3, <1>4, <1>5 DEF LockTypes
<1>7. borrow'[t] # J!NoBorrow
  BY <1>5 DEF J!NoBorrow
<1>8. BorrowFits'
  <2>1. state'[x] = t
    BY <1>1, <1>3, <1>4 DEF LockTypes
  <2> SUFFICES ASSUME NEW u \in J!Callers
               PROVE  /\ borrow'[u] # J!NoBorrow =>
                           /\ lock = u /\ borrow'[u].h \in J!Handles /\ borrow'[u].a \in Addrs
                           /\ table[borrow'[u].h] = borrow'[u].a
                           /\ plan[u] = <<>> \/ J!Facing(u, "called")
                      /\ borrow'[u].locked =>
                           borrow'[u] # J!NoBorrow /\ state'[borrow'[u].a] = u
    BY <1>1 DEF BorrowFits, J!Facing
  <2>2. CASE u = t
    BY <1>4, <1>5, <1>7, <2>1, <2>2
  <2>3. CASE u # t
    BY <1>5, <2>3 DEF J!NoBorrow
  <2> QED BY <2>2, <2>3
<1>9. StateFits'
  <2> SUFFICES ASSUME NEW y \in Addrs, NEW u, u = state'[y], u # J!Free
               PROVE  \/ J!Facing(u, "state") /\ of[u] = y
                      \/ borrow'[u].locked /\ borrow'[u].a = y
    BY <1>1 DEF StateFits, J!Facing
  <2>1. CASE y = x
    BY <1>1, <1>3, <1>4, <1>5, <2>1 DEF LockTypes
  <2>2. CASE y # x
    <3>1. u = state[y] /\ u \in J!Callers
      BY <1>1, <1>3, <1>4, <2>2 DEF LockTypes
    <3>2. CASE borrow[u].locked /\ borrow[u].a = y
      BY <1>5, <2>2, <3>1, <3>2 DEF x
    <3> QED BY <1>3, <3>1, <3>2 DEF StateFits
  <2> QED BY <2>1, <2>2
<1>10. J!WrappersCurrent'
  BY <1>1 DEF HInv, J!WrappersCurrent, J!Valid, J!Facing
<1> QED BY <1>2, <1>6, <1>8, <1>9, <1>10 DEF HInv

LEMMA ReleaseKeeps ==
  ASSUME J!JavaHandlesConstants, HInv, NEW t \in J!Callers, J!Release(t)
  PROVE  HInv'
<1> DEFINE x == borrow[t].a
<1>1. /\ borrow[t].locked /\ state' = [state EXCEPT ![x] = J!Free]
      /\ borrow' = [borrow EXCEPT ![t] = J!NoBorrow]
      /\ UNCHANGED <<heap, born, listed, refs, table, next, given, late, closed, plan, of, gone,
                     cache, wrap>>
  BY DEF J!Release, J!heapVars, J!tableVars
<1>2. World' /\ Handed'
  BY <1>1, WorldAside
<1>3. LockTypes /\ BorrowFits /\ StateFits
  BY DEF HInv
<1>4. /\ lock = t /\ x \in Addrs
      /\ plan[t] = <<>> \/ J!Facing(t, "called")
  BY <1>1, <1>3 DEF BorrowFits
<1>5. /\ \A u \in J!Callers \ {t} : borrow[u] = J!NoBorrow
      /\ \A u \in J!Callers : borrow'[u] = J!NoBorrow
      /\ borrow' \in [J!Callers -> [h : J!Handles \cup {J!NoHandle},
                                    a : Addrs \cup {J!NoAddr}, locked : BOOLEAN]]
  BY <1>1, <1>3, <1>4 DEF LockTypes, BorrowFits, J!NoBorrow
<1> HIDE DEF x
<1>6. LockTypes'
  BY <1>1, <1>3, <1>4, <1>5 DEF LockTypes
<1>7. BorrowFits'
  BY <1>5 DEF BorrowFits, J!NoBorrow
<1>8. StateFits'
  <2> SUFFICES ASSUME NEW y \in Addrs, NEW u, u = state'[y], u # J!Free
               PROVE  J!Facing(u, "state") /\ of[u] = y
    BY <1>1 DEF StateFits, J!Facing
  <2>1. y # x /\ u = state[y] /\ u \in J!Callers
    BY <1>1, <1>3, <1>4 DEF LockTypes
  <2>2. ~(borrow[u].locked /\ borrow[u].a = y)
    BY <1>5, <2>1 DEF J!NoBorrow, x
  <2> QED BY <1>3, <2>1, <2>2 DEF StateFits
<1>9. J!WrappersCurrent'
  BY <1>1 DEF HInv, J!WrappersCurrent, J!Valid, J!Facing
<1> QED BY <1>2, <1>6, <1>7, <1>8, <1>9 DEF HInv

LEMMA WrapperMakersKeep ==
  ASSUME HInv, UNCHANGED <<heap, born, listed, refs, table, next, given, late, closed, plan, of,
                           gone, lock, state, borrow>>,
         wrap' \in [J!Callers -> J!Handles \cup {J!NoHandle}],
         \A h \in cache' : h \in cache \/ J!Valid(h)
  PROVE  HInv'
<1>1. World' /\ Handed'
  BY WorldAside
<1>2. LockTypes'
  BY DEF HInv, LockTypes, J!Valid
<1>3. BorrowFits' /\ StateFits' /\ J!WrappersCurrent'
  BY DEF HInv, BorrowFits, StateFits, J!WrappersCurrent, J!Valid, J!Facing
<1> QED BY <1>1, <1>2, <1>3 DEF HInv

LEMMA CacheWrapperKeeps ==
  ASSUME HInv, NEW t \in J!Callers, J!CacheWrapper(t)
  PROVE  HInv'
<1>1. wrap' \in [J!Callers -> J!Handles \cup {J!NoHandle}]
  BY DEF J!CacheWrapper, HInv, LockTypes
<1>2. \A h \in cache' : h \in cache \/ J!Valid(h)
  BY DEF J!CacheWrapper
<1> QED BY <1>1, <1>2, WrapperMakersKeep DEF J!CacheWrapper, J!heapVars, J!tableVars

LEMMA NativesKeep ==
  ASSUME J!JavaHandlesConstants, HInv, NEW t \in J!Callers, NEW h \in J!Handles,
         J!Native(t, h) \/ J!QueueMutation(t, h) \/ J!MakeWrapper(t, h) \/ J!ServeMutation(h)
  PROVE  HInv'
<1>1. CASE J!Native(t, h)
  BY <1>1, AcquireKeeps DEF J!Native, J!InJava, J!Idle, J!heapVars, J!tableVars
<1>2. CASE J!QueueMutation(t, h)
  BY <1>2, OutsideKeeps DEF J!QueueMutation, J!heapVars, J!tableVars
<1>3. CASE J!ServeMutation(h)
  <2>1. Host \in J!Callers
    BY DEF J!Callers
  <2>2. CASE J!Valid(h)
    BY <1>3, <2>1, <2>2, AcquireKeeps DEF J!ServeMutation, J!Idle, J!heapVars, J!tableVars
  <2>3. CASE ~J!Valid(h)
    BY <1>3, <2>3, OutsideKeeps DEF J!ServeMutation, J!heapVars, J!tableVars
  <2> QED BY <2>2, <2>3
<1>4. CASE J!MakeWrapper(t, h)
  <2>1. wrap' \in [J!Callers -> J!Handles \cup {J!NoHandle}] /\ cache' = cache
    BY <1>4 DEF J!MakeWrapper, HInv, LockTypes
  <2> QED BY <1>4, <2>1, WrapperMakersKeep DEF J!MakeWrapper, J!heapVars, J!tableVars
<1> QED BY <1>1, <1>2, <1>3, <1>4

LEMMA InitHInv == J!JavaHandlesConstants /\ J!Init => HInv
<1> SUFFICES ASSUME J!JavaHandlesConstants, J!Init PROVE HInv
  OBVIOUS
<1>1. /\ heap = [x \in Addrs |-> NoThing] /\ born = 0 /\ listed = {} /\ refs = {}
      /\ table = [h \in J!Handles |-> J!NoAddr] /\ next = 1 /\ given = [h \in J!Handles |-> 0]
      /\ late = {} /\ closed = {} /\ cache = {}
      /\ lock = J!Free /\ state = [x \in Addrs |-> J!Free]
      /\ plan = [t \in J!Callers |-> <<>>] /\ of = [t \in J!Callers |-> J!NoAddr]
      /\ gone = [t \in J!Callers |-> J!NoHandle]
      /\ borrow = [t \in J!Callers |-> J!NoBorrow]
      /\ wrap = [t \in J!Callers |-> J!NoHandle]
  BY DEF J!Init
<1>2. HeapTypes /\ Alive /\ Promise
  BY <1>1 DEF HeapTypes, Alive, Promise
<1>3. PlanTypes /\ Owned /\ Parting
  BY <1>1, PlansBegun DEF PlanTypes, Owned, Parting
<1>4. Handed
  BY <1>1 DEF Handed, TableTypes, ClosedLate, Home
<1>5. J!NoBorrow \in [h : J!Handles \cup {J!NoHandle}, a : Addrs \cup {J!NoAddr},
                      locked : BOOLEAN] /\ ~J!NoBorrow.locked
  BY DEF J!NoBorrow
<1>6. LockTypes /\ BorrowFits
  BY <1>1, <1>5 DEF LockTypes, BorrowFits
<1>7. StateFits /\ J!WrappersCurrent
  BY <1>1 DEF StateFits, J!WrappersCurrent
<1> QED BY <1>2, <1>3, <1>4, <1>6, <1>7 DEF HInv, World

LEMMA NextHInv == J!JavaHandlesConstants /\ HInv /\ [J!Next]_holds => HInv'
<1> SUFFICES ASSUME J!JavaHandlesConstants, HInv, [J!Next]_holds PROVE HInv'
  OBVIOUS
<1>1. CASE UNCHANGED holds
  BY <1>1, OutsideKeeps DEF holds
<1>2. ASSUME NEW x \in Addrs,
             \/ J!SpawnMob(x) \/ J!Damage(x) \/ J!RemoveMob(x)
             \/ \E s \in Sessions : J!Join(s, x)
             \/ \E t \in Mods : J!ListEntities(t, x)
      PROVE  HInv'
  BY <1>2, BeginningKeeps
<1>3. ASSUME NEW s \in Sessions, J!Speak(s) \/ J!Quit(s) PROVE HInv'
  BY <1>3, SpeakingKeeps
<1>4. ASSUME NEW t \in J!Callers, NEW h \in J!Handles,
             J!Native(t, h) \/ J!QueueMutation(t, h) \/ J!MakeWrapper(t, h)
      PROVE  HInv'
  BY <1>4, NativesKeep
<1>5. ASSUME NEW h \in J!Handles, J!ServeMutation(h) PROVE HInv'
  <2>1. Host \in J!Callers
    BY DEF J!Callers
  <2> QED BY <1>5, <2>1, NativesKeep
<1>6. ASSUME NEW t \in J!Callers,
             \/ J!RegisterListed(t) \/ J!Ask(t) \/ J!Answer(t) \/ J!List(t) \/ J!Unlist(t)
             \/ J!TakeState(t) \/ J!GiveState(t) \/ J!Invalidate(t) \/ J!EraseWrapper(t)
             \/ J!Drop(t) \/ J!LockState(t) \/ J!Release(t) \/ J!CacheWrapper(t)
      PROVE  HInv'
  <2>1. CASE J!RegisterListed(t) \/ J!Ask(t)
    BY <2>1, RegisterKeeps
  <2>2. CASE J!Answer(t)
    BY <2>2, AnswerKeeps
  <2>3. CASE J!List(t)
    BY <2>3, ListKeeps
  <2>4. CASE J!Unlist(t)
    BY <2>4, UnlistKeeps
  <2>5. CASE J!TakeState(t)
    BY <2>5, TakeStateKeeps
  <2>6. CASE J!GiveState(t)
    BY <2>6, GiveStateKeeps
  <2>7. CASE J!Invalidate(t)
    BY <2>7, InvalidateKeeps
  <2>8. CASE J!EraseWrapper(t)
    BY <2>8, EraseWrapperKeeps
  <2>9. CASE J!Drop(t)
    BY <2>9, DropKeeps
  <2>10. CASE J!LockState(t)
    BY <2>10, LockStateKeeps
  <2>11. CASE J!Release(t)
    BY <2>11, ReleaseKeeps
  <2>12. CASE J!CacheWrapper(t)
    BY <2>12, CacheWrapperKeeps
  <2> QED BY <1>6, <2>1, <2>2, <2>3, <2>4, <2>5, <2>6, <2>7, <2>8, <2>9, <2>10, <2>11, <2>12
<1> QED BY <1>1, <1>2, <1>3, <1>4, <1>5, <1>6 DEF J!Next, holds

LEMMA HInvSound == J!JavaHandlesConstants /\ HInv => J!HandlesSound
<1> SUFFICES ASSUME J!JavaHandlesConstants, HInv PROVE J!HandlesSound
  OBVIOUS
<1>1. Home /\ LockTypes /\ BorrowFits /\ StateFits
  BY DEF HInv, Handed
<1>2. ASSUME NEW t \in J!Callers, borrow[t] # J!NoBorrow
      PROVE  /\ borrow[t].h \in J!Handles /\ table[borrow[t].h] = borrow[t].a
             /\ borrow[t].a \in Addrs /\ borrow[t].a # J!NoAddr
  BY <1>1, <1>2 DEF BorrowFits, J!JavaHandlesConstants, J!NoAddr, J!Free
<1>3. J!HandlesLeadHome
  <2>1. ASSUME NEW t \in J!Callers, borrow[t] # J!NoBorrow
        PROVE  J!LeadsHome(borrow[t].h, borrow[t].a)
    <3>1. /\ borrow[t].h \in J!Handles /\ table[borrow[t].h] = borrow[t].a
          /\ borrow[t].a # J!NoAddr
      BY <1>2, <2>1
    <3>2. J!LeadsHome(borrow[t].h, table[borrow[t].h])
      BY <1>1, <3>1 DEF Home
    <3> QED BY <3>1, <3>2
  <2> QED BY <1>1, <2>1 DEF J!HandlesLeadHome, J!Valid, Home
<1>4. J!NoRing
  BY <1>1, <1>2 DEF J!NoRing, StateFits
<1> QED BY <1>3, <1>4 DEF J!HandlesSound, HInv

-----------------------------------------------------------------------------
(* Execution (X).  Frames are counted from the outermost.                  *)

Frame(s, i) == s[Len(s) + 1 - i]
InFrame(f) == f.k = "each" /\ f.how.k = "in"

\* A source within the first n frames runs where the innermost execute in among
\* them puts it.
Placed(s, n, src) ==
    \A j \in 1 .. n :
        InFrame(Frame(s, j)) /\ (\A m \in j + 1 .. n : ~InFrame(Frame(s, m)))
            => src.dim = Frame(s, j).how.dim
Here(s, src) == Placed(s, Len(s), src)

Stacked(s, i) ==
    LET F == Frame(s, i)
    IN \/ F.k = "tick" /\ i = 1
       \/ F.k = "return run"
       \/ F.k = "function" /\ F.todo \in Seq(MCAllLines) /\ Placed(s, i, F.src)
       \/ /\ F.k = "each" /\ F.how \in MCAllLines /\ F.how.k \in X!Nests
          /\ Framed(F.todo) /\ \A n \in DOMAIN F.todo : Placed(s, i, F.todo[n])
Fine(s) == \A i \in 1 .. Len(s) : Stacked(s, i)

\* The same of a frame on top of a stack.
Sits(f, s) ==
    \/ f.k = "tick" /\ s = << >>
    \/ f.k = "return run"
    \/ f.k = "function" /\ f.todo \in Seq(MCAllLines) /\ Here(s, f.src)
    \/ /\ f.k = "each" /\ f.how \in MCAllLines /\ f.how.k \in X!Nests
       /\ Framed(f.todo)
       /\ \A n \in DOMAIN f.todo :
             IF f.how.k = "in" THEN f.todo[n].dim = f.how.dim ELSE Here(s, f.todo[n])

FunctionsIn(s) == {i \in 1 .. Len(s) : Frame(s, i).k = "function"}
Depth(s) == Cardinality(FunctionsIn(s))

LEMMA FrameCons ==
  ASSUME NEW s, Framed(s), NEW f
  PROVE  /\ Len(s) \in Nat /\ Len(Pushed(f, s)) = Len(s) + 1
         /\ Frame(Pushed(f, s), Len(s) + 1) = f
         /\ \A i \in 1 .. Len(s) : Frame(Pushed(f, s), i) = Frame(s, i)
<1> DEFINE n == Len(s)
           c == Pushed(f, s)
<1>1. n \in Nat
  BY FramedIs
<1>2. /\ Len(c) = n + 1 /\ c[1] = f
      /\ \A i \in 1 .. n : c[i + 1] = s[i]
  BY PushedIs
<1> HIDE DEF n, c
<1>3. \A j \in 1 .. n : c[n + 1 + 1 - j] = s[n + 1 - j]
  <2> TAKE j \in 1 .. n
  <2>1. n + 1 - j \in 1 .. n /\ (n + 1 - j) + 1 = n + 1 + 1 - j
    BY <1>1
  <2> QED
    BY <1>2, <2>1
<1>4. c[n + 1 + 1 - (n + 1)] = f
  BY <1>1, <1>2
<1> QED
  BY <1>1, <1>2, <1>3, <1>4 DEF Frame, c, n

LEMMA PlacedCons ==
  ASSUME NEW s, Framed(s), NEW f, NEW src
  PROVE  /\ \A i \in 0 .. Len(s) : Placed(Pushed(f, s), i, src) <=> Placed(s, i, src)
         /\ InFrame(f) => (Here(Pushed(f, s), src) <=> src.dim = f.how.dim)
         /\ ~InFrame(f) => (Here(Pushed(f, s), src) <=> Here(s, src))
<1> DEFINE n == Len(s)
           c == Pushed(f, s)
<1>1. /\ n \in Nat /\ Len(c) = n + 1 /\ Frame(c, n + 1) = f
      /\ \A i \in 1 .. n : Frame(c, i) = Frame(s, i)
  BY FrameCons
<1> HIDE DEF n, c
<1>2. \A i \in 0 .. n : Placed(c, i, src) <=> Placed(s, i, src)
  <2> TAKE i \in 0 .. n
  <2>1. \A j \in 1 .. i : Frame(c, j) = Frame(s, j)
    BY <1>1
  <2>2. \A j \in 1 .. i : \A m \in j + 1 .. i : Frame(c, m) = Frame(s, m)
    BY <1>1
  <2> QED BY <2>1, <2>2 DEF Placed
<1>3. ASSUME InFrame(f)
      PROVE  Placed(c, n + 1, src) <=> src.dim = f.how.dim
  <2>1. n + 1 \in 1 .. n + 1 /\ \A m \in (n + 1) + 1 .. n + 1 : FALSE
    BY <1>1
  <2>2. Placed(c, n + 1, src) => src.dim = f.how.dim
    BY <1>1, <1>3, <2>1 DEF Placed
  <2>3. \A j \in 1 .. n : n + 1 \in j + 1 .. n + 1
    BY <1>1
  <2>4. \A j \in 1 .. n + 1 : j \in 1 .. n \/ j = n + 1
    BY <1>1
  <2>5. src.dim = f.how.dim => Placed(c, n + 1, src)
    BY <1>1, <1>3, <2>3, <2>4 DEF Placed
  <2> QED BY <2>2, <2>5
<1>4. ASSUME ~InFrame(f)
      PROVE  Placed(c, n + 1, src) <=> Placed(c, n, src)
  <2>1. \A j \in 1 .. n + 1 : j \in 1 .. n \/ j = n + 1
    BY <1>1
  <2>2. \A j \in 1 .. n : \A m : m \in j + 1 .. n + 1 <=> m \in j + 1 .. n \/ m = n + 1
    BY <1>1
  <2>3. \A j \in 1 .. n : j \in 1 .. n + 1
    BY <1>1
  <2> QED BY <1>1, <1>4, <2>1, <2>2, <2>3 DEF Placed
<1>5. n \in 0 .. n
  BY <1>1
<1> QED
  BY <1>1, <1>2, <1>3, <1>4, <1>5 DEF Here, c, n

LEMMA FineCons ==
  ASSUME NEW s, Framed(s), NEW f
  PROVE  Fine(Pushed(f, s)) <=> Fine(s) /\ Sits(f, s)
<1> DEFINE n == Len(s)
           c == Pushed(f, s)
<1>1. /\ n \in Nat /\ Len(c) = n + 1 /\ Frame(c, n + 1) = f
      /\ \A i \in 1 .. n : Frame(c, i) = Frame(s, i)
  BY FrameCons
<1>2. \A src : \A i \in 1 .. n : Placed(c, i, src) <=> Placed(s, i, src)
  <2>1. \A i \in 1 .. n : i \in 0 .. n
    BY <1>1
  <2> QED BY <2>1, PlacedCons
<1>3. \A src : /\ InFrame(f) => (Placed(c, n + 1, src) <=> src.dim = f.how.dim)
               /\ ~InFrame(f) => (Placed(c, n + 1, src) <=> Here(s, src))
  <2> TAKE src
  <2>1. Here(c, src) <=> Placed(c, n + 1, src)
    BY <1>1 DEF Here
  <2> QED BY <2>1, PlacedCons
<1>4. n = 0 <=> s = << >>
  BY DEF Framed
<1> HIDE DEF n, c
<1>5. \A i \in 1 .. n : Stacked(c, i) <=> Stacked(s, i)
  BY <1>1, <1>2 DEF Stacked
<1>6. Stacked(c, n + 1) <=> Sits(f, s)
  <2>1. n + 1 = 1 <=> s = << >>
    BY <1>1, <1>4
  <2>2. CASE f.k = "each"
    BY <1>1, <1>3, <2>2 DEF Stacked, Sits, InFrame
  <2>3. CASE f.k # "each"
    BY <1>1, <1>3, <2>1, <2>3 DEF Stacked, Sits, InFrame
  <2> QED BY <2>2, <2>3
<1>7. \A i : i \in 1 .. n + 1 <=> i \in 1 .. n \/ i = n + 1
  BY <1>1
<1>8. Fine(c) <=> Fine(s) /\ Sits(f, s)
  BY <1>1, <1>5, <1>6, <1>7 DEF Fine, n
<1> QED BY <1>8 DEF c

LEMMA DepthCons ==
  ASSUME NEW s, Framed(s), NEW f
  PROVE  /\ Depth(s) \in Nat
         /\ Depth(Pushed(f, s)) = IF f.k = "function" THEN Depth(s) + 1 ELSE Depth(s)
<1> DEFINE n == Len(s)
           c == Pushed(f, s)
<1>1. /\ n \in Nat /\ Len(c) = n + 1 /\ Frame(c, n + 1) = f
      /\ \A i \in 1 .. n : Frame(c, i) = Frame(s, i)
  BY FrameCons
<1>2. IsFiniteSet(1 .. n)
  BY <1>1, FS_Interval
<1>3. IsFiniteSet(FunctionsIn(s)) /\ Depth(s) \in Nat
  BY <1>2, FS_Subset, FS_CardinalityType DEF FunctionsIn, Depth
<1> HIDE DEF c
<1>4. 1 .. n + 1 = (1 .. n) \cup {n + 1} /\ n + 1 \notin 1 .. n
  BY <1>1
<1>5. f.k = "function" => FunctionsIn(c) = FunctionsIn(s) \cup {n + 1}
  BY <1>1, <1>4 DEF FunctionsIn
<1>6. f.k # "function" => FunctionsIn(c) = FunctionsIn(s)
  BY <1>1, <1>4 DEF FunctionsIn
<1>7. n + 1 \notin FunctionsIn(s)
  BY <1>4 DEF FunctionsIn
<1>8. Cardinality(FunctionsIn(s) \cup {n + 1}) = Cardinality(FunctionsIn(s)) + 1
  BY <1>3, <1>7, FS_AddElement
<1> QED BY <1>3, <1>5, <1>6, <1>8 DEF Depth, c

LEMMA EmptyStack ==
  /\ Framed(<< >>) /\ Fine(<< >>) /\ Depth(<< >>) = 0 /\ Len(<< >>) = 0
  /\ \A src : Here(<< >>, src)
<1>1. Framed(<< >>) /\ Len(<< >>) = 0
  BY DEF Framed
<1>2. FunctionsIn(<< >>) = {}
  BY <1>1 DEF FunctionsIn
<1> QED BY <1>1, <1>2, FS_EmptySet DEF Fine, Depth, Here, Placed

\* The place that so many places of a set reach up to.
LEMMA RankIs ==
  ASSUME NEW I \in SUBSET Int, IsFiniteSet(I)
  PROVE  /\ \A i \in I : Cardinality({j \in I : j <= i}) \in 1 .. Cardinality(I)
         /\ \A i, k \in I :
               Cardinality({j \in I : j <= i}) = Cardinality({j \in I : j <= k}) => i = k
         /\ \A n \in 1 .. Cardinality(I) : \E i \in I : Cardinality({j \in I : j <= i}) = n
<1> DEFINE Upto(i) == {j \in I : j <= i}
           c == Cardinality(I)
           rank == [i \in I |-> Cardinality(Upto(i))]
<1>1. c \in Nat
  BY FS_CardinalityType
<1>2. \A i \in I : /\ IsFiniteSet(Upto(i)) /\ Cardinality(Upto(i)) \in Nat
                   /\ Cardinality(Upto(i)) <= c /\ Cardinality(Upto(i)) # 0
  <2> TAKE i \in I
  <2>1. Upto(i) \in SUBSET I /\ i \in Upto(i)
    OBVIOUS
  <2>2. IsFiniteSet(Upto(i)) /\ Cardinality(Upto(i)) <= c
    BY <2>1, FS_Subset
  <2> HIDE DEF Upto, c
  <2> QED BY <2>1, <2>2, FS_CardinalityType, FS_EmptySet
<1>3. \A i, k \in I : Cardinality(Upto(i)) = Cardinality(Upto(k)) => i = k
  <2>1. ASSUME NEW i \in I, NEW k \in I, i < k
        PROVE  Cardinality(Upto(i)) # Cardinality(Upto(k))
    <3>1. k <= k /\ ~(k <= i) /\ \A j \in I : j <= i => j <= k
      BY <2>1
    <3>2. Upto(i) \in SUBSET Upto(k) /\ k \in Upto(k) /\ k \notin Upto(i)
      BY <3>1
    <3> HIDE DEF Upto
    <3> QED BY <1>2, <3>2, FS_Subset
  <2>2. \A i, k \in I : i = k \/ i < k \/ k < i
    OBVIOUS
  <2> HIDE DEF Upto
  <2> QED BY <2>1, <2>2
<1>4. rank \in Injection(I, 1 .. c)
  <2> HIDE DEF Upto, c
  <2> QED BY <1>1, <1>2, <1>3 DEF Injection, IsInjective
<1>5. IsFiniteSet(1 .. c) /\ Cardinality(1 .. c) = c
  <2> HIDE DEF c
  <2> QED BY <1>1, FS_Interval
<1>6. rank \in Surjection(I, 1 .. c)
  <2> HIDE DEF rank
  <2> QED BY <1>4, <1>5, FS_Injection
<1>7. \A n \in 1 .. c : \E i \in I : rank[i] = n
  BY <1>6 DEF Surjection
<1>8. \A i \in I : Cardinality(Upto(i)) \in 1 .. c
  <2> HIDE DEF Upto, c
  <2> QED BY <1>1, <1>2
<1> QED BY <1>3, <1>7, <1>8

LEMMA SameCount == \A S : X!Cardinality(S) = Cardinality(S)
BY DEF X!Cardinality, Cardinality

LEMMA FunctionFramed ==
  ASSUME NEW n \in Nat, NEW s, s = [i \in 1 .. n |-> s[i]]
  PROVE  Framed(s) /\ Len(s) = n /\ DOMAIN s = 1 .. n
<1> DEFINE T == {s[i] : i \in 1 .. n}
<1>1. \A i \in 1 .. n : s[i] \in T
  OBVIOUS
<1> HIDE DEF T
<1>2. s \in [1 .. n -> T]
  BY <1>1
<1>3. s \in Seq(T)
  BY <1>2, SeqDef
<1>4. DOMAIN s = 1 .. n
  BY <1>2
<1> QED BY <1>3, <1>4, FramedSeq

\* Some entries of the schedule, in their order, are those entries.
LEMMA InOrderIs ==
  ASSUME Framed(scheduled), NEW I \in SUBSET DOMAIN scheduled
  PROVE  /\ Framed(X!InOrder(I))
         /\ \A n \in DOMAIN X!InOrder(I) : \E i \in I : X!InOrder(I)[n] = scheduled[i]
         /\ \A i \in I : \E n \in DOMAIN X!InOrder(I) : X!InOrder(I)[n] = scheduled[i]
<1> DEFINE c == Cardinality(I)
           Rank(i) == X!Cardinality({j \in I : j <= i})
           At(n) == CHOOSE i \in I : Rank(i) = n
           o == X!InOrder(I)
<1>1. o = [n \in 1 .. c |-> scheduled[At(n)]]
  BY SameCount DEF X!InOrder
<1>2. I \in SUBSET Int /\ IsFiniteSet(I)
  <2>1. IsFiniteSet(DOMAIN scheduled) /\ DOMAIN scheduled \subseteq Int
    BY FramedIs, FS_Interval
  <2> QED BY <2>1, FS_Subset
<1>3. /\ \A i \in I : Rank(i) \in 1 .. c
      /\ \A i, k \in I : Rank(i) = Rank(k) => i = k
      /\ \A n \in 1 .. c : \E i \in I : Rank(i) = n
  <2>1. \A i : Rank(i) = Cardinality({j \in I : j <= i})
    BY SameCount
  <2>2. /\ \A i \in I : Cardinality({j \in I : j <= i}) \in 1 .. Cardinality(I)
        /\ \A i, k \in I :
              Cardinality({j \in I : j <= i}) = Cardinality({j \in I : j <= k}) => i = k
        /\ \A n \in 1 .. Cardinality(I) : \E i \in I : Cardinality({j \in I : j <= i}) = n
    BY <1>2, RankIs
  <2> HIDE DEF Rank
  <2> QED BY <2>1, <2>2
<1>4. c \in Nat
  BY <1>2, FS_CardinalityType
<1> HIDE DEF c, Rank, o
<1>5. \A n \in 1 .. c : At(n) \in I /\ Rank(At(n)) = n
  BY <1>3
<1>6. \A i \in I : At(Rank(i)) = i
  BY <1>3, <1>5
<1> HIDE DEF At
<1>7. DOMAIN o = 1 .. c /\ \A n \in 1 .. c : o[n] = scheduled[At(n)]
  BY <1>1
<1>8. Framed(o)
  <2>1. o = [n \in 1 .. c |-> o[n]]
    BY <1>1
  <2> QED BY <1>4, <2>1, FunctionFramed
<1> QED BY <1>3, <1>5, <1>6, <1>7, <1>8 DEF o

\* The players that execute finds.
LEMMA TargetsAre ==
  ASSUME X!ExecutionConstants, present \subseteq Players
  PROVE  \E n \in Nat : DOMAIN X!Targets = 1 .. n
<1> DEFINE S == cur.line.whom \cap present
           n == Cardinality(S)
<1>1. IsFiniteSet(Players)
  BY DEF X!ExecutionConstants, X!IsFiniteSet, IsFiniteSet
<1>2. S \in SUBSET Players
  OBVIOUS
<1>3. n \in Nat /\ ExistsBijection(1 .. n, S)
  <2> HIDE DEF S
  <2>1. IsFiniteSet(S)
    BY <1>1, <1>2, FS_Subset
  <2> QED BY <2>1, FS_CardinalityType
<1>4. X!Targets = CHOOSE f \in [1 .. n -> S] : X!IsInjective(f)
  BY SameCount DEF X!Targets, X!SetToSeq
<1> HIDE DEF S, n
<1>5. PICK f \in [1 .. n -> S] : X!IsInjective(f)
  BY <1>3 DEF ExistsBijection, Bijection, Injection, X!IsInjective, IsInjective
<1>6. X!Targets \in [1 .. n -> S]
  BY <1>4, <1>5
<1> QED BY <1>3, <1>6

\* A stack on which all is in place, with so many functions.
Good(s, d) == Framed(s) /\ Fine(s) /\ d = Depth(s)

LEMMA GoodPush ==
  ASSUME NEW s, NEW d, Good(s, d), NEW f, Sits(f, s)
  PROVE  /\ d \in Nat /\ Pushed(f, s) # << >>
         /\ Good(Pushed(f, s), IF f.k = "function" THEN d + 1 ELSE d)
BY PushedIs, FineCons, DepthCons DEF Good

LEMMA GoodPop ==
  ASSUME NEW s, NEW d, Good(s, d), s # << >>
  PROVE  /\ s = Pushed(Head(s), Tail(s)) /\ Sits(Head(s), Tail(s))
         /\ d \in Nat
         /\ Head(s).k = "function" => d > 0 /\ Good(Tail(s), d - 1)
         /\ Head(s).k # "function" => Good(Tail(s), d)
<1>1. s = Pushed(Head(s), Tail(s)) /\ Framed(Tail(s))
  BY Uncons DEF Good
<1>2. Fine(Tail(s)) /\ Sits(Head(s), Tail(s))
  BY <1>1, FineCons DEF Good
<1>3. /\ Depth(Tail(s)) \in Nat
      /\ d = IF Head(s).k = "function" THEN Depth(Tail(s)) + 1 ELSE Depth(Tail(s))
  BY <1>1, DepthCons DEF Good
<1> QED BY <1>1, <1>2, <1>3 DEF Good

\* What holds on top of a stack when a frame is put on it, or off.
LEMMA HereIs ==
  ASSUME NEW s, NEW d, Good(s, d), NEW f, NEW src
  PROVE  /\ InFrame(f) => (Here(Pushed(f, s), src) <=> src.dim = f.how.dim)
         /\ ~InFrame(f) => (Here(Pushed(f, s), src) <=> Here(s, src))
BY PlacedCons DEF Good

LEMMA OnlyFrame ==
  ASSUME NEW f
  PROVE  <<f>> = Pushed(f, << >>) /\ Good(<< >>, 0) /\ \A src : Here(<< >>, src)
<1>1. <<f>> = <<f>> \o << >>
  BY ConcatEmptySeq
<1> QED BY <1>1, EmptyStack DEF Pushed, Good

\* The result of a function is that of its own run, and the dimension of a line
\* that of the execute around it.
Timely ==
    /\ Framed(scheduled) /\ now \in Nat
    /\ \A i \in DOMAIN scheduled :
          /\ scheduled[i].due \in Int
          /\ scheduled[i].due > now \/ scheduled[i].made = now
Loaded == \A f \in DOMAIN functions : functions[f] \in Seq(MCAllLines)
Levels ==
    /\ Good(runs, depth) /\ depth <= MaxRecursion
    /\ depth > 0 /\ ret.has => returned
Underway ==
    /\ at \in {"idle", "run", "back"} /\ (at = "idle" => runs = << >>)
    /\ at = "run" => cur.line \in MCAllLines /\ Here(runs, cur.src)
RInv == present \subseteq Players /\ Timely /\ Loaded /\ Levels /\ Underway

USE DEF X!Outside, X!Tables, X!Flags

LEMMA TimelyStays == Timely /\ UNCHANGED <<scheduled, now>> => Timely'
BY DEF Timely, Framed

LEMMA LoadedStays == Loaded /\ UNCHANGED functions => Loaded'
BY DEF Loaded

LEMMA LevelsStay == Levels /\ UNCHANGED <<runs, X!Flags>> => Levels'
BY DEF Levels

LEMMA GoodStays == \A s, d : Good(s, d) /\ runs' = s /\ depth' = d => Good(runs, depth)'
OBVIOUS

LEMMA HereStays == \A s, src : Here(s, src) /\ runs' = s /\ cur'.src = src => Here(runs, cur.src)'
OBVIOUS

LEMMA FunctionSits ==
  ASSUME NEW s, NEW src, Here(s, src), NEW todo \in Seq(MCAllLines), NEW last
  PROVE  /\ Sits(X!FunctionFrame(src, todo, last), s)
         /\ X!FunctionFrame(src, todo, last).k = "function"
         /\ ~InFrame(X!FunctionFrame(src, todo, last))
BY DEF Sits, X!FunctionFrame, InFrame

LEMMA TickSits ==
  ASSUME NEW todo
  PROVE  /\ Sits(X!TickFrame(todo), << >>) /\ X!TickFrame(todo).k = "tick"
         /\ ~InFrame(X!TickFrame(todo))
BY DEF Sits, X!TickFrame, InFrame

LEMMA ReturnSits ==
  ASSUME NEW s
  PROVE  Sits(X!ReturnFrame, s) /\ X!ReturnFrame.k = "return run" /\ ~InFrame(X!ReturnFrame)
BY DEF Sits, X!ReturnFrame, InFrame

LEMMA EachSits ==
  ASSUME NEW s, NEW how \in MCAllLines, how.k \in X!Nests, NEW todo, Framed(todo), NEW total,
         \A n \in DOMAIN todo :
            IF how.k = "in" THEN todo[n].dim = how.dim ELSE Here(s, todo[n])
  PROVE  /\ Sits(X!EachFrame(how, todo, total), s)
         /\ X!EachFrame(how, todo, total).k = "each"
         /\ InFrame(X!EachFrame(how, todo, total)) <=> how.k = "in"
         /\ X!EachFrame(how, todo, total).how = how
BY DEF Sits, X!EachFrame, InFrame

\* A function begins on a stack that has room for it.
LEMMA BegunKeeps ==
  ASSUME Loaded, NEW s, Good(s, depth), depth < MaxRecursion, MaxRecursion \in Nat,
         NEW f \in DOMAIN functions, NEW src, Here(s, src), X!Begun(f, src, s)
  PROVE  Levels'
<1> DEFINE F == X!FunctionFrame(src, functions[f], 0)
<1>1. Sits(F, s) /\ F.k = "function"
  BY FunctionSits DEF Loaded
<1> HIDE DEF F
<1>2. Good(Pushed(F, s), depth + 1) /\ depth \in Nat
  BY <1>1, GoodPush
<1>3. runs' = Pushed(F, s) /\ depth' = depth + 1 /\ ret' = X!NoReturn
      /\ returned' = (returned /\ depth > 0)
  BY DEF X!Begun, Pushed, F
<1>4. Good(runs, depth)'
  BY <1>2, <1>3, GoodStays
<1>5. ret'.has = FALSE
  BY <1>3 DEF X!NoReturn
<1> QED BY <1>2, <1>3, <1>4, <1>5 DEF Levels

\* A step that leaves the flags alone and puts another stack as deep in place.
LEMMA DepthStays ==
  ASSUME Levels, NEW s, Good(s, depth), runs' = s, UNCHANGED X!Flags
  PROVE  Levels'
BY GoodStays DEF Levels

-----------------------------------------------------------------------------
(* The steps of Execution.                                                 *)

LEMMA Ready ==
  ASSUME X!ExecutionConstants
  PROVE  /\ MCLines \subseteq MCAllLines /\ None \notin Dims /\ MaxRecursion \in Nat \ {0}
         /\ \A l \in MCAllLines :
               /\ l.k \in X!Nests \cup {"return run"} => l.inner \in MCAllLines
               /\ l.k = "in" => l.dim \in Dims
               /\ l.k = "schedule" => l.t \in Nat
BY DEF X!ExecutionConstants

LEMMA BottomTick ==
  ASSUME NEW s, NEW d, Good(s, d), s # << >>, Head(s).k = "tick"
  PROVE  Tail(s) = << >> /\ d = 0
<1>1. Sits(Head(s), Tail(s)) /\ Good(Tail(s), d)
  BY GoodPop
<1>2. Tail(s) = << >>
  BY <1>1 DEF Sits
<1>3. Good(<< >>, d)
  BY <1>1, <1>2
<1> QED BY <1>2, <1>3, EmptyStack DEF Good

LEMMA EnterKeeps ==
  ASSUME X!ExecutionConstants, RInv, NEW line \in MCLines, NEW who, X!Enter(line, who)
  PROVE  RInv'
<1>1. /\ at = "idle" /\ at' = "run" /\ cur' = [line |-> line, src |-> X!Source(who, None)]
      /\ UNCHANGED <<present, now, runs, packs, functions, scheduled, depth, ret, returned>>
  BY DEF X!Enter, X!Going
<1>2. runs = << >>
  BY <1>1 DEF RInv, Underway
<1>3. cur'.line = line /\ line \in MCAllLines
  BY <1>1, Ready
<1>4. Here(runs, cur.src)'
  BY <1>1, <1>2, EmptyStack, HereStays
<1>5. Underway'
  BY <1>1, <1>3, <1>4 DEF Underway
<1> QED BY <1>1, <1>5, TimelyStays, LoadedStays, LevelsStay DEF RInv

LEMMA LeaveKeepsRuns ==
  ASSUME RInv, NEW p, X!Leave(p)
  PROVE  RInv'
<1>1. /\ present' \subseteq present
      /\ UNCHANGED <<at, cur, now, runs, functions, scheduled, depth, ret, returned>>
  BY DEF X!Leave
<1>2. Underway'
  BY <1>1, HereStays DEF RInv, Underway
<1> QED BY <1>1, <1>2, TimelyStays, LoadedStays, LevelsStay DEF RInv

LEMMA TickKeeps ==
  ASSUME RInv, X!Tick
  PROVE  RInv'
<1> DEFINE due == X!DueBy(now + 1)
           left == DOMAIN scheduled \ due
           o == X!InOrder(left)
           F == X!TickFrame(X!InOrder(due))
<1>1. /\ at = "idle" /\ now' = now + 1 /\ scheduled' = o /\ runs' = <<F>>
      /\ at' = "back" /\ UNCHANGED <<present, functions, depth, ret, returned>>
  <2>1. now' = now + 1 /\ X!DueBy(now') = due
    BY DEF X!Tick
  <2> QED BY <2>1 DEF X!Tick, X!Back
<1>2. Timely'
  <2>1. /\ Framed(scheduled) /\ now \in Nat
        /\ \A i \in DOMAIN scheduled : scheduled[i].due \in Int
    BY DEF RInv, Timely
  <2>2. /\ Framed(o)
        /\ \A n \in DOMAIN o : \E i \in left : o[n] = scheduled[i]
    BY <2>1, InOrderIs
  <2>3. \A i \in left : scheduled[i].due \in Int /\ scheduled[i].due > now + 1
    BY <2>1 DEF X!DueBy
  <2> HIDE DEF o, left
  <2>4. \A n \in DOMAIN o : o[n].due \in Int /\ o[n].due > now + 1
    BY <2>2, <2>3
  <2>5. now' \in Nat /\ Framed(scheduled')
    BY <1>1, <2>1, <2>2
  <2> QED BY <1>1, <2>4, <2>5 DEF Timely
<1> HIDE DEF F
<1>3. Levels'
  <2>1. runs = << >> /\ Good(runs, depth)
    BY <1>1 DEF RInv, Underway, Levels
  <2>2. depth = 0
    BY <2>1, EmptyStack DEF Good
  <2>3. Sits(F, << >>) /\ F.k = "tick"
    BY TickSits DEF F
  <2>4. Good(Pushed(F, << >>), depth) /\ runs' = Pushed(F, << >>)
    BY <1>1, <2>2, <2>3, OnlyFrame, GoodPush
  <2> QED BY <1>1, <2>4, DepthStays DEF RInv
<1>4. Underway'
  BY <1>1 DEF Underway
<1> QED BY <1>1, <1>2, <1>3, <1>4, LoadedStays DEF RInv

LEMMA RunDueKeeps ==
  ASSUME X!ExecutionConstants, RInv, X!RunDue
  PROVE  RInv'
<1> DEFINE f == Head(Head(runs).todo).f
           T == X!TickFrame(Tail(Head(runs).todo))
           under == <<T>> \o X!Under
<1>1. /\ at = "back" /\ runs # << >> /\ Head(runs).k = "tick" /\ at' = "back"
      /\ UNCHANGED <<present, now, functions, scheduled>>
      /\ IF f \in DOMAIN functions THEN X!Begun(f, X!Source(Console, None), under)
         ELSE runs' = under /\ UNCHANGED X!Flags
  BY DEF X!RunDue, X!On, X!Back
<1>2. Good(runs, depth) /\ depth <= MaxRecursion
  BY DEF RInv, Levels
<1>3. Tail(runs) = << >> /\ depth = 0
  BY <1>1, <1>2, BottomTick
<1>4. Sits(T, << >>) /\ T.k = "tick" /\ ~InFrame(T)
  BY TickSits
<1> HIDE DEF T
<1>5. under = Pushed(T, << >>)
  BY <1>3 DEF Pushed, X!Under
<1>6. Good(under, depth) /\ \A src : Here(under, src)
  <2>1. Good(<< >>, depth) /\ \A src : Here(<< >>, src)
    BY <1>3, OnlyFrame
  <2>2. Good(Pushed(T, << >>), depth)
    BY <1>4, <2>1, GoodPush
  <2>3. \A src : Here(Pushed(T, << >>), src)
    BY <1>4, <2>1, HereIs
  <2> QED BY <1>5, <2>2, <2>3
<1> HIDE DEF under, f
<1>7. Levels'
  <2>1. CASE f \in DOMAIN functions
    <3>1. X!Begun(f, X!Source(Console, None), under) /\ Loaded
      BY <1>1, <2>1 DEF RInv
    <3>2. depth < MaxRecursion /\ MaxRecursion \in Nat
      <4>1. MaxRecursion \in Nat \ {0}
        BY Ready
      <4> QED BY <1>3, <4>1
    <3> QED BY <1>6, <2>1, <3>1, <3>2, BegunKeeps
  <2>2. CASE f \notin DOMAIN functions
    BY <1>1, <1>6, <2>2, DepthStays DEF RInv
  <2> QED BY <2>1, <2>2
<1>8. Underway'
  BY <1>1 DEF Underway
<1> QED BY <1>1, <1>7, <1>8, TimelyStays, LoadedStays DEF RInv

LEMMA DoneKeeps ==
  ASSUME RInv, X!Done
  PROVE  RInv'
<1>1. /\ runs = << >> \/ (X!On("tick") /\ Head(runs).todo = << >>)
      /\ runs' = << >> /\ at' = "idle"
      /\ UNCHANGED <<present, now, functions, scheduled, depth, ret, returned>>
  BY DEF X!Done
<1>2. Good(runs, depth)
  BY DEF RInv, Levels
<1>3. depth = 0
  BY <1>1, <1>2, BottomTick, EmptyStack DEF Good, X!On
<1>4. Levels'
  BY <1>1, <1>3, OnlyFrame, DepthStays DEF RInv
<1>5. Underway'
  BY <1>1 DEF Underway
<1> QED BY <1>1, <1>4, <1>5, TimelyStays, LoadedStays DEF RInv

\* What a function on top of the stack is.
LEMMA FunctionIs ==
  ASSUME NEW s, NEW d, Good(s, d), s # << >>, Head(s).k = "function"
  PROVE  /\ d \in Nat /\ d > 0 /\ Good(Tail(s), d - 1)
         /\ Head(s).todo \in Seq(MCAllLines) /\ Here(Tail(s), Head(s).src)
BY GoodPop DEF Sits

LEMMA NextLineKeeps ==
  ASSUME X!ExecutionConstants, RInv, X!NextLine
  PROVE  RInv'
<1> DEFINE F == Head(runs)
           line == Head(F.todo)
           G == X!FunctionFrame(F.src, Tail(F.todo), X!Latest)
           rest == <<G>> \o X!Under
<1>1. /\ at = "back" /\ runs # << >> /\ F.k = "function" /\ F.todo # << >>
      /\ UNCHANGED <<present, now, functions, scheduled>>
      /\ \/ line.k = "return" /\ X!Returns(line.v) /\ runs' = rest /\ at' = "back"
         \/ /\ line.k = "return run" /\ UNCHANGED X!Flags
            /\ runs' = <<X!ReturnFrame>> \o rest /\ X!Going(line.inner, F.src)
         \/ UNCHANGED X!Flags /\ runs' = rest /\ X!Going(line, F.src)
  BY DEF X!NextLine, X!On, X!Back
<1>2. /\ Good(runs, depth) /\ depth <= MaxRecursion
  BY DEF RInv, Levels
<1>3. /\ depth \in Nat /\ depth > 0 /\ Good(Tail(runs), depth - 1)
      /\ F.todo \in Seq(MCAllLines) /\ Here(Tail(runs), F.src)
  BY <1>1, <1>2, FunctionIs
<1>4. line \in MCAllLines /\ Tail(F.todo) \in Seq(MCAllLines)
  BY <1>1, <1>3, HeadTailProperties
<1>5. Sits(G, Tail(runs)) /\ G.k = "function" /\ ~InFrame(G)
  BY <1>3, <1>4, FunctionSits
<1> HIDE DEF G
<1>6. rest = Pushed(G, Tail(runs))
  BY DEF Pushed, X!Under
<1>7. Good(rest, depth) /\ Here(rest, F.src)
  <2>1. Good(Pushed(G, Tail(runs)), (depth - 1) + 1)
    BY <1>3, <1>5, GoodPush
  <2>2. (depth - 1) + 1 = depth
    BY <1>3
  <2>3. Here(Pushed(G, Tail(runs)), F.src)
    BY <1>3, <1>5, HereIs
  <2> HIDE DEF rest
  <2> QED BY <1>6, <2>1, <2>2, <2>3
<1> HIDE DEF rest, line, F
<1>8. Sits(X!ReturnFrame, rest) /\ X!ReturnFrame.k = "return run" /\ ~InFrame(X!ReturnFrame)
  BY ReturnSits
<1>9. /\ Good(<<X!ReturnFrame>> \o rest, depth) /\ Here(<<X!ReturnFrame>> \o rest, F.src)
  BY <1>7, <1>8, GoodPush, HereIs DEF Pushed
<1>10. Levels' /\ Underway'
  <2>1. CASE X!Returns(line.v) /\ runs' = rest /\ at' = "back"
    <3>1. Good(runs, depth)'
      BY <1>7, <2>1, GoodStays DEF X!Returns
    <3>2. returned' = TRUE /\ depth' = depth
      BY <1>3, <2>1 DEF X!Returns
    <3> QED BY <1>2, <2>1, <3>1, <3>2 DEF Levels, Underway
  <2>2. CASE /\ line.k = "return run" /\ UNCHANGED X!Flags
             /\ runs' = <<X!ReturnFrame>> \o rest /\ X!Going(line.inner, F.src)
    <3>1. Levels'
      BY <1>9, <2>2, DepthStays DEF RInv
    <3>2. at' = "run" /\ cur'.line = line.inner /\ cur'.src = F.src
      BY <2>2 DEF X!Going
    <3>3. line.inner \in MCAllLines
      BY <1>4, <2>2, Ready
    <3>4. Here(runs, cur.src)'
      BY <1>9, <2>2, <3>2, HereStays
    <3> QED BY <3>1, <3>2, <3>3, <3>4 DEF Underway
  <2>3. CASE UNCHANGED X!Flags /\ runs' = rest /\ X!Going(line, F.src)
    <3>1. Levels'
      BY <1>7, <2>3, DepthStays DEF RInv
    <3>2. at' = "run" /\ cur'.line = line /\ cur'.src = F.src
      BY <2>3 DEF X!Going
    <3>3. Here(runs, cur.src)'
      BY <1>7, <2>3, <3>2, HereStays
    <3> QED BY <1>4, <3>1, <3>2, <3>3 DEF Underway
  <2> QED BY <1>1, <2>1, <2>2, <2>3
<1> QED BY <1>1, <1>10, TimelyStays, LoadedStays DEF RInv

LEMMA ReturnRunKeeps ==
  ASSUME RInv, X!ReturnRun
  PROVE  RInv'
<1>1. /\ at = "back" /\ runs # << >> /\ Head(runs).k = "return run"
      /\ runs' = Tail(runs) /\ at' = "back" /\ X!Returns(X!Value(res))
      /\ UNCHANGED <<present, now, functions, scheduled>>
  BY DEF X!ReturnRun, X!On, X!Back, X!Under
<1>2. Good(Tail(runs), depth) /\ depth \in Nat
  BY <1>1, GoodPop DEF RInv, Levels
<1>3. depth' = depth /\ (depth > 0 => returned' = TRUE)
  BY <1>1 DEF X!Returns
<1>4. Good(runs, depth)'
  BY <1>1, <1>2, <1>3, GoodStays
<1>5. Levels'
  <2>1. depth <= MaxRecursion
    BY DEF RInv, Levels
  <2> QED BY <1>2, <1>3, <1>4, <2>1 DEF Levels
<1>6. Underway'
  BY <1>1 DEF Underway
<1> QED BY <1>1, <1>5, <1>6, TimelyStays, LoadedStays DEF RInv

LEMMA FunctionEndsKeeps ==
  ASSUME X!ExecutionConstants, RInv, X!FunctionEnds
  PROVE  RInv'
<1>1. /\ at = "back" /\ runs # << >> /\ Head(runs).k = "function"
      /\ runs' = Tail(runs) /\ at' = "back" /\ depth' = depth - 1
      /\ ret' = (IF depth = 1 THEN X!NoReturn ELSE ret)
      /\ UNCHANGED <<present, now, functions, scheduled, returned>>
  BY DEF X!FunctionEnds, X!On, X!Back, X!Under
<1>2. /\ Good(runs, depth) /\ depth <= MaxRecursion
      /\ (depth > 0 /\ ret.has => returned)
  BY DEF RInv, Levels
<1>3. depth \in Nat /\ depth > 0 /\ Good(Tail(runs), depth - 1)
  BY <1>1, <1>2, FunctionIs
<1>4. Good(runs, depth)'
  BY <1>1, <1>3, GoodStays
<1>5. MaxRecursion \in Nat
  BY Ready
<1>6. depth' > 0 => ret' = ret
  BY <1>1, <1>3
<1>7. Levels'
  BY <1>1, <1>2, <1>3, <1>4, <1>5, <1>6 DEF Levels
<1>8. Underway'
  BY <1>1 DEF Underway
<1> QED BY <1>1, <1>7, <1>8, TimelyStays, LoadedStays DEF RInv

\* A line that comes back at once.
LEMMA BackKeeps ==
  ASSUME RInv, at' = "back",
         UNCHANGED <<present, now, functions, scheduled, runs, X!Flags>>
  PROVE  RInv'
<1>1. Underway'
  BY DEF Underway
<1> QED BY <1>1, TimelyStays, LoadedStays, LevelsStay DEF RInv

LEMMA ReturnKeeps ==
  ASSUME RInv, X!Return
  PROVE  RInv'
<1>1. /\ at' = "back" /\ X!Returns(cur.line.v)
      /\ UNCHANGED <<present, now, functions, scheduled, runs>>
  BY DEF X!Return, X!Back
<1>2. Good(runs, depth) /\ depth <= MaxRecursion
  BY DEF RInv, Levels
<1>3. depth' = depth /\ (depth > 0 => returned' = TRUE)
  BY <1>1 DEF X!Returns
<1>4. Good(runs, depth)'
  BY <1>1, <1>2, <1>3, GoodStays
<1>5. Levels'
  BY <1>2, <1>3, <1>4 DEF Levels
<1>6. Underway'
  BY <1>1 DEF Underway
<1> QED BY <1>1, <1>5, <1>6, TimelyStays, LoadedStays DEF RInv

LEMMA FunctionKeeps ==
  ASSUME X!ExecutionConstants, RInv, X!Function
  PROVE  RInv'
<1> DEFINE f == cur.line.f
           src == X!Nested(X!Who)
<1>1. /\ at = "run" /\ at' = "back" /\ UNCHANGED <<present, now, functions, scheduled>>
      /\ \/ UNCHANGED <<runs, X!Flags>>
         \/ f \in DOMAIN functions /\ ~(depth >= MaxRecursion) /\ X!Begun(f, src, runs)
  BY DEF X!Function, X!Runs, X!Back
<1>2. Good(runs, depth) /\ Here(runs, cur.src)
  BY <1>1 DEF RInv, Levels, Underway
<1>3. src.dim = cur.src.dim
  BY DEF X!Nested, X!Source
<1>4. Here(runs, src)
  BY <1>2, <1>3 DEF Here, Placed
<1> HIDE DEF f, src
<1>5. Levels'
  <2>1. CASE UNCHANGED <<runs, X!Flags>>
    BY <2>1, LevelsStay DEF RInv
  <2>2. CASE f \in DOMAIN functions /\ ~(depth >= MaxRecursion) /\ X!Begun(f, src, runs)
    <3>1. MaxRecursion \in Nat
      BY Ready
    <3>2. depth \in Nat
      BY <1>2, DepthCons DEF Good
    <3>3. depth < MaxRecursion
      BY <2>2, <3>1, <3>2
    <3>4. Loaded
      BY DEF RInv
    <3> QED BY <1>2, <1>4, <2>2, <3>1, <3>3, <3>4, BegunKeeps
  <2> QED BY <1>1, <2>1, <2>2
<1>6. Underway'
  BY <1>1 DEF Underway
<1> QED BY <1>1, <1>5, <1>6, TimelyStays, LoadedStays DEF RInv

\* An entry more, between those that are due earlier and later.
Inserted(a, e, b) == a \o <<e>> \o b

LEMMA InsertIs ==
  ASSUME NEW a, Framed(a), NEW b, Framed(b), NEW e
  PROVE  LET c == Inserted(a, e, b)
         IN /\ Framed(c)
            /\ \A n \in DOMAIN c :
                  \/ c[n] = e
                  \/ \E i \in DOMAIN a : c[n] = a[i]
                  \/ \E i \in DOMAIN b : c[n] = b[i]
            /\ \A i \in DOMAIN a : \E n \in DOMAIN c : c[n] = a[i]
            /\ \A i \in DOMAIN b : \E n \in DOMAIN c : c[n] = b[i]
<1> DEFINE S == {a[i] : i \in DOMAIN a} \cup {b[i] : i \in DOMAIN b} \cup {e}
           ae == a \o <<e>>
           c == Inserted(a, e, b)
           m == Len(a)
           k == Len(b)
<1>1. a \in Seq(S) /\ b \in Seq(S) /\ <<e>> \in Seq(S) /\ Len(<<e>>) = 1 /\ <<e>>[1] = e
  BY DEF Framed
<1>2. m \in Nat /\ k \in Nat /\ DOMAIN a = 1 .. m /\ DOMAIN b = 1 .. k
  BY FramedIs
<1> HIDE DEF S
<1>3. /\ ae \in Seq(S) /\ Len(ae) = m + 1
      /\ \A i \in 1 .. m + 1 : ae[i] = IF i <= m THEN a[i] ELSE <<e>>[i - m]
  BY <1>1, ConcatProperties
<1>12. c = ae \o b
  BY DEF Inserted
<1> HIDE DEF ae, c
<1>4. /\ c \in Seq(S) /\ Len(c) = (m + 1) + k
      /\ \A i \in 1 .. (m + 1) + k : c[i] = IF i <= m + 1 THEN ae[i] ELSE b[i - (m + 1)]
  <2>1. /\ c \in Seq(S) /\ Len(c) = Len(ae) + Len(b)
        /\ \A i \in 1 .. Len(ae) + Len(b) : c[i] = IF i <= Len(ae) THEN ae[i] ELSE b[i - Len(ae)]
    <3>1. ae \in Seq(S) /\ b \in Seq(S)
      BY <1>1, <1>3
    <3> HIDE DEF m, k
    <3>2. /\ ae \o b \in Seq(S) /\ Len(ae \o b) = Len(ae) + Len(b)
          /\ \A i \in 1 .. Len(ae) + Len(b) :
                (ae \o b)[i] = IF i <= Len(ae) THEN ae[i] ELSE b[i - Len(ae)]
      BY <3>1, ConcatProperties
    <3> QED BY <1>12, <3>2
  <2> HIDE DEF m
  <2> QED BY <1>3, <2>1
<1> HIDE DEF m, k
<1>5. DOMAIN c = 1 .. (m + 1) + k
  BY <1>4
<1>6. \A i \in 1 .. m : i \in DOMAIN c /\ c[i] = a[i]
  BY <1>2, <1>3, <1>4, <1>5
<1>7. \A i \in 1 .. k : i + (m + 1) \in DOMAIN c /\ c[i + (m + 1)] = b[i]
  <2> TAKE i \in 1 .. k
  <2>1. i + (m + 1) \in 1 .. (m + 1) + k /\ ~(i + (m + 1) <= m + 1)
        /\ (i + (m + 1)) - (m + 1) = i
    BY <1>2
  <2>2. c[i + (m + 1)] = b[(i + (m + 1)) - (m + 1)]
    BY <1>4, <2>1
  <2> QED BY <1>5, <2>1, <2>2
<1>8. c[m + 1] = e
  <2>1. m + 1 \in 1 .. m + 1 /\ m + 1 \in 1 .. (m + 1) + k /\ ~(m + 1 <= m) /\ (m + 1) - m = 1
        /\ m + 1 <= m + 1
    BY <1>2
  <2>2. c[m + 1] = ae[m + 1]
    BY <1>4, <2>1
  <2>3. ae[m + 1] = <<e>>[(m + 1) - m]
    BY <1>3, <2>1
  <2> QED BY <1>1, <2>1, <2>2, <2>3
<1>9. \A n \in DOMAIN c : n \in 1 .. m \/ n = m + 1 \/ \E i \in 1 .. k : n = i + (m + 1)
  <2> TAKE n \in DOMAIN c
  <2>1. n \in 1 .. (m + 1) + k
    BY <1>5
  <2>2. n \in 1 .. m \/ n = m + 1 \/ (n - (m + 1) \in 1 .. k /\ n = (n - (m + 1)) + (m + 1))
    BY <1>2, <2>1
  <2> QED BY <2>2
<1>10. Framed(c)
  BY <1>4, FramedSeq
<1>11. \A n \in DOMAIN c :
          c[n] = e \/ (\E i \in 1 .. m : c[n] = a[i]) \/ (\E i \in 1 .. k : c[n] = b[i])
  BY <1>6, <1>7, <1>8, <1>9
<1> QED
  BY <1>2, <1>6, <1>7, <1>10, <1>11 DEF c

LEMMA ScheduleKeeps ==
  ASSUME X!ExecutionConstants, RInv, X!Schedule
  PROVE  RInv'
<1> DEFINE l == cur.line
           t == IF l.how = "default" /\ l.t <= 0 THEN 1 ELSE l.t
           kept == IF l.how = "append" THEN DOMAIN scheduled
                   ELSE {i \in DOMAIN scheduled : scheduled[i].f # l.f}
           a == X!InOrder(kept \cap X!DueBy(now + t))
           b == X!InOrder(kept \ X!DueBy(now + t))
           e == [f |-> l.f, due |-> now + t, made |-> now]
<1>1. /\ at = "run" /\ l.k = "schedule" /\ scheduled' = a \o <<e>> \o b /\ at' = "back"
      /\ UNCHANGED <<present, now, functions, runs, depth, ret, returned>>
  BY DEF X!Schedule, X!Runs, X!Back
<1>2. l.t \in Nat
  BY <1>1, Ready DEF RInv, Underway
<1>3. t \in Nat
  BY <1>2
<1>4. kept \in SUBSET DOMAIN scheduled
  OBVIOUS
<1>5. /\ Framed(scheduled) /\ now \in Nat
      /\ \A i \in DOMAIN scheduled :
            scheduled[i].due \in Int /\ (scheduled[i].due > now \/ scheduled[i].made = now)
  BY DEF RInv, Timely
<1>6. e.due = now + t /\ e.made = now
  OBVIOUS
<1> HIDE DEF kept, t, e
<1>7. /\ Framed(a) /\ \A n \in DOMAIN a : \E i \in DOMAIN scheduled : a[n] = scheduled[i]
  <2>1. kept \cap X!DueBy(now + t) \in SUBSET DOMAIN scheduled
    BY <1>4
  <2> QED BY <1>5, <2>1, InOrderIs
<1>8. /\ Framed(b) /\ \A n \in DOMAIN b : \E i \in DOMAIN scheduled : b[n] = scheduled[i]
  <2>1. kept \ X!DueBy(now + t) \in SUBSET DOMAIN scheduled
    BY <1>4
  <2> QED BY <1>5, <2>1, InOrderIs
<1> HIDE DEF a, b, l
<1>9. /\ Framed(scheduled')
      /\ \A n \in DOMAIN scheduled' :
            \/ scheduled'[n] = e
            \/ (\E i \in DOMAIN a : scheduled'[n] = a[i])
            \/ (\E i \in DOMAIN b : scheduled'[n] = b[i])
  <2>1. scheduled' = Inserted(a, e, b)
    BY <1>1 DEF Inserted
  <2> QED BY <1>7, <1>8, <2>1, InsertIs
<1>10. \A n \in DOMAIN scheduled' :
          scheduled'[n] = e \/ \E i \in DOMAIN scheduled : scheduled'[n] = scheduled[i]
  BY <1>7, <1>8, <1>9
<1>11. e.due \in Int /\ e.made = now
  BY <1>3, <1>5, <1>6
<1>12. Timely'
  BY <1>1, <1>5, <1>9, <1>10, <1>11 DEF Timely
<1>13. Underway'
  BY <1>1 DEF Underway
<1> QED BY <1>1, <1>12, <1>13, LoadedStays, LevelsStay DEF RInv

\* What a set of packs holds.
LEMMA IndexLoads ==
  ASSUME X!ExecutionConstants, NEW ps
  PROVE  \A f \in DOMAIN X!Index(ps) : X!Index(ps)[f] \in Seq(MCAllLines)
<1> DEFINE P == <<"a", "b">>
           Holders(f) == {i \in DOMAIN P : P[i] \in ps /\ f \in DOMAIN MCContent[P[i]]}
<1>1. X!Index(ps) = [f \in {g \in Ids : Holders(g) # {}} |->
                       MCContent[P[X!Max(Holders(f))]][f]]
  BY DEF X!Index
<1>2. DOMAIN P = {1, 2}
  OBVIOUS
<1>3. \A i \in DOMAIN P : \A f \in DOMAIN MCContent[P[i]] : MCContent[P[i]][f] \in Seq(MCAllLines)
  BY DEF X!ExecutionConstants, X!ToSet
<1> HIDE DEF P
<1>4. \A f : Holders(f) # {} => X!Max(Holders(f)) \in Holders(f)
  <2> SUFFICES ASSUME NEW S \in SUBSET {1, 2}, S # {} PROVE X!Max(S) \in S
    BY <1>2
  <2>1. \E x \in S : \A y \in S : x >= y
    <3>1. CASE 2 \in S
      BY <3>1
    <3>2. CASE 2 \notin S
      <4>1. S = {1}
        BY <3>2
      <4> QED BY <4>1
    <3> QED BY <3>1, <3>2
  <2> QED BY <2>1 DEF X!Max
<1>5. \A f : Holders(f) # {} => MCContent[P[X!Max(Holders(f))]][f] \in Seq(MCAllLines)
  BY <1>3, <1>4
<1> HIDE DEF Holders
<1> QED BY <1>1, <1>5

LEMMA PacksKeep ==
  ASSUME X!ExecutionConstants, RInv, X!Reload \/ X!Enable \/ X!Disable
  PROVE  RInv'
<1>1. /\ at' = "back" /\ (functions' = functions \/ \E ps : functions' = X!Index(ps))
      /\ UNCHANGED <<present, now, scheduled, runs, depth, ret, returned>>
  BY DEF X!Reload, X!Enable, X!Disable, X!Back
<1>2. Loaded'
  <2>1. CASE functions' = functions
    BY <2>1, LoadedStays DEF RInv
  <2>2. CASE \E ps : functions' = X!Index(ps)
    BY <2>2, IndexLoads DEF Loaded
  <2> QED BY <1>1, <2>1, <2>2
<1>3. Underway'
  BY <1>1 DEF Underway
<1> QED BY <1>1, <1>2, <1>3, TimelyStays, LevelsStay DEF RInv

LEMMA ForKeeps ==
  ASSUME RInv, at = "run", cur.line.k \in X!Nests, NEW srcs, Framed(srcs), X!For(srcs),
         \A n \in DOMAIN srcs :
            srcs[n].dim = IF cur.line.k = "in" THEN cur.line.dim ELSE cur.src.dim
  PROVE  RInv'
<1> DEFINE E == X!EachFrame(cur.line, srcs, 0)
<1>1. /\ runs' = Pushed(E, runs) /\ at' = "back"
      /\ UNCHANGED <<present, now, functions, scheduled, X!Flags>>
  BY DEF X!For, X!Back, Pushed
<1>2. Good(runs, depth) /\ Here(runs, cur.src) /\ cur.line \in MCAllLines
  BY DEF RInv, Levels, Underway
<1>3. \A n \in DOMAIN srcs :
         IF cur.line.k = "in" THEN srcs[n].dim = cur.line.dim ELSE Here(runs, srcs[n])
  BY <1>2 DEF Here, Placed
<1>4. Sits(E, runs) /\ E.k = "each"
  BY <1>2, <1>3, EachSits
<1> HIDE DEF E
<1>5. Good(Pushed(E, runs), depth)
  BY <1>2, <1>4, GoodPush
<1>6. Levels'
  BY <1>1, <1>5, DepthStays DEF RInv
<1>7. Underway'
  BY <1>1 DEF Underway
<1> QED BY <1>1, <1>6, <1>7, TimelyStays, LoadedStays DEF RInv

LEMMA OneFramed == \A x : Framed(<<x>>) /\ DOMAIN <<x>> = {1} /\ <<x>>[1] = x
BY DEF Framed

LEMMA NestedKeeps ==
  ASSUME RInv, X!Run \/ X!Store \/ X!Positioned \/ X!In
  PROVE  RInv'
<1>1. at = "run" /\ cur.line.k \in X!Nests
  BY DEF X!Run, X!Store, X!Positioned, X!In, X!Runs, X!Nests
<1>2. PICK src : /\ X!For(<<src>>)
                 /\ src.dim = IF cur.line.k = "in" THEN cur.line.dim ELSE cur.src.dim
  BY DEF X!Run, X!Store, X!Positioned, X!In, X!Runs, X!Nested, X!Source
<1>3. Framed(<<src>>) /\ \A n \in DOMAIN <<src>> : <<src>>[n] = src
  BY OneFramed
<1> QED BY <1>1, <1>2, <1>3, ForKeeps

LEMMA ConditionKeeps ==
  ASSUME RInv, X!Condition
  PROVE  RInv'
<1> DEFINE src == X!Source(X!Who, cur.src.dim)
<1>1. at = "run" /\ cur.line.k \in X!Nests /\ cur.line.k # "in"
  BY DEF X!Condition, X!Runs, X!Nests
<1>2. src.dim = cur.src.dim
  BY DEF X!Source
<1>3. Framed(<<src>>) /\ \A n \in DOMAIN <<src>> : <<src>>[n] = src
  BY OneFramed
<1>4. \/ X!For(<<src>>)
      \/ at' = "back" /\ UNCHANGED <<present, now, functions, scheduled, runs, X!Flags>>
  BY DEF X!Condition, X!Back
<1> HIDE DEF src
<1> QED BY <1>1, <1>2, <1>3, <1>4, ForKeeps, BackKeeps

LEMMA TargetsKeep ==
  ASSUME X!ExecutionConstants, RInv, X!As \/ X!At \/ X!Rotated
  PROVE  RInv'
<1>1. at = "run" /\ cur.line.k \in X!Nests /\ cur.line.k # "in"
  BY DEF X!As, X!At, X!Rotated, X!Runs, X!Nests
<1>2. PICK m \in Nat : DOMAIN X!Targets = 1 .. m
  BY TargetsAre DEF RInv
<1>3. ASSUME NEW srcs, X!For(srcs), srcs = [i \in 1 .. m |-> srcs[i]],
             \A i \in 1 .. m : srcs[i].dim = cur.src.dim
      PROVE  RInv'
  <2>1. Framed(srcs) /\ DOMAIN srcs = 1 .. m
    BY <1>3, FunctionFramed
  <2> QED BY <1>1, <1>3, <2>1, ForKeeps
<1>4. CASE X!As
  <2> DEFINE srcs == [i \in 1 .. m |-> X!Nested(X!Targets[i])]
  <2>1. X!For(srcs)
    BY <1>2, <1>4 DEF X!As
  <2>2. srcs = [i \in 1 .. m |-> srcs[i]] /\ \A i \in 1 .. m : srcs[i].dim = cur.src.dim
    BY DEF X!Nested, X!Source
  <2> HIDE DEF srcs
  <2> QED BY <1>3, <2>1, <2>2
<1>5. CASE X!At
  <2> DEFINE srcs == [i \in 1 .. m |->
               X!Source(IF X!Who = Console THEN X!Targets[i] ELSE X!Who, cur.src.dim)]
  <2>1. X!For(srcs)
    BY <1>2, <1>5 DEF X!At
  <2>2. srcs = [i \in 1 .. m |-> srcs[i]] /\ \A i \in 1 .. m : srcs[i].dim = cur.src.dim
    BY DEF X!Source
  <2> HIDE DEF srcs
  <2> QED BY <1>3, <2>1, <2>2
<1>6. CASE X!Rotated
  <2> DEFINE srcs == [i \in 1 .. m |-> X!Source(X!Who, cur.src.dim)]
  <2>1. X!For(srcs)
    BY <1>2, <1>6 DEF X!Rotated
  <2>2. srcs = [i \in 1 .. m |-> srcs[i]] /\ \A i \in 1 .. m : srcs[i].dim = cur.src.dim
    BY DEF X!Source
  <2> HIDE DEF srcs
  <2> QED BY <1>3, <2>1, <2>2
<1> QED BY <1>4, <1>5, <1>6

LEMMA EachGoesOnKeeps ==
  ASSUME X!ExecutionConstants, RInv, X!EachGoesOn
  PROVE  RInv'
<1> DEFINE E == Head(runs)
           total == E.total + X!Counted(E.how)
           G == X!EachFrame(E.how, Tail(E.todo), total)
           src == Head(E.todo)
<1>1. /\ at = "back" /\ runs # << >> /\ E.k = "each"
      /\ UNCHANGED <<present, now, functions, scheduled, X!Flags>>
      /\ \/ runs' = Tail(runs) /\ at' = "back"
         \/ /\ E.todo # << >> /\ runs' = <<G>> \o Tail(runs)
            /\ X!Going(E.how.inner, src)
  BY DEF X!EachGoesOn, X!On, X!Back, X!Under
<1>2. Good(runs, depth)
  BY DEF RInv, Levels
<1>3. /\ Good(Tail(runs), depth)
      /\ E.how \in MCAllLines /\ E.how.k \in X!Nests /\ Framed(E.todo)
      /\ \A n \in DOMAIN E.todo :
            IF E.how.k = "in" THEN E.todo[n].dim = E.how.dim ELSE Here(Tail(runs), E.todo[n])
  BY <1>1, <1>2, GoodPop DEF Sits
<1>4. CASE runs' = Tail(runs) /\ at' = "back"
  <2>1. Levels'
    BY <1>1, <1>3, <1>4, DepthStays DEF RInv
  <2>2. Underway'
    BY <1>4 DEF Underway
  <2> QED BY <1>1, <2>1, <2>2, TimelyStays, LoadedStays DEF RInv
<1>5. CASE /\ E.todo # << >> /\ runs' = <<G>> \o Tail(runs)
           /\ X!Going(E.how.inner, src)
  <2>1. /\ Framed(Tail(E.todo)) /\ 1 \in DOMAIN E.todo /\ src = E.todo[1]
        /\ \A n \in DOMAIN Tail(E.todo) : \E i \in DOMAIN E.todo : Tail(E.todo)[n] = E.todo[i]
    <3>1. /\ 1 \in DOMAIN E.todo /\ Head(E.todo) = E.todo[1] /\ Framed(Tail(E.todo))
          /\ \A i \in 1 .. Len(Tail(E.todo)) :
                Tail(E.todo)[i] = E.todo[i + 1] /\ i + 1 \in DOMAIN E.todo
      BY <1>3, <1>5, Uncons
    <3>2. DOMAIN Tail(E.todo) = 1 .. Len(Tail(E.todo))
      BY <3>1, FramedIs
    <3> QED BY <3>1, <3>2
  <2>2. \A n \in DOMAIN Tail(E.todo) :
           IF E.how.k = "in" THEN Tail(E.todo)[n].dim = E.how.dim
           ELSE Here(Tail(runs), Tail(E.todo)[n])
    BY <1>3, <2>1
  <2>3. /\ Sits(G, Tail(runs)) /\ G.k = "each" /\ G.how = E.how
        /\ InFrame(G) <=> E.how.k = "in"
    <3> DEFINE how == E.how
               todo == Tail(E.todo)
    <3>1. /\ how \in MCAllLines /\ how.k \in X!Nests /\ Framed(todo)
          /\ \A n \in DOMAIN todo :
                IF how.k = "in" THEN todo[n].dim = how.dim ELSE Here(Tail(runs), todo[n])
      BY <1>3, <2>1, <2>2
    <3> HIDE DEF total, how, todo
    <3>2. LET F == X!EachFrame(how, todo, total)
          IN Sits(F, Tail(runs)) /\ F.k = "each" /\ (InFrame(F) <=> how.k = "in") /\ F.how = how
      BY <3>1, EachSits
    <3> QED BY <3>2 DEF how, todo
  <2>4. runs' = Pushed(G, Tail(runs))
    BY <1>5 DEF Pushed
  <2>5. IF E.how.k = "in" THEN src.dim = E.how.dim ELSE Here(Tail(runs), src)
    BY <1>3, <2>1
  <2>6. at' = "run" /\ cur'.line = E.how.inner /\ cur'.src = src
    BY <1>5 DEF X!Going
  <2>7. E.how.inner \in MCAllLines
    BY <1>3, Ready
  <2> HIDE DEF G, src, E
  <2>8. Good(Pushed(G, Tail(runs)), depth)
    BY <1>3, <2>3, GoodPush
  <2>9. Here(Pushed(G, Tail(runs)), src)
    BY <1>3, <2>3, <2>5, HereIs
  <2>10. Levels'
    BY <1>1, <2>4, <2>8, DepthStays DEF RInv
  <2>11. Here(runs, cur.src)'
    BY <2>4, <2>6, <2>9, HereStays
  <2>12. Underway'
    BY <2>6, <2>7, <2>11 DEF Underway
  <2> QED BY <1>1, <2>10, <2>12, TimelyStays, LoadedStays DEF RInv
<1> QED BY <1>1, <1>4, <1>5

LEMMA PlainKeeps ==
  ASSUME RInv, X!Plain
  PROVE  RInv'
<1>1. at' = "back" /\ UNCHANGED <<present, now, functions, scheduled, runs, X!Flags>>
  BY DEF X!Plain, X!Back
<1> QED BY <1>1, BackKeeps

LEMMA InitRInv == X!ExecutionConstants /\ X!Init => RInv
<1> SUFFICES ASSUME X!ExecutionConstants, X!Init PROVE RInv
  OBVIOUS
<1>1. /\ present = Players /\ scheduled = << >> /\ now = 0 /\ depth = 0 /\ runs = << >>
      /\ at = "idle" /\ \E ps : functions = X!Index(ps)
  BY DEF X!Init
<1>2. Timely
  BY <1>1 DEF Timely, Framed
<1>3. Loaded
  BY <1>1, IndexLoads DEF Loaded
<1>4. Levels
  <2>1. MaxRecursion \in Nat
    BY Ready
  <2> QED BY <1>1, <2>1, OnlyFrame DEF Levels
<1>5. Underway
  BY <1>1 DEF Underway
<1> QED BY <1>1, <1>2, <1>3, <1>4, <1>5 DEF RInv

LEMMA NextRInv == X!ExecutionConstants /\ RInv /\ [X!Next]_executions => RInv'
<1> SUFFICES ASSUME X!ExecutionConstants, RInv, [X!Next]_executions PROVE RInv'
  OBVIOUS
<1>1. ASSUME NEW c \in MCLines, NEW who, X!Enter(c, who) PROVE RInv'
  BY <1>1, EnterKeeps
<1>2. ASSUME NEW p, X!Leave(p) PROVE RInv'
  BY <1>2, LeaveKeepsRuns
<1>3. CASE X!Tick \/ X!RunDue \/ X!Done
  BY <1>3, TickKeeps, RunDueKeeps, DoneKeeps
<1>4. CASE X!NextLine \/ X!ReturnRun \/ X!FunctionEnds \/ X!EachGoesOn
  BY <1>4, NextLineKeeps, ReturnRunKeeps, FunctionEndsKeeps, EachGoesOnKeeps
<1>5. CASE X!Dispatch
  BY <1>5, PlainKeeps, ReturnKeeps, FunctionKeeps, ScheduleKeeps, PacksKeep, NestedKeeps,
     TargetsKeep, ConditionKeeps DEF X!Dispatch
<1>6. CASE UNCHANGED executions
  <2>1. Underway'
    BY <1>6, HereStays DEF RInv, Underway, executions
  <2> QED BY <1>6, <2>1, TimelyStays, LoadedStays, LevelsStay DEF RInv, executions
<1>7. CASE X!Next
  BY <1>1, <1>2, <1>3, <1>4, <1>5, <1>7 DEF X!Next
<1> QED BY <1>6, <1>7

\* Frames are counted from either end.
LEMMA FramesCount ==
  ASSUME Framed(runs)
  PROVE  X!Cardinality(X!Frames("function")) = Depth(runs)
<1> DEFINE n == Len(runs)
           C == FunctionsIn(runs)
           D == X!Frames("function")
           g == [j \in C |-> n + 1 - j]
<1>1. n \in Nat /\ DOMAIN runs = 1 .. n
  BY FramedIs
<1>2. IsFiniteSet(1 .. n)
  BY <1>1, FS_Interval
<1>3. IsFiniteSet(C)
  BY <1>2, FS_Subset DEF FunctionsIn
<1>4. C = {j \in 1 .. n : runs[n + 1 - j].k = "function"}
  BY DEF FunctionsIn, Frame
<1>5. D = {i \in 1 .. n : runs[i].k = "function"}
  BY <1>1 DEF X!Frames
<1> HIDE DEF n, C, D
<1>6. g \in Injection(C, D)
  BY <1>1, <1>4, <1>5 DEF Injection, IsInjective
<1>7. g \in Surjection(C, D)
  <2>1. \A i \in D : n + 1 - i \in C /\ g[n + 1 - i] = i
    <3> TAKE i \in D
    <3>1. i \in 1 .. n /\ runs[i].k = "function" /\ n + 1 - i \in 1 .. n
          /\ n + 1 - (n + 1 - i) = i
      BY <1>1, <1>5
    <3> QED BY <1>4, <3>1
  <2> QED BY <1>6, <2>1 DEF Injection, Surjection
<1>8. ExistsBijection(C, D)
  BY <1>6, <1>7 DEF ExistsBijection, Bijection
<1>9. Cardinality(D) = Cardinality(C)
  BY <1>3, <1>8, FS_Bijection
<1> QED BY <1>9, SameCount DEF Depth, C, D

LEMMA RInvSound == X!ExecutionConstants /\ RInv => X!ExecutionSound
<1> SUFFICES ASSUME X!ExecutionConstants, RInv PROVE X!ExecutionSound
  OBVIOUS
<1>1. Good(runs, depth) /\ depth <= MaxRecursion /\ (depth > 0 /\ ret.has => returned)
  BY DEF RInv, Levels
<1>2. Framed(runs) /\ Fine(runs) /\ depth = Depth(runs)
  BY <1>1 DEF Good
<1>3. depth = X!Cardinality(X!Frames("function"))
  BY <1>2, FramesCount
<1>4. ASSUME at = "run",
             NEW i \in {h \in X!Frames("each") : runs[h].how.k = "in"},
             \A j \in {h \in X!Frames("each") : runs[h].how.k = "in"} : i <= j
      PROVE  X!Dimension(cur.src) = runs[i].how.dim
  <2> DEFINE n == Len(runs)
             p == n + 1 - i
  <2>1. n \in Nat /\ DOMAIN runs = 1 .. n
    BY <1>2, FramedIs
  <2>2. i \in 1 .. n /\ InFrame(runs[i])
    BY <1>4, <2>1 DEF X!Frames, InFrame
  <2>3. \A h \in 1 .. n : InFrame(runs[h]) => i <= h
    BY <1>4, <2>1 DEF X!Frames, InFrame
  <2>4. Here(runs, cur.src)
    BY <1>4 DEF RInv, Underway
  <2>5. p \in 1 .. n /\ Frame(runs, p) = runs[i]
    <3>1. p \in 1 .. n /\ n + 1 - p = i
      BY <2>1, <2>2
    <3> HIDE DEF p
    <3> QED BY <3>1 DEF Frame
  <2>6. \A m \in p + 1 .. n : ~InFrame(Frame(runs, m))
    <3> TAKE m \in p + 1 .. n
    <3>1. n + 1 - m \in 1 .. n /\ ~(i <= n + 1 - m)
      BY <2>1, <2>2
    <3> QED BY <2>3, <3>1 DEF Frame
  <2>7. cur.src.dim = runs[i].how.dim
    <3> HIDE DEF p, n
    <3>1. Placed(runs, n, cur.src)
      BY <2>4 DEF Here, n
    <3> QED BY <2>2, <2>5, <2>6, <3>1 DEF Placed
  <2>8. runs[i].how \in MCAllLines /\ runs[i].how.k = "in"
    <3>1. Stacked(runs, p)
      BY <1>2, <2>5 DEF Fine
    <3> HIDE DEF p
    <3> QED BY <2>2, <2>5, <3>1 DEF Stacked, InFrame
  <2>9. runs[i].how.dim \in Dims /\ None \notin Dims
    BY <2>8, Ready
  <2> QED BY <2>7, <2>9 DEF X!Dimension
<1>5. \A i \in DOMAIN scheduled : scheduled[i].due > now \/ scheduled[i].made = now
  BY DEF RInv, Timely
<1> QED BY <1>1, <1>3, <1>4, <1>5 DEF X!ExecutionSound

\* What is in a sequence, for entries that may leave the schedule.
LEMMA EntriesStay ==
  ASSUME X!ExecutionConstants, RInv, [X!Next]_executions
  PROVE  X!EntryKept
<1> SUFFICES ASSUME NEW e \in X!ToSet(scheduled) \ X!ToSet(scheduled)'
             PROVE  \/ /\ e.due <= now' /\ runs' # << >> /\ runs'[1].k = "tick"
                       /\ X!Contains(runs'[1].todo, e)
                    \/ X!Runs("schedule") /\ cur.line.f = e.f
  BY DEF X!EntryKept
<1>1. PICK i \in DOMAIN scheduled : e = scheduled[i]
  BY DEF X!ToSet
<1>2. \A n \in DOMAIN scheduled' : scheduled'[n] # e
  BY DEF X!ToSet
<1>3. scheduled' # scheduled
  BY <1>1, <1>2
<1>4. Framed(scheduled)
  BY DEF RInv, Timely
<1>5. CASE X!Tick
  <2> DEFINE due == X!DueBy(now + 1)
             left == DOMAIN scheduled \ due
             o == X!InOrder(left)
             d == X!InOrder(due)
  <2>1. scheduled' = o /\ runs' = <<X!TickFrame(d)>> /\ now' = now + 1
    <3>1. now' = now + 1 /\ X!DueBy(now') = due
      BY <1>5 DEF X!Tick
    <3> QED BY <1>5, <3>1 DEF X!Tick
  <2>2. left \in SUBSET DOMAIN scheduled /\ due \in SUBSET DOMAIN scheduled
    BY DEF X!DueBy
  <2> HIDE DEF o, d, left
  <2>3. \A k \in left : \E n \in DOMAIN o : o[n] = scheduled[k]
    BY <1>4, <2>2, InOrderIs DEF o
  <2>4. i \notin left
    BY <1>1, <1>2, <2>1, <2>3
  <2>5. i \in due
    BY <2>4 DEF left
  <2>6. e.due <= now'
    BY <1>1, <2>1, <2>5 DEF X!DueBy
  <2>7. Framed(d) /\ \E n \in DOMAIN d : d[n] = e
    BY <1>1, <1>4, <2>2, <2>5, InOrderIs DEF d
  <2>8. X!Contains(d, e)
    BY <2>7, FramedIs DEF X!Contains
  <2>9. runs' # << >> /\ runs'[1] = X!TickFrame(d)
    BY <2>1
  <2> QED BY <2>6, <2>8, <2>9 DEF X!TickFrame
<1>6. CASE X!Schedule
  <2> DEFINE l == cur.line
             t == IF l.how = "default" /\ l.t <= 0 THEN 1 ELSE l.t
             kept == IF l.how = "append" THEN DOMAIN scheduled
                     ELSE {k \in DOMAIN scheduled : scheduled[k].f # l.f}
             due == X!DueBy(now + t)
             a == X!InOrder(kept \cap due)
             b == X!InOrder(kept \ due)
             x == [f |-> l.f, due |-> now + t, made |-> now]
  <2>1. X!Runs("schedule") /\ scheduled' = Inserted(a, x, b)
    BY <1>6 DEF X!Schedule, Inserted
  <2>2. kept \in SUBSET DOMAIN scheduled
    OBVIOUS
  <2>3. i \notin kept => cur.line.f = e.f
    BY <1>1
  <2> HIDE DEF kept, due, x
  <2>4. kept \cap due \in SUBSET DOMAIN scheduled /\ kept \ due \in SUBSET DOMAIN scheduled
    BY <2>2
  <2>5. /\ Framed(a) /\ Framed(b)
        /\ \A k \in kept \cap due : \E n \in DOMAIN a : a[n] = scheduled[k]
        /\ \A k \in kept \ due : \E n \in DOMAIN b : b[n] = scheduled[k]
    BY <1>4, <2>4, InOrderIs
  <2> HIDE DEF a, b
  <2>6. /\ \A k \in DOMAIN a : \E n \in DOMAIN scheduled' : scheduled'[n] = a[k]
        /\ \A k \in DOMAIN b : \E n \in DOMAIN scheduled' : scheduled'[n] = b[k]
    BY <2>1, <2>5, InsertIs
  <2>7. i \notin kept
    BY <1>1, <1>2, <2>5, <2>6
  <2> QED BY <2>1, <2>3, <2>7
<1>7. CASE ~X!Tick /\ ~X!Schedule
  <2>1. CASE UNCHANGED executions
    BY <1>3, <2>1 DEF executions
  <2>2. CASE X!Dispatch
    <3>1. UNCHANGED scheduled
      BY <1>7, <2>2 DEF X!Dispatch, X!Plain, X!Return, X!Function, X!Reload, X!Enable,
         X!Disable, X!Run, X!Store, X!As, X!At, X!Rotated, X!Positioned, X!In, X!Condition,
         X!For
    <3> QED BY <1>3, <3>1
  <2>3. CASE X!RunDue \/ X!Done \/ X!NextLine \/ X!ReturnRun \/ X!FunctionEnds \/ X!EachGoesOn
    BY <1>3, <2>3 DEF X!RunDue, X!Done, X!NextLine, X!ReturnRun, X!FunctionEnds, X!EachGoesOn
  <2>4. ASSUME NEW c, NEW who, X!Enter(c, who) PROVE FALSE
    BY <1>3, <2>4 DEF X!Enter
  <2>5. ASSUME NEW p, X!Leave(p) PROVE FALSE
    BY <1>3, <2>5 DEF X!Leave
  <2> QED BY <1>7, <2>1, <2>2, <2>3, <2>4, <2>5 DEF X!Next
<1> QED BY <1>5, <1>6, <1>7

HIDE DEF X!Outside, X!Tables, X!Flags

-----------------------------------------------------------------------------
allVars == <<part, vars, boards, executions, holds>>

\* A client in play sees the objectives, scores, teams and bars that the server
\* has, whatever commands, gains, joins and departures came before, but for the
\* gaps of the code: what was there before the client came, scores set before
\* their objective was added, players put into two teams, and scores set while the
\* end of a session resets those of the same name.
THEOREM BoardsShown == CommandsSpec => []ClientsAgree
<1> DEFINE I == part = "boards" => BInv
<1>1. CommandsInit => I
  BY CommandsConstants, InitBInv DEF CommandsInit
<1>2. I /\ [CommandsNext]_allVars => I'
  <2> SUFFICES ASSUME I, [CommandsNext]_allVars, part' = "boards" PROVE BInv'
    OBVIOUS
  <2>1. part = "boards" /\ [B!Next]_boards
    BY DEF CommandsNext, allVars
  <2> QED BY <2>1, CommandsConstants, NextBInv
<1>3. I => ClientsAgree
  BY CommandsConstants, BoardsAgree DEF ClientsAgree
<1> QED BY <1>1, <1>2, <1>3, PTL DEF CommandsSpec, allVars

LEMMA HandlesHold == CommandsSpec => [](part = "holds" => J!HandlesSound)
<1> DEFINE I == part = "holds" => HInv
<1>1. CommandsInit => I
  BY CommandsConstants, InitHInv DEF CommandsInit
<1>2. I /\ [CommandsNext]_allVars => I'
  <2> SUFFICES ASSUME I, [CommandsNext]_allVars, part' = "holds" PROVE HInv'
    OBVIOUS
  <2>1. part = "holds" /\ [J!Next]_holds
    BY DEF CommandsNext, allVars
  <2> QED BY <2>1, CommandsConstants, NextHInv
<1>3. I => (part = "holds" => J!HandlesSound)
  BY CommandsConstants, HInvSound
<1> QED BY <1>1, <1>2, <1>3, PTL DEF CommandsSpec, allVars

LEMMA BusHolds == CommandsSpec => []EInv /\ [][Next]_vars
<1>1. CommandsInit => EInv
  BY InitEInv DEF CommandsInit
<1>2. [CommandsNext]_allVars => [Next]_vars
  BY DEF CommandsNext, allVars
<1> QED BY <1>1, <1>2, NextEInv, PTL DEF CommandsSpec, allVars

\* Nothing is reached after its release.  A listener whose reset has returned is
\* not called again, and nobody else is inside its callback.  A handle of Java
\* leads to the living thing it was made for, late handles apart, a cached wrapper
\* is of a valid handle, and no native waits for a state whose holder waits for it.
THEOREM ReleasedStaysReleased == CommandsSpec => NothingAfterRelease
<1>1. EInv => ResetDrains
  BY EInvSound
<1> QED
  BY <1>1, HandlesHold, BusHolds, EInvForbids, PTL DEF NothingAfterRelease, NeverCalledAfterReset

\* Functions run as they are written, whatever lines players and the console
\* enter and whoever leaves meanwhile: the depth is that of the functions at
\* work, only a return of this run cuts them short, execute in holds for all that
\* runs under it, and an entry leaves the schedule when it is due, or replaced.
THEOREM FunctionsRunAsWritten == CommandsSpec => RunsAsWritten
<1> DEFINE I == part = "runs" => RInv
<1>1. CommandsInit => I
  BY CommandsConstants, InitRInv DEF CommandsInit
<1>2. I /\ [CommandsNext]_allVars => I'
  <2> SUFFICES ASSUME I, [CommandsNext]_allVars, part' = "runs" PROVE RInv'
    OBVIOUS
  <2>1. part = "runs" /\ [X!Next]_executions
    BY DEF CommandsNext, allVars
  <2> QED BY <2>1, CommandsConstants, NextRInv
<1>3. I => (part = "runs" => X!ExecutionSound)
  BY CommandsConstants, RInvSound
<1>4. I /\ [CommandsNext]_allVars => [part = "runs" => X!EntryKept]_<<part, executions>>
  <2> SUFFICES ASSUME I, [CommandsNext]_allVars, part = "runs",
                      ~UNCHANGED <<part, executions>>
               PROVE  X!EntryKept
    OBVIOUS
  <2>1. [X!Next]_executions
    BY DEF CommandsNext, allVars
  <2> QED BY <2>1, CommandsConstants, EntriesStay
<1> QED BY <1>1, <1>2, <1>3, <1>4, PTL DEF CommandsSpec, RunsAsWritten, allVars
=============================================================================

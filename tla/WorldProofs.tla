----------------------------- MODULE WorldProofs -----------------------------
(***************************************************************************)
(* What the parts of MCWorld keep, for every value of the constants: what  *)
(* a player sees of the chunks (V, ChunkView), and what becomes of stones  *)
(* that pistons move (P, Pistons).                                         *)
(***************************************************************************)
EXTENDS MCWorld, SequenceTheorems, FiniteSetTheorems, FunctionTheorems, TLAPS

allVars == <<part, views, lights, fluids, pistons, plants, bodies, edicts, people>>

\* A behaviour stays in its part.
LEMMA PartStays == Next \/ UNCHANGED allVars => part' = part
BY DEF Next, allVars

-----------------------------------------------------------------------------
(* ChunkView: what players see of the chunks.  The lane that carries chunks *)
(* is a sequence, and each respawn on its way a bar behind one of its       *)
(* places; what the client will know of a chunk is what the frames beyond   *)
(* the last bar say.                                                        *)

Known == Nat \cup {V!None}
FrameKinds == {"chunk", "update", "forget", "respawn", "stay"}
Frames ==
    {f \in [k : FrameKinds, c : Spots \cup {V!Origin}, v : Known, wait : Nat] :
        /\ f.k \in {"chunk", "update", "forget"} => f.c \in Spots /\ f.wait = 0
        /\ f.k \in {"chunk", "update"} => f.v \in Nat}

Is(f, k, c) == f.k = k /\ f.c = c
Writes(f, c) == Is(f, "chunk", c) \/ Is(f, "update", c)
Neutral(f) == f.k \in {"respawn", "stay"}

\* What is told of chunk c up to place j of lane L, with bars A, is forgotten.
Gone(L, A, j, c) ==
    \/ \E b \in A : b >= j
    \/ \E k \in DOMAIN L : k > j /\ Is(L[k], "forget", c)

\* The lane L ends with v as the state of chunk c, of which the client knows s.
EndsWith(L, s, c, v) ==
    /\ \A j \in DOMAIN L :
          Writes(L[j], c) /\ (\A k \in DOMAIN L : k > j => ~Writes(L[k], c)) => L[j].v = v
    /\ (\A k \in DOMAIN L : ~Writes(L[k], c)) => s = v

\* Lane L and bars A lead a client that sees s to the chunks S of world W, but
\* for those of which an edit is still awaited in Q.
Comes(L, A, s, S, W, Q, c) ==
    /\ c \in S =>
          \/ \E j \in DOMAIN L : Is(L[j], "chunk", c) /\ ~Gone(L, A, j, c)
          \/ s[c] # V!None /\ ~Gone(L, A, 0, c)
    /\ c \notin S =>
          /\ \A j \in DOMAIN L : Is(L[j], "chunk", c) => Gone(L, A, j, c)
          /\ s[c] # V!None => Gone(L, A, 0, c)
    /\ c \in S /\ Q[c] = V!None => EndsWith(L, s[c], c, W[c])
Leads(L, A, s, S, W, Q) == \A c \in Spots : Comes(L, A, s, S, W, Q, c)

\* Lane L continues M.
Continues(L, M) ==
    /\ L \in Seq(Frames) /\ M \in Seq(Frames) /\ Len(M) <= Len(L)
    /\ \A i \in 1 .. Len(M) : L[i] = M[i]
Fresh(L, M) == Len(M) + 1 .. Len(L)
Within(A, L) == A \in SUBSET (0 .. Len(L))

\* Updates for all chunks of which nothing is awaited any more: they show the world.
LEMMA LeadsUpdates ==
  ASSUME NEW L, NEW M, Continues(L, M), NEW A, Within(A, M),
         NEW s, NEW S, NEW W, NEW Q, NEW R, Leads(M, A, s, S, W, Q),
         \A i \in Fresh(L, M) : \E c \in Spots :
            Is(L[i], "update", c) /\ (c \in S /\ R[c] = V!None => L[i].v = W[c]),
         \A c \in S \cap Spots : Q[c] # V!None /\ R[c] = V!None =>
            \E i \in Fresh(L, M) : Is(L[i], "update", c)
  PROVE  Leads(L, A, s, S, W, R)
<1> SUFFICES ASSUME NEW c \in Spots PROVE Comes(L, A, s, S, W, R, c)
  BY DEF Leads
<1>1. Comes(M, A, s, S, W, Q, c)
  BY DEF Leads
<1>2. /\ DOMAIN L = 1 .. Len(L) /\ DOMAIN M = 1 .. Len(M) /\ Len(L) \in Nat /\ Len(M) \in Nat
      /\ Len(M) <= Len(L) /\ \A i \in 1 .. Len(M) : L[i] = M[i]
  BY DEF Continues
<1>3. \A i \in Fresh(L, M) : L[i].k = "update"
  BY DEF Is
<1>4. \A j \in 0 .. Len(M) : Gone(L, A, j, c) <=> Gone(M, A, j, c)
  BY <1>2, <1>3 DEF Gone, Is, Fresh
<1>5. \A j \in DOMAIN L : Is(L[j], "chunk", c) => j \in DOMAIN M /\ M[j] = L[j]
  BY <1>2, <1>3 DEF Is, Fresh
<1>6. \A j \in DOMAIN M : j \in DOMAIN L /\ L[j] = M[j] /\ j \in 0 .. Len(M)
  BY <1>2
<1>7. c \in S /\ R[c] = V!None => EndsWith(L, s[c], c, W[c])
  <2> SUFFICES ASSUME c \in S, R[c] = V!None PROVE EndsWith(L, s[c], c, W[c])
    OBVIOUS
  <2>1. \A i \in Fresh(L, M) : Writes(L[i], c) => L[i].v = W[c]
    BY DEF Writes, Is
  <2>2. CASE \E i \in Fresh(L, M) : Writes(L[i], c)
    BY <1>2, <2>1, <2>2 DEF EndsWith, Fresh
  <2>3. CASE \A i \in Fresh(L, M) : ~Writes(L[i], c)
    <3>1. EndsWith(M, s[c], c, W[c])
      BY <1>1, <2>3 DEF Comes, Writes
    <3>2. \A j \in DOMAIN L : Writes(L[j], c) => j \in DOMAIN M /\ M[j] = L[j]
      BY <1>2, <2>3 DEF Fresh
    <3> QED BY <1>6, <3>1, <3>2 DEF EndsWith
  <2> QED BY <2>2, <2>3
<1> QED BY <1>1, <1>4, <1>5, <1>6, <1>7 DEF Comes

\* Frames that tell of no chunk.
LEMMA LeadsNeutral ==
  ASSUME NEW L, NEW M, Continues(L, M), NEW A, Within(A, M),
         NEW s, NEW S, NEW W, NEW Q, Leads(M, A, s, S, W, Q),
         \A i \in Fresh(L, M) : Neutral(L[i])
  PROVE  Leads(L, A, s, S, W, Q)
<1> SUFFICES ASSUME NEW c \in Spots PROVE Comes(L, A, s, S, W, Q, c)
  BY DEF Leads
<1>1. Comes(M, A, s, S, W, Q, c)
  BY DEF Leads
<1>2. /\ DOMAIN L = 1 .. Len(L) /\ DOMAIN M = 1 .. Len(M) /\ Len(L) \in Nat /\ Len(M) \in Nat
      /\ Len(M) <= Len(L) /\ \A i \in 1 .. Len(M) : L[i] = M[i]
  BY DEF Continues
<1>3. \A j \in DOMAIN L : ~Neutral(L[j]) => j \in DOMAIN M /\ M[j] = L[j]
  BY <1>2 DEF Fresh
<1>4. \A j \in DOMAIN M : j \in DOMAIN L /\ L[j] = M[j] /\ j \in 0 .. Len(M)
  BY <1>2
<1>5. \A f : Is(f, "chunk", c) \/ Is(f, "forget", c) \/ Writes(f, c) => ~Neutral(f)
  BY DEF Is, Writes, Neutral
<1>6. \A j \in 0 .. Len(M) : Gone(M, A, j, c) => Gone(L, A, j, c)
  BY <1>4 DEF Gone
<1>7. \A j \in 0 .. Len(M) : Gone(L, A, j, c) => Gone(M, A, j, c)
  BY <1>3, <1>5 DEF Gone
<1>8. EndsWith(M, s[c], c, W[c]) => EndsWith(L, s[c], c, W[c])
  BY <1>3, <1>4, <1>5 DEF EndsWith
<1>9. 0 \in 0 .. Len(M)
  BY <1>2
<1> QED BY <1>1, <1>3, <1>4, <1>5, <1>6, <1>7, <1>8, <1>9 DEF Comes

\* The chunks N that come into view, then the chunks O that go out of it.
LEMMA LeadsStream ==
  ASSUME NEW L, NEW M, Continues(L, M), NEW A, Within(A, M),
         NEW s, NEW S, NEW W, NEW Q, Leads(M, A, s, S, W, Q),
         NEW N, NEW O, N \cap O = {}, N \cap S = {},
         NEW m \in Len(M) .. Len(L),
         \A i \in Len(M) + 1 .. m : \E c \in N : Is(L[i], "chunk", c) /\ L[i].v = W[c],
         \A c \in N : \E i \in Len(M) + 1 .. m : Is(L[i], "chunk", c),
         \A i \in m + 1 .. Len(L) : \E c \in O : Is(L[i], "forget", c),
         \A c \in O : \E i \in m + 1 .. Len(L) : Is(L[i], "forget", c)
  PROVE  Leads(L, A, s, (S \cup N) \ O, W, Q)
<1> DEFINE T == (S \cup N) \ O
<1> SUFFICES ASSUME NEW c \in Spots PROVE Comes(L, A, s, T, W, Q, c)
  BY DEF Leads
<1>1. Comes(M, A, s, S, W, Q, c)
  BY DEF Leads
<1>2. /\ DOMAIN L = 1 .. Len(L) /\ DOMAIN M = 1 .. Len(M) /\ Len(L) \in Nat /\ Len(M) \in Nat
      /\ Len(M) <= Len(L) /\ \A i \in 1 .. Len(M) : L[i] = M[i]
  BY DEF Continues
<1>3. A \in SUBSET (0 .. Len(M))
  BY DEF Within
<1>4. \A i \in Len(M) + 1 .. m : L[i].k = "chunk" /\ L[i].c \in N /\ L[i].v = W[L[i].c]
  BY DEF Is
<1>5. \A i \in m + 1 .. Len(L) : L[i].k = "forget" /\ L[i].c \in O
  BY DEF Is
<1>6. \A j \in DOMAIN L : \/ j \in DOMAIN M /\ L[j] = M[j]
                          \/ j \in Len(M) + 1 .. m \/ j \in m + 1 .. Len(L)
  BY <1>2
<1>7. \A j \in DOMAIN M : j \in DOMAIN L /\ L[j] = M[j] /\ j \in 0 .. Len(M)
  BY <1>2
<1>8. CASE c \in N
  <2>1. c \in T /\ c \notin S
    BY <1>8
  <2>2. PICK i \in Len(M) + 1 .. m : Is(L[i], "chunk", c)
    BY <1>8
  <2>3. i \in DOMAIN L
    BY <1>2
  <2>4. ~Gone(L, A, i, c)
    <3>1. \A b \in A : ~(b >= i)
      BY <1>2, <1>3
    <3>2. ASSUME NEW j \in DOMAIN L, Is(L[j], "forget", c) PROVE j \in DOMAIN M
      <4>1. L[j].k = "forget" /\ L[j].c = c /\ c \notin O
        BY <1>8, <3>2 DEF Is
      <4>2. j \notin Len(M) + 1 .. m /\ j \notin m + 1 .. Len(L)
        BY <1>4, <1>5, <4>1
      <4> QED BY <1>6, <4>2
    <3>3. \A j \in DOMAIN M : ~(j > i)
      BY <1>2
    <3> QED BY <3>1, <3>2, <3>3 DEF Gone
  <2>5. EndsWith(L, s[c], c, W[c])
    <3>1. \A j \in DOMAIN L : j > i \/ j = i \/ j < i
      BY <1>2
    <3>2. \A j \in Len(M) + 1 .. m : Writes(L[j], c) => L[j].v = W[c]
      BY <1>4 DEF Writes, Is
    <3>3. \A j \in m + 1 .. Len(L) : ~Writes(L[j], c)
      BY <1>5 DEF Writes, Is
    <3>4. \A j \in DOMAIN M : j \in DOMAIN L /\ i > j
      BY <1>2
    <3>5. Writes(L[i], c)
      BY <2>2 DEF Writes
    <3> QED BY <1>6, <2>3, <3>2, <3>3, <3>4, <3>5 DEF EndsWith
  <2> QED BY <2>1, <2>2, <2>3, <2>4, <2>5 DEF Comes
<1>9. CASE c \in O
  <2>1. c \notin T /\ c \notin N
    BY <1>9
  <2>2. PICK i \in m + 1 .. Len(L) : Is(L[i], "forget", c)
    BY <1>9
  <2>3. i \in DOMAIN L /\ \A j \in 0 .. m : i > j
    BY <1>2
  <2>4. \A j \in 0 .. m : Gone(L, A, j, c)
    BY <2>2, <2>3 DEF Gone
  <2>5. \A j \in DOMAIN L : Is(L[j], "chunk", c) => j \in 0 .. m
    BY <1>2, <1>5, <1>6 DEF Is
  <2>6. 0 \in 0 .. m
    BY <1>2
  <2> QED BY <2>1, <2>4, <2>5, <2>6 DEF Comes
<1>10. CASE c \notin N /\ c \notin O
  <2>1. c \in T <=> c \in S
    BY <1>10
  <2>2. \A j \in DOMAIN L : Writes(L[j], c) \/ Is(L[j], "forget", c) \/ Is(L[j], "chunk", c)
           => j \in DOMAIN M /\ L[j] = M[j]
    BY <1>4, <1>5, <1>6, <1>10 DEF Writes, Is
  <2>3. \A j \in 0 .. Len(M) : Gone(L, A, j, c) <=> Gone(M, A, j, c)
    BY <1>7, <2>2 DEF Gone
  <2>4. EndsWith(M, s[c], c, W[c]) => EndsWith(L, s[c], c, W[c])
    BY <1>7, <2>2 DEF EndsWith
  <2>5. 0 \in 0 .. Len(M)
    BY <1>2
  <2> QED BY <1>1, <1>7, <2>1, <2>2, <2>3, <2>4, <2>5 DEF Comes
<1> QED BY <1>8, <1>9, <1>10

\* A respawn at bar b, and then the chunks N of another world.
LEMMA LeadsAnew ==
  ASSUME NEW L, NEW M, Continues(L, M), NEW Z, Within(Z, L),
         NEW s, NEW W, NEW Q, NEW N,
         NEW b \in Z, b >= Len(M), \A d \in Z : d <= b,
         \A i \in Len(M) + 1 .. b : Neutral(L[i]),
         \A i \in b + 1 .. Len(L) : \E c \in N : Is(L[i], "chunk", c) /\ L[i].v = W[c],
         \A c \in N : \E i \in b + 1 .. Len(L) : Is(L[i], "chunk", c)
  PROVE  Leads(L, Z, s, N, W, Q)
<1> SUFFICES ASSUME NEW c \in Spots PROVE Comes(L, Z, s, N, W, Q, c)
  BY DEF Leads
<1>1. /\ DOMAIN L = 1 .. Len(L) /\ Len(L) \in Nat /\ Len(M) \in Nat /\ b \in 0 .. Len(L)
  BY DEF Continues, Within
<1>2. \A d \in Z : d \in Int
  BY DEF Within
<1>3. \A j \in 0 .. b : Gone(L, Z, j, c)
  BY DEF Gone
<1>4. \A i \in b + 1 .. Len(L) : L[i].k = "chunk" /\ L[i].c \in N /\ L[i].v = W[L[i].c]
  BY DEF Is
<1>5. CASE c \in N
  <2>1. PICK i \in b + 1 .. Len(L) : Is(L[i], "chunk", c)
    BY <1>5
  <2>2. i \in DOMAIN L
    BY <1>1
  <2>3. ~Gone(L, Z, i, c)
    BY <1>1, <1>2, <1>4 DEF Gone, Is
  <2>4. EndsWith(L, s[c], c, W[c])
    <3>1. \A j \in DOMAIN L : j \in b + 1 .. Len(L) \/ i > j
      BY <1>1
    <3>2. \A j \in b + 1 .. Len(L) : Writes(L[j], c) => L[j].v = W[c]
      BY <1>4 DEF Writes, Is
    <3>3. Writes(L[i], c)
      BY <2>1 DEF Writes
    <3> QED BY <2>2, <3>1, <3>2, <3>3 DEF EndsWith
  <2> QED BY <1>5, <2>1, <2>2, <2>3, <2>4 DEF Comes
<1>6. CASE c \notin N
  <2>1. \A j \in DOMAIN L : Is(L[j], "chunk", c) => j \in 0 .. b
    BY <1>1, <1>4, <1>6 DEF Is
  <2> QED BY <1>1, <1>3, <1>6, <2>1 DEF Comes
<1> QED BY <1>5, <1>6

\* Chunks are edited, and that is awaited then.
LEMMA LeadsEdited ==
  ASSUME NEW L, NEW A, NEW s, NEW S, NEW W, NEW Q, NEW X, NEW R,
         Leads(L, A, s, S, W, Q),
         \A c \in Spots : c \in S /\ R[c] = V!None => Q[c] = V!None /\ X[c] = W[c]
  PROVE  Leads(L, A, s, S, X, R)
BY DEF Leads, Comes

\* What the writer of the connection takes.
Taken(L, M) ==
    /\ M \in Seq(Frames) /\ L \in Seq(Frames) /\ Len(M) > 0 /\ Len(L) = Len(M) - 1
    /\ \A i \in 1 .. Len(L) : L[i] = M[i + 1]

\* The bars A, one place nearer.
Nearer(Z, A) == Z = {b - 1 : b \in A}

LEMMA LeadsOn ==
  ASSUME NEW L, NEW M, Taken(L, M), NEW A, Within(A, M), NEW Z,
         Nearer(Z, A), 0 \notin A,
         NEW s \in [Spots -> Known], NEW S, NEW W, NEW Q, Leads(M, A, s, S, W, Q),
         NEW r, r = IF Neutral(M[1]) THEN s ELSE V!Shown(s, M[1])
  PROVE  Leads(L, Z, r, S, W, Q)
<1> DEFINE f == M[1]
<1> SUFFICES ASSUME NEW c \in Spots PROVE Comes(L, Z, r, S, W, Q, c)
  BY DEF Leads
<1>1. Comes(M, A, s, S, W, Q, c)
  BY DEF Leads
<1>2. /\ DOMAIN L = 1 .. Len(L) /\ DOMAIN M = 1 .. Len(M) /\ Len(L) \in Nat /\ Len(M) = Len(L) + 1
      /\ \A i \in 1 .. Len(L) : L[i] = M[i + 1]
  BY DEF Taken
<1>3. f \in Frames
  BY <1>2 DEF Taken
<1>4. \A b \in A : b \in Int /\ b >= 1
  BY DEF Within
<1>5. \A j \in 0 .. Len(L) : Gone(L, Z, j, c) <=> Gone(M, A, j + 1, c)
  <2> TAKE j \in 0 .. Len(L)
  <2>1. (\E d \in Z : d >= j) <=> (\E b \in A : b >= j + 1)
    <3>1. \A b \in A : b - 1 \in Z /\ (b >= j + 1 => b - 1 >= j)
      BY <1>4 DEF Nearer
    <3>2. \A d \in Z : \E b \in A : d >= j => b >= j + 1
      BY <1>4 DEF Nearer
    <3> QED BY <3>1, <3>2
  <2>2. (\E k \in DOMAIN L : k > j /\ Is(L[k], "forget", c))
           <=> (\E k \in DOMAIN M : k > j + 1 /\ Is(M[k], "forget", c))
    <3>1. \A k \in DOMAIN L : k + 1 \in DOMAIN M /\ L[k] = M[k + 1] /\ (k > j => k + 1 > j + 1)
      BY <1>2
    <3>2. \A k \in DOMAIN M : k > j + 1 => k - 1 \in DOMAIN L /\ L[k - 1] = M[k] /\ k - 1 > j
      BY <1>2
    <3> QED BY <3>1, <3>2
  <2> QED BY <2>1, <2>2 DEF Gone
<1>6. Gone(M, A, 0, c) <=> Gone(M, A, 1, c) \/ Is(f, "forget", c)
  <2>1. (\E b \in A : b >= 0) <=> (\E b \in A : b >= 1)
    BY <1>4
  <2>2. \A k \in DOMAIN M : k > 0 <=> k = 1 \/ k > 1
    BY <1>2
  <2> QED BY <1>2, <2>1, <2>2 DEF Gone
<1>7. r[c] = CASE f.k = "chunk" /\ f.c = c -> f.v
               [] f.k = "update" /\ f.c = c /\ s[c] # V!None -> f.v
               [] f.k = "forget" /\ f.c = c -> V!None
               [] OTHER -> s[c]
  BY <1>3 DEF V!Shown, Frames, FrameKinds, Neutral
<1>8. \A j \in DOMAIN M : j = 1 \/ (j - 1 \in DOMAIN L /\ L[j - 1] = M[j])
  BY <1>2
<1>9. \A j \in DOMAIN L : j + 1 \in DOMAIN M /\ L[j] = M[j + 1] /\ j \in 0 .. Len(L)
  BY <1>2
<1>10. f.v # V!None \/ f.k \notin {"chunk", "update"}
  BY <1>3 DEF Frames, V!None
<1>11. 0 \in 0 .. Len(L) /\ (Gone(L, Z, 0, c) <=> Gone(M, A, 1, c))
  BY <1>2, <1>5
<1>12. CASE c \in S
  <2>1. \/ \E j \in DOMAIN L : Is(L[j], "chunk", c) /\ ~Gone(L, Z, j, c)
        \/ r[c] # V!None /\ ~Gone(L, Z, 0, c)
    <3>1. CASE \E j \in DOMAIN M : Is(M[j], "chunk", c) /\ ~Gone(M, A, j, c)
      <4> PICK j \in DOMAIN M : Is(M[j], "chunk", c) /\ ~Gone(M, A, j, c)
        BY <3>1
      <4>1. CASE j = 1
        BY <1>7, <1>10, <1>11, <4>1 DEF Is
      <4>2. CASE j # 1
        <5>1. j - 1 \in DOMAIN L /\ L[j - 1] = M[j] /\ j - 1 \in 0 .. Len(L) /\ (j - 1) + 1 = j
          BY <1>2, <1>8, <4>2
        <5> QED BY <1>5, <5>1
      <4> QED BY <4>1, <4>2
    <3>2. CASE s[c] # V!None /\ ~Gone(M, A, 0, c)
      <4>1. ~Gone(L, Z, 0, c) /\ ~Is(f, "forget", c)
        BY <1>6, <1>11, <3>2
      <4>2. r[c] # V!None
        BY <1>7, <1>10, <3>2, <4>1 DEF Is
      <4> QED BY <4>1, <4>2
    <3> QED BY <1>1, <1>12, <3>1, <3>2 DEF Comes
  <2>2. ASSUME Q[c] = V!None PROVE EndsWith(L, r[c], c, W[c])
    <3>1. EndsWith(M, s[c], c, W[c])
      BY <1>1, <1>12, <2>2 DEF Comes
    <3>2. \A j \in DOMAIN L : Writes(L[j], c) /\ (\A k \in DOMAIN L : k > j => ~Writes(L[k], c))
             => L[j].v = W[c]
      <4> SUFFICES ASSUME NEW j \in DOMAIN L, Writes(L[j], c),
                          \A k \in DOMAIN L : k > j => ~Writes(L[k], c)
                   PROVE  L[j].v = W[c]
        OBVIOUS
      <4>1. \A k \in DOMAIN M : k > j + 1 => ~Writes(M[k], c)
        <5> SUFFICES ASSUME NEW k \in DOMAIN M, k > j + 1 PROVE ~Writes(M[k], c)
          OBVIOUS
        <5>1. k - 1 \in DOMAIN L /\ L[k - 1] = M[k] /\ k - 1 > j
          BY <1>2
        <5> QED BY <5>1
      <4> QED BY <1>9, <3>1, <4>1 DEF EndsWith
    <3>3. ASSUME \A k \in DOMAIN L : ~Writes(L[k], c) PROVE r[c] = W[c]
      <4>1. \A k \in DOMAIN M : k > 1 => ~Writes(M[k], c)
        BY <1>2, <1>8, <3>3
      <4>2. CASE Writes(f, c)
        <5>1. f.v = W[c]
          BY <1>2, <3>1, <4>1, <4>2 DEF EndsWith
        <5>2. f.k = "update" => s[c] # V!None
          <6>1. ~ \E j \in DOMAIN L : Is(L[j], "chunk", c)
            BY <3>3 DEF Writes
          <6>2. r[c] # V!None
            BY <2>1, <6>1
          <6> QED BY <1>7, <4>2, <6>2 DEF Writes, Is
        <5> QED BY <1>7, <4>2, <5>1, <5>2 DEF Writes, Is
      <4>3. CASE ~Writes(f, c)
        <5>1. s[c] = W[c]
          <6>1. \A k \in DOMAIN M : ~Writes(M[k], c)
            BY <1>2, <4>1, <4>3
          <6> QED BY <3>1, <6>1 DEF EndsWith
        <5>2. r[c] # V!None
          BY <2>1, <3>3 DEF Writes
        <5> QED BY <1>7, <4>3, <5>1, <5>2 DEF Writes, Is
      <4> QED BY <4>2, <4>3
    <3> QED BY <3>2, <3>3 DEF EndsWith
  <2> QED BY <1>12, <2>1, <2>2 DEF Comes
<1>13. CASE c \notin S
  <2>1. \A j \in DOMAIN L : Is(L[j], "chunk", c) => Gone(L, Z, j, c)
    BY <1>1, <1>5, <1>9, <1>13 DEF Comes
  <2>2. r[c] # V!None => Gone(L, Z, 0, c)
    <3> SUFFICES ASSUME r[c] # V!None PROVE Gone(M, A, 1, c)
      BY <1>11
    <3>1. CASE Is(f, "chunk", c)
      <4>1. 1 \in DOMAIN M
        BY <1>2
      <4> QED BY <1>1, <1>13, <3>1, <4>1 DEF Comes
    <3>2. CASE ~Is(f, "chunk", c)
      <4>1. s[c] # V!None /\ ~Is(f, "forget", c)
        BY <1>7, <3>2 DEF Is
      <4> QED BY <1>1, <1>6, <1>13, <4>1 DEF Comes
    <3> QED BY <3>1, <3>2
  <2> QED BY <1>13, <2>1, <2>2 DEF Comes
<1> QED BY <1>12, <1>13

LEMMA LeadsOnNeutral ==
  ASSUME NEW L, NEW M, Taken(L, M), Neutral(M[1]), NEW A, Within(A, M), NEW Z, Nearer(Z, A), 0 \notin A,
         NEW s \in [Spots -> Known], NEW S, NEW W, NEW Q, Leads(M, A, s, S, W, Q)
  PROVE  Leads(L, Z, s, S, W, Q)
<1>1. s = IF Neutral(M[1]) THEN s ELSE V!Shown(s, M[1])
  OBVIOUS
<1> QED BY <1>1, LeadsOn

\* A respawn that arrives at the first bar, before which nothing is in the lane.
LEMMA LeadsRespawned ==
  ASSUME NEW L \in Seq(Frames), NEW A, Within(A, L), NEW Z, NEW b \in A, \A d \in A : d >= b,
         A \ {b} \subseteq Z, Z \subseteq A,
         \A i \in 1 .. b : Neutral(L[i]),
         NEW s, NEW r, \A c \in Spots : r[c] = V!None,
         NEW S, NEW W, NEW Q, Leads(L, A, s, S, W, Q)
  PROVE  Leads(L, Z, r, S, W, Q)
<1> SUFFICES ASSUME NEW c \in Spots PROVE Comes(L, Z, r, S, W, Q, c)
  BY DEF Leads
<1>1. Comes(L, A, s, S, W, Q, c)
  BY DEF Leads
<1>2. DOMAIN L = 1 .. Len(L) /\ Len(L) \in Nat /\ b \in 0 .. Len(L) /\ \A d \in A : d \in Int
  BY DEF Within
<1>3. Gone(L, A, 0, c)
  BY <1>2 DEF Gone
<1>4. \A j \in DOMAIN L : Is(L[j], "chunk", c) => j > b
  BY <1>2 DEF Neutral, Is
<1>5. \A j \in DOMAIN L : j > b => (Gone(L, Z, j, c) <=> Gone(L, A, j, c))
  BY <1>2 DEF Gone
<1>6. CASE c \in S
  <2>1. PICK j \in DOMAIN L : Is(L[j], "chunk", c) /\ ~Gone(L, A, j, c)
    BY <1>1, <1>3, <1>6 DEF Comes
  <2>2. EndsWith(L, s[c], c, W[c]) => EndsWith(L, r[c], c, W[c])
    BY <2>1 DEF EndsWith, Writes
  <2> QED BY <1>1, <1>4, <1>5, <1>6, <2>1, <2>2 DEF Comes
<1>7. CASE c \notin S
  BY <1>1, <1>4, <1>5, <1>7 DEF Comes
<1> QED BY <1>6, <1>7

-----------------------------------------------------------------------------
\* The keys of the elements of I are numbers that differ.
Keyed(I, key) ==
    (\A i \in I : key[i] \in Int) /\ \A i, k \in I : key[i] = key[k] => i = k

\* The place of i among them.
RankOf(I, key, i) == Cardinality({j \in I : key[j] <= key[i]})

LEMMA RanksAre ==
  ASSUME NEW I, IsFiniteSet(I), NEW key, Keyed(I, key)
  PROVE  \A n \in 1 .. Cardinality(I) : \E i \in I : RankOf(I, key, i) = n
<1> DEFINE Upto(i) == {j \in I : key[j] <= key[i]}
           c == Cardinality(I)
           rank == [i \in I |-> Cardinality(Upto(i))]
<1> USE DEF Keyed
<1>1. c \in Nat
  BY FS_CardinalityType
<1>2. \A i \in I : /\ IsFiniteSet(Upto(i)) /\ Cardinality(Upto(i)) \in Nat
                   /\ Cardinality(Upto(i)) <= c /\ Cardinality(Upto(i)) # 0
  <2> TAKE i \in I
  <2>1. Upto(i) \in SUBSET I /\ i \in Upto(i)
    OBVIOUS
  <2>2. IsFiniteSet(Upto(i)) /\ Cardinality(Upto(i)) <= c
    BY <2>1, FS_Subset
  <2> HIDE DEF Upto, c
  <2> QED BY <2>1, <2>2, FS_CardinalityType, FS_EmptySet
<1>3. \A i, k \in I : Cardinality(Upto(i)) = Cardinality(Upto(k)) => i = k
  <2>1. ASSUME NEW i \in I, NEW k \in I, key[i] < key[k]
        PROVE  Cardinality(Upto(i)) # Cardinality(Upto(k))
    <3>1. key[k] <= key[k] /\ ~(key[k] <= key[i])
          /\ \A j \in I : key[j] <= key[i] => key[j] <= key[k]
      BY <2>1
    <3>2. Upto(i) \in SUBSET Upto(k) /\ k \in Upto(k) /\ k \notin Upto(i)
      BY <3>1
    <3> HIDE DEF Upto
    <3> QED BY <1>2, <3>2, FS_Subset
  <2>2. \A i, k \in I : i = k \/ key[i] < key[k] \/ key[k] < key[i]
    OBVIOUS
  <2> HIDE DEF Upto
  <2> QED BY <2>1, <2>2
<1>4. rank \in Injection(I, 1 .. c)
  <2> HIDE DEF Upto, c
  <2> QED BY <1>1, <1>2, <1>3 DEF Injection, IsInjective
<1>5. IsFiniteSet(1 .. c) /\ Cardinality(1 .. c) = c
  <2> HIDE DEF c
  <2> QED BY <1>1, FS_Interval
<1>6. rank \in Surjection(I, 1 .. c)
  <2> HIDE DEF rank
  <2> QED BY <1>4, <1>5, FS_Injection
<1>7. \A n \in 1 .. c : \E i \in I : rank[i] = n
  BY <1>6 DEF Surjection
<1> QED BY <1>7 DEF RankOf

\* Chunks in the order of their keys are those chunks.
LEMMA InOrderAre ==
  ASSUME IsFiniteSet(Spots), NEW I \in SUBSET Spots, NEW key, Keyed(I, key)
  PROVE  LET o == V!InOrder(I, key)
         IN  /\ \E n \in Nat : DOMAIN o = 1 .. n
             /\ \A n \in DOMAIN o : o[n] \in I
             /\ \A i \in I : \E n \in DOMAIN o : o[n] = i
<1> DEFINE c == Cardinality(I)
           Rank(i) == V!Cardinality({j \in I : key[j] <= key[i]})
           Nth(n) == CHOOSE i \in I : Rank(i) = n
           o == V!InOrder(I, key)
<1>1. IsFiniteSet(I) /\ c \in Nat
  BY FS_Subset, FS_CardinalityType
<1>2. \A S : V!Cardinality(S) = Cardinality(S)
  BY DEF V!Cardinality, Cardinality
<1>3. o = [n \in 1 .. c |-> Nth(n)]
  BY <1>2 DEF V!InOrder
<1>9. \A i : Rank(i) = RankOf(I, key, i)
  BY <1>2 DEF RankOf
<1>4. \A n \in 1 .. c : \E i \in I : Rank(i) = n
  <2>1. \A n \in 1 .. Cardinality(I) : \E i \in I : RankOf(I, key, i) = n
    BY <1>1, RanksAre
  <2> HIDE DEF Rank
  <2> QED BY <1>9, <2>1
<1> USE DEF Keyed
<1>5. \A i \in I : Rank(i) \in 1 .. c
  <2> TAKE i \in I
  <2> DEFINE U == {j \in I : key[j] <= key[i]}
  <2>1. U \in SUBSET I /\ i \in U
    OBVIOUS
  <2> HIDE DEF U, c
  <2>2. IsFiniteSet(U) /\ Cardinality(U) <= Cardinality(I)
    BY <1>1, <2>1, FS_Subset
  <2>3. Cardinality(U) \in Nat /\ Cardinality(U) # 0
    BY <2>1, <2>2, FS_CardinalityType, FS_EmptySet
  <2>4. Rank(i) = Cardinality(U)
    BY <1>9 DEF RankOf, U
  <2> HIDE DEF Rank
  <2> QED BY <1>1, <2>2, <2>3, <2>4 DEF c
<1>6. \A i, k \in I : Rank(i) = Rank(k) => i = k
  <2>1. ASSUME NEW i \in I, NEW k \in I, key[i] < key[k] PROVE Rank(i) # Rank(k)
    <3> DEFINE U == {j \in I : key[j] <= key[i]}
               T == {j \in I : key[j] <= key[k]}
    <3>1. \A j \in I : key[j] <= key[i] => key[j] <= key[k]
      BY <2>1
    <3>2. ~(key[k] <= key[i]) /\ key[k] <= key[k]
      BY <2>1
    <3>3. U \in SUBSET T /\ k \in T /\ k \notin U /\ T \in SUBSET I
      BY <3>1, <3>2
    <3> HIDE DEF U, T
    <3>4. IsFiniteSet(T)
      BY <1>1, <3>3, FS_Subset
    <3>5. Cardinality(U) # Cardinality(T)
      BY <3>3, <3>4, FS_Subset
    <3>6. Rank(i) = Cardinality(U) /\ Rank(k) = Cardinality(T)
      BY <1>9 DEF RankOf, U, T
    <3> HIDE DEF Rank
    <3> QED BY <3>5, <3>6
  <2>2. \A i, k \in I : i = k \/ key[i] < key[k] \/ key[k] < key[i]
    OBVIOUS
  <2> HIDE DEF Rank
  <2> QED BY <2>1, <2>2
<1> HIDE DEF Rank, c, o
<1>7. \A n \in 1 .. c : Nth(n) \in I /\ Rank(Nth(n)) = n
  BY <1>4
<1>8. \A i \in I : Nth(Rank(i)) = i
  BY <1>5, <1>6, <1>7
<1> HIDE DEF Nth
<1> QED BY <1>1, <1>3, <1>5, <1>7, <1>8 DEF o

LEMMA ListedAre ==
  ASSUME IsFiniteSet(Spots), Spots \subseteq Int, NEW I \in SUBSET Spots
  PROVE  LET o == V!Listed(I)
         IN  /\ \E n \in Nat : DOMAIN o = 1 .. n
             /\ \A n \in DOMAIN o : o[n] \in I
             /\ \A i \in I : \E n \in DOMAIN o : o[n] = i
<1> DEFINE key == [c \in Spots |-> c]
<1>1. \A i \in I : key[i] \in Int /\ key[i] = i
  OBVIOUS
<1> HIDE DEF key
<1>3. Keyed(I, key)
  BY <1>1 DEF Keyed
<1>2. /\ \E n \in Nat : DOMAIN V!InOrder(I, key) = 1 .. n
      /\ \A n \in DOMAIN V!InOrder(I, key) : V!InOrder(I, key)[n] \in I
      /\ \A i \in I : \E n \in DOMAIN V!InOrder(I, key) : V!InOrder(I, key)[n] = i
  BY <1>3, InOrderAre
<1> QED BY <1>2 DEF V!Listed, key

LEMMA MissingAre ==
  ASSUME IsFiniteSet(Spots), Spots \subseteq Int, NEW c \in Int, NEW had
  PROVE  LET o == V!Missing(c, had)
             I == V!Near(c, ViewDist) \ had
         IN  /\ \E n \in Nat : DOMAIN o = 1 .. n
             /\ \A n \in DOMAIN o : o[n] \in I
             /\ \A i \in I : \E n \in DOMAIN o : o[n] = i
<1> DEFINE key == [x \in Spots |-> IF x < c THEN 2 * (c - x) ELSE 2 * (x - c) + 1]
           I == V!Near(c, ViewDist) \ had
<1>1. I \in SUBSET Spots
  BY DEF V!Near
<1>2. Keyed(I, key)
  <2>1. \A x \in I : /\ x \in Int
                     /\ x < c => key[x] = 2 * (c - x)
                     /\ ~(x < c) => key[x] = 2 * (x - c) + 1
    BY <1>1
  <2> HIDE DEF key, I
  <2> QED BY <2>1 DEF Keyed
<1>3. V!Missing(c, had) = V!InOrder(I, key)
  BY DEF V!Missing
<1> HIDE DEF key, I
<1>4. /\ \E n \in Nat : DOMAIN V!InOrder(I, key) = 1 .. n
      /\ \A n \in DOMAIN V!InOrder(I, key) : V!InOrder(I, key)[n] \in I
      /\ \A i \in I : \E n \in DOMAIN V!InOrder(I, key) : V!InOrder(I, key)[n] = i
  BY <1>1, <1>2, InOrderAre
<1> QED BY <1>3, <1>4 DEF I

-----------------------------------------------------------------------------
\* The lane of chunks of player p, when h and l are the lanes of his connection,
\* and the bars: each respawn in the other lane waits for so many of its frames.
LaneOf(p, h, l) == IF p \in OneLane THEN h ELSE l
BarsOf(p, h) ==
    {IF p \in OneLane THEN i ELSE h[i].wait : i \in {j \in DOMAIN h : h[j].k = "respawn"}}

Lanes(p, h, l) ==
    /\ h \in Seq(Frames) /\ l \in Seq(Frames)
    /\ p \in OneLane => l = << >> /\ \A i \in DOMAIN h : h[i].wait = 0
    /\ p \notin OneLane =>
          /\ \A i \in DOMAIN l : ~Neutral(l[i])
          /\ \A i \in DOMAIN h : Neutral(h[i]) /\ h[i].wait <= Len(l)
          /\ \A i, k \in DOMAIN h : i <= k => h[i].wait <= h[k].wait

LEMMA BarsWithin ==
  ASSUME NEW p, NEW h, NEW l, Lanes(p, h, l)
  PROVE  Within(BarsOf(p, h), LaneOf(p, h, l))
<1>1. h \in Seq(Frames) /\ DOMAIN h = 1 .. Len(h) /\ Len(h) \in Nat
  BY DEF Lanes
<1>2. \A i \in DOMAIN h : h[i].wait \in Nat
  BY <1>1 DEF Frames
<1>3. CASE p \in OneLane
  BY <1>1, <1>3 DEF BarsOf, LaneOf, Within
<1>4. CASE p \notin OneLane
  <2>1. \A i \in DOMAIN h : h[i].wait \in 0 .. Len(l)
    <3>1. Len(l) \in Nat
      BY DEF Lanes
    <3> QED BY <1>2, <1>4, <3>1 DEF Lanes
  <2> QED BY <1>4, <2>1 DEF BarsOf, LaneOf, Within
<1> QED BY <1>3, <1>4

LEMMA Joined ==
  ASSUME NEW a \in Seq(Frames), NEW b \in Seq(Frames)
  PROVE  /\ a \o b \in Seq(Frames) /\ Len(a \o b) = Len(a) + Len(b)
         /\ DOMAIN (a \o b) = 1 .. Len(a) + Len(b)
         /\ \A i \in DOMAIN a : (a \o b)[i] = a[i]
         /\ \A i \in DOMAIN (a \o b) : i \notin DOMAIN a =>
               i - Len(a) \in DOMAIN b /\ (a \o b)[i] = b[i - Len(a)]
<1>1. a \o b \in Seq(Frames) /\ Len(a \o b) = Len(a) + Len(b)
  OBVIOUS
<1>2. /\ DOMAIN a = 1 .. Len(a) /\ DOMAIN b = 1 .. Len(b) /\ Len(a) \in Nat /\ Len(b) \in Nat
      /\ DOMAIN (a \o b) = 1 .. Len(a) + Len(b)
  BY <1>1
<1>3. \A i \in 1 .. Len(a) + Len(b) :
         (a \o b)[i] = IF i <= Len(a) THEN a[i] ELSE b[i - Len(a)]
  OBVIOUS
<1> QED BY <1>1, <1>2, <1>3

\* The frames fr go behind all others: the lanes are g and m then.
Follow(p, fr, h, l, g, m) ==
    IF p \in OneLane THEN g = h \o fr /\ m = l ELSE g = h /\ m = l \o fr

LEMMA SentBehind ==
  ASSUME NEW p, NEW h, NEW l, Lanes(p, h, l),
         NEW fr \in Seq(Frames), \A i \in DOMAIN fr : ~Neutral(fr[i]),
         NEW g, NEW m, Follow(p, fr, h, l, g, m)
  PROVE  /\ Lanes(p, g, m) /\ Continues(LaneOf(p, g, m), LaneOf(p, h, l))
         /\ BarsOf(p, g) = BarsOf(p, h)
         /\ LaneOf(p, g, m) = LaneOf(p, h, l) \o fr
<1>1. /\ h \in Seq(Frames) /\ l \in Seq(Frames) /\ DOMAIN h = 1 .. Len(h) /\ DOMAIN l = 1 .. Len(l)
      /\ Len(h) \in Nat /\ Len(l) \in Nat /\ DOMAIN fr = 1 .. Len(fr) /\ Len(fr) \in Nat
  BY DEF Lanes
<1>2. \A i \in DOMAIN fr : fr[i] \in Frames /\ fr[i].wait = 0
  <2>1. \A f \in Frames : ~Neutral(f) => f.wait = 0
    BY DEF Frames, FrameKinds, Neutral
  <2> QED BY <1>1, <2>1
<1>3. CASE p \in OneLane
  <2>1. /\ g \in Seq(Frames) /\ Len(g) = Len(h) + Len(fr) /\ DOMAIN g = 1 .. Len(g)
        /\ \A i \in DOMAIN h : g[i] = h[i]
        /\ \A i \in DOMAIN g : i \notin DOMAIN h => i - Len(h) \in DOMAIN fr /\ g[i] = fr[i - Len(h)]
    <3>1. g = h \o fr
      BY <1>3 DEF Follow
    <3> QED BY <1>1, <3>1, Joined
  <2>2. \A i \in DOMAIN g : g[i].wait = 0
    BY <1>2, <1>3, <2>1 DEF Lanes
  <2>3. {j \in DOMAIN g : g[j].k = "respawn"} = {j \in DOMAIN h : h[j].k = "respawn"}
    <3>1. \A j \in DOMAIN g : j \notin DOMAIN h => g[j].k # "respawn"
      BY <2>1 DEF Neutral
    <3>2. \A j \in DOMAIN h : j \in DOMAIN g
      BY <1>1, <2>1
    <3> QED BY <2>1, <3>1, <3>2
  <2>4. BarsOf(p, g) = BarsOf(p, h)
    BY <1>3, <2>3 DEF BarsOf
  <2>5. Lanes(p, g, m)
    BY <1>3, <2>1, <2>2 DEF Lanes, Follow
  <2> QED BY <1>1, <1>3, <2>1, <2>4, <2>5 DEF Continues, LaneOf, Follow
<1>4. CASE p \notin OneLane
  <2>1. /\ m \in Seq(Frames) /\ Len(m) = Len(l) + Len(fr) /\ DOMAIN m = 1 .. Len(m)
        /\ \A i \in DOMAIN l : m[i] = l[i]
        /\ \A i \in DOMAIN m : i \notin DOMAIN l => i - Len(l) \in DOMAIN fr /\ m[i] = fr[i - Len(l)]
    <3>1. m = l \o fr
      BY <1>4 DEF Follow
    <3> QED BY <1>1, <3>1, Joined
  <2>2. \A i \in DOMAIN m : ~Neutral(m[i])
    BY <1>4, <2>1 DEF Lanes
  <2>3. \A i \in DOMAIN h : h[i].wait <= Len(m)
    <3>1. \A i \in DOMAIN h : h[i].wait \in Nat /\ h[i].wait <= Len(l)
      BY <1>1, <1>4 DEF Lanes, Frames
    <3> QED BY <1>1, <2>1, <3>1
  <2>4. Lanes(p, g, m)
    BY <1>1, <1>4, <2>1, <2>2, <2>3 DEF Lanes, Follow
  <2> QED BY <1>1, <1>4, <2>1, <2>4 DEF Continues, LaneOf, Follow
<1> QED BY <1>3, <1>4

\* A barrier f behind all that is in the lanes h and l: the first is g then.
Barrier(f, h, l, g) == f \in Frames /\ Neutral(f) /\ f.wait = Len(l) /\ g = Append(h, f)

LEMMA Barred ==
  ASSUME NEW p, NEW h, NEW l, Lanes(p, h, l), NEW f, NEW g, Barrier(f, h, l, g)
  PROVE  /\ Lanes(p, g, l) /\ Continues(LaneOf(p, g, l), LaneOf(p, h, l))
         /\ \A i \in Fresh(LaneOf(p, g, l), LaneOf(p, h, l)) : Neutral(LaneOf(p, g, l)[i])
         /\ BarsOf(p, g) = IF f.k = "respawn" THEN BarsOf(p, h) \cup {Len(LaneOf(p, g, l))}
                           ELSE BarsOf(p, h)
<1>1. /\ h \in Seq(Frames) /\ l \in Seq(Frames) /\ DOMAIN h = 1 .. Len(h) /\ DOMAIN l = 1 .. Len(l)
      /\ Len(h) \in Nat /\ Len(l) \in Nat
      /\ f \in Frames /\ Neutral(f) /\ f.wait = Len(l) /\ g = Append(h, f)
  BY DEF Lanes, Barrier
<1>2. /\ g \in Seq(Frames) /\ Len(g) = Len(h) + 1 /\ DOMAIN g = 1 .. Len(g)
      /\ \A i \in DOMAIN h : g[i] = h[i] /\ i \in DOMAIN g
      /\ g[Len(g)] = f /\ Len(g) \in DOMAIN g /\ Len(g) \notin DOMAIN h
      /\ \A i \in DOMAIN g : i \in DOMAIN h \/ i = Len(g)
  BY <1>1
<1>3. Lanes(p, g, l)
  <2>1. CASE p \in OneLane
    BY <1>1, <1>2, <2>1 DEF Lanes
  <2>2. CASE p \notin OneLane
    <3>1. \A i \in DOMAIN g : Neutral(g[i]) /\ g[i].wait <= Len(l)
      BY <1>1, <1>2, <2>2 DEF Lanes
    <3>2. \A i, k \in DOMAIN g : i <= k => g[i].wait <= g[k].wait
      <4> SUFFICES ASSUME NEW i \in DOMAIN g, NEW k \in DOMAIN g, i <= k
                   PROVE  g[i].wait <= g[k].wait
        OBVIOUS
      <4>1. CASE k \in DOMAIN h
        <5>1. i \in DOMAIN h
          BY <1>1, <1>2, <4>1
        <5> QED BY <1>2, <2>2, <4>1, <5>1 DEF Lanes
      <4>2. CASE k = Len(g)
        BY <1>1, <1>2, <3>1, <4>2
      <4> QED BY <1>2, <4>1, <4>2
    <3> QED BY <1>1, <1>2, <2>2, <3>1, <3>2 DEF Lanes
  <2> QED BY <2>1, <2>2
<1>4. /\ Continues(LaneOf(p, g, l), LaneOf(p, h, l))
      /\ \A i \in Fresh(LaneOf(p, g, l), LaneOf(p, h, l)) : Neutral(LaneOf(p, g, l)[i])
  BY <1>1, <1>2 DEF Continues, LaneOf, Fresh
<1>5. {j \in DOMAIN g : g[j].k = "respawn"} =
         {j \in DOMAIN h : h[j].k = "respawn"} \cup (IF f.k = "respawn" THEN {Len(g)} ELSE {})
  BY <1>2
<1>6. \A j \in {j \in DOMAIN h : h[j].k = "respawn"} : g[j] = h[j]
  BY <1>2
<1>7. CASE p \in OneLane
  <2>1. Len(LaneOf(p, g, l)) = Len(g)
    BY <1>7 DEF LaneOf
  <2>2. BarsOf(p, g) = {j \in DOMAIN g : g[j].k = "respawn"}
        /\ BarsOf(p, h) = {j \in DOMAIN h : h[j].k = "respawn"}
    BY <1>7 DEF BarsOf
  <2> QED BY <1>3, <1>4, <1>5, <2>1, <2>2
<1>8. CASE p \notin OneLane
  <2>1. Len(LaneOf(p, g, l)) = Len(l)
    BY <1>8 DEF LaneOf
  <2>2. /\ BarsOf(p, g) = {g[i].wait : i \in {j \in DOMAIN g : g[j].k = "respawn"}}
        /\ BarsOf(p, h) = {h[i].wait : i \in {j \in DOMAIN h : h[j].k = "respawn"}}
    BY <1>8 DEF BarsOf
  <2>3. BarsOf(p, g) = IF f.k = "respawn" THEN BarsOf(p, h) \cup {Len(l)} ELSE BarsOf(p, h)
    BY <1>1, <1>2, <1>5, <1>6, <2>2
  <2> QED BY <1>3, <1>4, <2>1, <2>3
<1> QED BY <1>7, <1>8

-----------------------------------------------------------------------------
ViewTypes ==
    /\ world \in [Dims -> [Spots -> Nat]]
    /\ cache \in [Dims -> [Spots -> Known]] /\ batch \in [Dims -> [Spots -> Known]]
    /\ at \in [Viewers -> [dim : Dims, c : Spots \cup {V!Origin}]]
    /\ sent \in [Viewers -> SUBSET Spots]
    /\ high \in [Viewers -> Seq(Frames)] /\ low \in [Viewers -> Seq(Frames)]
    /\ screen \in [Viewers -> [Spots -> Known]]
    /\ untold \in [Viewers -> SUBSET Spots] /\ blank \in [Viewers -> SUBSET Spots]
    /\ \A p \in Viewers : blank[p] \subseteq sent[p]

\* What is in the cache is what is in the world.
Fitting == \A d \in Dims, c \in Spots : cache[d][c] \in {V!None, world[d][c]}

\* The chunks the client of player p has once all has arrived; and for which an edit
\* is awaited then: by the batch, or in vain.
Had(p) == sent[p] \ blank[p]
Awaited(p) == [c \in Spots |-> IF c \in untold[p] THEN 0 ELSE batch[at[p].dim][c]]

\* A player with lanes h and l who sees s will see the chunks S of world W.
Seeing(p, h, l, s, S, W, Q) ==
    Lanes(p, h, l) /\ Leads(LaneOf(p, h, l), BarsOf(p, h), s, S, W, Q)
Sees(p) == Seeing(p, high[p], low[p], screen[p], Had(p), world[at[p].dim], Awaited(p))
ViewFits == ViewTypes /\ Fitting /\ \A p \in Viewers : Sees(p)

ViewConstants ==
    /\ "over" \in Dims /\ Spots \subseteq Int /\ IsFiniteSet(Spots)
    /\ OneLane \cup Walkers \subseteq Viewers /\ ViewDist \in Nat

LEMMA ViewConstantsHold == V!ChunkViewConstants => ViewConstants
BY DEF V!ChunkViewConstants, ViewConstants, V!IsFiniteSet, IsFiniteSet

LEMMA SeesStays ==
  ASSUME NEW p, Sees(p), high'[p] = high[p], low'[p] = low[p], screen'[p] = screen[p],
         sent'[p] = sent[p], blank'[p] = blank[p], at'[p].dim = at[p].dim,
         world'[at[p].dim] = world[at[p].dim],
         batch'[at[p].dim] = batch[at[p].dim], untold'[p] = untold[p]
  PROVE  Sees(p)'
BY DEF Sees, Had, Awaited

LEMMA ViewInit == ASSUME ViewConstants, V!Init PROVE ViewFits
<1>1. V!None \in Known /\ 0 \in Known /\ V!None # 0
  BY DEF Known, V!None
<1>2. << >> \in Seq(Frames) /\ DOMAIN << >> = {} /\ Len(<< >>) = 0
  OBVIOUS
<1>3. ViewTypes
  BY <1>1, <1>2 DEF ViewTypes, V!Init, ViewConstants, V!Near
<1>4. Fitting
  BY DEF Fitting, V!Init
<1>5. ASSUME NEW p \in Viewers PROVE Sees(p)
  <2>1. high[p] = << >> /\ low[p] = << >>
    BY DEF V!Init
  <2>2. Lanes(p, << >>, << >>)
    BY <1>2 DEF Lanes
  <2>3. LaneOf(p, << >>, << >>) = << >> /\ BarsOf(p, << >>) = {}
    BY <1>2 DEF LaneOf, BarsOf
  <2>5. Had(p) = sent[p] /\ \A c \in Spots : Awaited(p)[c] = V!None
    BY DEF V!Init, ViewConstants, Had, Awaited
  <2>4. ASSUME NEW c \in Spots
        PROVE  Comes(<< >>, {}, screen[p], Had(p), world[at[p].dim], Awaited(p), c)
    <3>1. \A j : ~Gone(<< >>, {}, j, c)
      BY <1>2 DEF Gone
    <3>2. /\ screen[p][c] = IF c \in sent[p] THEN 0 ELSE V!None
          /\ world[at[p].dim][c] = 0
      BY DEF V!Init, ViewConstants
    <3>3. c \in sent[p] => EndsWith(<< >>, screen[p][c], c, world[at[p].dim][c])
      BY <1>2, <3>2 DEF EndsWith
    <3> QED BY <1>1, <1>2, <2>5, <3>1, <3>2, <3>3 DEF Comes
  <2> QED BY <2>1, <2>2, <2>3, <2>4 DEF Sees, Seeing, Leads
<1> QED BY <1>3, <1>4, <1>5 DEF ViewFits

\* A block of d is edited: whoever has it awaits it in the batch, or in vain.
LEMMA BlockEdited ==
  ASSUME ViewConstants, ViewFits, NEW d \in Dims, NEW c \in Spots, V!setBlock(d, c),
         batch' \in [Dims -> [Spots -> Known]], untold' \in [Viewers -> SUBSET Spots],
         \A p \in Viewers, e \in Spots :
            /\ e \in Had(p) /\ Awaited(p)'[e] = V!None => Awaited(p)[e] = V!None
            /\ e \in Had(p) /\ Awaited(p)'[e] = V!None => at[p].dim # d \/ e # c
  PROVE  ViewFits'
<1>1. /\ world' = [world EXCEPT ![d][c] = @ + 1]
      /\ cache' = [cache EXCEPT ![d][c] = V!None]
      /\ UNCHANGED <<at, sent, high, low, screen, blank>>
  BY DEF V!setBlock, V!Uncached
<1>2. world[d][c] \in Nat /\ world[d][c] + 1 \in Nat /\ V!None \in Known
  BY DEF ViewFits, ViewTypes, Known
<1>3. ViewTypes'
  BY <1>1, <1>2 DEF ViewFits, ViewTypes
<1>4. Fitting'
  BY <1>1, <1>2 DEF ViewFits, Fitting, ViewTypes
<1>5. ASSUME NEW p \in Viewers PROVE Sees(p)'
  <2> DEFINE a == at[p].dim
  <2>1. a \in Dims /\ Sees(p) /\ Had(p)' = Had(p)
    BY <1>1 DEF ViewFits, ViewTypes, Had
  <2>2. \A e \in Spots : a # d \/ e # c => world'[a][e] = world[a][e]
    BY <1>1, <2>1 DEF ViewFits, ViewTypes
  <2> PICK L, A, s, S, W, Q, X, R :
           /\ L = LaneOf(p, high[p], low[p]) /\ A = BarsOf(p, high[p]) /\ s = screen[p]
           /\ S = Had(p) /\ W = world[a] /\ Q = Awaited(p) /\ X = world'[a] /\ R = Awaited(p)'
    OBVIOUS
  <2>3. Leads(L, A, s, S, W, Q)
    BY <2>1 DEF Sees, Seeing
  <2>4. \A e \in Spots : e \in S /\ R[e] = V!None => Q[e] = V!None /\ X[e] = W[e]
    BY <2>2
  <2>5. Leads(L, A, s, S, X, R)
    BY <2>3, <2>4, LeadsEdited
  <2> QED BY <1>1, <2>1, <2>5 DEF Sees, Seeing
<1> QED BY <1>3, <1>4, <1>5 DEF ViewFits

LEMMA EditSees ==
  ASSUME ViewConstants, ViewFits, NEW d \in Dims, NEW c \in Spots, V!Edit(d, c)
  PROVE  ViewFits'
<1>1. /\ V!setBlock(d, c) /\ UNCHANGED <<at, untold>>
      /\ batch' = [batch EXCEPT ![d][c] = world[d][c] + 1]
  BY DEF V!Edit, V!setBlock
<1>2. ViewTypes /\ world[d][c] + 1 \in Known /\ world[d][c] + 1 # V!None
  BY DEF ViewFits, ViewTypes, Known, V!None
<1>3. batch' \in [Dims -> [Spots -> Known]] /\ untold' \in [Viewers -> SUBSET Spots]
  BY <1>1, <1>2 DEF ViewTypes
<1>4. ASSUME NEW p \in Viewers, NEW e \in Spots, Awaited(p)'[e] = V!None
      PROVE  Awaited(p)[e] = V!None /\ (at[p].dim # d \/ e # c)
  <2>1. at[p].dim \in Dims /\ e \notin untold[p] /\ batch'[at[p].dim][e] = V!None
    BY <1>1, <1>2, <1>4 DEF Awaited, ViewTypes, V!None
  <2>2. at[p].dim # d \/ e # c
    BY <1>1, <1>2, <2>1 DEF ViewTypes
  <2>3. batch[at[p].dim][e] = V!None
    BY <1>1, <1>2, <2>1, <2>2 DEF ViewTypes
  <2> QED BY <2>1, <2>2, <2>3 DEF Awaited
<1> QED BY <1>1, <1>3, <1>4, BlockEdited

LEMMA EditUntoldSees ==
  ASSUME ViewConstants, ViewFits, NEW d \in Dims, NEW c \in Spots, V!EditUntold(d, c)
  PROVE  ViewFits'
<1>1. /\ V!setBlock(d, c) /\ UNCHANGED <<at, batch>>
      /\ untold' = [q \in Viewers |-> untold[q] \cup {x \in {c} : at[q].dim = d /\ c \in Had(q)}]
  BY DEF V!EditUntold, V!setBlock, V!Untold, V!Has, Had
<1>2. ViewTypes
  BY DEF ViewFits
<1>3. batch' \in [Dims -> [Spots -> Known]] /\ untold' \in [Viewers -> SUBSET Spots]
  BY <1>1, <1>2 DEF ViewTypes
<1>4. ASSUME NEW p \in Viewers, NEW e \in Spots, e \in Had(p), Awaited(p)'[e] = V!None
      PROVE  Awaited(p)[e] = V!None /\ (at[p].dim # d \/ e # c)
  <2>1. e \notin untold'[p] /\ batch[at[p].dim][e] = V!None
    BY <1>1, <1>4 DEF Awaited, V!None
  <2>2. e \notin untold[p] /\ (at[p].dim # d \/ e # c)
    BY <1>1, <1>4, <2>1
  <2> QED BY <2>1, <2>2 DEF Awaited
<1> QED BY <1>1, <1>3, <1>4, BlockEdited

LEMMA FreshAre ==
  ASSUME NEW a \in Seq(Frames), NEW b \in Seq(Frames)
  PROVE  LET L == a \o b
         IN  /\ \A i \in Fresh(L, a) : i - Len(a) \in DOMAIN b /\ L[i] = b[i - Len(a)]
             /\ \A i \in DOMAIN b : Len(a) + i \in Fresh(L, a) /\ L[Len(a) + i] = b[i]
<1> DEFINE L == a \o b
<1>1. /\ Len(L) = Len(a) + Len(b) /\ DOMAIN L = 1 .. Len(a) + Len(b)
      /\ \A i \in DOMAIN L : i \notin DOMAIN a => i - Len(a) \in DOMAIN b /\ L[i] = b[i - Len(a)]
  BY Joined
<1>2. DOMAIN a = 1 .. Len(a) /\ DOMAIN b = 1 .. Len(b) /\ Len(a) \in Nat /\ Len(b) \in Nat
  OBVIOUS
<1> HIDE DEF L
<1>3. \A i \in Fresh(L, a) : i \in DOMAIN L /\ i \notin DOMAIN a
  BY <1>1, <1>2 DEF Fresh
<1>4. \A i \in DOMAIN b : Len(a) + i \in Fresh(L, a) /\ (Len(a) + i) - Len(a) = i
  BY <1>1, <1>2 DEF Fresh
<1>5. \A i \in Fresh(L, a) : i - Len(a) \in DOMAIN b /\ L[i] = b[i - Len(a)]
  BY <1>1, <1>3
<1>6. \A i \in DOMAIN b : L[Len(a) + i] = b[i]
  BY <1>4, <1>5
<1> QED BY <1>4, <1>5, <1>6 DEF L

\* The frames of a flush.
LEMMA UpdatesAre ==
  ASSUME ViewConstants, ViewTypes, NEW d \in Dims
  PROVE  LET u == V!Updates(d)
         IN  /\ u \in Seq(Frames)
             /\ \A i \in DOMAIN u : \E c \in Spots :
                   Is(u[i], "update", c) /\ u[i].v = batch[d][c] /\ batch[d][c] # V!None
             /\ \A c \in Spots : batch[d][c] # V!None => \E i \in DOMAIN u : Is(u[i], "update", c)
<1> DEFINE I == {c \in Spots : batch[d][c] # V!None}
           o == V!Edited(d)
           u == V!Updates(d)
<1>1. /\ \E n \in Nat : DOMAIN o = 1 .. n
      /\ \A n \in DOMAIN o : o[n] \in I
      /\ \A i \in I : \E n \in DOMAIN o : o[n] = i
  <2>1. o = V!Listed(I)
    BY DEF V!Edited
  <2>2. I \in SUBSET Spots
    OBVIOUS
  <2> HIDE DEF I, o
  <2> QED BY <2>1, <2>2, ListedAre DEF ViewConstants
<1>2. u = [i \in DOMAIN o |-> V!Update(o[i], batch[d][o[i]])]
  BY DEF V!Updates
<1>3. \A c \in I : batch[d][c] # V!None /\ batch[d][c] \in Nat /\ c \in Spots
  BY DEF ViewTypes, Known
<1>4. \A c \in I : /\ V!Update(c, batch[d][c]) \in Frames
                   /\ Is(V!Update(c, batch[d][c]), "update", c)
                   /\ V!Update(c, batch[d][c]).v = batch[d][c]
  <2> TAKE c \in I
  <2>1. V!Update(c, batch[d][c]) = [k |-> "update", c |-> c, v |-> batch[d][c], wait |-> 0]
    BY DEF V!Update
  <2> HIDE DEF I
  <2> QED BY <1>3, <2>1 DEF Frames, FrameKinds, Is, Known
<1> HIDE DEF o, u
<1>5. DOMAIN u = DOMAIN o /\ \A i \in DOMAIN u : u[i] = V!Update(o[i], batch[d][o[i]])
  BY <1>2
<1>6. u \in Seq(Frames)
  <2>1. \A i \in DOMAIN u : u[i] \in Frames
    BY <1>1, <1>4, <1>5
  <2>2. PICK n \in Nat : DOMAIN u = 1 .. n
    BY <1>1, <1>5
  <2>3. u \in [1 .. n -> Frames]
    BY <1>2, <1>5, <2>1, <2>2
  <2> QED BY <2>3, SeqDef
<1> QED BY <1>1, <1>3, <1>4, <1>5, <1>6 DEF u

\* For chunks S of world W, updates u show those of which no edit is awaited in R,
\* and all those of which one was in Q.
Shows(u, S, W, R) ==
    \A i \in DOMAIN u : \E c \in Spots :
        Is(u[i], "update", c) /\ (c \in S /\ R[c] = V!None => u[i].v = W[c])
Covers(u, S, Q, R) ==
    \A c \in S \cap Spots :
        Q[c] # V!None /\ R[c] = V!None => \E i \in DOMAIN u : Is(u[i], "update", c)

\* Such updates go behind all others.
LEMMA SeeingTold ==
  ASSUME NEW p, NEW h, NEW l, NEW s, NEW S, NEW W, NEW Q, Seeing(p, h, l, s, S, W, Q),
         NEW u \in Seq(Frames), NEW R, Shows(u, S, W, R), Covers(u, S, Q, R),
         NEW g, NEW m, Follow(p, u, h, l, g, m)
  PROVE  Seeing(p, g, m, s, S, W, R)
<1> DEFINE M == LaneOf(p, h, l)
           L == LaneOf(p, g, m)
           A == BarsOf(p, h)
<1>1. Lanes(p, h, l) /\ Leads(M, A, s, S, W, Q)
  BY DEF Seeing
<1>2. \A i \in DOMAIN u : ~Neutral(u[i])
  BY DEF Shows, Is, Neutral
<1>0. Lanes(p, h, l)
  BY <1>1
<1>3. Lanes(p, g, m) /\ Continues(L, M) /\ BarsOf(p, g) = A /\ L = M \o u
  BY <1>0, <1>2, SentBehind
<1>4. Within(A, M)
  BY <1>1, BarsWithin
<1> HIDE DEF M, L, A
<1>5. /\ \A i \in Fresh(L, M) : i - Len(M) \in DOMAIN u /\ L[i] = u[i - Len(M)]
      /\ \A i \in DOMAIN u : Len(M) + i \in Fresh(L, M) /\ L[Len(M) + i] = u[i]
  <2>1. M \in Seq(Frames) /\ u \in Seq(Frames) /\ L = M \o u
    BY <1>3 DEF Continues
  <2> QED BY ONLY <2>1, FreshAre
<1>6. Leads(L, A, s, S, W, R)
  <2>1. \A i \in Fresh(L, M) : \E c \in Spots :
           Is(L[i], "update", c) /\ (c \in S /\ R[c] = V!None => L[i].v = W[c])
    <3> TAKE i \in Fresh(L, M)
    <3>1. i - Len(M) \in DOMAIN u /\ L[i] = u[i - Len(M)]
      BY <1>5
    <3> QED BY <3>1 DEF Shows
  <2>2. \A c \in S \cap Spots :
           Q[c] # V!None /\ R[c] = V!None => \E i \in Fresh(L, M) : Is(L[i], "update", c)
    <3> TAKE c \in S \cap Spots
    <3> HAVE Q[c] # V!None /\ R[c] = V!None
    <3>1. PICK i \in DOMAIN u : Is(u[i], "update", c)
      BY DEF Covers
    <3> QED BY <1>5, <3>1
  <2> QED BY <1>1, <1>3, <1>4, <2>1, <2>2, LeadsUpdates
<1> QED BY <1>3, <1>6 DEF Seeing, L, A

LEMMA FlushSees ==
  ASSUME ViewConstants, ViewFits, V!Flush
  PROVE  ViewFits'
<1>1. /\ high' = [p \in Viewers |-> IF p \in OneLane THEN high[p] \o V!Updates(at[p].dim) ELSE high[p]]
      /\ low' = [p \in Viewers |-> IF p \in OneLane THEN low[p] ELSE low[p] \o V!Updates(at[p].dim)]
      /\ batch' = [d \in Dims |-> [c \in Spots |-> V!None]]
      /\ untold' = [p \in Viewers |-> V!Behindhand(p)]
      /\ UNCHANGED <<world, cache, at, sent, screen, blank>>
  BY DEF V!Flush, V!Everyone
<1>2. ViewTypes /\ Fitting /\ \A p \in Viewers : at[p].dim \in Dims /\ Sees(p)
  BY DEF ViewFits, ViewTypes
<1>3. \A p \in Viewers : V!Updates(at[p].dim) \in Seq(Frames)
  BY <1>2, UpdatesAre
<1>4. ViewTypes'
  <2>1. V!None \in Known
    BY DEF Known
  <2>2. batch' \in [Dims -> [Spots -> Known]]
    BY <1>1, <2>1
  <2>3. \A p \in Viewers : high'[p] \in Seq(Frames) /\ low'[p] \in Seq(Frames)
    BY <1>1, <1>2, <1>3 DEF ViewTypes
  <2>4. high' \in [Viewers -> Seq(Frames)] /\ low' \in [Viewers -> Seq(Frames)]
    BY <1>1, <2>3
  <2>5. \A p \in Viewers : V!Behindhand(p) \in SUBSET Spots
    BY <1>2 DEF V!Behindhand, ViewTypes
  <2>6. untold' \in [Viewers -> SUBSET Spots]
    BY <1>1, <2>5
  <2> QED BY <1>1, <1>2, <2>2, <2>4, <2>6 DEF ViewTypes
<1>5. Fitting'
  BY <1>1, <1>2 DEF Fitting
<1>6. ASSUME NEW p \in Viewers PROVE Sees(p)'
  <2> DEFINE u == V!Updates(at[p].dim)
             waits == batch[at[p].dim]
  <2>1. /\ u \in Seq(Frames)
        /\ \A i \in DOMAIN u : \E c \in Spots :
              Is(u[i], "update", c) /\ u[i].v = waits[c] /\ waits[c] # V!None
        /\ \A c \in Spots : waits[c] # V!None => \E i \in DOMAIN u : Is(u[i], "update", c)
    BY <1>2, UpdatesAre
  <2>2. /\ high'[p] = IF p \in OneLane THEN high[p] \o u ELSE high[p]
        /\ low'[p] = IF p \in OneLane THEN low[p] ELSE low[p] \o u
    BY <1>1
  <2> PICK h, l, s, S, W, Q, g, m, R :
           /\ h = high[p] /\ l = low[p] /\ s = screen[p] /\ S = Had(p)
           /\ W = world[at[p].dim] /\ Q = Awaited(p)
           /\ g = high'[p] /\ m = low'[p] /\ R = Awaited(p)'
    OBVIOUS
  <2>3. Had(p)' = Had(p) /\ at'[p] = at[p]
    BY <1>1 DEF Had
  <2>4. \A c \in Spots : c \in S /\ R[c] = V!None =>
           IF waits[c] = V!None THEN c \notin untold[p] ELSE waits[c] = W[c]
    <3>1. \A c \in Spots : R[c] = V!None => c \notin V!Behindhand(p)
      BY <1>1 DEF Awaited, V!None
    <3> QED BY <3>1 DEF V!Behindhand, Had
  <2>5. \A c \in Spots : waits[c] = V!None /\ c \notin untold[p] => Q[c] = V!None
    BY DEF Awaited
  <2> HIDE DEF u, waits
  <2>6. Seeing(p, h, l, s, S, W, Q)
    BY <1>2 DEF Sees
  <2>7. Follow(p, u, h, l, g, m)
    BY <2>2 DEF Follow
  <2>8. Shows(u, S, W, R) /\ Covers(u, S, Q, R)
    BY <2>1, <2>4, <2>5 DEF Shows, Covers
  <2>9. Seeing(p, g, m, s, S, W, R)
    BY <2>1, <2>6, <2>7, <2>8, SeeingTold
  <2> QED BY <1>1, <2>3, <2>9 DEF Sees
<1> QED BY <1>4, <1>5, <1>6 DEF ViewFits

LEMMA KeepSees ==
  ASSUME ViewFits, NEW d \in Dims, NEW c \in Spots, V!Keep(d, c)
  PROVE  ViewFits'
<1>1. PICK v \in {V!None, world[d][c]} : cache' = [cache EXCEPT ![d][c] = v]
  BY DEF V!Keep
<1>2. UNCHANGED <<world, batch, at, sent, high, low, screen, untold, blank>>
  BY DEF V!Keep
<1>3. v \in Known
  BY DEF ViewFits, ViewTypes, Known
<1>4. ViewTypes'
  BY <1>1, <1>2, <1>3 DEF ViewFits, ViewTypes
<1>5. Fitting'
  BY <1>1, <1>2 DEF ViewFits, ViewTypes, Fitting
<1>6. \A p \in Viewers : Sees(p)'
  BY <1>2, SeesStays DEF ViewFits
<1> QED BY <1>4, <1>5, <1>6 DEF ViewFits

\* The frames fr bring the chunks N of world W; the frames fr drop the chunks O.
Brings(fr, N, W) ==
    /\ fr \in Seq(Frames)
    /\ \A i \in DOMAIN fr : \E c \in N : Is(fr[i], "chunk", c) /\ fr[i].v = W[c]
    /\ \A c \in N : \E i \in DOMAIN fr : Is(fr[i], "chunk", c)
Drops(fr, O) ==
    /\ fr \in Seq(Frames)
    /\ \A i \in DOMAIN fr : \E c \in O : Is(fr[i], "forget", c)
    /\ \A c \in O : \E i \in DOMAIN fr : Is(fr[i], "forget", c)

LEMMA BodiesBring ==
  ASSUME ViewConstants, NEW c \in Int, NEW had, NEW W \in [Spots -> Nat]
  PROVE  LET o == V!Missing(c, had)
         IN  Brings([i \in DOMAIN o |-> V!Body(o[i], W[o[i]])], V!Near(c, ViewDist) \ had, W)
<1> DEFINE o == V!Missing(c, had)
           I == V!Near(c, ViewDist) \ had
           fr == [i \in DOMAIN o |-> V!Body(o[i], W[o[i]])]
<1>1. /\ \E n \in Nat : DOMAIN o = 1 .. n
      /\ \A n \in DOMAIN o : o[n] \in I
      /\ \A i \in I : \E n \in DOMAIN o : o[n] = i
  BY MissingAre DEF ViewConstants
<1>2. I \in SUBSET Spots
  BY DEF V!Near
<1> HIDE DEF o, I
<1>3. \A x \in I : /\ V!Body(x, W[x]) \in Frames
                   /\ Is(V!Body(x, W[x]), "chunk", x) /\ V!Body(x, W[x]).v = W[x]
  <2> TAKE x \in I
  <2>1. V!Body(x, W[x]) = [k |-> "chunk", c |-> x, v |-> W[x], wait |-> 0]
    BY DEF V!Body
  <2>2. x \in Spots /\ W[x] \in Nat
    BY <1>2
  <2> QED BY <2>1, <2>2 DEF Frames, FrameKinds, Is, Known
<1>4. DOMAIN fr = DOMAIN o /\ \A i \in DOMAIN fr : fr[i] = V!Body(o[i], W[o[i]])
  OBVIOUS
<1> HIDE DEF fr
<1>5. fr \in Seq(Frames)
  <2>1. \A i \in DOMAIN fr : fr[i] \in Frames
    BY <1>1, <1>3, <1>4
  <2>2. PICK n \in Nat : DOMAIN fr = 1 .. n
    BY <1>1, <1>4
  <2>3. fr \in [1 .. n -> Frames]
    BY <2>1, <2>2 DEF fr
  <2> QED BY <2>3, SeqDef
<1>6. Brings(fr, I, W)
  BY <1>1, <1>3, <1>4, <1>5 DEF Brings
<1> QED BY <1>6 DEF fr, o, I

LEMMA ForgetsDrop ==
  ASSUME ViewConstants, NEW O \in SUBSET Spots
  PROVE  LET o == V!Listed(O)
         IN  Drops([i \in DOMAIN o |-> V!Forget(o[i])], O)
<1> DEFINE o == V!Listed(O)
           fr == [i \in DOMAIN o |-> V!Forget(o[i])]
<1>1. /\ \E n \in Nat : DOMAIN o = 1 .. n
      /\ \A n \in DOMAIN o : o[n] \in O
      /\ \A i \in O : \E n \in DOMAIN o : o[n] = i
  BY ListedAre DEF ViewConstants
<1> HIDE DEF o
<1>3. \A x \in O : V!Forget(x) \in Frames /\ Is(V!Forget(x), "forget", x)
  BY DEF V!Forget, Frames, FrameKinds, Is, Known
<1>4. DOMAIN fr = DOMAIN o /\ \A i \in DOMAIN fr : fr[i] = V!Forget(o[i])
  OBVIOUS
<1> HIDE DEF fr
<1>5. fr \in Seq(Frames)
  <2>1. \A i \in DOMAIN fr : fr[i] \in Frames
    BY <1>1, <1>3, <1>4
  <2>2. PICK n \in Nat : DOMAIN fr = 1 .. n
    BY <1>1, <1>4
  <2>3. fr \in [1 .. n -> Frames]
    BY <2>1, <2>2 DEF fr
  <2> QED BY <2>3, SeqDef
<1>6. Drops(fr, O)
  BY <1>1, <1>3, <1>4, <1>5 DEF Drops
<1> QED BY <1>6 DEF fr, o

\* The chunks that come into view, then those that go out of it.
LEMMA SeeingStreamed ==
  ASSUME NEW p, NEW h, NEW l, NEW s, NEW S, NEW W, NEW Q, Seeing(p, h, l, s, S, W, Q),
         NEW N, NEW O, N \cap O = {}, N \cap S = {},
         NEW a, Brings(a, N, W), NEW b, Drops(b, O),
         NEW g, NEW m, Follow(p, a \o b, h, l, g, m)
  PROVE  Seeing(p, g, m, s, (S \cup N) \ O, W, Q)
<1> DEFINE M == LaneOf(p, h, l)
           L == LaneOf(p, g, m)
           A == BarsOf(p, h)
           fr == a \o b
<1>1. Lanes(p, h, l) /\ Leads(M, A, s, S, W, Q)
  BY DEF Seeing
<1>2. a \in Seq(Frames) /\ b \in Seq(Frames)
  BY DEF Brings, Drops
<1>3. /\ fr \in Seq(Frames) /\ Len(fr) = Len(a) + Len(b) /\ DOMAIN fr = 1 .. Len(a) + Len(b)
      /\ \A i \in DOMAIN a : fr[i] = a[i]
      /\ \A i \in DOMAIN fr : i \notin DOMAIN a => i - Len(a) \in DOMAIN b /\ fr[i] = b[i - Len(a)]
  BY <1>2, Joined
<1>4. DOMAIN a = 1 .. Len(a) /\ DOMAIN b = 1 .. Len(b) /\ Len(a) \in Nat /\ Len(b) \in Nat
  BY <1>2
<1> HIDE DEF fr
<1>5. \A i \in DOMAIN fr : ~Neutral(fr[i])
  <2>1. \A i \in DOMAIN a : ~Neutral(a[i])
    BY DEF Brings, Is, Neutral
  <2>2. \A i \in DOMAIN b : ~Neutral(b[i])
    BY DEF Drops, Is, Neutral
  <2> QED BY <1>3, <2>1, <2>2
<1>6. Follow(p, fr, h, l, g, m)
  BY DEF fr
<1>7. Lanes(p, g, m) /\ Continues(L, M) /\ BarsOf(p, g) = A /\ L = M \o fr
  BY <1>1, <1>3, <1>5, <1>6, SentBehind
<1>8. Within(A, M)
  BY <1>1, BarsWithin
<1> HIDE DEF M, L, A
<1>9. /\ \A i \in Fresh(L, M) : i - Len(M) \in DOMAIN fr /\ L[i] = fr[i - Len(M)]
      /\ \A i \in DOMAIN fr : Len(M) + i \in Fresh(L, M) /\ L[Len(M) + i] = fr[i]
  <2>1. M \in Seq(Frames) /\ fr \in Seq(Frames) /\ L = M \o fr
    BY <1>3, <1>7 DEF Continues
  <2> QED BY ONLY <2>1, FreshAre
<1>10. Len(M) \in Nat /\ Len(L) = Len(M) + Len(fr)
  <2>1. M \in Seq(Frames) /\ fr \in Seq(Frames) /\ L = M \o fr
    BY <1>3, <1>7 DEF Continues
  <2> QED BY ONLY <2>1
<1> DEFINE mid == Len(M) + Len(a)
<1>11. mid \in Len(M) .. Len(L)
  BY <1>3, <1>4, <1>10
<1>12. \A i \in Len(M) + 1 .. mid : i - Len(M) \in DOMAIN a /\ L[i] = a[i - Len(M)]
  BY <1>3, <1>4, <1>9, <1>10 DEF Fresh
<1>13. \A i \in DOMAIN a : Len(M) + i \in Len(M) + 1 .. mid /\ L[Len(M) + i] = a[i]
  BY <1>3, <1>4, <1>9, <1>10
<1>14. \A i \in mid + 1 .. Len(L) : i - mid \in DOMAIN b /\ L[i] = b[i - mid]
  <2> TAKE i \in mid + 1 .. Len(L)
  <2>1. i - Len(M) \in DOMAIN fr /\ L[i] = fr[i - Len(M)] /\ i - Len(M) \notin DOMAIN a
        /\ (i - Len(M)) - Len(a) = i - mid
    BY <1>3, <1>4, <1>9, <1>10 DEF Fresh
  <2> HIDE DEF mid
  <2> QED BY <1>3, <2>1
<1>15. \A i \in DOMAIN b : mid + i \in mid + 1 .. Len(L) /\ (mid + i) - mid = i
  BY <1>3, <1>4, <1>10
<1> HIDE DEF mid
<1>16. \A i \in DOMAIN b : L[mid + i] = b[i]
  BY <1>14, <1>15
<1>17. Leads(L, A, s, (S \cup N) \ O, W, Q)
  <2>1. \A i \in Len(M) + 1 .. mid : \E c \in N : Is(L[i], "chunk", c) /\ L[i].v = W[c]
    <3> TAKE i \in Len(M) + 1 .. mid
    <3>1. i - Len(M) \in DOMAIN a /\ L[i] = a[i - Len(M)]
      BY <1>12
    <3> QED BY <3>1 DEF Brings
  <2>2. \A c \in N : \E i \in Len(M) + 1 .. mid : Is(L[i], "chunk", c)
    <3> TAKE c \in N
    <3>1. PICK i \in DOMAIN a : Is(a[i], "chunk", c)
      BY DEF Brings
    <3> QED BY <1>13, <3>1
  <2>3. \A i \in mid + 1 .. Len(L) : \E c \in O : Is(L[i], "forget", c)
    <3> TAKE i \in mid + 1 .. Len(L)
    <3>1. i - mid \in DOMAIN b /\ L[i] = b[i - mid]
      BY <1>14
    <3> QED BY <3>1 DEF Drops
  <2>4. \A c \in O : \E i \in mid + 1 .. Len(L) : Is(L[i], "forget", c)
    <3> TAKE c \in O
    <3>1. PICK i \in DOMAIN b : Is(b[i], "forget", c)
      BY DEF Drops
    <3> QED BY <1>15, <1>16, <3>1
  <2> QED BY ONLY <1>1, <1>7, <1>8, <1>11, <2>1, <2>2, <2>3, <2>4, LeadsStream,
             N \cap O = {}, N \cap S = {}
<1> QED BY <1>7, <1>17 DEF Seeing, L, A

\* A respawn, and the chunks around where it leads.
LEMMA SeeingAnew ==
  ASSUME NEW p, NEW h, NEW l, Lanes(p, h, l), NEW s, NEW W, NEW Q,
         NEW f, f.k = "respawn", NEW j, Barrier(f, h, l, j),
         NEW N, NEW fr, Brings(fr, N, W),
         NEW g, NEW m, Follow(p, fr, j, l, g, m)
  PROVE  Seeing(p, g, m, s, N, W, Q)
<1> DEFINE M == LaneOf(p, h, l)
           J == LaneOf(p, j, l)
           L == LaneOf(p, g, m)
           A == BarsOf(p, h)
           Z == BarsOf(p, g)
<1>2. /\ Lanes(p, j, l) /\ Continues(J, M) /\ \A i \in Fresh(J, M) : Neutral(J[i])
      /\ BarsOf(p, j) = A \cup {Len(J)}
  BY Barred
<1>3. fr \in Seq(Frames) /\ \A i \in DOMAIN fr : ~Neutral(fr[i])
  BY DEF Brings, Is, Neutral
<1>4. Lanes(p, g, m) /\ Continues(L, J) /\ Z = BarsOf(p, j) /\ L = J \o fr
  BY <1>2, <1>3, SentBehind
<1>5. Within(Z, L) /\ Within(A, M)
  BY <1>4, BarsWithin
<1> HIDE DEF M, J, L, A, Z
<1>6. /\ J \in Seq(Frames) /\ M \in Seq(Frames) /\ L \in Seq(Frames)
      /\ Len(J) \in Nat /\ Len(M) \in Nat /\ Len(L) \in Nat /\ Len(M) <= Len(J) /\ Len(J) <= Len(L)
      /\ \A i \in 1 .. Len(M) : J[i] = M[i]
      /\ \A i \in 1 .. Len(J) : L[i] = J[i]
  BY <1>2, <1>4 DEF Continues
<1>7. Continues(L, M)
  BY <1>6 DEF Continues
<1>8. /\ \A i \in Fresh(L, J) : i - Len(J) \in DOMAIN fr /\ L[i] = fr[i - Len(J)]
      /\ \A i \in DOMAIN fr : Len(J) + i \in Fresh(L, J) /\ L[Len(J) + i] = fr[i]
  BY ONLY <1>3, <1>4, <1>6, FreshAre
<1>9. Len(J) \in Z /\ Len(J) >= Len(M) /\ \A d \in Z : d <= Len(J)
  BY <1>2, <1>4, <1>5, <1>6 DEF Within
<1>10. \A i \in Len(M) + 1 .. Len(J) : Neutral(L[i])
  BY <1>2, <1>6 DEF Fresh
<1>11. \A i \in Len(J) + 1 .. Len(L) : \E c \in N : Is(L[i], "chunk", c) /\ L[i].v = W[c]
  <2> TAKE i \in Len(J) + 1 .. Len(L)
  <2>1. i - Len(J) \in DOMAIN fr /\ L[i] = fr[i - Len(J)]
    BY <1>8 DEF Fresh
  <2> QED BY <2>1 DEF Brings
<1>12. \A c \in N : \E i \in Len(J) + 1 .. Len(L) : Is(L[i], "chunk", c)
  <2> TAKE c \in N
  <2>1. PICK i \in DOMAIN fr : Is(fr[i], "chunk", c)
    BY DEF Brings
  <2> QED BY <1>8, <2>1 DEF Fresh
<1>13. Leads(L, Z, s, N, W, Q)
  BY ONLY <1>5, <1>7, <1>9, <1>10, <1>11, <1>12, LeadsAnew
<1> QED BY <1>4, <1>13 DEF Seeing, L, Z

\* A respawn in the same world.
LEMMA SeeingBarred ==
  ASSUME NEW p, NEW h, NEW l, NEW s, NEW S, NEW W, NEW Q, Seeing(p, h, l, s, S, W, Q),
         NEW f, f.k = "stay", NEW g, Barrier(f, h, l, g)
  PROVE  Seeing(p, g, l, s, S, W, Q)
<1> DEFINE M == LaneOf(p, h, l)
           L == LaneOf(p, g, l)
           A == BarsOf(p, h)
<1>1. Lanes(p, h, l) /\ Leads(M, A, s, S, W, Q)
  BY DEF Seeing
<1>2. /\ Lanes(p, g, l) /\ Continues(L, M) /\ \A i \in Fresh(L, M) : Neutral(L[i])
      /\ BarsOf(p, g) = A
  BY <1>1, Barred
<1>3. Within(A, M)
  BY <1>1, BarsWithin
<1> HIDE DEF M, L, A
<1>4. Leads(L, A, s, S, W, Q)
  BY ONLY <1>1, <1>2, <1>3, LeadsNeutral
<1> QED BY <1>2, <1>4 DEF Seeing, L

LEMMA ShownType ==
  ASSUME NEW s \in [Spots -> Known], NEW f \in Frames
  PROVE  V!Shown(s, f) \in [Spots -> Known]
BY DEF V!Shown, Frames, FrameKinds, Known

\* The tail of a lane.
LEMMA TailIsTaken ==
  ASSUME NEW M \in Seq(Frames), M # << >>
  PROVE  Taken(Tail(M), M) /\ M[1] = Head(M) /\ M[1] \in Frames
<1>1. Tail(M) \in Seq(Frames) /\ Len(M) > 0 /\ Len(Tail(M)) = Len(M) - 1
      /\ \A i \in 1 .. Len(Tail(M)) : Tail(M)[i] = M[i + 1]
  OBVIOUS
<1>2. M[1] = Head(M) /\ M[1] \in Frames
  OBVIOUS
<1> QED BY <1>1, <1>2 DEF Taken

LEMMA ShownNeutral ==
  ASSUME NEW s \in [Spots -> Known], NEW f \in Frames, Neutral(f)
  PROVE  /\ f.k = "stay" => V!Shown(s, f) = s
         /\ f.k = "respawn" => \A c \in Spots : V!Shown(s, f)[c] = V!None
BY DEF V!Shown, Neutral

\* The first frame of the lane of urgent frames is taken.
LEMMA SeeingUrgent ==
  ASSUME NEW p, NEW h, NEW l, NEW s \in [Spots -> Known], NEW S, NEW W, NEW Q,
         Seeing(p, h, l, s, S, W, Q),
         h # << >>, ~(Head(h).wait > 0), NEW g, g = Tail(h), NEW r, r = V!Shown(s, Head(h))
  PROVE  Seeing(p, g, l, r, S, W, Q)
<1> DEFINE M == LaneOf(p, h, l)
           L == LaneOf(p, g, l)
           A == BarsOf(p, h)
           Z == BarsOf(p, g)
<1>1. Lanes(p, h, l) /\ Leads(M, A, s, S, W, Q) /\ Within(A, M)
  BY BarsWithin DEF Seeing
<1>2. h \in Seq(Frames) /\ l \in Seq(Frames)
  BY <1>1 DEF Lanes
<1>3. Taken(g, h) /\ h[1] = Head(h) /\ h[1] \in Frames
  BY <1>2, TailIsTaken
<1>4. /\ DOMAIN h = 1 .. Len(h) /\ DOMAIN g = 1 .. Len(g) /\ Len(g) \in Nat /\ Len(h) = Len(g) + 1
      /\ g \in Seq(Frames) /\ \A i \in DOMAIN g : g[i] = h[i + 1]
  BY <1>3 DEF Taken
<1>5. /\ \A i \in DOMAIN g : i + 1 \in DOMAIN h /\ g[i] = h[i + 1]
      /\ \A i \in DOMAIN h : i = 1 \/ (i - 1 \in DOMAIN g /\ g[i - 1] = h[i])
      /\ \A i, k \in DOMAIN g : i <= k => i + 1 <= k + 1
      /\ 1 \in DOMAIN h
  BY <1>4
<1>6. Lanes(p, g, l)
  <2>1. CASE p \in OneLane
    BY <1>1, <1>2, <1>4, <1>5, <2>1 DEF Lanes
  <2>2. CASE p \notin OneLane
    BY <1>1, <1>2, <1>4, <1>5, <2>2 DEF Lanes
  <2> QED BY <2>1, <2>2
<1>7. Neutral(h[1]) => /\ h[1].k = "stay" => r = s
                       /\ h[1].k = "respawn" => \A c \in Spots : r[c] = V!None
  BY <1>3, ShownNeutral
<1>8. Neutral(h[1]) => h[1].k \in {"stay", "respawn"}
  BY DEF Neutral
<1>9. CASE p \in OneLane
  <2>1. M = h /\ L = g
    BY <1>9 DEF LaneOf
  <2>2. A = {j \in DOMAIN h : h[j].k = "respawn"} /\ Z = {j \in DOMAIN g : g[j].k = "respawn"}
    BY <1>9 DEF BarsOf
  <2>3. Nearer(Z, A \ {1})
    <3>1. \A j \in Z : j + 1 \in A \ {1} /\ (j + 1) - 1 = j
      BY <1>4, <1>5, <2>2
    <3>2. \A b \in A \ {1} : b - 1 \in Z
      BY <1>5, <2>2
    <3> HIDE DEF A, Z
    <3> QED BY <3>1, <3>2 DEF Nearer
  <2>4. \A b \in A : b >= 1 /\ b \in Int
    BY <1>4, <2>2
  <2> HIDE DEF M, L, A, Z
  <2>5. CASE h[1].k = "respawn"
    <3>1. Neutral(h[1]) /\ 1 \in A
      BY <1>5, <2>2, <2>5 DEF Neutral
    <3> DEFINE E == A \ {1}
    <3>2. (\A d \in A : d >= 1) /\ E \subseteq A /\ A \ {1} \subseteq E /\ 0 \notin E
      BY <2>4
    <3>3. \A i \in 1 .. 1 : Neutral(M[i])
      BY <2>1, <3>1
    <3>4. Within(E, M) /\ Nearer(Z, E)
      BY <1>1, <2>3 DEF Within
    <3>5. \A c \in Spots : r[c] = V!None
      BY <1>7, <2>5, <3>1
    <3>6. M \in Seq(Frames) /\ Taken(L, M) /\ Neutral(M[1])
      BY <1>2, <1>3, <2>1, <3>1
    <3> HIDE DEF E
    <3>7. Leads(M, E, r, S, W, Q)
      BY ONLY <1>1, <3>1, <3>2, <3>3, <3>5, <3>6, LeadsRespawned
    <3>8. r \in [Spots -> Known]
      BY <1>3, ShownType
    <3>9. Leads(L, Z, r, S, W, Q)
      BY ONLY <3>2, <3>4, <3>6, <3>7, <3>8, LeadsOnNeutral
    <3> QED BY <1>6, <3>9 DEF Seeing, L, Z
  <2>6. CASE h[1].k # "respawn"
    <3>1. 1 \notin A /\ 0 \notin A
      BY <1>5, <2>2, <2>4, <2>6
    <3>2. Nearer(Z, A)
      BY <2>3, <3>1 DEF Nearer
    <3>3. r = IF Neutral(M[1]) THEN s ELSE V!Shown(s, M[1])
      BY <1>3, <1>7, <1>8, <2>1, <2>6
    <3>4. Taken(L, M)
      BY <1>3, <2>1
    <3>5. Leads(L, Z, r, S, W, Q)
      BY ONLY <1>1, <3>1, <3>2, <3>3, <3>4, s \in [Spots -> Known], LeadsOn
    <3> QED BY <1>6, <3>5 DEF Seeing, L, Z
  <2> QED BY <2>5, <2>6
<1>10. CASE p \notin OneLane
  <2>1. M = l /\ L = l
    BY <1>10 DEF LaneOf
  <2>2. Neutral(h[1]) /\ h[1].wait = 0
    BY <1>1, <1>3, <1>5, <1>10 DEF Lanes, Frames
  <2>3. /\ A = {h[i].wait : i \in {j \in DOMAIN h : h[j].k = "respawn"}}
        /\ Z = {g[i].wait : i \in {j \in DOMAIN g : g[j].k = "respawn"}}
    BY <1>10 DEF BarsOf
  <2>4. Z \subseteq A
    BY <1>5, <2>3
  <2>5. CASE h[1].k = "respawn"
    <3>1. 0 \in A
      BY <1>5, <2>2, <2>3, <2>5
    <3>2. A \ {0} \subseteq Z
      <4> SUFFICES ASSUME NEW b \in A, b # 0 PROVE b \in Z
        OBVIOUS
      <4>1. PICK i \in DOMAIN h : h[i].k = "respawn" /\ h[i].wait = b
        BY <2>3
      <4>2. i # 1
        BY <2>2, <4>1
      <4>3. i - 1 \in DOMAIN g /\ g[i - 1].k = "respawn" /\ g[i - 1].wait = b
        BY <1>5, <4>1, <4>2
      <4> QED BY <2>3, <4>3
    <3>3. \A d \in A : d >= 0
      BY <1>1 DEF Within
    <3>4. \A i \in 1 .. 0 : Neutral(M[i])
      OBVIOUS
    <3>5. \A c \in Spots : r[c] = V!None
      BY <1>7, <2>2, <2>5
    <3>6. M \in Seq(Frames)
      BY <1>2, <2>1
    <3> HIDE DEF M, L, A, Z
    <3>7. Leads(M, Z, r, S, W, Q)
      BY ONLY <1>1, <2>4, <3>1, <3>2, <3>3, <3>4, <3>5, <3>6, LeadsRespawned
    <3> QED BY <1>6, <2>1, <3>7 DEF Seeing, L, Z
  <2>6. CASE h[1].k # "respawn"
    <3>1. r = s
      BY <1>7, <1>8, <2>2, <2>6
    <3>2. A \subseteq Z
      <4> SUFFICES ASSUME NEW b \in A PROVE b \in Z
        OBVIOUS
      <4>1. PICK i \in DOMAIN h : h[i].k = "respawn" /\ h[i].wait = b
        BY <2>3
      <4>2. i # 1
        BY <2>6, <4>1
      <4>3. i - 1 \in DOMAIN g /\ g[i - 1].k = "respawn" /\ g[i - 1].wait = b
        BY <1>5, <4>1, <4>2
      <4> QED BY <2>3, <4>3
    <3>3. A = Z
      BY <2>4, <3>2
    <3> HIDE DEF M, L, A, Z
    <3> QED BY <1>1, <1>6, <2>1, <3>1, <3>3 DEF Seeing, L, Z
  <2> QED BY <2>5, <2>6
<1> QED BY <1>9, <1>10

\* The first frame of the other lane is, for which all barriers have waited.
LEMMA SeeingOther ==
  ASSUME NEW p, NEW h, NEW l, NEW s \in [Spots -> Known], NEW S, NEW W, NEW Q,
         Seeing(p, h, l, s, S, W, Q),
         l # << >>, h = << >> \/ Head(h).wait > 0,
         NEW g, g = [i \in DOMAIN h |-> V!OneSent(h[i])],
         NEW m, m = Tail(l), NEW r, r = V!Shown(s, Head(l))
  PROVE  Seeing(p, g, m, r, S, W, Q)
<1> DEFINE M == LaneOf(p, h, l)
           L == LaneOf(p, g, m)
           A == BarsOf(p, h)
           Z == BarsOf(p, g)
<1>1. Lanes(p, h, l) /\ Leads(M, A, s, S, W, Q) /\ Within(A, M)
  BY BarsWithin DEF Seeing
<1>2. h \in Seq(Frames) /\ l \in Seq(Frames) /\ p \notin OneLane
  BY <1>1 DEF Lanes
<1>3. Taken(m, l) /\ l[1] = Head(l) /\ l[1] \in Frames
  BY <1>2, TailIsTaken
<1>4. /\ DOMAIN l = 1 .. Len(l) /\ DOMAIN m = 1 .. Len(m) /\ Len(m) \in Nat /\ Len(l) = Len(m) + 1
      /\ m \in Seq(Frames) /\ \A i \in DOMAIN m : m[i] = l[i + 1] /\ i + 1 \in DOMAIN l
      /\ 1 \in DOMAIN l
  BY <1>3 DEF Taken
<1>5. /\ DOMAIN h = 1 .. Len(h) /\ Len(h) \in Nat /\ \A i \in DOMAIN h : h[i] \in Frames
      /\ \A i \in DOMAIN h : h[i].wait \in Nat /\ Neutral(h[i]) /\ h[i].wait <= Len(l)
      /\ \A i, k \in DOMAIN h : i <= k => h[i].wait <= h[k].wait
  BY <1>1, <1>2 DEF Lanes, Frames
<1>6. \A i \in DOMAIN h : h[i].wait > 0
  <2> TAKE i \in DOMAIN h
  <2>1. h # << >> /\ 1 \in DOMAIN h /\ 1 <= i /\ Head(h) = h[1]
    BY <1>2, <1>5
  <2> QED BY <1>5, <2>1
<1>7. DOMAIN g = DOMAIN h /\ \A i \in DOMAIN h : g[i] = [h[i] EXCEPT !.wait = @ - 1]
  BY <1>6 DEF V!OneSent
<1>8. \A i \in DOMAIN h : /\ g[i].wait = h[i].wait - 1 /\ g[i].k = h[i].k
                          /\ g[i] \in Frames /\ Neutral(g[i])
  <2> TAKE i \in DOMAIN h
  <2> DEFINE f == h[i]
             e == [f EXCEPT !.wait = f.wait - 1]
  <2>1. f \in Frames /\ Neutral(f) /\ f.wait \in Nat /\ f.wait > 0
    BY <1>5, <1>6
  <2>2. g[i] = e
    BY <1>7
  <2> HIDE DEF f
  <2>3. e.wait = f.wait - 1 /\ e.k = f.k /\ e \in Frames /\ Neutral(e)
    BY <2>1 DEF Frames, Neutral
  <2> QED BY <2>2, <2>3 DEF f
<1>9. g \in Seq(Frames)
  <2>1. g \in [1 .. Len(h) -> Frames]
    BY <1>5, <1>7, <1>8
  <2> QED BY <1>5, <2>1, SeqDef
<1>10. Lanes(p, g, m)
  <2>1. \A i \in DOMAIN m : ~Neutral(m[i])
    BY <1>1, <1>2, <1>4 DEF Lanes
  <2>2. \A i \in DOMAIN g : Neutral(g[i]) /\ g[i].wait <= Len(m)
    BY <1>4, <1>5, <1>7, <1>8
  <2>3. \A i, k \in DOMAIN g : i <= k => g[i].wait <= g[k].wait
    BY <1>5, <1>7, <1>8
  <2> QED BY <1>2, <1>4, <1>9, <2>1, <2>2, <2>3 DEF Lanes
<1>11. M = l /\ L = m
  BY <1>2 DEF LaneOf
<1>12. /\ A = {h[i].wait : i \in {j \in DOMAIN h : h[j].k = "respawn"}}
       /\ Z = {g[i].wait : i \in {j \in DOMAIN g : g[j].k = "respawn"}}
  BY <1>2 DEF BarsOf
<1>13. Nearer(Z, A) /\ 0 \notin A
  <2>1. {j \in DOMAIN g : g[j].k = "respawn"} = {j \in DOMAIN h : h[j].k = "respawn"}
    BY <1>7, <1>8
  <2>2. \A d \in Z : \E b \in A : d = b - 1
    BY <1>8, <1>12, <2>1
  <2>3. \A b \in A : b - 1 \in Z /\ b # 0
    <3> TAKE b \in A
    <3>1. PICK i \in DOMAIN h : h[i].k = "respawn" /\ h[i].wait = b
      BY <1>12
    <3>2. b \in Nat /\ b > 0
      BY <1>5, <1>6, <3>1
    <3>3. i \in DOMAIN g /\ g[i].k = "respawn" /\ g[i].wait = b - 1
      BY <1>7, <1>8, <3>1
    <3> QED BY <1>12, <3>2, <3>3
  <2> HIDE DEF A, Z
  <2> QED BY <2>2, <2>3 DEF Nearer
<1>14. r = IF Neutral(M[1]) THEN s ELSE V!Shown(s, M[1])
  BY <1>1, <1>2, <1>3, <1>4, <1>11 DEF Lanes
<1>15. Taken(L, M)
  BY <1>3, <1>11
<1> HIDE DEF M, L, A, Z
<1>16. Leads(L, Z, r, S, W, Q)
  BY ONLY <1>1, <1>13, <1>14, <1>15, s \in [Spots -> Known], LeadsOn
<1> QED BY <1>10, <1>16 DEF Seeing, L, Z

-----------------------------------------------------------------------------
LEMMA WalkSees ==
  ASSUME ViewConstants, ViewFits, NEW p \in Viewers, NEW c \in Spots, V!Walk(p, c)
  PROVE  ViewFits'
<1> DEFINE d == at[p].dim
           S == sent[p]
           N == V!Near(c, ViewDist) \ S
           O == V!TooFar(c, S)
           new == V!Missing(c, S)
           old == V!Listed(O)
           a == [i \in DOMAIN new |-> V!Body(new[i], V!Body1(d, new[i]))]
           b == [i \in DOMAIN old |-> V!Forget(old[i])]
           W == world[d]
<1>1. /\ at' = [at EXCEPT ![p].c = c]
      /\ sent' = [sent EXCEPT ![p] = (S \cup V!Near(c, ViewDist)) \ O]
      /\ cache' = [cache EXCEPT ![d] = [x \in Spots |-> IF x \in N THEN V!Body1(d, x) ELSE cache[d][x]]]
      /\ untold' = [untold EXCEPT ![p] = @ \ O] /\ blank' = [blank EXCEPT ![p] = @ \ O]
      /\ V!Behind(p, a \o b)
      /\ UNCHANGED <<world, batch, screen>>
  BY DEF V!Walk, V!Stream
<1>2. /\ ViewTypes /\ Fitting /\ Sees(p) /\ d \in Dims /\ S \in SUBSET Spots
      /\ W \in [Spots -> Nat] /\ c \in Int
  BY DEF ViewFits, ViewTypes, ViewConstants
<1>3. O \in SUBSET S /\ O \in SUBSET Spots /\ N \cap O = {} /\ N \cap S = {} /\ N \in SUBSET Spots
      /\ (S \cup V!Near(c, ViewDist)) \ O = (S \cup N) \ O
  BY <1>2 DEF V!TooFar, V!Near
<1>4. \A x \in Spots : V!Body1(d, x) = W[x]
  BY <1>2 DEF V!Body1, Fitting
<1> HIDE DEF O
<1>5. Brings(a, N, W)
  <2> DEFINE e == [i \in DOMAIN new |-> V!Body(new[i], W[new[i]])]
  <2>1. Brings(e, N, W)
    BY <1>2, BodiesBring
  <2>2. \A i \in DOMAIN new : new[i] \in Spots
    <3> HIDE DEF new, N, W
    <3>1. \A i \in DOMAIN new : new[i] \in N
      BY <1>2, MissingAre DEF ViewConstants, new, N
    <3> QED BY <1>3, <3>1
  <2>3. a = e
    <3> HIDE DEF new, W
    <3> QED BY <1>4, <2>2
  <2> HIDE DEF a, e
  <2> QED BY <2>1, <2>3
<1>6. Drops(b, O)
  <2> HIDE DEF b
  <2> QED BY <1>3, ForgetsDrop DEF b
<1> HIDE DEF a, b, new, old, N
<1>7. a \in Seq(Frames) /\ b \in Seq(Frames) /\ a \o b \in Seq(Frames)
  BY <1>5, <1>6, Joined DEF Brings, Drops
<1> DEFINE fr == a \o b
<1> HIDE DEF fr
<1>8. /\ Follow(p, fr, high[p], low[p], high'[p], low'[p])
      /\ \A q \in Viewers \ {p} : high'[q] = high[q] /\ low'[q] = low[q]
      /\ high' \in [Viewers -> Seq(Frames)] /\ low' \in [Viewers -> Seq(Frames)]
  <2>1. high[p] \in Seq(Frames) /\ low[p] \in Seq(Frames) /\ fr \in Seq(Frames)
    BY <1>2, <1>7 DEF ViewTypes, fr
  <2>2. high[p] \o fr \in Seq(Frames) /\ low[p] \o fr \in Seq(Frames)
    BY <2>1, Joined
  <2>3. V!Behind(p, fr)
    BY <1>1 DEF fr
  <2>4. high \in [Viewers -> Seq(Frames)] /\ low \in [Viewers -> Seq(Frames)]
    BY <1>2 DEF ViewTypes
  <2> PICK x, y : x = high[p] \o fr /\ y = low[p] \o fr
    OBVIOUS
  <2>5. \/ p \in OneLane /\ high' = [high EXCEPT ![p] = x] /\ low' = low
        \/ p \notin OneLane /\ low' = [low EXCEPT ![p] = y] /\ high' = high
    BY <2>3 DEF V!Behind
  <2>6. x \in Seq(Frames) /\ y \in Seq(Frames)
    BY <2>2
  <2>7. /\ p \in OneLane => high'[p] = x /\ low'[p] = low[p]
        /\ p \notin OneLane => low'[p] = y /\ high'[p] = high[p]
        /\ \A q \in Viewers \ {p} : high'[q] = high[q] /\ low'[q] = low[q]
        /\ high' \in [Viewers -> Seq(Frames)] /\ low' \in [Viewers -> Seq(Frames)]
    BY <2>4, <2>5, <2>6
  <2> QED BY <2>7 DEF Follow
<1>9. ViewTypes'
  <2>1. at' \in [Viewers -> [dim : Dims, c : Spots \cup {V!Origin}]]
    <3> DEFINE A == [dim : Dims, c : Spots \cup {V!Origin}]
               e == [at[p] EXCEPT !.c = c]
    <3>1. at \in [Viewers -> A] /\ at' = [at EXCEPT ![p] = e]
      BY <1>1, <1>2 DEF ViewTypes
    <3>2. at[p] \in A
      BY <3>1
    <3>3. e \in A
      BY <3>2
    <3> HIDE DEF A, e
    <3>4. at' \in [Viewers -> A]
      BY <3>1, <3>3
    <3> QED BY <3>4 DEF A
  <2>2. sent' \in [Viewers -> SUBSET Spots]
    BY <1>1, <1>2, <1>3 DEF ViewTypes
  <2>3. cache' \in [Dims -> [Spots -> Known]]
    <3>1. \A x \in Spots : V!Body1(d, x) \in Known
      BY <1>2, <1>4 DEF Known
    <3> HIDE DEF d
    <3> QED BY <1>1, <1>2, <3>1 DEF ViewTypes
  <2>4. untold' \in [Viewers -> SUBSET Spots] /\ blank' \in [Viewers -> SUBSET Spots]
    BY <1>1, <1>2 DEF ViewTypes
  <2>5. \A q \in Viewers : blank'[q] \subseteq sent'[q]
    <3>1. /\ blank'[p] = blank[p] \ O /\ blank[p] \subseteq S
          /\ sent'[p] = (S \cup V!Near(c, ViewDist)) \ O
      BY <1>1, <1>2 DEF ViewTypes
    <3>2. \A q \in Viewers \ {p} : blank'[q] = blank[q] /\ sent'[q] = sent[q]
      BY <1>1, <1>2 DEF ViewTypes
    <3> HIDE DEF S
    <3> QED BY <1>2, <3>1, <3>2 DEF ViewTypes
  <2> QED BY <1>1, <1>2, <1>8, <2>1, <2>2, <2>3, <2>4, <2>5 DEF ViewTypes
<1>10. Fitting'
  <2> SUFFICES ASSUME NEW e \in Dims, NEW x \in Spots
               PROVE  cache'[e][x] \in {V!None, world[e][x]}
    BY <1>1 DEF Fitting
  <2>1. cache'[e][x] = cache[e][x] \/ (e = d /\ cache'[e][x] = V!Body1(d, x))
    BY <1>1, <1>2 DEF ViewTypes
  <2> QED BY <1>2, <1>4, <2>1 DEF Fitting
<1>11. Sees(p)'
  <2> PICK h, l, g, m, I, Q, R :
           /\ h = high[p] /\ l = low[p] /\ g = high'[p] /\ m = low'[p]
           /\ I = Had(p) /\ Q = Awaited(p) /\ R = Awaited(p)'
    OBVIOUS
  <2>1. Seeing(p, h, l, screen[p], I, W, Q)
    BY <1>2 DEF Sees
  <2>2. Follow(p, a \o b, h, l, g, m)
    BY <1>8 DEF fr
  <2>3. N \cap I = {}
    BY <1>3 DEF Had
  <2>4. Seeing(p, g, m, screen[p], (I \cup N) \ O, W, Q)
    BY <1>3, <1>5, <1>6, <2>1, <2>2, <2>3, SeeingStreamed
  <2>5. /\ at'[p].dim = d /\ sent'[p] = (S \cup N) \ O
        /\ blank'[p] = blank[p] \ O /\ untold'[p] = untold[p] \ O
    BY <1>1, <1>2, <1>3 DEF ViewTypes
  <2>6. Had(p)' = (I \cup N) \ O
    <3>1. N \cap blank[p] = {}
      BY <1>2, <1>3 DEF ViewTypes
    <3> HIDE DEF S
    <3> QED BY <2>5, <3>1 DEF Had, S
  <2>7. \A x \in Spots : x \in (I \cup N) \ O /\ R[x] = V!None => Q[x] = V!None
    BY <1>1, <2>5 DEF Awaited
  <2> DEFINE T == (I \cup N) \ O
  <2>8. Lanes(p, g, m) /\ Leads(LaneOf(p, g, m), BarsOf(p, g), screen[p], T, W, Q)
    BY <2>4 DEF Seeing
  <2>9. \A x \in Spots : x \in T /\ R[x] = V!None => Q[x] = V!None
    BY <2>7
  <2> HIDE DEF T, W
  <2>10. Leads(LaneOf(p, g, m), BarsOf(p, g), screen[p], T, W, R)
    BY <2>8, <2>9, LeadsEdited
  <2>11. Seeing(p, g, m, screen[p], T, W, R)
    BY <2>8, <2>10 DEF Seeing
  <2> QED BY <1>1, <2>5, <2>6, <2>11 DEF Sees, T, W
<1>12. ASSUME NEW q \in Viewers \ {p} PROVE Sees(q)'
  <2>1. /\ Sees(q) /\ at'[q] = at[q] /\ sent'[q] = sent[q] /\ blank'[q] = blank[q]
        /\ untold'[q] = untold[q]
    BY <1>1 DEF ViewFits, ViewTypes
  <2> QED BY <1>1, <1>8, <2>1, SeesStays
<1> QED BY <1>9, <1>10, <1>11, <1>12 DEF ViewFits

LEMMA RespawnSees ==
  ASSUME ViewConstants, ViewFits, NEW p \in Viewers, V!Respawn(p)
  PROVE  ViewFits'
<1> DEFINE d == at[p].dim
           f == [V!Respawned(p) EXCEPT !.k = IF d = "over" THEN "stay" ELSE "respawn"]
<1>1. /\ at' = [at EXCEPT ![p] = [dim |-> "over", c |-> V!Origin]]
      /\ high' = [high EXCEPT ![p] = Append(@, f)]
      /\ d = "over" => UNCHANGED <<untold, blank>>
      /\ d # "over" => untold' = [untold EXCEPT ![p] = {}] /\ blank' = [blank EXCEPT ![p] = sent[p]]
      /\ UNCHANGED <<world, cache, batch, sent, low, screen>>
  BY DEF V!Respawn
<1>2. /\ ViewTypes /\ Fitting /\ Sees(p) /\ d \in Dims
      /\ high[p] \in Seq(Frames) /\ low[p] \in Seq(Frames)
  BY DEF ViewFits, ViewTypes
<1>3. f = [k |-> IF d = "over" THEN "stay" ELSE "respawn", c |-> V!Origin, v |-> V!None,
           wait |-> Len(low[p])]
  BY DEF V!Respawned
<1> HIDE DEF f
<1>4. Barrier(f, high[p], low[p], high'[p]) /\ f.k = (IF d = "over" THEN "stay" ELSE "respawn")
  <2>1. Len(low[p]) \in Nat
    BY <1>2
  <2>2. f \in Frames /\ Neutral(f) /\ f.wait = Len(low[p])
    BY <1>3, <2>1 DEF Frames, FrameKinds, Neutral, Known
  <2>3. high'[p] = Append(high[p], f)
    BY <1>1, <1>2 DEF ViewTypes
  <2> QED BY <1>3, <2>2, <2>3 DEF Barrier
<1>5. ViewTypes'
  <2>1. high'[p] \in Seq(Frames)
    BY <1>2, <1>4 DEF Barrier
  <2>2. high' \in [Viewers -> Seq(Frames)]
    BY <1>1, <1>2, <2>1 DEF ViewTypes
  <2>3. at' \in [Viewers -> [dim : Dims, c : Spots \cup {V!Origin}]]
    BY <1>1, <1>2 DEF ViewTypes, ViewConstants
  <2>4. untold' \in [Viewers -> SUBSET Spots] /\ blank' \in [Viewers -> SUBSET Spots]
    BY <1>1, <1>2 DEF ViewTypes
  <2>5. \A q \in Viewers : blank'[q] \subseteq sent'[q]
    <3>1. \A q \in Viewers : blank'[q] = blank[q] \/ blank'[q] = sent[q]
      BY <1>1, <1>2 DEF ViewTypes
    <3> QED BY <1>1, <1>2, <3>1 DEF ViewTypes
  <2> QED BY <1>1, <1>2, <2>2, <2>3, <2>4, <2>5 DEF ViewTypes
<1>6. Fitting'
  BY <1>1, <1>2 DEF Fitting
<1>7. Sees(p)'
  <2> PICK h, l, g, S, W, Q, R :
           /\ h = high[p] /\ l = low[p] /\ g = high'[p] /\ S = Had(p)
           /\ W = world["over"] /\ Q = Awaited(p) /\ R = Awaited(p)'
    OBVIOUS
  <2>1. at'[p].dim = "over" /\ Barrier(f, h, l, g) /\ Lanes(p, h, l)
    BY <1>1, <1>2, <1>4 DEF ViewTypes, Sees, Seeing
  <2>2. CASE d = "over"
    <3>1. f.k = "stay" /\ Seeing(p, h, l, screen[p], S, W, Q)
      BY <1>2, <1>4, <2>2 DEF Sees
    <3>2. Seeing(p, g, l, screen[p], S, W, Q)
      BY <2>1, <3>1, SeeingBarred
    <3>3. Had(p)' = S /\ R = Q
      BY <1>1, <2>1, <2>2 DEF Had, Awaited
    <3> QED BY <1>1, <2>1, <3>2, <3>3 DEF Sees
  <2>3. CASE d # "over"
    <3>1. f.k = "respawn"
      BY <1>4, <2>3
    <3>2. Brings(<< >>, {}, W)
      BY DEF Brings
    <3>3. g \in Seq(Frames) /\ l \in Seq(Frames)
      BY <1>2, <2>1 DEF Barrier
    <3>4. Follow(p, << >>, g, l, g, l)
      BY <3>3 DEF Follow
    <3>5. Seeing(p, g, l, screen[p], {}, W, R)
      BY <2>1, <3>1, <3>2, <3>4, SeeingAnew
    <3>6. Had(p)' = {}
      BY <1>1, <1>2, <2>3 DEF Had, ViewTypes
    <3> QED BY <1>1, <2>1, <3>5, <3>6 DEF Sees
  <2> QED BY <2>2, <2>3
<1>8. ASSUME NEW q \in Viewers \ {p} PROVE Sees(q)'
  <2>1. /\ Sees(q) /\ at'[q] = at[q] /\ high'[q] = high[q]
        /\ untold'[q] = untold[q] /\ blank'[q] = blank[q]
    BY <1>1 DEF ViewFits, ViewTypes
  <2> QED BY <1>1, <2>1, SeesStays
<1> QED BY <1>5, <1>6, <1>7, <1>8 DEF ViewFits

LEMMA CorrectSees ==
  ASSUME ViewConstants, ViewFits, NEW p \in Viewers, NEW c \in Spots, V!Correct(p, c)
  PROVE  ViewFits'
<1> DEFINE d == at[p].dim
           u == <<V!Update(c, world[d][c])>>
           there == {q \in Viewers : at[q].dim = d}
<1>1. PICK to \in SUBSET Viewers :
         /\ V!Everyone([q \in Viewers |-> IF q \in to THEN u ELSE << >>])
         /\ untold' = [q \in Viewers |->
               IF q \notin to THEN untold[q] ELSE IF q \in there THEN untold[q] \ {c}
               ELSE untold[q] \cup ({c} \cap (sent[q] \ blank[q]))]
         /\ UNCHANGED <<world, cache, batch, at, sent, screen, blank>>
  BY DEF V!Correct
<1>2. ViewTypes /\ Fitting /\ d \in Dims /\ world[d][c] \in Nat
  BY DEF ViewFits, ViewTypes
<1>3. V!Update(c, world[d][c]) \in Frames /\ Is(V!Update(c, world[d][c]), "update", c)
      /\ V!Update(c, world[d][c]).v = world[d][c]
  BY <1>2 DEF V!Update, Frames, FrameKinds, Is, Known
<1>4. /\ u \in Seq(Frames) /\ DOMAIN u = {1} /\ Is(u[1], "update", c) /\ u[1].v = world[d][c]
      /\ << >> \in Seq(Frames) /\ DOMAIN << >> = {}
  BY <1>3
<1> HIDE DEF u
<1> DEFINE fr(q) == IF q \in to THEN u ELSE << >>
<1>5. \A q \in Viewers : fr(q) \in Seq(Frames)
  BY <1>4
<1>6. /\ high' = [q \in Viewers |-> IF q \in OneLane THEN high[q] \o fr(q) ELSE high[q]]
      /\ low' = [q \in Viewers |-> IF q \in OneLane THEN low[q] ELSE low[q] \o fr(q)]
  BY <1>1 DEF V!Everyone
<1> HIDE DEF fr
<1>7. ViewTypes'
  <2>1. \A q \in Viewers : high'[q] \in Seq(Frames) /\ low'[q] \in Seq(Frames)
    BY <1>2, <1>5, <1>6 DEF ViewTypes
  <2>2. high' \in [Viewers -> Seq(Frames)] /\ low' \in [Viewers -> Seq(Frames)]
    BY <1>6, <2>1
  <2>3. \A q \in Viewers : untold'[q] \in SUBSET Spots
    <3> TAKE q \in Viewers
    <3>1. untold[q] \in SUBSET Spots
      BY <1>2 DEF ViewTypes
    <3> HIDE DEF there
    <3> QED BY <1>1, <3>1
  <2>4. untold' \in [Viewers -> SUBSET Spots]
    BY <1>1, <2>3
  <2> QED BY <1>1, <1>2, <2>2, <2>4 DEF ViewTypes
<1>8. Fitting'
  BY <1>1, <1>2 DEF Fitting
<1>9. ASSUME NEW q \in Viewers PROVE Sees(q)'
  <2> PICK h, l, g, m, e, S, W, Q, R :
           /\ h = high[q] /\ l = low[q] /\ g = high'[q] /\ m = low'[q]
           /\ e = fr(q) /\ S = Had(q) /\ W = world[at[q].dim]
           /\ Q = Awaited(q) /\ R = Awaited(q)'
    OBVIOUS
  <2>1. Seeing(q, h, l, screen[q], S, W, Q) /\ Follow(q, e, h, l, g, m) /\ e \in Seq(Frames)
    BY <1>5, <1>6 DEF ViewFits, Sees, Follow
  <2>2. \A x \in Spots : x # c \/ q \notin to => R[x] = Q[x]
    BY <1>1 DEF Awaited
  <2>3. q \in to /\ c \in S /\ R[c] = V!None => W[c] = world[d][c]
    BY <1>1 DEF Awaited, Had, V!None
  <2>4. Shows(e, S, W, R) /\ Covers(e, S, Q, R)
    BY <1>4, <2>2, <2>3 DEF Shows, Covers, fr
  <2>5. Seeing(q, g, m, screen[q], S, W, R)
    BY <2>1, <2>4, SeeingTold
  <2>6. Had(q)' = S
    BY <1>1 DEF Had
  <2> QED BY <1>1, <2>5, <2>6 DEF Sees
<1> QED BY <1>7, <1>8, <1>9 DEF ViewFits

LEMMA TravelSees ==
  ASSUME ViewConstants, ViewFits, NEW p \in Viewers, NEW d \in Dims, NEW c \in Spots,
         V!Travel(p, d, c)
  PROVE  ViewFits'
<1> DEFINE there(b) == [world[d] EXCEPT ![c] = IF b THEN @ + 1 ELSE @]
           dropped == [x \in Spots |-> IF x \in V!Near(c, 2) THEN V!None ELSE cache[d][x]]
           given(b, x) == IF dropped[x] # V!None THEN dropped[x] ELSE there(b)[x]
           new == V!Missing(c, {})
           frames(b) == [i \in DOMAIN new |-> V!Body(new[i], given(b, new[i]))]
           from == at[p].dim
           N == V!Near(c, ViewDist)
           f == V!Respawned(p)
<1>1. PICK platform \in {TRUE, FALSE} :
         /\ world' = [world EXCEPT ![d] = there(platform)]
         /\ untold' = [IF platform THEN V!Untold(d, c) ELSE untold EXCEPT ![p] = {}]
         /\ cache' = [cache EXCEPT ![from][at[p].c] = V!None,
                ![d] = [x \in Spots |-> IF x \in N THEN given(platform, x) ELSE dropped[x]]]
         /\ IF p \in OneLane
            THEN high' = [high EXCEPT ![p] = @ \o <<f>> \o frames(platform)] /\ UNCHANGED low
            ELSE /\ high' = [high EXCEPT ![p] = Append(@, f)]
                 /\ low' = [low EXCEPT ![p] = @ \o frames(platform)]
  BY DEF V!Travel
<1>2. /\ d # from /\ at' = [at EXCEPT ![p] = [dim |-> d, c |-> c]]
      /\ sent' = [sent EXCEPT ![p] = N] /\ blank' = [blank EXCEPT ![p] = {}]
      /\ UNCHANGED <<batch, screen>>
  BY DEF V!Travel
<1>3. /\ ViewTypes /\ Fitting /\ Sees(p) /\ from \in Dims /\ c \in Int /\ N \in SUBSET Spots
      /\ world[d] \in [Spots -> Nat] /\ cache[d] \in [Spots -> Known]
      /\ high[p] \in Seq(Frames) /\ low[p] \in Seq(Frames)
  BY DEF ViewFits, ViewTypes, ViewConstants, V!Near
<1> DEFINE W == there(platform)
           fr == frames(platform)
<1>4. W \in [Spots -> Nat] /\ \A x \in Spots : (x # c \/ ~platform) => W[x] = world[d][x]
  BY <1>3
<1>5. \A x \in Spots : dropped[x] \in {V!None, W[x]}
  <2> TAKE x \in Spots
  <2>1. c \in V!Near(c, 2)
    BY <1>3 DEF V!Near
  <2>2. dropped[x] = IF x \in V!Near(c, 2) THEN V!None ELSE cache[d][x]
    OBVIOUS
  <2>3. cache[d][x] \in {V!None, world[d][x]}
    BY <1>3 DEF Fitting
  <2> HIDE DEF dropped, W
  <2> QED BY <1>4, <2>1, <2>2, <2>3
<1>6. \A x \in Spots : given(platform, x) = W[x]
  <2> HIDE DEF dropped
  <2> QED BY <1>5
<1>7. world' = [world EXCEPT ![d] = W] /\ world'[d] = W /\ \A e \in Dims \ {d} : world'[e] = world[e]
  BY <1>1, <1>3 DEF ViewTypes
<1>8. Brings(fr, N, W)
  <2> DEFINE e == [i \in DOMAIN new |-> V!Body(new[i], W[new[i]])]
  <2>1. Brings(e, N, W)
    <3>1. N = N \ {}
      OBVIOUS
    <3> HIDE DEF W, N
    <3>2. Brings([i \in DOMAIN V!Missing(c, {}) |-> V!Body(V!Missing(c, {})[i], W[V!Missing(c, {})[i]])],
                 V!Near(c, ViewDist) \ {}, W)
      BY <1>3, <1>4, BodiesBring
    <3> QED BY <3>1, <3>2 DEF N
  <2>2. \A i \in DOMAIN new : new[i] \in Spots
    <3>1. \A i \in DOMAIN new : new[i] \in N
      BY <1>3, MissingAre DEF ViewConstants
    <3> QED BY <1>3, <3>1
  <2>3. fr = e
    <3> HIDE DEF new, W, given
    <3> QED BY <1>6, <2>2
  <2> HIDE DEF fr, e, N, W
  <2> QED BY <2>1, <2>3
<1>9. cache' \in [Dims -> [Spots -> Known]]
      /\ \A e \in Dims, x \in Spots :
            cache'[e][x] \in {V!None, cache[e][x]} \/ (e = d /\ cache'[e][x] \in {V!None, W[x]})
  <2> DEFINE k == [x \in Spots |-> IF x \in N THEN given(platform, x) ELSE dropped[x]]
  <2>1. \A x \in Spots : k[x] \in {V!None, W[x]}
    <3> HIDE DEF dropped, given, W
    <3> QED BY <1>5, <1>6
  <2>2. k \in [Spots -> Known]
    <3>1. \A x \in Spots : k[x] \in Known
      <4> HIDE DEF k, W
      <4> QED BY <1>4, <2>1 DEF Known
    <3> QED BY <3>1
  <2>3. cache' = [cache EXCEPT ![from][at[p].c] = V!None, ![d] = k]
    BY <1>1
  <2>4. V!None \in Known /\ cache \in [Dims -> [Spots -> Known]]
    BY <1>3 DEF ViewTypes, Known
  <2> HIDE DEF k, W, from
  <2>5. /\ cache'[d] = k /\ cache' \in [Dims -> [Spots -> Known]]
        /\ \A e \in Dims \ {d} : \A x \in Spots : cache'[e][x] \in {V!None, cache[e][x]}
    BY <1>2, <1>3, <2>2, <2>3, <2>4
  <2> QED BY <2>1, <2>5
<1>10. f.k = "respawn" /\ Barrier(f, high[p], low[p], Append(high[p], f))
  <2>1. Len(low[p]) \in Nat
    BY <1>3
  <2>2. f = [k |-> "respawn", c |-> V!Origin, v |-> V!None, wait |-> Len(low[p])]
    BY DEF V!Respawned
  <2> HIDE DEF f
  <2> QED BY <2>1, <2>2 DEF Barrier, Frames, FrameKinds, Neutral, Known
<1> HIDE DEF fr, f, W, N
<1> DEFINE j == Append(high[p], f)
<1>11. fr \in Seq(Frames) /\ j \in Seq(Frames) /\ j = high[p] \o <<f>>
  <2>1. fr \in Seq(Frames)
    BY <1>8 DEF Brings
  <2>2. f \in Frames
    BY <1>10 DEF Barrier
  <2> QED BY <1>3, <2>1, <2>2
<1> HIDE DEF j
<1>12. /\ Follow(p, fr, j, low[p], high'[p], low'[p])
       /\ \A q \in Viewers \ {p} : high'[q] = high[q] /\ low'[q] = low[q]
       /\ high' \in [Viewers -> Seq(Frames)] /\ low' \in [Viewers -> Seq(Frames)]
  <2>1. j \o fr \in Seq(Frames) /\ low[p] \o fr \in Seq(Frames)
    BY <1>3, <1>11, Joined
  <2>2. CASE p \in OneLane
    <3>1. high' = [high EXCEPT ![p] = j \o fr] /\ low' = low
      <4>1. high' = [high EXCEPT ![p] = (high[p] \o <<f>>) \o fr] /\ low' = low
        BY <1>1, <2>2 DEF fr, f
      <4> QED BY <1>11, <4>1
    <3> QED BY <1>3, <2>1, <2>2, <3>1 DEF Follow, ViewTypes
  <2>3. CASE p \notin OneLane
    <3>1. high' = [high EXCEPT ![p] = j] /\ low' = [low EXCEPT ![p] = low[p] \o fr]
      BY <1>1, <2>3 DEF fr, f, j
    <3> QED BY <1>3, <1>11, <2>1, <2>3, <3>1 DEF Follow, ViewTypes
  <2> QED BY <2>2, <2>3
<1>17. /\ untold' \in [Viewers -> SUBSET Spots] /\ untold'[p] = {}
       /\ \A q \in Viewers \ {p} :
             untold'[q] = IF platform THEN untold[q] \cup {x \in {c} : at[q].dim = d /\ c \in Had(q)}
                          ELSE untold[q]
  <2> PICK U : U = IF platform THEN V!Untold(d, c) ELSE untold
    OBVIOUS
  <2>1. /\ U \in [Viewers -> SUBSET Spots]
        /\ \A q \in Viewers :
              U[q] = IF platform THEN untold[q] \cup {x \in {c} : at[q].dim = d /\ c \in Had(q)}
                     ELSE untold[q]
    BY <1>3 DEF V!Untold, V!Has, Had, ViewTypes
  <2>2. untold' = [U EXCEPT ![p] = {}]
    BY <1>1
  <2> QED BY <2>1, <2>2
<1>13. ViewTypes'
  <2>1. at' \in [Viewers -> [dim : Dims, c : Spots \cup {V!Origin}]]
    BY <1>2, <1>3 DEF ViewTypes
  <2>2. sent' \in [Viewers -> SUBSET Spots]
    BY <1>2, <1>3 DEF ViewTypes
  <2>3. world' \in [Dims -> [Spots -> Nat]]
    BY <1>3, <1>4, <1>7 DEF ViewTypes
  <2>4. untold' \in [Viewers -> SUBSET Spots] /\ blank' \in [Viewers -> SUBSET Spots]
    BY <1>2, <1>3, <1>17 DEF ViewTypes
  <2>5. \A q \in Viewers : blank'[q] \subseteq sent'[q]
    BY <1>2, <1>3 DEF ViewTypes
  <2> QED BY <1>2, <1>3, <1>9, <1>12, <2>1, <2>2, <2>3, <2>4, <2>5 DEF ViewTypes
<1>14. Fitting'
  <2> SUFFICES ASSUME NEW e \in Dims, NEW x \in Spots
               PROVE  cache'[e][x] \in {V!None, world'[e][x]}
    BY DEF Fitting
  <2>1. cache[e][x] \in {V!None, world[e][x]}
    BY <1>3 DEF Fitting
  <2>2. CASE e # d
    <3>1. world'[e] = world[e]
      BY <1>7, <2>2
    <3> QED BY <1>9, <2>1, <2>2, <3>1
  <2>3. CASE e = d
    <3>1. cache'[d][x] \in {V!None, W[x]}
      <4> HIDE DEF dropped
      <4>1. cache'[d] = [y \in Spots |-> IF y \in N THEN given(platform, y) ELSE dropped[y]]
        BY <1>1, <1>3 DEF N, ViewTypes
      <4> HIDE DEF given
      <4> QED BY <1>5, <1>6, <4>1
    <3> QED BY <1>7, <2>3, <3>1
  <2> QED BY <2>2, <2>3
<1>15. Sees(p)'
  <2> PICK h, l, i, g, m, Q :
           /\ h = high[p] /\ l = low[p] /\ i = j /\ g = high'[p] /\ m = low'[p] /\ Q = Awaited(p)'
    OBVIOUS
  <2>1. Lanes(p, h, l)
    BY <1>3 DEF Sees, Seeing
  <2>2. f.k = "respawn" /\ Barrier(f, h, l, i) /\ Follow(p, fr, i, l, g, m)
    BY <1>10, <1>12 DEF j
  <2>3. Seeing(p, g, m, screen[p], N, W, Q)
    BY <1>8, <2>1, <2>2, SeeingAnew
  <2>4. at'[p].dim = d /\ Had(p)' = N
    BY <1>2, <1>3 DEF ViewTypes, Had
  <2> QED BY <1>2, <1>7, <2>3, <2>4 DEF Sees
<1>16. ASSUME NEW q \in Viewers \ {p} PROVE Sees(q)'
  <2>1. /\ Sees(q) /\ at'[q] = at[q] /\ sent'[q] = sent[q] /\ blank'[q] = blank[q]
        /\ at[q].dim \in Dims /\ Had(q)' = Had(q)
    BY <1>2 DEF ViewFits, ViewTypes, Had
  <2> PICK h, l, S, Q, R, X, Y :
           /\ h = high[q] /\ l = low[q] /\ S = Had(q) /\ Q = Awaited(q) /\ R = Awaited(q)'
           /\ X = world[at[q].dim] /\ Y = world'[at[q].dim]
    OBVIOUS
  <2>2. Lanes(q, h, l) /\ Leads(LaneOf(q, h, l), BarsOf(q, h), screen[q], S, X, Q)
    BY <2>1 DEF Sees, Seeing
  <2>3. \A x \in Spots : x \in S /\ R[x] = V!None => Q[x] = V!None /\ Y[x] = X[x]
    <3> SUFFICES ASSUME NEW x \in Spots, x \in S, R[x] = V!None
                 PROVE  Q[x] = V!None /\ Y[x] = X[x]
      OBVIOUS
    <3>1. x \notin untold'[q] /\ batch[at[q].dim][x] = V!None
      BY <1>2, <2>1 DEF Awaited, V!None
    <3>2. x \notin untold[q] /\ (platform /\ x = c => at[q].dim # d)
      BY <1>17, <3>1
    <3>3. Y[x] = X[x]
      BY <1>4, <1>7, <2>1, <3>2
    <3> QED BY <3>1, <3>2, <3>3 DEF Awaited
  <2>4. Leads(LaneOf(q, h, l), BarsOf(q, h), screen[q], S, Y, R)
    BY <2>2, <2>3, LeadsEdited
  <2> QED BY <1>2, <1>12, <2>1, <2>2, <2>4 DEF Sees, Seeing
<1> QED BY <1>13, <1>14, <1>15, <1>16 DEF ViewFits

LEMMA DeliverSees ==
  ASSUME ViewConstants, ViewFits, NEW p \in Viewers, V!Deliver(p)
  PROVE  ViewFits'
<1> DEFINE s == screen[p]
<1>1. /\ ViewTypes /\ Fitting /\ s \in [Spots -> Known]
      /\ high[p] \in Seq(Frames) /\ low[p] \in Seq(Frames)
  BY DEF ViewFits, ViewTypes
<1>2. PICK h, l, g, m, r, S, W, Q :
         /\ h = high[p] /\ l = low[p] /\ g = high'[p] /\ m = low'[p] /\ r = screen'[p]
         /\ S = Had(p) /\ W = world[at[p].dim] /\ Q = Awaited(p)
  OBVIOUS
<1>3. Seeing(p, h, l, s, S, W, Q)
  BY <1>2 DEF ViewFits, Sees
<1>4. UNCHANGED <<world, cache, batch, at, sent, untold, blank>>
  BY DEF V!Deliver
<1>5. \/ /\ h # << >> /\ ~(Head(h).wait > 0)
         /\ screen' = [screen EXCEPT ![p] = V!Shown(s, Head(h))]
         /\ high' = [high EXCEPT ![p] = Tail(h)] /\ low' = low
      \/ /\ l # << >> /\ (h = << >> \/ Head(h).wait > 0)
         /\ screen' = [screen EXCEPT ![p] = V!Shown(s, Head(l))]
         /\ low' = [low EXCEPT ![p] = Tail(l)]
         /\ high' = [high EXCEPT ![p] = [i \in DOMAIN h |-> V!OneSent(h[i])]]
  BY <1>2 DEF V!Deliver, V!Blocked
<1>6. Seeing(p, g, m, r, S, W, Q) /\ r \in [Spots -> Known]
  <2>1. CASE h # << >> /\ ~(Head(h).wait > 0)
    <3>1. g = Tail(h) /\ m = l /\ r = V!Shown(s, Head(h))
      BY <1>1, <1>2, <1>5, <2>1 DEF ViewTypes
    <3>2. Head(h) \in Frames
      BY <1>1, <1>2, <2>1, TailIsTaken
    <3>3. Seeing(p, g, l, r, S, W, Q)
      BY <1>1, <1>3, <2>1, <3>1, SeeingUrgent
    <3> QED BY <1>1, <3>1, <3>2, <3>3, ShownType
  <2>2. CASE l # << >> /\ (h = << >> \/ Head(h).wait > 0)
    <3>1. g = [i \in DOMAIN h |-> V!OneSent(h[i])] /\ m = Tail(l) /\ r = V!Shown(s, Head(l))
      BY <1>1, <1>2, <1>5, <2>2 DEF ViewTypes
    <3>2. Head(l) \in Frames
      BY <1>1, <1>2, <2>2, TailIsTaken
    <3>3. Seeing(p, g, m, r, S, W, Q)
      BY <1>1, <1>3, <2>2, <3>1, SeeingOther
    <3> QED BY <1>1, <3>1, <3>2, <3>3, ShownType
  <2> QED BY <1>5, <2>1, <2>2
<1>7. /\ \A q \in Viewers \ {p} : high'[q] = high[q] /\ low'[q] = low[q] /\ screen'[q] = screen[q]
      /\ DOMAIN high' = Viewers /\ DOMAIN low' = Viewers /\ DOMAIN screen' = Viewers
      /\ high' = [q \in Viewers |-> high'[q]] /\ low' = [q \in Viewers |-> low'[q]]
      /\ screen' = [q \in Viewers |-> screen'[q]]
  BY <1>1, <1>5 DEF ViewTypes
<1>8. g \in Seq(Frames) /\ m \in Seq(Frames)
  BY <1>6 DEF Seeing, Lanes
<1>9. ViewTypes'
  <2>1. \A q \in Viewers : /\ high'[q] \in Seq(Frames) /\ low'[q] \in Seq(Frames)
                           /\ screen'[q] \in [Spots -> Known]
    BY <1>1, <1>2, <1>6, <1>7, <1>8 DEF ViewTypes
  <2> QED BY <1>1, <1>4, <1>7, <2>1 DEF ViewTypes
<1>10. Fitting'
  BY <1>1, <1>4 DEF Fitting
<1>11. Sees(p)'
  BY <1>2, <1>4, <1>6 DEF Sees, Had, Awaited
<1>12. \A q \in Viewers \ {p} : Sees(q)'
  BY <1>4, <1>7, SeesStays DEF ViewFits
<1> QED BY <1>9, <1>10, <1>11, <1>12 DEF ViewFits

LEMMA ViewStep == ASSUME ViewConstants, ViewFits, [V!Next]_V!vars PROVE ViewFits'
<1>1. CASE V!Next
  <2>1. ASSUME NEW d \in Dims, NEW c \in Spots,
               V!Edit(d, c) \/ V!EditUntold(d, c) \/ V!Keep(d, c)
        PROVE  ViewFits'
    BY <2>1, EditSees, EditUntoldSees, KeepSees
  <2>2. ASSUME NEW p \in Viewers, NEW c \in Spots,
               V!Walk(p, c) \/ V!Correct(p, c) \/ \E d \in Dims : V!Travel(p, d, c)
        PROVE  ViewFits'
    BY <2>2, WalkSees, CorrectSees, TravelSees
  <2> QED BY <1>1, <2>1, <2>2, FlushSees, DeliverSees, RespawnSees DEF V!Next
<1>2. CASE UNCHANGED V!vars
  <2>1. UNCHANGED <<world, cache, batch, at, sent, high, low, screen, untold, blank>>
    BY <1>2 DEF V!vars
  <2>2. ViewTypes' /\ Fitting'
    BY <2>1 DEF ViewFits, ViewTypes, Fitting
  <2>3. \A p \in Viewers : Sees(p)'
    BY <2>1, SeesStays DEF ViewFits
  <2> QED BY <2>2, <2>3 DEF ViewFits
<1> QED BY <1>1, <1>2

LEMMA ViewShown == ASSUME ViewConstants, ViewFits PROVE V!SeesTheWorld
<1> SUFFICES ASSUME NEW p \in Viewers, V!Quiet(p), NEW c \in Spots
             PROVE  /\ screen[p][c] # V!None <=> c \in sent[p] \ blank[p]
                    /\ c \in sent[p] \ (blank[p] \cup untold[p]) => screen[p][c] = world[at[p].dim][c]
  BY DEF V!SeesTheWorld
<1> DEFINE d == at[p].dim
<1>1. Sees(p)
  BY DEF ViewFits
<1>2. high[p] = << >> /\ low[p] = << >> /\ V!Edited(d) = << >>
  BY DEF V!Quiet
<1>3. LaneOf(p, << >>, << >>) = << >> /\ BarsOf(p, << >>) = {} /\ DOMAIN << >> = {}
  BY DEF LaneOf, BarsOf
<1>4. Comes(<< >>, {}, screen[p], Had(p), world[d], Awaited(p), c)
  BY <1>1, <1>2, <1>3 DEF Sees, Seeing, Leads
<1>5. \A j : ~Gone(<< >>, {}, j, c)
  BY <1>3 DEF Gone
<1>6. batch[d][c] = V!None
  <2> DEFINE I == {x \in Spots : batch[d][x] # V!None}
  <2>1. V!Edited(d) = V!Listed(I)
    BY DEF V!Edited
  <2>2. I \in SUBSET Spots
    OBVIOUS
  <2> HIDE DEF I
  <2>3. \A i \in I : \E n \in DOMAIN << >> : << >>[n] = i
    BY <1>2, <2>1, <2>2, ListedAre DEF ViewConstants
  <2> QED BY <1>3, <2>3 DEF I
<1>7. c \notin untold[p] => Awaited(p)[c] = V!None
  BY <1>6 DEF Awaited
<1> QED BY <1>3, <1>4, <1>5, <1>7 DEF Comes, EndsWith, Had

-----------------------------------------------------------------------------
\* With any number of players, dimensions and chunks in view: once what is
\* under way has arrived and nothing waits in the batcher, a client has the
\* chunks it was sent and no others, each as the world of the player's
\* dimension has it; but for the chunks a player lost when he died in another
\* dimension, and those whose last edit he was not told of.
THEOREM WorldIsSeen == Spec => []SeesTheWorld
<1> DEFINE Inv == part = "views" => ViewFits
<1>1. ViewConstants
  BY WorldConstants, ViewConstantsHold
<1>2. Init => Inv
  BY <1>1, ViewInit DEF Init
<1>3. Inv /\ [Next]_allVars => Inv'
  <2> SUFFICES ASSUME Inv, [Next]_allVars, part' = "views" PROVE ViewFits'
    OBVIOUS
  <2>1. part = "views"
    BY PartStays
  <2>2. [V!Next]_V!vars
    BY <2>1 DEF Next, allVars, views, V!vars
  <2> QED BY <1>1, <2>1, <2>2, ViewStep
<1>4. Inv => SeesTheWorld
  BY <1>1, ViewShown DEF SeesTheWorld
<1> QED BY <1>2, <1>3, <1>4, PTL DEF Spec, allVars

-----------------------------------------------------------------------------
(* Pistons: a stone is where it lies or, while a move is under way, in the  *)
(* cell it was taken from; a move that is put down takes each of its stones *)
(* one cell further, to a cell where none was.                              *)

Blocks == P!Standing \cup {P!Moving}
Cargo == UNION {[S -> P!Standing] : S \in SUBSET P!Line}
Moves ==
    [p : P!Line, dir : {1, -1}, extend : BOOLEAN, left : Nat, moved : Cargo, pulled : Cargo]

\* A move as it is begun, which it remains.
MoveFits(m) ==
    /\ DOMAIN m.moved \subseteq P!Targets(m) /\ P!Targets(m) \subseteq P!Line
    /\ m.extend => DOMAIN m.pulled = {} /\ m.p \notin DOMAIN m.moved
    /\ ~m.extend =>
          /\ DOMAIN m.moved = {m.p + m.dir} /\ m.moved[m.p + m.dir] = P!Head
          /\ DOMAIN m.pulled \in {{}, {m.p + m.dir + m.dir}}

\* While it is under way: what it took is shown as moving, there is room beyond,
\* and what it will pull is where it was.
MoveShows(m) ==
    /\ \A c \in DOMAIN m.moved : cell[c] = P!Moving
    /\ m.extend => \A c \in P!Targets(m) \ DOMAIN m.moved : cell[c] = P!Air
    /\ \A c \in DOMAIN m.pulled :
          cell[c] # P!Moving /\ (cell[c] = P!Stone <=> m.pulled[c] = P!Stone)

PistonTypes ==
    /\ cell \in [P!Line -> Blocks] /\ disk \in [P!Line -> P!Standing]
    /\ power \in [P!Line -> BOOLEAN] /\ commits \in SUBSET Moves
    /\ queue \in [P!Line -> [on : BOOLEAN, want : BOOLEAN, left : Int]]
    /\ kept \in [world : Int, disk : Int]
MovesShown == \A m \in commits : MoveFits(m) /\ MoveShows(m)
MovesApart == \A m, o \in commits : m # o => P!Targets(m) \cap P!Targets(o) = {}
MovingCovered == \A c \in P!Line : cell[c] = P!Moving => \E m \in commits : c \in DOMAIN m.moved

\* The cells with a stone, in place or under way.
Laden == {c \in P!Line : cell[c] = P!Stone} \cup P!Carried

MovesSound == MovesShown /\ MovesApart /\ MovingCovered
PistonInv ==
    /\ PistonTypes /\ MovesSound
    /\ Cardinality(Laden) = kept.world /\ P!Stones(disk) = kept.disk

LEMMA BlockKinds ==
    /\ P!Air \in Blocks /\ P!Stone \in Blocks /\ P!Head \in Blocks /\ P!Moving \in Blocks
    /\ P!Moving \notin P!Standing /\ P!Air \in P!Standing /\ P!Head \in P!Standing
    /\ P!Stone \in P!Standing
    /\ P!Moving # P!Stone /\ P!Moving # P!Air /\ P!Air # P!Stone /\ P!Head # P!Stone
    /\ \A b \in Blocks : /\ b.k = "air" <=> b = P!Air
                         /\ b.k = "stone" <=> b = P!Stone
                         /\ b.k = "head" <=> b = P!Head
                         /\ b.k = "moving" <=> b = P!Moving
    /\ \A b \in Blocks : b.k = "piston" =>
          /\ b \in P!Standing /\ b.dir \in {1, -1} /\ b.sticky \in BOOLEAN /\ b.ext \in BOOLEAN
          /\ \A e \in BOOLEAN : [b EXCEPT !.ext = e] \in P!Standing
                                /\ [b EXCEPT !.ext = e].k = "piston"
<1> USE DEF Blocks, P!Standing, P!Air, P!Stone, P!Head, P!Obsidian, P!Moving
<1>1. P!Moving \notin P!Standing
  OBVIOUS
<1>2. \A b \in Blocks : /\ b.k = "air" <=> b = P!Air
                        /\ b.k = "stone" <=> b = P!Stone
                        /\ b.k = "head" <=> b = P!Head
                        /\ b.k = "moving" <=> b = P!Moving
  OBVIOUS
<1>3. ASSUME NEW b \in Blocks, b.k = "piston"
      PROVE  /\ b \in P!Standing /\ b.dir \in {1, -1} /\ b.sticky \in BOOLEAN /\ b.ext \in BOOLEAN
             /\ \A e \in BOOLEAN : [b EXCEPT !.ext = e] \in P!Standing
                                   /\ [b EXCEPT !.ext = e].k = "piston"
  <2>1. b \in [k : {"piston"}, dir : {1, -1}, sticky : BOOLEAN, ext : BOOLEAN]
    BY <1>3
  <2> QED BY <2>1
<1> QED BY <1>1, <1>2, <1>3

LEMMA LineIs == P!PistonsConstants => P!Line \subseteq Int /\ IsFiniteSet(P!Line)
BY FS_Interval DEF P!PistonsConstants, P!Line

LEMMA LadenIsFinite == P!PistonsConstants => Laden \subseteq P!Line /\ IsFiniteSet(Laden)
BY LineIs, FS_Subset DEF Laden, P!Carried

LEMMA LadenNextIsFinite ==
  P!PistonsConstants => Laden' \subseteq P!Line /\ IsFiniteSet(Laden')
BY LineIs, FS_Subset DEF Laden, P!Carried

-----------------------------------------------------------------------------
(* Moves that are put down.                                                 *)

\* What a cell of its targets then has.
Landed(m, c) ==
    IF m.extend THEN (IF c = m.p + m.dir THEN P!Head ELSE m.moved[c - m.dir])
    ELSE IF c + m.dir \in DOMAIN m.pulled THEN m.pulled[c + m.dir] ELSE P!Air

\* Which way its stones go, and from where.
Towards(m) == IF m.extend THEN m.dir ELSE -m.dir
Loaded(m, c) ==
    IF m.extend THEN c \in DOMAIN m.moved /\ m.moved[c] = P!Stone
    ELSE c \in DOMAIN m.pulled /\ m.pulled[c] = P!Stone

LEMMA CargoIs ==
  ASSUME NEW m \in Moves
  PROVE  /\ m.moved \in [DOMAIN m.moved -> P!Standing] /\ DOMAIN m.moved \subseteq P!Line
         /\ m.pulled \in [DOMAIN m.pulled -> P!Standing] /\ DOMAIN m.pulled \subseteq P!Line
BY DEF Moves, Cargo

LEMMA LandedIs ==
  ASSUME P!PistonsConstants, NEW m \in Moves, MoveFits(m), NEW c \in P!Targets(m)
  PROVE  Landed(m, c) \in P!Standing
<1>1. P!Head \in P!Standing /\ P!Air \in P!Standing
  BY BlockKinds
<1>2. CASE m.extend
  <2>1. SUFFICES ASSUME c # m.p + m.dir PROVE m.moved[c - m.dir] \in P!Standing
    BY <1>1, <1>2 DEF Landed
  <2>2. PICK e \in DOMAIN m.moved : c = e + m.dir
    BY <1>2, <2>1 DEF P!Targets
  <2>3. c - m.dir = e
    BY <2>2, LineIs, CargoIs DEF Moves
  <2> QED BY <2>2, <2>3, CargoIs
<1>3. CASE ~m.extend
  BY <1>1, <1>3, CargoIs DEF Landed
<1> QED BY <1>2, <1>3

LEMMA PutDownAt ==
  ASSUME P!PistonsConstants, NEW m \in Moves, MoveFits(m), NEW f \in [P!Line -> Blocks],
         NEW c \in P!Line
  PROVE  P!PutDown(f, m)[c] = IF c \in P!Targets(m) THEN Landed(m, c) ELSE f[c]
<1>1. c \in Int /\ m.p \in Int /\ m.dir \in {1, -1} /\ P!Line \subseteq Int
  BY LineIs DEF Moves
<1>2. CASE m.extend
  <2> DEFINE empty == [x \in P!Line |-> IF x \in DOMAIN m.moved THEN P!Air ELSE f[x]]
             full == [x \in P!Line |-> IF x - m.dir \in DOMAIN m.moved THEN m.moved[x - m.dir]
                                       ELSE empty[x]]
  <2>1. P!PutDown(f, m) = P!Put(full, m.p + m.dir, P!Head)
    BY <1>2 DEF P!PutDown
  <2>2. m.p + m.dir \in P!Line /\ m.p + m.dir \in P!Targets(m)
    BY <1>2 DEF MoveFits, P!Targets
  <2>3. P!PutDown(f, m) = [full EXCEPT ![m.p + m.dir] = P!Head]
    BY <2>1, <2>2 DEF P!Put
  <2>4. P!PutDown(f, m)[c] = IF c = m.p + m.dir THEN P!Head ELSE full[c]
    BY <2>3
  <2>5. c # m.p + m.dir => (c \in P!Targets(m) <=> c - m.dir \in DOMAIN m.moved)
    <3>1. \A e \in DOMAIN m.moved : e \in Int
      BY <1>1, CargoIs
    <3>2. c \in P!Targets(m) <=> c = m.p + m.dir \/ \E e \in DOMAIN m.moved : c = e + m.dir
      BY <1>2 DEF P!Targets
    <3> QED BY <1>1, <3>1, <3>2
  <2>6. c \notin P!Targets(m) => c \notin DOMAIN m.moved
    BY DEF MoveFits
  <2> QED BY <1>2, <2>2, <2>4, <2>5, <2>6 DEF Landed
<1>3. CASE ~m.extend
  <2> DEFINE src == DOMAIN m.pulled \cup {m.p + m.dir}
             empty == [x \in P!Line |-> IF x \in src THEN P!Air ELSE f[x]]
             full == [x \in P!Line |-> IF x - (-m.dir) \in DOMAIN m.pulled
                                       THEN m.pulled[x - (-m.dir)] ELSE empty[x]]
  <2>1. P!PutDown(f, m) = full
    BY <1>3 DEF P!PutDown
  <2>2. c - (-m.dir) = c + m.dir
    BY <1>1
  <2>3. P!Targets(m) = src
    BY <1>3 DEF P!Targets
  <2>4. c + m.dir \in DOMAIN m.pulled => c \in src
    BY <1>1, <1>3 DEF MoveFits
  <2>5. full[c] = IF c + m.dir \in DOMAIN m.pulled THEN m.pulled[c + m.dir] ELSE empty[c]
    BY <2>2
  <2> QED BY <1>3, <2>1, <2>3, <2>4, <2>5 DEF Landed
<1> QED BY <1>2, <1>3

\* A stone of a move is among its targets, and so is the cell it goes to.
LEMMA LoadedStays ==
  ASSUME P!PistonsConstants, NEW m \in Moves, MoveFits(m), NEW c, Loaded(m, c)
  PROVE  c \in P!Targets(m) /\ c \in Int /\ c + Towards(m) \in P!Targets(m)
<1>1. m.p \in Int /\ m.dir \in {1, -1} /\ c \in Int
  BY LineIs, CargoIs DEF Moves, Loaded
<1>2. CASE m.extend
  BY <1>1, <1>2 DEF Loaded, Towards, P!Targets, MoveFits
<1>3. CASE ~m.extend
  BY <1>1, <1>3 DEF Loaded, Towards, P!Targets, MoveFits
<1> QED BY <1>2, <1>3

\* Of the targets of a move, those are laden that it takes a stone from.
LEMMA LadenIn ==
  ASSUME P!PistonsConstants, commits \in SUBSET Moves, MovesShown, MovesApart,
         NEW m \in commits, NEW c \in P!Targets(m)
  PROVE  c \in Laden <=> Loaded(m, c)
<1>1. m \in Moves /\ MoveFits(m) /\ MoveShows(m) /\ c \in P!Line
  BY DEF MovesShown, MoveFits
<1>2. \A o \in commits : c \in DOMAIN o.moved => o = m
  BY DEF MovesShown, MoveFits, MovesApart
<1>3. c \in P!Carried <=> c \in DOMAIN m.moved /\ m.moved[c] = P!Stone
  BY <1>1, <1>2 DEF P!Carried
<1>4. P!Moving # P!Stone /\ P!Air # P!Stone /\ P!Head # P!Stone
  BY BlockKinds
<1>5. CASE m.extend
  <2>1. CASE c \in DOMAIN m.moved
    <3>1. cell[c] # P!Stone
      BY <1>1, <1>4, <2>1 DEF MoveShows
    <3> QED BY <1>1, <1>3, <1>5, <3>1 DEF Laden, Loaded
  <2>2. CASE c \notin DOMAIN m.moved
    <3>1. cell[c] # P!Stone
      BY <1>1, <1>4, <1>5, <2>2 DEF MoveShows
    <3> QED BY <1>1, <1>3, <1>5, <2>2, <3>1 DEF Laden, Loaded
  <2> QED BY <2>1, <2>2
<1>6. CASE ~m.extend
  <2>1. c \notin P!Carried
    BY <1>1, <1>3, <1>4, <1>6 DEF MoveFits
  <2>2. CASE c \in DOMAIN m.pulled
    BY <1>1, <1>6, <2>1, <2>2 DEF Laden, Loaded, MoveShows
  <2>3. CASE c \notin DOMAIN m.pulled
    <3>1. c = m.p + m.dir /\ c \in DOMAIN m.moved
      BY <1>1, <1>6, <2>3 DEF P!Targets, MoveFits
    <3>2. cell[c] # P!Stone
      BY <1>1, <1>4, <3>1 DEF MoveShows
    <3> QED BY <1>6, <2>1, <2>3, <3>2 DEF Laden, Loaded
  <2> QED BY <2>2, <2>3
<1> QED BY <1>5, <1>6

\* What a move that landed left in a cell is a stone if it took one from the
\* cell behind.
LEMMA LandedStone ==
  ASSUME P!PistonsConstants, NEW m \in Moves, MoveFits(m), NEW c \in P!Targets(m)
  PROVE  Landed(m, c) = P!Stone <=> Loaded(m, c - Towards(m))
<1>1. c \in Int /\ m.p \in Int /\ m.dir \in {1, -1}
  BY LineIs DEF Moves, MoveFits
<1>2. P!Air # P!Stone /\ P!Head # P!Stone
  BY BlockKinds
<1>3. CASE m.extend
  <2>1. c - Towards(m) = c - m.dir
    BY <1>3 DEF Towards
  <2>2. CASE c = m.p + m.dir
    <3>1. c - m.dir = m.p
      BY <1>1, <2>2
    <3> QED BY <1>2, <1>3, <2>1, <2>2, <3>1 DEF Landed, Loaded, MoveFits
  <2>3. CASE c # m.p + m.dir
    <3>1. PICK e \in DOMAIN m.moved : c = e + m.dir
      BY <1>3, <2>3 DEF P!Targets
    <3>2. c - m.dir = e
      BY <1>1, <3>1, CargoIs, LineIs
    <3> QED BY <1>3, <2>1, <2>3, <3>1, <3>2 DEF Landed, Loaded
  <2> QED BY <2>2, <2>3
<1>4. CASE ~m.extend
  <2>1. c - Towards(m) = c + m.dir
    BY <1>1, <1>4 DEF Towards
  <2> QED BY <1>2, <1>4, <2>1 DEF Landed, Loaded
<1> QED BY <1>3, <1>4

\* Some moves are put down: no stone is lost or doubled.
LEMMA Landing ==
  ASSUME P!PistonsConstants, PistonTypes, MovesSound, cell' \in [P!Line -> Blocks],
         NEW M \in SUBSET commits, commits' = commits \ M,
         \A m \in M : \A c \in P!Targets(m) : cell'[c] = Landed(m, c),
         \A c \in P!Line : (\A m \in M : c \notin P!Targets(m)) => cell'[c] = cell[c]
  PROVE  MovesSound' /\ Cardinality(Laden') = Cardinality(Laden)
<1>0. /\ MovesShown /\ MovesApart /\ MovingCovered /\ commits \in SUBSET Moves
      /\ \A m \in commits : m \in Moves /\ MoveFits(m) /\ MoveShows(m)
      /\ \A m \in commits : P!Targets(m) \subseteq P!Line /\ DOMAIN m.moved \subseteq P!Targets(m)
  BY DEF MovesSound, MovesShown, PistonTypes, MoveFits
<1>1. \A m \in commits \ M : \A c \in P!Targets(m) : cell'[c] = cell[c]
  <2> SUFFICES ASSUME NEW m \in commits \ M, NEW c \in P!Targets(m), NEW o \in M
               PROVE  c \notin P!Targets(o)
    BY <1>0
  <2> QED BY <1>0 DEF MovesApart
<1>2. MovesShown'
  <2> SUFFICES ASSUME NEW m \in commits \ M PROVE MoveFits(m) /\ MoveShows(m)'
    BY DEF MovesShown, MoveFits
  <2>1. MoveFits(m) /\ MoveShows(m) /\ DOMAIN m.moved \subseteq P!Targets(m)
    BY <1>0
  <2>2. DOMAIN m.pulled \subseteq P!Targets(m)
    BY <2>1 DEF MoveFits, P!Targets
  <2> QED BY <1>1, <2>1, <2>2 DEF MoveShows
<1>3. MovesApart'
  BY <1>0 DEF MovesApart
<1>4. MovingCovered'
  <2> SUFFICES ASSUME NEW c \in P!Line, cell'[c] = P!Moving
               PROVE  \E m \in commits \ M : c \in DOMAIN m.moved
    BY DEF MovingCovered
  <2>1. \A m \in M : c \notin P!Targets(m)
    BY <1>0, LandedIs, BlockKinds
  <2>2. PICK m \in commits : c \in DOMAIN m.moved
    BY <1>0, <2>1 DEF MovingCovered
  <2> QED BY <1>0, <2>1, <2>2
<1>5. \A m \in M : \A c \in P!Targets(m) : c \in Laden' <=> Loaded(m, c - Towards(m))
  <2> SUFFICES ASSUME NEW m \in M, NEW c \in P!Targets(m)
               PROVE  c \in Laden' <=> Loaded(m, c - Towards(m))
    OBVIOUS
  <2>1. c \notin P!Carried'
    <3> SUFFICES ASSUME NEW o \in commits \ M, c \in DOMAIN o.moved PROVE FALSE
      BY DEF P!Carried
    <3> QED BY <1>0 DEF MovesApart
  <2>2. cell'[c] = P!Stone <=> Loaded(m, c - Towards(m))
    BY <1>0, LandedStone
  <2> QED BY <1>0, <2>1, <2>2 DEF Laden
<1>6. ASSUME NEW c \in P!Line, \A m \in M : c \notin P!Targets(m)
      PROVE  c \in Laden' <=> c \in Laden
  <2>1. cell'[c] = cell[c]
    BY <1>6
  <2>2. c \in P!Carried' <=> c \in P!Carried
    BY <1>0, <1>6 DEF P!Carried
  <2> QED BY <2>1, <2>2 DEF Laden
<1>7. Cardinality(Laden') = Cardinality(Laden)
  <2> DEFINE Of(c) == CHOOSE m \in M : c \in P!Targets(m)
             In(c) == \E m \in M : c \in P!Targets(m)
             g == [c \in Laden |-> IF In(c) THEN c + Towards(Of(c)) ELSE c]
  <2>1. \A m \in M : \A c : c \in P!Targets(m) => In(c) /\ Of(c) = m
    <3> SUFFICES ASSUME NEW m \in M, NEW c, c \in P!Targets(m) PROVE Of(c) = m
      OBVIOUS
    <3>1. Of(c) \in M /\ c \in P!Targets(Of(c))
      OBVIOUS
    <3> HIDE DEF Of
    <3> QED BY <1>0, <3>1 DEF MovesApart
  <2>2. \A c : In(c) => Of(c) \in M /\ c \in P!Targets(Of(c))
    OBVIOUS
  <2>3. Laden \subseteq P!Line /\ Laden' \subseteq P!Line /\ P!Line \subseteq Int
        /\ IsFiniteSet(Laden)
    BY LineIs, LadenIsFinite, LadenNextIsFinite
  <2>4. \A m \in M : Towards(m) \in Int
    BY <1>0 DEF Towards, Moves
  <2>5. \A c \in Laden : /\ In(c) => g[c] = c + Towards(Of(c)) /\ Loaded(Of(c), c)
                         /\ ~In(c) => g[c] = c
    BY <1>0, <2>2, LadenIn
  <2> HIDE DEF Of, In, g
  <2>6. \A c \in Laden : In(c) => In(g[c]) /\ Of(g[c]) = Of(c)
    BY <1>0, <2>1, <2>2, <2>5, LoadedStays
  <2>7. g \in [Laden -> Laden']
    <3> SUFFICES ASSUME NEW c \in Laden PROVE g[c] \in Laden'
      BY DEF g
    <3>1. CASE In(c)
      <4>1. Of(c) \in M /\ Of(c) \in commits /\ Loaded(Of(c), c)
            /\ g[c] = c + Towards(Of(c)) /\ g[c] \in P!Targets(Of(c))
        BY <1>0, <2>2, <2>5, <3>1, LoadedStays
      <4>2. g[c] - Towards(Of(c)) = c
        BY <2>3, <2>4, <4>1
      <4> QED BY <1>5, <4>1, <4>2
    <3>2. CASE ~In(c)
      <4>1. \A m \in M : c \notin P!Targets(m)
        BY <2>1, <3>2
      <4> QED BY <1>6, <2>3, <2>5, <3>2, <4>1
    <3> QED BY <3>1, <3>2
  <2>8. ASSUME NEW c \in Laden, NEW e \in Laden, g[c] = g[e] PROVE c = e
    <3>1. In(c) <=> In(e)
      BY <2>5, <2>6, <2>8
    <3>2. CASE In(c)
      <4>1. Of(c) = Of(e) /\ Of(c) \in M
        BY <2>2, <2>6, <2>8, <3>1, <3>2
      <4>2. c + Towards(Of(c)) = e + Towards(Of(c))
        BY <2>5, <2>8, <3>1, <3>2, <4>1
      <4> QED BY <2>3, <2>4, <4>1, <4>2
    <3>3. CASE ~In(c)
      BY <2>5, <2>8, <3>1, <3>3
    <3> QED BY <3>2, <3>3
  <2>9. ASSUME NEW e \in Laden' PROVE \E c \in Laden : g[c] = e
    <3>1. CASE In(e)
      <4>1. Of(e) \in M /\ Of(e) \in commits /\ e \in P!Targets(Of(e))
        BY <1>0, <2>2, <3>1
      <4> DEFINE c == e - Towards(Of(e))
      <4>2. Loaded(Of(e), c)
        BY <1>5, <4>1
      <4>3. c \in P!Targets(Of(e))
        BY <1>0, <4>1, <4>2, LoadedStays
      <4>4. c \in Laden /\ In(c) /\ Of(c) = Of(e)
        BY <1>0, <2>1, <4>1, <4>2, <4>3, LadenIn
      <4>5. c + Towards(Of(e)) = e
        BY <2>3, <2>4, <4>1
      <4> QED BY <2>5, <4>4, <4>5
    <3>2. CASE ~In(e)
      <4>1. \A m \in M : e \notin P!Targets(m)
        BY <2>1, <3>2
      <4> QED BY <1>6, <2>3, <2>5, <3>2, <4>1
    <3> QED BY <3>1, <3>2
  <2>10. ExistsBijection(Laden, Laden')
    <3>1. g \in Bijection(Laden, Laden')
      BY <2>7, <2>8, <2>9, Fun_IsBij
    <3> QED BY <3>1 DEF ExistsBijection
  <2> QED BY <2>3, <2>10, FS_Bijection
<1> QED BY <1>2, <1>3, <1>4, <1>7 DEF MovesSound

-----------------------------------------------------------------------------
(* Moves that begin.                                                        *)

\* A set of numbers has a least one.
LEMMA LeastExists ==
  ASSUME NEW T \in SUBSET Nat, T # {}
  PROVE  \E x \in T : \A y \in T : x <= y
<1> DEFINE Less == {q \in Nat \X Nat : q[1] < q[2]}
<1>1. IsWellFoundedOn(Less, Nat)
  BY NatLessThanWellFounded DEF OpToRel
<1>2. PICK x \in T : \A y \in T : ~(<<y, x>> \in Less)
  <2>1. T \subseteq Nat
    OBVIOUS
  <2> HIDE DEF Less
  <2> QED BY <1>1, <2>1, WFMin
<1>3. ASSUME NEW y \in T PROVE x <= y
  <2>1. x \in Nat /\ y \in Nat
    OBVIOUS
  <2>2. ~(y < x)
    BY <1>2, <2>1
  <2> QED BY <2>1, <2>2
<1> QED BY <1>3

\* The n cells from p in direction d, and where they are when they moved by one.
Stretch(p, d, n) == {p + d * i : i \in 1 .. n}
Shifts(p, d, n) ==
    /\ {c + d : c \in Stretch(p, d, n)} \cup {p + d} = Stretch(p, d, n + 1)
    /\ Stretch(p, d, n) \subseteq Stretch(p, d, n + 1) /\ p \notin Stretch(p, d, n)
    /\ Stretch(p, d, n + 1) \ Stretch(p, d, n) \subseteq {p + d * (n + 1)}

LEMMA StretchIs ==
  ASSUME NEW p \in Int, NEW d \in {1, -1}, NEW n \in Nat
  PROVE  Shifts(p, d, n)
<1> DEFINE e(i) == p + d * i
           run == Stretch(p, d, n)
           T == {c + d : c \in run} \cup {p + d}
<1>1. \A i \in Int : e(i) \in Int /\ e(i + 1) = e(i) + d /\ (e(i) = p => i = 0)
  <2>1. CASE d = 1
    BY <2>1
  <2>2. CASE d = -1
    BY <2>2
  <2> QED BY <2>1, <2>2
<1>2. e(1) = p + d
  OBVIOUS
<1>3. run = {e(i) : i \in 1 .. n} /\ Stretch(p, d, n + 1) = {e(i) : i \in 1 .. n + 1}
      /\ p + d * (n + 1) = e(n + 1)
  BY DEF Stretch
<1> HIDE DEF e, run
<1>4. \A i \in 1 .. n + 1 : e(i) \in T
  <2> SUFFICES ASSUME NEW i \in 1 .. n + 1, i # 1 PROVE e(i) \in T
    BY <1>2
  <2>1. i - 1 \in 1 .. n /\ i - 1 \in Int /\ (i - 1) + 1 = i
    OBVIOUS
  <2>2. e(i) = e(i - 1) + d /\ e(i - 1) \in run
    BY <1>1, <1>3, <2>1
  <2> QED BY <2>2
<1>5. \A c \in T : \E i \in 1 .. n + 1 : c = e(i)
  <2> SUFFICES ASSUME NEW c \in T, c # p + d PROVE \E i \in 1 .. n + 1 : c = e(i)
    BY <1>2
  <2>1. PICK i \in 1 .. n : c = e(i) + d
    BY <1>3
  <2>2. i \in Int /\ i + 1 \in 1 .. n + 1 /\ c = e(i + 1)
    BY <1>1, <2>1
  <2> QED BY <2>2
<1>6. T = {e(i) : i \in 1 .. n + 1}
  BY <1>4, <1>5
<1>7. run \subseteq T /\ T \ run \subseteq {e(n + 1)}
  <2>1. \A i \in 1 .. n + 1 : i = n + 1 \/ i \in 1 .. n
    OBVIOUS
  <2>2. \A i \in 1 .. n : i \in 1 .. n + 1
    OBVIOUS
  <2> QED BY <1>3, <1>6, <2>1, <2>2
<1>8. p \notin run
  BY <1>1, <1>3
<1>9. p + d * (n + 1) = e(n + 1) /\ run = Stretch(p, d, n)
  BY <1>3 DEF run
<1> QED BY <1>3, <1>6, <1>7, <1>8, <1>9 DEF run, Shifts

\* What a piston may push goes one cell on, as far as the air that stops it.
ReachFits(f, p) ==
  LET S == P!Reach(f, p).cells
      T == {c + f[p].dir : c \in S} \cup {p + f[p].dir}
  IN  /\ S \subseteq T /\ T \subseteq P!Line /\ p \notin S
      /\ \A c \in S : f[c] \in P!Standing
      /\ \A c \in T \ S : f[c] = P!Air

LEMMA ReachIs ==
  ASSUME P!PistonsConstants, NEW f \in [P!Line -> Blocks], NEW p \in P!Line,
         f[p].k = "piston", P!Reach(f, p).valid
  PROVE  ReachFits(f, p)
<1> SUFFICES ASSUME NEW r, r = P!Reach(f, p), r.valid, NEW T,
                    T = {c + f[p].dir : c \in r.cells} \cup {p + f[p].dir}
             PROVE  /\ r.cells \subseteq T /\ T \subseteq P!Line /\ p \notin r.cells
                    /\ \A c \in r.cells : f[c] \in P!Standing
                    /\ \A c \in T \ r.cells : f[c] = P!Air
  BY DEF ReachFits
<1> DEFINE d == f[p].dir
           stops == {i \in 1 .. Limit + 1 : P!On(f, p + d * i).k = "air"}
           n == IF stops = {} THEN Limit ELSE P!Min(stops) - 1
           run == {p + d * i : i \in 1 .. n}
<1>1. p \in Int /\ d \in {1, -1} /\ Limit \in Nat /\ P!Line \subseteq Int
  BY LineIs, BlockKinds DEF P!PistonsConstants
<1>2. /\ r.cells = run /\ stops # {}
      /\ \A c \in run : P!On(f, c).k \notin P!Unmovable
  BY DEF P!Reach
<1>3. stops \in SUBSET Nat
  BY <1>1
<1>4. P!Min(stops) \in stops /\ \A i \in stops : P!Min(stops) <= i
  <2>1. \E i \in stops : \A j \in stops : i <= j
    BY <1>2, <1>3, LeastExists
  <2> QED BY <2>1 DEF P!Min
<1>5. n + 1 \in stops /\ n \in Nat /\ n <= Limit /\ \A i \in 1 .. n : i \notin stops
  <2> DEFINE least == P!Min(stops)
  <2>1. least \in 1 .. Limit + 1 /\ n = least - 1 /\ least \in Nat
    BY <1>1, <1>2, <1>4
  <2>2. n + 1 = least
    BY <2>1
  <2>3. \A i \in 1 .. n : i \notin stops
    <3> SUFFICES ASSUME NEW i \in 1 .. n, i \in stops PROVE FALSE
      OBVIOUS
    <3>1. least <= i /\ i \in Int /\ i <= n
      BY <1>4, <2>1
    <3> QED BY <2>1, <3>1
  <2>4. n \in Nat /\ n <= Limit
    BY <1>1, <2>1
  <2> QED BY <1>4, <2>2, <2>3, <2>4
<1> HIDE DEF n
<1>6. \A c : P!On(f, c).k # "edge" => c \in P!Line /\ P!On(f, c) = f[c]
  BY DEF P!On, P!Edge
<1>7. p + d * (n + 1) \in P!Line /\ f[p + d * (n + 1)] = P!Air
  <2>1. P!On(f, p + d * (n + 1)).k = "air"
    BY <1>5
  <2>2. p + d * (n + 1) \in P!Line /\ f[p + d * (n + 1)].k = "air"
    BY <1>6, <2>1
  <2> QED BY <2>2, BlockKinds
<1>8. ASSUME NEW c \in run PROVE c \in P!Line /\ f[c] \in P!Standing
  <2>1. P!On(f, c).k \notin {"edge", "moving"}
    BY <1>2 DEF P!Unmovable
  <2>2. c \in P!Line /\ f[c].k # "moving"
    BY <1>6, <2>1
  <2> QED BY <2>2, BlockKinds DEF Blocks
<1>9. run \subseteq T /\ p \notin run /\ T \ run \subseteq {p + d * (n + 1)}
  <2>1. run = Stretch(p, d, n) /\ T = {c + d : c \in Stretch(p, d, n)} \cup {p + d}
    BY <1>2 DEF Stretch
  <2>2. p \in Int /\ d \in {1, -1} /\ n \in Nat
    BY <1>1, <1>5
  <2> HIDE DEF run, d, stops
  <2>3. Shifts(p, d, n)
    BY <2>2, StretchIs
  <2> QED BY <2>1, <2>3 DEF Shifts
<1>10. T \subseteq P!Line
  <2> SUFFICES ASSUME NEW c \in T PROVE c \in P!Line
    OBVIOUS
  <2>1. CASE c \in run
    BY <1>8, <2>1
  <2>2. CASE c \notin run
    <3>1. c = p + d * (n + 1)
      BY <1>9, <2>2
    <3> QED BY <1>7, <3>1
  <2> QED BY <2>1, <2>2
<1> HIDE DEF run
<1> QED BY <1>2, <1>7, <1>8, <1>9, <1>10

\* A move m that begins, of the piston in p, which is turned (f), where no other
\* move writes.
LEMMA Beginning ==
  ASSUME P!PistonsConstants, PistonTypes, MovesSound, NEW p \in P!Line,
         cell[p].k = "piston", NEW f \in [P!Line -> Blocks], f[p].k = "piston",
         \A c \in P!Line : c # p => f[c] = cell[c],
         NEW m \in Moves, MoveFits(m), p \notin DOMAIN m.moved,
         \A c \in DOMAIN m.moved : m.moved[c] = cell[c],
         \A c \in DOMAIN m.pulled : m.pulled[c] = cell[c] /\ c \notin DOMAIN m.moved,
         m.extend => \A c \in P!Targets(m) \ DOMAIN m.moved : cell[c] = P!Air,
         \A o \in commits : P!Targets(o) \cap (P!Targets(m) \cup DOMAIN m.moved) = {},
         commits' = commits \cup {m},
         cell' = [c \in P!Line |-> IF c \in DOMAIN m.moved THEN P!Moving ELSE f[c]]
  PROVE  /\ cell' \in [P!Line -> Blocks] /\ commits' \in SUBSET Moves /\ MovesSound'
         /\ Laden' = Laden
<1>0. /\ MovesShown /\ MovesApart /\ MovingCovered /\ commits \in SUBSET Moves
      /\ \A o \in commits : o \in Moves /\ MoveFits(o) /\ MoveShows(o)
      /\ \A o \in commits : P!Targets(o) \subseteq P!Line /\ DOMAIN o.moved \subseteq P!Targets(o)
      /\ cell \in [P!Line -> Blocks]
      /\ DOMAIN m.moved \subseteq P!Targets(m) /\ P!Targets(m) \subseteq P!Line
      /\ DOMAIN m.pulled \subseteq P!Targets(m)
  BY DEF MovesSound, MovesShown, PistonTypes, MoveFits, P!Targets
<1>1. \A c \in P!Line : cell'[c] = IF c \in DOMAIN m.moved THEN P!Moving ELSE f[c]
  OBVIOUS
<1>2. cell' \in [P!Line -> Blocks] /\ commits' \in SUBSET Moves
  BY <1>0, BlockKinds
<1>3. \A c \in P!Line : /\ f[c] = P!Stone <=> cell[c] = P!Stone
                        /\ f[c] = P!Moving <=> cell[c] = P!Moving
                        /\ cell[c] = P!Air => f[c] = P!Air
  BY <1>0, BlockKinds
<1>4. MovesShown'
  <2> SUFFICES ASSUME NEW o \in commits \cup {m} PROVE MoveFits(o) /\ MoveShows(o)'
    BY DEF MovesShown, MoveFits
  <2>1. CASE o = m
    <3>1. \A c \in DOMAIN m.pulled : c \in P!Line /\ m.pulled[c] \in P!Standing
      BY <1>0, CargoIs
    <3>2. \A c \in DOMAIN m.pulled : f[c] # P!Moving /\ (f[c] = P!Stone <=> m.pulled[c] = P!Stone)
      BY <1>3, <3>1, BlockKinds
    <3>3. m.extend => \A c \in P!Targets(m) \ DOMAIN m.moved : f[c] = P!Air
      BY <1>0, <1>3
    <3> QED BY <1>0, <1>1, <2>1, <3>1, <3>2, <3>3 DEF MoveShows
  <2>2. CASE o \in commits
    <3>1. MoveFits(o) /\ MoveShows(o) /\ DOMAIN o.moved \subseteq P!Targets(o)
          /\ P!Targets(o) \subseteq P!Line
      BY <1>0, <2>2
    <3>2. DOMAIN o.pulled \subseteq P!Targets(o)
      BY <3>1 DEF MoveFits, P!Targets
    <3>3. \A c \in P!Targets(o) : c \in P!Line /\ cell'[c] = f[c]
      BY <1>1, <2>2, <3>1
    <3>4. \A c \in DOMAIN o.moved : cell'[c] = P!Moving
      BY <1>3, <3>1, <3>3 DEF MoveShows
    <3>5. o.extend => \A c \in P!Targets(o) \ DOMAIN o.moved : cell'[c] = P!Air
      BY <1>3, <3>1, <3>3 DEF MoveShows
    <3>6. \A c \in DOMAIN o.pulled : cell'[c] # P!Moving /\ (cell'[c] = P!Stone <=> o.pulled[c] = P!Stone)
      BY <1>3, <3>1, <3>2, <3>3 DEF MoveShows
    <3> QED BY <3>1, <3>4, <3>5, <3>6 DEF MoveShows
  <2> QED BY <2>1, <2>2
<1>5. MovesApart'
  BY <1>0 DEF MovesApart
<1>6. MovingCovered'
  BY <1>0, <1>1, <1>3 DEF MovingCovered
<1>7. Laden' = Laden
  <2> SUFFICES ASSUME NEW c \in P!Line PROVE c \in Laden' <=> c \in Laden
    BY DEF Laden, P!Carried
  <2>1. c \in P!Carried' <=> c \in P!Carried \/ (c \in DOMAIN m.moved /\ m.moved[c] = P!Stone)
    BY DEF P!Carried
  <2>2. c \in DOMAIN m.moved => cell'[c] # P!Stone
    BY <1>1, BlockKinds
  <2> QED BY <1>1, <1>3, <2>1, <2>2 DEF Laden
<1> QED BY <1>2, <1>4, <1>5, <1>6, <1>7 DEF MovesSound

-----------------------------------------------------------------------------
(* The actions.                                                             *)

LEMMA StonesAre ==
  ASSUME P!PistonsConstants, NEW f \in [P!Line -> Blocks]
  PROVE  P!Stones(f) = Cardinality({c \in P!Line : f[c] = P!Stone}) /\ P!Stones(f) \in Int
<1>1. {c \in DOMAIN f : f[c].k = "stone"} = {c \in P!Line : f[c] = P!Stone}
  BY BlockKinds
<1>2. Cardinality({c \in P!Line : f[c] = P!Stone}) \in Int
  BY LineIs, FS_Subset, FS_CardinalityType
<1> QED BY <1>1, <1>2 DEF P!Stones, P!Cardinality, Cardinality

\* Where nothing is under way, all stones lie.
LEMMA AllLie ==
  ASSUME commits = {}, cell \in [P!Line -> Blocks], MovingCovered
  PROVE  Laden = {c \in P!Line : cell[c] = P!Stone} /\ cell \in [P!Line -> P!Standing]
<1>1. P!Carried = {}
  BY DEF P!Carried
<1>2. \A c \in P!Line : cell[c] \in P!Standing
  BY DEF MovingCovered, Blocks
<1> QED BY <1>1, <1>2 DEF Laden

LEMMA AllLieNext ==
  ASSUME commits' = {}, cell' \in [P!Line -> Blocks], MovingCovered'
  PROVE  Laden' = {c \in P!Line : cell'[c] = P!Stone} /\ cell' \in [P!Line -> P!Standing]
<1>1. P!Carried' = {}
  BY DEF P!Carried
<1>2. \A c \in P!Line : cell'[c] \in P!Standing
  BY DEF MovingCovered, Blocks
<1> QED BY <1>1, <1>2 DEF Laden

LEMMA PutDownIs ==
  ASSUME P!PistonsConstants, NEW m \in Moves, MoveFits(m), NEW f \in [P!Line -> Blocks]
  PROVE  P!PutDown(f, m) \in [P!Line -> Blocks]
<1>1. \A c \in P!Line : P!PutDown(f, m)[c] \in Blocks
  BY PutDownAt, LandedIs DEF Blocks
<1>2. P!PutDown(f, m) = [c \in P!Line |-> P!PutDown(f, m)[c]]
  BY DEF P!PutDown, P!Put
<1> QED BY <1>1, <1>2

LEMMA QueueNoticed ==
  ASSUME PistonTypes, NEW f \in [P!Line -> Blocks], NEW Q
  PROVE  P!Noticed(queue, f, Q) \in [P!Line -> [on : BOOLEAN, want : BOOLEAN, left : Int]]
BY DEF PistonTypes, P!Noticed, P!None, P!Queued

LEMMA MovesStay ==
  ASSUME MovesSound, cell' = cell, commits' = commits
  PROVE  MovesSound' /\ Laden' = Laden
<1>1. MovesShown'
  BY DEF MovesSound, MovesShown, MoveShows, MoveFits
<1>2. MovesApart' /\ MovingCovered'
  BY DEF MovesSound, MovesApart, MovingCovered
<1> QED BY <1>1, <1>2 DEF MovesSound, Laden, P!Carried

LEMMA PistonsBegin == ASSUME P!PistonsConstants, P!Init PROVE PistonInv
<1>1. cell \in [P!Line -> P!Standing] /\ cell \in [P!Line -> Blocks] /\ commits = {}
  BY DEF P!Init, P!PistonsConstants, Blocks
<1>2. MovesSound
  BY <1>1, BlockKinds DEF MovesSound, MovesShown, MovesApart, MovingCovered
<1>3. Cardinality(Laden) = P!Stones(cell) /\ P!Stones(cell) \in Int
  BY <1>1, <1>2, StonesAre, AllLie DEF MovesSound
<1>4. PistonTypes
  BY <1>1, <1>3 DEF P!Init, PistonTypes, P!None
<1> QED BY <1>2, <1>3, <1>4 DEF PistonInv, P!Init

LEMMA StartTickKeeps ==
  ASSUME P!PistonsConstants, PistonInv, P!StartTick PROVE PistonInv'
<1> DEFINE older(m) == [m EXCEPT !.left = IF @ > 0 THEN @ - 1 ELSE 0]
<1>1. commits' = {older(m) : m \in commits} /\ cell' = cell
  BY DEF P!StartTick
<1>2. ASSUME NEW m \in commits
      PROVE  /\ older(m) \in Moves /\ older(m).p = m.p /\ older(m).dir = m.dir
             /\ older(m).extend = m.extend /\ older(m).moved = m.moved
             /\ older(m).pulled = m.pulled
  BY DEF PistonInv, PistonTypes, Moves
<1> HIDE DEF older
<1>3. \A m \in commits : P!Targets(older(m)) = P!Targets(m)
  BY <1>2 DEF P!Targets
<1>4. MovesShown'
  <2> SUFFICES ASSUME NEW m \in commits PROVE MoveFits(older(m)) /\ MoveShows(older(m))'
    BY <1>1, Zenon DEF MovesShown, MoveFits
  <2>1. MoveFits(m) /\ MoveShows(m)
    BY DEF PistonInv, MovesSound, MovesShown
  <2> QED BY <1>1, <1>2, <1>3, <2>1 DEF MoveFits, MoveShows
<1>5. MovesApart'
  <2> SUFFICES ASSUME NEW m \in commits, NEW o \in commits, older(m) # older(o)
               PROVE  P!Targets(older(m)) \cap P!Targets(older(o)) = {}
    BY <1>1 DEF MovesApart
  <2> QED BY <1>3 DEF PistonInv, MovesSound, MovesApart
<1>6. MovingCovered'
  BY <1>1, <1>2 DEF PistonInv, MovesSound, MovingCovered
<1>7. Laden' = Laden
  BY <1>1, <1>2 DEF Laden, P!Carried
<1>8. PistonTypes'
  <2>1. commits' \in SUBSET Moves
    BY <1>1, <1>2
  <2>2. queue' \in [P!Line -> [on : BOOLEAN, want : BOOLEAN, left : Int]]
    BY DEF P!StartTick, PistonInv, PistonTypes
  <2> QED BY <2>1, <2>2 DEF P!StartTick, PistonInv, PistonTypes
<1> QED BY <1>4, <1>5, <1>6, <1>7, <1>8 DEF PistonInv, MovesSound, P!StartTick

LEMMA CommitKeeps == ASSUME P!PistonsConstants, PistonInv, P!Commit PROVE PistonInv'
<1>1. PICK m \in commits : cell' = P!PutDown(cell, m) /\ commits' = commits \ {m}
  BY DEF P!Commit
<1>2. m \in Moves /\ MoveFits(m) /\ cell \in [P!Line -> Blocks]
  BY DEF PistonInv, PistonTypes, MovesSound, MovesShown
<1>3. cell' \in [P!Line -> Blocks]
  BY <1>1, <1>2, PutDownIs
<1>4. MovesSound' /\ Cardinality(Laden') = Cardinality(Laden)
  <2>1. P!Targets(m) \subseteq P!Line
    BY <1>2 DEF MoveFits
  <2>2. \A c \in P!Line : cell'[c] = IF c \in P!Targets(m) THEN Landed(m, c) ELSE cell[c]
    BY <1>1, <1>2, PutDownAt
  <2> QED BY <1>1, <1>3, <2>1, <2>2, Landing DEF PistonInv
<1>5. PistonTypes'
  BY <1>1, <1>3 DEF PistonInv, PistonTypes, P!Commit
<1> QED BY <1>4, <1>5 DEF PistonInv, P!Commit

\* Everything is put down.
LEMMA FlushKeeps ==
  ASSUME P!PistonsConstants, PistonInv, P!Flush
  PROVE  /\ MovesSound' /\ Cardinality(Laden') = Cardinality(Laden)
         /\ cell' \in [P!Line -> P!Standing] /\ Cardinality(Laden') = P!Stones(cell')
         /\ queue' \in [P!Line -> [on : BOOLEAN, want : BOOLEAN, left : Int]]
<1>1. cell' = P!Flushed(cell) /\ commits' = {} /\ cell \in [P!Line -> Blocks]
      /\ commits \in SUBSET Moves /\ \A m \in commits : MoveFits(m)
  BY DEF P!Flush, PistonInv, PistonTypes, MovesSound, MovesShown
<1> DEFINE Of(c) == CHOOSE m \in commits : c \in P!Targets(m)
<1>2. \A c \in P!Line : cell'[c] = IF \E m \in commits : c \in P!Targets(m)
                                   THEN P!PutDown(cell, Of(c))[c] ELSE cell[c]
  BY <1>1 DEF P!Flushed
<1>3. \A m \in commits : \A c \in P!Targets(m) : Of(c) = m
  <2> SUFFICES ASSUME NEW m \in commits, NEW c \in P!Targets(m) PROVE Of(c) = m
    OBVIOUS
  <2>1. Of(c) \in commits /\ c \in P!Targets(Of(c))
    OBVIOUS
  <2> HIDE DEF Of
  <2> QED BY <2>1 DEF PistonInv, MovesSound, MovesApart
<1> HIDE DEF Of
<1>4. \A m \in commits : \A c \in P!Targets(m) : cell'[c] = Landed(m, c)
  <2> SUFFICES ASSUME NEW m \in commits, NEW c \in P!Targets(m) PROVE cell'[c] = Landed(m, c)
    OBVIOUS
  <2>1. c \in P!Line /\ m \in Moves /\ MoveFits(m)
    BY <1>1 DEF MoveFits
  <2> QED BY <1>1, <1>2, <1>3, <2>1, PutDownAt
<1>5. \A c \in P!Line : (\A m \in commits : c \notin P!Targets(m)) => cell'[c] = cell[c]
  BY <1>2
<1>6. cell' \in [P!Line -> Blocks]
  <2>1. ASSUME NEW c \in P!Line PROVE cell'[c] \in Blocks
    <3>1. CASE \E m \in commits : c \in P!Targets(m)
      BY <1>1, <1>4, <3>1, LandedIs DEF Blocks
    <3>2. CASE ~\E m \in commits : c \in P!Targets(m)
      BY <1>1, <1>5, <3>2
    <3> QED BY <3>1, <3>2
  <2>2. cell' = [c \in P!Line |-> cell'[c]]
    BY <1>1 DEF P!Flushed
  <2> QED BY <2>1, <2>2
<1>7. MovesSound' /\ Cardinality(Laden') = Cardinality(Laden)
  <2>1. commits' = commits \ commits
    BY <1>1
  <2> QED BY <1>4, <1>5, <1>6, <2>1, Landing DEF PistonInv
<1>8. Laden' = {c \in P!Line : cell'[c] = P!Stone} /\ cell' \in [P!Line -> P!Standing]
  BY <1>1, <1>6, <1>7, AllLieNext DEF MovesSound
<1>9. Cardinality(Laden') = P!Stones(cell')
  BY <1>6, <1>8, StonesAre
<1>10. queue' \in [P!Line -> [on : BOOLEAN, want : BOOLEAN, left : Int]]
  BY <1>6, QueueNoticed DEF PistonInv, P!Flush
<1> QED BY <1>7, <1>8, <1>9, <1>10

LEMMA StartKeeps ==
  ASSUME P!PistonsConstants, PistonInv, NEW p \in P!Line, P!Start(p), trouble = {},
         trouble' = {}
  PROVE  PistonInv'
<1> DEFINE b == cell[p]
           want == queue[p].want
           turned == [cell EXCEPT ![p] = [b EXCEPT !.ext = want]]
           front == p + b.dir
           far == front + b.dir
           r == P!Reach(cell, p)
           pulls == IF b.sticky /\ P!On(cell, far).k \notin P!Unmovable \cup {"air"} THEN {far} ELSE {}
           m == IF want THEN P!Move(p, b, TRUE, r.cells, {}, cell)
                ELSE P!Move(p, b, FALSE, {front}, pulls, cell)
           goes == b.k = "piston" /\ b.ext # want /\ (want => r.valid)
           meets == \E o \in commits : P!Targets(o) \cap (P!Targets(m) \cup DOMAIN m.moved) # {}
<1>1. /\ queue' = [queue EXCEPT ![p] = P!None]
      /\ UNCHANGED <<power, disk, kept>>
      /\ \/ ~goes /\ UNCHANGED <<cell, commits>>
         \/ /\ goes
            /\ IF ~want /\ P!On(cell, front) # P!Head
               THEN cell' = turned /\ UNCHANGED commits
               ELSE /\ cell' = [c \in P!Line |-> IF c \in DOMAIN m.moved THEN P!Moving ELSE turned[c]]
                    /\ commits' = commits \cup {m}
                    /\ trouble' = IF meets THEN trouble \cup {"met"} ELSE trouble
  BY ZenonT(30) DEF P!Start
<1>2. cell \in [P!Line -> Blocks] /\ commits \in SUBSET Moves /\ MovesSound /\ want \in BOOLEAN
  <2> HIDE DEF b, turned, front, far, r, pulls, m, goes, meets
  <2> QED BY DEF PistonInv, PistonTypes
<1>3. SUFFICES cell' \in [P!Line -> Blocks] /\ commits' \in SUBSET Moves /\ MovesSound'
               /\ Laden' = Laden
  <2> HIDE DEF b, turned, front, far, r, pulls, m, goes, meets
  <2>1. queue' \in [P!Line -> [on : BOOLEAN, want : BOOLEAN, left : Int]]
    BY <1>1 DEF P!None, PistonInv, PistonTypes
  <2> QED BY <1>1, <1>3, <2>1 DEF PistonInv, PistonTypes
<1>4. CASE ~goes
  BY <1>1, <1>2, <1>4, MovesStay
<1> SUFFICES ASSUME goes
             PROVE  cell' \in [P!Line -> Blocks] /\ commits' \in SUBSET Moves /\ MovesSound'
                    /\ Laden' = Laden
  BY <1>4
<1>5. /\ b \in P!Standing /\ b.dir \in {1, -1} /\ b.k = "piston"
      /\ turned \in [P!Line -> Blocks] /\ turned[p].k = "piston"
      /\ \A c \in P!Line : c # p => turned[c] = cell[c]
  <2>1. [b EXCEPT !.ext = want] \in P!Standing /\ [b EXCEPT !.ext = want].k = "piston"
        /\ b \in P!Standing /\ b.dir \in {1, -1}
    BY <1>2, BlockKinds
  <2> QED BY <1>2, <2>1 DEF Blocks
<1>6. p \in Int /\ P!Line \subseteq Int /\ front # p /\ far # p /\ far # front
      /\ front \in Int /\ far \in Int
  BY <1>5, LineIs
<1>7. CASE ~want /\ P!On(cell, front) # P!Head
  <2>1. cell' = turned /\ commits' = commits
    BY <1>1, <1>7
  <2>2. \A c \in P!Line : (turned[c] = cell[c]) \/
           (c = p /\ turned[c] \notin {P!Moving, P!Stone, P!Air}
                  /\ cell[c] \notin {P!Moving, P!Stone, P!Air})
    BY <1>2, <1>5, BlockKinds
  <2> HIDE DEF turned, b, want
  <2>3. MovesShown'
    <3> SUFFICES ASSUME NEW o \in commits PROVE MoveFits(o) /\ MoveShows(o)'
      BY <2>1 DEF MovesShown, MoveFits
    <3>1. MoveFits(o) /\ MoveShows(o) /\ o \in Moves
      BY <1>2 DEF MovesSound, MovesShown
    <3>2. DOMAIN o.moved \subseteq P!Line /\ DOMAIN o.pulled \subseteq P!Line
          /\ P!Targets(o) \subseteq P!Line
      BY <3>1, CargoIs DEF MoveFits
    <3> QED BY <2>1, <2>2, <3>1, <3>2 DEF MoveShows
  <2>4. MovesApart' /\ MovingCovered'
    BY <1>2, <2>1, <2>2 DEF MovesSound, MovesApart, MovingCovered
  <2>5. Laden' = Laden
    BY <2>1, <2>2 DEF Laden, P!Carried
  <2> QED BY <1>2, <1>5, <2>1, <2>3, <2>4, <2>5 DEF MovesSound
<1>8. CASE want \/ P!On(cell, front) = P!Head
  <2>1. /\ cell' = [c \in P!Line |-> IF c \in DOMAIN m.moved THEN P!Moving ELSE turned[c]]
        /\ commits' = commits \cup {m}
        /\ \A o \in commits : P!Targets(o) \cap (P!Targets(m) \cup DOMAIN m.moved) = {}
    <3> HIDE DEF b, want, turned, front, far, r, pulls, m, goes, meets
    <3>1. cell' = [c \in P!Line |-> IF c \in DOMAIN m.moved THEN P!Moving ELSE turned[c]]
          /\ commits' = commits \cup {m}
      BY <1>1, <1>8
    <3>2. ~meets
      BY <1>1, <1>8
    <3>3. \A o \in commits : P!Targets(o) \cap (P!Targets(m) \cup DOMAIN m.moved) = {}
      BY <3>2 DEF meets
    <3> QED BY <3>1, <3>3
  <2>2. /\ m \in Moves /\ MoveFits(m) /\ p \notin DOMAIN m.moved
        /\ \A c \in DOMAIN m.moved : m.moved[c] = cell[c]
        /\ \A c \in DOMAIN m.pulled : m.pulled[c] = cell[c] /\ c \notin DOMAIN m.moved
        /\ m.extend => \A c \in P!Targets(m) \ DOMAIN m.moved : cell[c] = P!Air
    <3>1. CASE want
      <4> DEFINE T == {c + b.dir : c \in r.cells} \cup {p + b.dir}
      <4>1. m = [p |-> p, dir |-> b.dir, extend |-> TRUE, left |-> 2,
                 moved |-> [c \in r.cells |-> cell[c]], pulled |-> [c \in {} |-> cell[c]]]
        BY <3>1 DEF P!Move
      <4>2. /\ r.cells \subseteq T /\ T \subseteq P!Line /\ p \notin r.cells
            /\ \A c \in r.cells : cell[c] \in P!Standing
            /\ \A c \in T \ r.cells : cell[c] = P!Air
        <5>1. P!Reach(cell, p).valid /\ cell[p].k = "piston"
          BY <3>1
        <5>2. ReachFits(cell, p)
          BY <1>2, <5>1, ReachIs
        <5> QED BY <5>2 DEF ReachFits
      <4> HIDE DEF m, r
      <4>3. /\ m.p = p /\ m.dir = b.dir /\ m.extend = TRUE /\ DOMAIN m.moved = r.cells
            /\ DOMAIN m.pulled = {} /\ \A c \in r.cells : m.moved[c] = cell[c]
        BY <4>1
      <4>4. P!Targets(m) = T
        BY <4>3 DEF P!Targets
      <4>5. m \in Moves
        <5>1. [c \in r.cells |-> cell[c]] \in Cargo
          <6>1. [c \in r.cells |-> cell[c]] \in [r.cells -> P!Standing] /\ r.cells \in SUBSET P!Line
            BY <4>2
          <6> QED BY <6>1 DEF Cargo
        <5>2. [c \in {} |-> cell[c]] \in Cargo
          <6>1. [c \in {} |-> cell[c]] \in [{} -> P!Standing] /\ {} \in SUBSET P!Line
            OBVIOUS
          <6> QED BY <6>1 DEF Cargo
        <5> QED BY <1>5, <4>1, <5>1, <5>2 DEF Moves
      <4> QED BY <4>2, <4>3, <4>4, <4>5 DEF MoveFits
    <3>2. CASE ~want
      <4>1. m = [p |-> p, dir |-> b.dir, extend |-> FALSE, left |-> 2,
                 moved |-> [c \in {front} |-> cell[c]], pulled |-> [c \in pulls |-> cell[c]]]
        BY <3>2 DEF P!Move
      <4>2. front \in P!Line /\ cell[front] = P!Head
        <5>1. P!Edge # P!Head
          BY DEF P!Edge, P!Head
        <5> QED BY <1>8, <3>2, <5>1 DEF P!On
      <4>3. \A c \in pulls : c = far /\ c \in P!Line /\ cell[c] \in P!Standing
        <5> SUFFICES ASSUME far \in pulls PROVE far \in P!Line /\ cell[far] \in P!Standing
          OBVIOUS
        <5>1. P!On(cell, far).k \notin {"edge", "moving"}
          BY DEF P!Unmovable
        <5>2. far \in P!Line /\ cell[far].k # "moving"
          BY <5>1 DEF P!On, P!Edge
        <5> QED BY <1>2, <5>2, BlockKinds DEF Blocks
      <4>4. pulls \in {{}, {far}}
        OBVIOUS
      <4> HIDE DEF m, pulls, far, front
      <4>5. /\ m.p = p /\ m.dir = b.dir /\ m.extend = FALSE /\ DOMAIN m.moved = {front}
            /\ DOMAIN m.pulled = pulls /\ m.moved[front] = cell[front]
            /\ \A c \in pulls : m.pulled[c] = cell[c]
        BY <4>1
      <4>6. P!Targets(m) = pulls \cup {m.p + m.dir} /\ m.p + m.dir = front
            /\ m.p + m.dir + m.dir = far
        BY <4>5 DEF P!Targets, front, far
      <4>7. m \in Moves
        <5>1. [c \in {front} |-> cell[c]] \in Cargo
          <6>1. [c \in {front} |-> cell[c]] \in [{front} -> P!Standing]
                /\ {front} \in SUBSET P!Line
            BY <4>2, BlockKinds
          <6> QED BY <6>1 DEF Cargo
        <5>2. [c \in pulls |-> cell[c]] \in Cargo
          <6>1. [c \in pulls |-> cell[c]] \in [pulls -> P!Standing] /\ pulls \in SUBSET P!Line
            BY <4>3
          <6> QED BY <6>1 DEF Cargo
        <5> QED BY <1>5, <4>1, <5>1, <5>2 DEF Moves
      <4> QED BY <1>6, <4>2, <4>3, <4>4, <4>5, <4>6, <4>7 DEF MoveFits
    <3> HIDE DEF b, turned, front, far, r, pulls, m, goes, meets
    <3> QED BY <3>1, <3>2
  <2> HIDE DEF m, turned, b
  <2>3. cell[p].k = "piston"
    BY <1>5 DEF b
  <2> QED BY <1>2, <1>5, <2>1, <2>2, <2>3, Beginning DEF PistonInv
<1> HIDE DEF b, turned, front, far, r, pulls, m, goes, meets
<1> QED BY <1>7, <1>8

LEMMA BuildKeeps ==
  ASSUME P!PistonsConstants, PistonInv, NEW c \in P!Line, P!Build(c), trouble = {},
         trouble' = {}
  PROVE  PistonInv'
<1> DEFINE v == IF cell[c] = P!Air THEN P!Stone ELSE P!Air
<1>1. /\ cell' = [cell EXCEPT ![c] = v] /\ commits' = commits
      /\ kept' = [kept EXCEPT !.world = IF v = P!Stone THEN @ + 1 ELSE @ - 1]
      /\ UNCHANGED <<power, disk>> /\ queue' = P!Noticed(queue, cell', {c})
      /\ \A m \in commits : c \notin P!Targets(m)
  BY DEF P!Build
<1>2. cell \in [P!Line -> Blocks] /\ (cell[c] = P!Air \/ cell[c] = P!Stone)
      /\ MovesSound /\ kept \in [world : Int, disk : Int] /\ commits \in SUBSET Moves
  BY BlockKinds DEF P!Build, PistonInv, PistonTypes
<1>3. cell' \in [P!Line -> Blocks] /\ cell'[c] = v /\ \A e \in P!Line : e # c => cell'[e] = cell[e]
  BY <1>1, <1>2, BlockKinds
<1>4. MovesShown'
  <2> SUFFICES ASSUME NEW m \in commits PROVE MoveFits(m) /\ MoveShows(m)'
    BY <1>1 DEF MovesShown, MoveFits
  <2>1. MoveFits(m) /\ MoveShows(m)
    BY <1>2 DEF MovesSound, MovesShown
  <2>2. P!Targets(m) \subseteq P!Line /\ DOMAIN m.moved \subseteq P!Targets(m)
        /\ DOMAIN m.pulled \subseteq P!Targets(m)
    BY <2>1 DEF MoveFits, P!Targets
  <2>3. \A e \in P!Targets(m) : cell'[e] = cell[e]
    BY <1>1, <1>3, <2>2
  <2> QED BY <2>1, <2>2, <2>3 DEF MoveShows
<1>5. MovesApart'
  BY <1>1, <1>2 DEF MovesSound, MovesApart
<1>6. MovingCovered'
  BY <1>1, <1>2, <1>3, BlockKinds DEF MovesSound, MovingCovered
<1>7. c \notin P!Carried /\ P!Carried' = P!Carried
  <2>1. \A m \in commits : DOMAIN m.moved \subseteq P!Targets(m)
    BY <1>2 DEF MovesSound, MovesShown, MoveFits
  <2> QED BY <1>1, <2>1 DEF P!Carried
<1>8. IsFiniteSet(Laden) /\ Cardinality(Laden) = kept.world
  BY LadenIsFinite DEF PistonInv
<1>9. Cardinality(Laden') = kept'.world
  <2>1. CASE cell[c] = P!Air
    <3>1. v = P!Stone /\ c \notin Laden
      BY <1>7, <2>1, BlockKinds DEF Laden
    <3>2. Laden' = Laden \cup {c}
      BY <1>3, <1>7, <3>1 DEF Laden
    <3>3. kept'.world = kept.world + 1
      BY <1>1, <1>2, <3>1
    <3> QED BY <1>8, <3>1, <3>2, <3>3, FS_AddElement
  <2>2. CASE cell[c] = P!Stone
    <3>1. v = P!Air /\ c \in Laden /\ P!Air # P!Stone
      BY <2>2, BlockKinds DEF Laden
    <3>2. Laden' = Laden \ {c}
      BY <1>3, <1>7, <3>1 DEF Laden
    <3>3. kept'.world = kept.world - 1
      BY <1>1, <1>2, <3>1
    <3> QED BY <1>8, <3>1, <3>2, <3>3, FS_RemoveElement
  <2> QED BY <1>2, <2>1, <2>2
<1>10. PistonTypes'
  <2>1. kept' \in [world : Int, disk : Int]
    BY <1>1, <1>2
  <2>2. queue' \in [P!Line -> [on : BOOLEAN, want : BOOLEAN, left : Int]]
    BY <1>1, <1>3, QueueNoticed DEF PistonInv
  <2> QED BY <1>1, <1>3, <2>1, <2>2 DEF PistonInv, PistonTypes
<1>11. P!Stones(disk)' = kept'.disk
  <2>1. kept'.disk = kept.disk
    BY <1>1, <1>2
  <2> QED BY <1>1, <2>1 DEF PistonInv, P!Stones
<1> QED BY <1>4, <1>5, <1>6, <1>9, <1>10, <1>11 DEF PistonInv, MovesSound

LEMMA SavingKeeps ==
  ASSUME P!PistonsConstants, PistonInv, trouble = {}, trouble' = {},
         P!SaveAsync \/ P!Barrier \/ P!Snapshot \/ P!Crash
  PROVE  PistonInv'
<1>1. kept \in [world : Int, disk : Int] /\ Cardinality(Laden) = kept.world
      /\ P!Stones(disk) = kept.disk /\ disk \in [P!Line -> P!Standing] /\ MovesSound
      /\ cell \in [P!Line -> Blocks]
  BY DEF PistonInv, PistonTypes
<1>2. CASE P!SaveAsync
  <2>1. P!Flush /\ disk' = cell' /\ kept' = [kept EXCEPT !.disk = kept.world]
        /\ power' = power /\ commits' = {}
    BY <1>2 DEF P!SaveAsync, P!Flush
  <2>2. kept'.world = kept.world /\ kept'.disk = kept.world /\ kept' \in [world : Int, disk : Int]
    BY <1>1, <2>1
  <2>3. P!Stones(disk)' = P!Stones(cell')
    BY <2>1
  <2> QED BY <1>1, <2>1, <2>2, <2>3, FlushKeeps DEF PistonInv, PistonTypes, Blocks
<1>3. CASE P!Barrier
  <2>1. P!Flush /\ disk' = disk /\ kept' = kept /\ power' = power /\ commits' = {}
    BY <1>3 DEF P!Barrier, P!Flush
  <2> QED BY <1>1, <2>1, FlushKeeps DEF PistonInv, PistonTypes, Blocks
<1>4. CASE P!Snapshot
  <2>1. /\ disk' = cell /\ kept' = [kept EXCEPT !.disk = kept.world] /\ commits = {}
        /\ UNCHANGED <<cell, power, queue, commits>>
    BY <1>4 DEF P!Snapshot
  <2>2. kept'.world = kept.world /\ kept'.disk = kept.world /\ kept' \in [world : Int, disk : Int]
    BY <1>1, <2>1
  <2>3. P!Stones(cell) = Cardinality(Laden) /\ cell \in [P!Line -> P!Standing]
    BY <1>1, <2>1, AllLie, StonesAre DEF MovesSound
  <2>4. MovesSound' /\ Laden' = Laden
    BY <1>1, <2>1, MovesStay
  <2>5. P!Stones(disk)' = P!Stones(cell)
    BY <2>1
  <2> QED BY <1>1, <2>1, <2>2, <2>3, <2>4, <2>5 DEF PistonInv, PistonTypes
<1>5. CASE P!Crash
  <2>1. /\ cell' = disk /\ kept' = [kept EXCEPT !.world = kept.disk] /\ commits' = {}
        /\ queue' = [c \in P!Line |-> P!None] /\ UNCHANGED <<power, disk>>
    BY <1>5 DEF P!Crash
  <2>2. kept'.world = kept.disk /\ kept'.disk = kept.disk /\ kept' \in [world : Int, disk : Int]
    BY <1>1, <2>1
  <2>3. cell' \in [P!Line -> Blocks] /\ \A c \in P!Line : cell'[c] # P!Moving
    BY <1>1, <2>1, BlockKinds DEF Blocks
  <2>4. MovesSound'
    BY <2>1, <2>3 DEF MovesSound, MovesShown, MovesApart, MovingCovered
  <2>5. Cardinality(Laden') = P!Stones(disk)
    <3>1. Laden' = {c \in P!Line : cell'[c] = P!Stone}
      BY <2>1, <2>3, <2>4, AllLieNext DEF MovesSound
    <3>2. Laden' = {c \in P!Line : disk[c] = P!Stone} /\ disk \in [P!Line -> Blocks]
      BY <1>1, <2>1, <2>3, <3>1
    <3> QED BY <3>2, StonesAre
  <2>6. PistonTypes'
    BY <1>1, <2>1, <2>2, <2>3 DEF PistonTypes, PistonInv, P!None
  <2>7. P!Stones(disk)' = P!Stones(disk)
    BY <2>1
  <2> QED BY <1>1, <2>2, <2>4, <2>5, <2>6, <2>7 DEF PistonInv
<1> QED BY <1>2, <1>3, <1>4, <1>5

LEMMA PistonStep ==
  ASSUME P!PistonsConstants, trouble = {} => PistonInv, P!Next, trouble' = {}
  PROVE  PistonInv'
<1>1. trouble = {} /\ PistonInv
  BY DEF P!Next
<1>2. ASSUME NEW c \in P!Line, P!Power(c) PROVE PistonInv'
  <2>1. UNCHANGED <<cell, commits, disk, kept>>
    BY <1>2 DEF P!Power
  <2>2. /\ queue' \in [P!Line -> [on : BOOLEAN, want : BOOLEAN, left : Int]]
        /\ power' \in [P!Line -> BOOLEAN]
    BY <1>1, <1>2 DEF P!Power, P!None, P!Queued, PistonInv, PistonTypes
  <2>3. MovesSound' /\ Laden' = Laden
    BY <1>1, <2>1, MovesStay DEF PistonInv
  <2> QED BY <1>1, <2>1, <2>2, <2>3 DEF PistonInv, PistonTypes
<1>3. CASE P!PistonsStarted
  <2>1. UNCHANGED <<cell, power, queue, commits, disk, kept>>
    BY <1>3 DEF P!PistonsStarted
  <2> QED BY <1>1, <2>1, MovesStay DEF PistonInv, PistonTypes
<1>4. CASE P!EndTick
  <2>1. UNCHANGED <<cell, power, commits, disk, kept>> /\ queue' = P!Noticed(queue, cell, changed)
    BY <1>4 DEF P!EndTick
  <2>2. queue' \in [P!Line -> [on : BOOLEAN, want : BOOLEAN, left : Int]]
    BY <1>1, <2>1, QueueNoticed DEF PistonInv, PistonTypes
  <2>3. MovesSound' /\ Laden' = Laden
    BY <1>1, <2>1, MovesStay DEF PistonInv
  <2> QED BY <1>1, <2>1, <2>2, <2>3 DEF PistonInv, PistonTypes
<1> QED BY <1>1, <1>2, <1>3, <1>4, StartTickKeeps, CommitKeeps, StartKeeps, BuildKeeps, SavingKeeps
        DEF P!Next

LEMMA PistonsRest == ASSUME PistonInv, UNCHANGED pistons PROVE PistonInv'
<1>1. MovesSound' /\ Laden' = Laden
  BY MovesStay DEF PistonInv, pistons
<1> QED BY <1>1 DEF PistonInv, PistonTypes, pistons

LEMMA StonesAreKept == ASSUME P!PistonsConstants, trouble = {} => PistonInv PROVE P!StonesKept
<1> SUFFICES ASSUME PistonInv
             PROVE  /\ P!Stones(cell) + P!Cardinality(P!Carried) = kept.world
                    /\ P!Stones(disk) = kept.disk
                    /\ \A c \in P!Line : cell[c] = P!Moving => \E m \in commits : c \in DOMAIN m.moved
                    /\ \A c \in P!Line : disk[c] # P!Moving
  BY DEF P!StonesKept
<1> DEFINE Lying == {c \in P!Line : cell[c] = P!Stone}
<1>1. P!Stones(cell) = Cardinality(Lying)
  BY StonesAre DEF PistonInv, PistonTypes
<1>2. P!Carried \subseteq P!Line /\ IsFiniteSet(P!Line)
  BY LineIs DEF P!Carried
<1>3. Lying \cap P!Carried = {}
  <2> SUFFICES ASSUME NEW m \in commits, NEW c \in DOMAIN m.moved PROVE cell[c] # P!Stone
    BY DEF P!Carried
  <2> QED BY BlockKinds DEF PistonInv, MovesSound, MovesShown, MoveShows
<1>4. Laden = Lying \cup P!Carried
  BY DEF Laden
<1> HIDE DEF Lying
<1>5. IsFiniteSet(Lying) /\ IsFiniteSet(P!Carried)
  BY <1>2, FS_Subset DEF Lying
<1>6. Cardinality(Laden) = Cardinality(Lying) + Cardinality(P!Carried)
  <2>1. Cardinality({}) = 0
    BY FS_EmptySet
  <2>2. Cardinality(Lying) \in Nat /\ Cardinality(P!Carried) \in Nat
    BY <1>5, FS_CardinalityType
  <2>3. Cardinality(Laden) = Cardinality(Lying) + Cardinality(P!Carried) - Cardinality(Lying \cap P!Carried)
    BY <1>4, <1>5, FS_Union
  <2>4. Cardinality(Lying \cap P!Carried) = 0
    BY <1>3, <2>1
  <2> QED BY <2>2, <2>3, <2>4
<1>7. P!Cardinality(P!Carried) = Cardinality(P!Carried)
  BY DEF P!Cardinality, Cardinality
<1>8. \A c \in P!Line : disk[c] # P!Moving
  BY BlockKinds DEF PistonInv, PistonTypes
<1> QED BY <1>1, <1>6, <1>7, <1>8 DEF PistonInv, MovesSound, MovingCovered

-----------------------------------------------------------------------------
\* With a line of any length, any number of pistons, and any layout: whatever
\* they move, and whenever a player builds, a chunk is saved or the server comes
\* down and back, the stones in the world and on disk are as many as were put
\* there, and a moving_piston block stands only where a move is under way and
\* never on disk; until a move met another, a player built where one ends, or a
\* snapshot fell between the barrier and a new move.
THEOREM PistonsKeepStones == Spec => []StonesKept
<1> DEFINE Inv == part = "pistons" => (trouble = {} => PistonInv)
<1>1. P!PistonsConstants
  BY WorldConstants
<1>2. Init => Inv
  BY <1>1, PistonsBegin DEF Init
<1>3. Inv /\ [Next]_allVars => Inv'
  <2> SUFFICES ASSUME Inv, [Next]_allVars, part' = "pistons", trouble' = {} PROVE PistonInv'
    OBVIOUS
  <2>1. part = "pistons"
    BY PartStays
  <2>2. CASE P!Next
    <3>1. trouble = {}
      BY <2>2 DEF P!Next
    <3> QED BY <1>1, <2>1, <2>2, <3>1, PistonStep
  <2>3. CASE UNCHANGED pistons
    BY <2>1, <2>3, PistonsRest DEF pistons
  <2> QED BY <2>1, <2>2, <2>3 DEF Next, allVars
<1>4. Inv => StonesKept
  BY <1>1, StonesAreKept DEF StonesKept
<1> QED BY <1>2, <1>3, <1>4, PTL DEF Spec, allVars
=============================================================================

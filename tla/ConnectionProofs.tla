------------------------- MODULE ConnectionProofs -------------------------
(***************************************************************************)
(* Theorems about Connection for every set of threads and readers, every   *)
(* cap and every number of frames.  The invariant IInv says who holds tx_, *)
(* ties the writer's place to writerStarted_, and says what a thread has   *)
(* reached once it is inside closeFd.  FInv, in the second part, says      *)
(* where the frames are in every state a connection can reach; the third   *)
(* part shows with it that a connection implements FrameChannel.           *)
(***************************************************************************)
EXTENDS Connection, SequenceTheorems, FiniteSetTheorems, TLAPS

InsideTx == {"direct", "notifyClose", "notifyAbort", "drain", "cut", "join",
             "closeFd", "awaitUses"}

\* A thread is inside a call that takes tx_ exactly when it owns tx_.
TxHeldInside == \A t \in Threads : pc[t] \in InsideTx <=> tx = t

\* The writer exists exactly while writerStarted_ is set.
WriterStarted == started <=> wpc # "none"

\* closeFd begins only after the writer is gone, and keeps new readers out
\* before it waits for the old ones.
CloseFdIsLast ==
    \A t \in Threads :
        /\ pc[t] \in {"direct", "closeFd", "awaitUses"} => ~started
        /\ pc[t] = "direct" => fd # "closed"
        /\ pc[t] = "awaitUses" => socketClosing

ClosedIsQuiet == fd = "closed" => ~started /\ socketClosing /\ uses = {}

\* A sender in the middle of a send has a frame in its hand.
FramesInHand ==
    /\ wpc \in {"send", "sent", "failed"} => wframe \in Frame
    /\ \A t \in Threads : pc[t] = "direct" => direct \in Frame

Control == TxHeldInside /\ WriterStarted /\ CloseFdIsLast /\ ClosedIsQuiet

IInv == TypeOK /\ FramesInHand /\ Control

----------------------------------------------------------------------------

LEMMA EncodedFrameType ==
    ASSUME TypeOK, NEW size \in Sizes, NEW l \in BOOLEAN, NEW b \in BOOLEAN
    PROVE  EncodedFrame(size, l, b) \in Frame
BY DEF TypeOK, EncodedFrame, Frame

LEMMA OnWireType ==
    ASSUME NEW f \in Frame, NEW c \in BOOLEAN
    PROVE  OnWire(f, c) \in WireFrame
BY DEF OnWire, Frame, WireFrame

LEMMA IdsType ==
    ASSUME NEW s \in Seq(Frame)
    PROVE  Ids(s) \subseteq Nat
<1> SUFFICES ASSUME NEW x \in Ids(s) PROVE x \in Nat
  OBVIOUS
<1>1. PICK i \in DOMAIN s : x = s[i].id
  BY DEF Ids
<1>2. s[i] \in Frame
  BY <1>1, ElementOfSeq
<1> QED
  BY <1>1, <1>2 DEF Frame

LEMMA DropQueueType ==
    ASSUME TypeOK, DropQueue
    PROVE  /\ high' \in Seq(Frame) /\ low' \in Seq(Frame)
           /\ queuedBytes' \in Int /\ cut' \subseteq Nat
<1>1. Ids(high) \subseteq Nat /\ Ids(low) \subseteq Nat
  BY IdsType DEF TypeOK
<1>2. << >> \in Seq(Frame)
  BY EmptySeq
<1>3. high' \in Seq(Frame) /\ low' \in Seq(Frame) /\ queuedBytes' \in Int
  BY <1>2 DEF DropQueue
<1>4. cut \subseteq Nat /\ cut' = cut \cup Ids(high) \cup Ids(low)
  BY DEF TypeOK, DropQueue
<1> QED
  BY <1>1, <1>3, <1>4

LEMMA NotifyType ==
    ASSUME TypeOK, NotifyAll \/ NotifyOne
    PROVE  asleep' \subseteq Threads \cup {Writer}
BY DEF TypeOK, NotifyAll, NotifyOne

LEMMA GotoType ==
    ASSUME TypeOK, NEW t \in Threads, NEW p \in CallerStates, Goto(t, p)
    PROVE  pc' \in [Threads -> CallerStates]
BY DEF TypeOK, Goto

LEMMA ShutDownType ==
    ASSUME TypeOK, fd' = ShutDown(fd)
    PROVE  fd' \in {"open", "shut", "closed"} /\ (fd' = "closed" <=> fd = "closed")
BY DEF TypeOK, ShutDown

----------------------------------------------------------------------------

\* The type invariant of the connection, for the sending actions.
LEMMA SendTypes ==
    ASSUME IInv, NEW t \in Threads, SendStep(t) \/ DirectStep(t)
    PROVE  TypeOK'
<1> USE DEF IInv, FramesInHand
<1>1. CASE EnableEncryption(t)
  BY <1>1 DEF EnableEncryption, TypeOK, descriptor, queues, writer, sending,
              history
<1>2. ASSUME NEW size \in Sizes, NEW l \in BOOLEAN, NEW b \in BOOLEAN,
             SendQueued(t, size, l, b)
      PROVE  TypeOK'
  <2> DEFINE f == EncodedFrame(size, l, b)
  <2>1. f \in Frame
    BY EncodedFrameType
  <2>2. f.id \in Nat /\ f.low \in Nat /\ size \in Int
    BY <2>1, ConnectionAssumption DEF Frame
  <2>a. Append(high, f) \in Seq(Frame) /\ Append(low, f) \in Seq(Frame)
    BY <2>1, AppendProperties DEF TypeOK
  <2>b. /\ IF f.low # 0
              THEN low' = Append(low, f) /\ nextLow' = f.low /\ high' = high
              ELSE high' = Append(high, f) /\ low' = low /\ nextLow' = nextLow
        /\ queuedBytes' = queuedBytes + size
        /\ accepted' = accepted \cup {f.id}
    BY <1>2 DEF SendQueued
  <2> HIDE DEF f
  <2>3. high' \in Seq(Frame) /\ low' \in Seq(Frame) /\ nextLow' \in Nat
    BY <2>2, <2>a, <2>b DEF TypeOK
  <2>4. asleep' \subseteq Threads \cup {Writer}
    BY <1>2, NotifyType DEF SendQueued
  <2>5. wpc' \in WriterStates /\ started' \in BOOLEAN /\ stop' \in BOOLEAN
    BY <1>2 DEF SendQueued, StartWriter, TypeOK, WriterStates
  <2>6. accepted' \subseteq Nat /\ queuedBytes' \in Int
    <3>1. accepted \subseteq Nat /\ queuedBytes \in Int
      BY DEF TypeOK
    <3>2. queuedBytes' \in Int
      BY <2>2, <2>b, <3>1
    <3> QED
      BY <2>2, <2>b, <3>1, <3>2
  <2>7. encoded' \in Nat /\ cipher' \in Nat
    BY <1>2 DEF SendQueued, Encode, TypeOK
  <2> QED
    BY <1>2, <2>3, <2>4, <2>5, <2>6, <2>7
       DEF SendQueued, TypeOK, descriptor, sending
<1>3. CASE SendRefused(t)
  BY <1>3 DEF SendRefused, Encode, TypeOK, descriptor, queues, writer, sending,
              history
<1>4. ASSUME NEW size \in Sizes, SendOverflows(t, size)
      PROVE  TypeOK'
  <2>1. /\ high' \in Seq(Frame) /\ low' \in Seq(Frame)
        /\ queuedBytes' \in Int /\ cut' \subseteq Nat
    BY <1>4, DropQueueType DEF SendOverflows
  <2>2. asleep' \subseteq Threads \cup {Writer} /\ fd' \in {"open", "shut", "closed"}
    BY <1>4, NotifyType, ShutDownType DEF SendOverflows
  <2>3. encoded' \in Nat /\ cipher' \in Nat
    BY <1>4 DEF SendOverflows, Encode, TypeOK
  <2> QED
    BY <1>4, <2>1, <2>2, <2>3
       DEF SendOverflows, TypeOK, sending
<1>5. ASSUME NEW size \in Sizes, DirectBegin(t, size)
      PROVE  TypeOK'
  <2>1. direct' \in Frame
    BY <1>5, EncodedFrameType DEF DirectBegin
  <2>2. pc' \in [Threads -> CallerStates]
    BY <1>5, GotoType DEF DirectBegin, CallerStates
  <2>3. /\ encoded' \in Nat /\ cipher' \in Nat /\ accepted' \subseteq Nat
        /\ tx' \in Threads
    BY <1>5 DEF DirectBegin, Encode, TypeOK
  <2> QED
    BY <1>5, <2>1, <2>2, <2>3
       DEF DirectBegin, TypeOK, descriptor, queues, writer
<1>6. CASE DirectOk(t)
  <2>1. wire' \in Seq(WireFrame)
    BY <1>6, OnWireType, AppendProperties DEF DirectOk, TypeOK
  <2>2. pc' \in [Threads -> CallerStates]
    BY <1>6, GotoType DEF DirectOk, CallerStates
  <2> QED
    BY <1>6, <2>1, <2>2
       DEF DirectOk, TypeOK, descriptor, queues, writer, framing
<1>7. CASE DirectFail(t)
  <2>1. wire' \in Seq(WireFrame)
    <3>1. Append(wire, OnWire(direct, FALSE)) \in Seq(WireFrame)
      BY <1>7, OnWireType, AppendProperties DEF DirectFail, TypeOK
    <3> QED
      BY <1>7, <3>1 DEF DirectFail, TypeOK
  <2>2. pc' \in [Threads -> CallerStates]
    BY <1>7, GotoType DEF DirectFail, CallerStates
  <2>3. cut' \subseteq Nat
    BY <1>7 DEF DirectFail, TypeOK, Frame
  <2> QED
    BY <1>7, <2>1, <2>2, <2>3
       DEF DirectFail, TypeOK, descriptor, queues, writer, framing
<1> QED
  BY <1>1, <1>2, <1>3, <1>4, <1>5, <1>6, <1>7 DEF SendStep, DirectStep

\* The type invariant of the connection, for the writer thread.
LEMMA WriterTypes ==
    ASSUME IInv, WriterNext
    PROVE  TypeOK'
<1> USE DEF IInv, FramesInHand, descriptor, queues, writer, callers, sending,
            framing, history, WriterStates
<1>1. CASE WriterTake
  <2>1. /\ wframe' \in Frame
        /\ high' \in Seq(Frame) /\ low' \in Seq(Frame)
    <3>1. CASE TakesHigh
      BY <1>1, <3>1, HeadTailProperties DEF WriterTake, TakesHigh, TypeOK
    <3>2. CASE ~TakesHigh
      BY <1>1, <3>2, HeadTailProperties
         DEF WriterTake, CanTake, TakesLow, TypeOK
    <3> QED BY <3>1, <3>2
  <2>2. queuedBytes' \in Int
    BY <1>1, <2>1, ConnectionAssumption DEF WriterTake, Frame, TypeOK
  <2> QED
    BY <1>1, <2>1, <2>2, NotifyType DEF WriterTake, TypeOK
<1>2. CASE WriterSleep
  BY <1>2 DEF WriterSleep, TypeOK
<1>3. CASE WriterStops
  BY <1>3 DEF WriterStops, TypeOK
<1>4. CASE WriterSendOk
  <2>1. wire' \in Seq(WireFrame)
    BY <1>4, OnWireType, AppendProperties DEF WriterSendOk, TypeOK
  <2> QED
    BY <1>4, <2>1 DEF WriterSendOk, TypeOK
<1>5. CASE WriterSendFail
  <2>1. Append(wire, OnWire(wframe, FALSE)) \in Seq(WireFrame)
    BY <1>5, OnWireType, AppendProperties DEF WriterSendFail, TypeOK
  <2>2. wire' \in Seq(WireFrame)
    BY <1>5, <2>1 DEF WriterSendFail, TypeOK
  <2> QED
    BY <1>5, <2>2, ShutDownType DEF WriterSendFail, TypeOK
<1>6. CASE WriterSent
  <2>1. asleep' \subseteq Threads \cup {Writer}
    BY <1>6, NotifyType DEF WriterSent
  <2>2. doneLow' \in Nat
    BY <1>6 DEF WriterSent, TypeOK, Frame
  <2> QED
    BY ZenonT(60), <1>6, <2>1, <2>2 DEF WriterSent, TypeOK
<1>7. CASE WriterFailed
  <2>1. cut' \subseteq Nat
    <3>1. Ids(high) \subseteq Nat /\ Ids(low) \subseteq Nat
      BY IdsType DEF TypeOK
    <3>2. wframe.id \in Nat
      BY <1>7 DEF WriterFailed, Frame
    <3> QED
      BY <1>7, <3>1, <3>2 DEF WriterFailed, TypeOK
  <2>2. high' \in Seq(Frame) /\ low' \in Seq(Frame) /\ queuedBytes' \in Int
    BY <1>7, EmptySeq DEF WriterFailed
  <2>3. asleep' \subseteq Threads \cup {Writer}
    BY <1>7, NotifyType DEF WriterFailed
  <2> QED
    BY <1>7, <2>1, <2>2, <2>3 DEF WriterFailed, TypeOK
<1>8. CASE WriterExit
  <2>1. wpc' \in WriterStates /\ exitShut' \in BOOLEAN
    BY <1>8 DEF WriterExit
  <2> QED
    BY <1>8, <2>1 DEF WriterExit, TypeOK
<1>9. CASE WriterShut
  BY <1>9, ShutDownType DEF WriterShut, TypeOK
<1> QED
  BY <1>1, <1>2, <1>3, <1>4, <1>5, <1>6, <1>7, <1>8, <1>9 DEF WriterNext

\* The type invariant of the connection, for a thread that tears it down.
LEMMA TeardownTypes ==
    ASSUME IInv, NEW t \in Threads, Call(t) \/ TeardownStep(t)
    PROVE  TypeOK'
<1> USE DEF IInv, descriptor, queues, writer, callers, sending, framing,
            history, CallerStates
<1>1. CASE Call(t)
  BY <1>1, GotoType DEF Call, TypeOK
<1>2. CASE BeginStop(t)
  <2>1. pc' \in [Threads -> CallerStates]
    BY <1>2, GotoType DEF BeginStop
  <2>2. /\ high' \in Seq(Frame) /\ low' \in Seq(Frame)
        /\ queuedBytes' \in Int /\ cut' \subseteq Nat
    <3>1. CASE DropQueue
      BY <3>1, DropQueueType
    <3>2. CASE UNCHANGED <<high, low, queuedBytes, cut>>
      BY <3>2 DEF TypeOK
    <3> QED
      BY <1>2, <3>1, <3>2 DEF BeginStop
  <2> QED
    BY ZenonT(60), <1>2, <2>1, <2>2 DEF BeginStop, TypeOK
<1>3. CASE NotifyStop(t)
  <2>1. pc' \in [Threads -> CallerStates]
    BY <1>3, GotoType DEF NotifyStop
  <2>2. fd' \in {"open", "shut", "closed"}
    BY <1>3, ShutDownType DEF NotifyStop, TypeOK
  <2> QED
    BY <1>3, <2>1, <2>2, NotifyType DEF NotifyStop, TypeOK
<1>4. CASE DrainDone(t)
  BY <1>4, GotoType, NotifyType DEF DrainDone, TypeOK
<1>5. CASE DrainSleep(t)
  BY <1>5 DEF DrainSleep, TypeOK
<1>6. CASE DrainTimeout(t)
  BY <1>6, GotoType, ShutDownType DEF DrainTimeout, TypeOK
<1>7. CASE CutTail(t)
  BY <1>7, GotoType, NotifyType, DropQueueType DEF CutTail, TypeOK
<1>8. CASE JoinWriter(t)
  <2>1. high' \in Seq(Frame) /\ low' \in Seq(Frame) /\ queuedBytes' \in Int
    BY <1>8, EmptySeq DEF JoinWriter
  <2>2. wpc' \in WriterStates
    BY <1>8 DEF JoinWriter, WriterStates
  <2> QED
    BY ZenonT(60), <1>8, <2>1, <2>2, GotoType DEF JoinWriter, TypeOK
<1>9. CASE CloseFd(t)
  BY <1>9, GotoType, ShutDownType DEF CloseFd, TypeOK
<1>10. CASE ReleaseFd(t)
  BY <1>10, GotoType DEF ReleaseFd, TypeOK
<1> QED
  BY <1>1, <1>2, <1>3, <1>4, <1>5, <1>6, <1>7, <1>8, <1>9, <1>10
     DEF TeardownStep

LEMMA InitIInv == Init => IInv
<1> SUFFICES ASSUME Init PROVE IInv
  OBVIOUS
<1>1. << >> \in Seq(Frame) /\ << >> \in Seq(WireFrame)
  BY EmptySeq
<1>2. TypeOK
  <2>1. pc \in [Threads -> CallerStates]
    BY DEF Init, CallerStates
  <2>2. wpc \in WriterStates
    BY DEF Init, WriterStates
  <2>3. /\ high \in Seq(Frame) /\ low \in Seq(Frame)
        /\ wire \in Seq(WireFrame)
    BY <1>1 DEF Init
  <2>4. /\ tx \in Threads \cup {NoThread}
        /\ direct \in Frame \cup {NoFrame} /\ wframe \in Frame \cup {NoFrame}
        /\ uses \subseteq Readers /\ asleep \subseteq Threads \cup {Writer}
        /\ accepted \subseteq Nat /\ cut \subseteq Nat
    BY DEF Init
  <2>5. /\ encoded \in Nat /\ cipher \in Nat /\ nextLow \in Nat
        /\ doneLow \in Nat /\ queuedBytes \in Int
        /\ fd \in {"open", "shut", "closed"}
    BY DEF Init
  <2>6. /\ socketClosing \in BOOLEAN /\ directFailed \in BOOLEAN
        /\ encrypted \in BOOLEAN /\ started \in BOOLEAN /\ stop \in BOOLEAN
        /\ busy \in BOOLEAN /\ exitShut \in BOOLEAN
    BY DEF Init
  <2> QED
    BY <2>1, <2>2, <2>3, <2>4, <2>5, <2>6 DEF TypeOK
<1>3. FramesInHand
  BY DEF Init, FramesInHand
<1>4. Control
  BY ConnectionAssumption
     DEF Init, Control, TxHeldInside, WriterStarted, CloseFdIsLast,
         ClosedIsQuiet, InsideTx
<1> QED
  BY <1>2, <1>3, <1>4 DEF IInv

LEMMA StutterIInv == IInv /\ UNCHANGED vars => IInv'
BY DEF vars, descriptor, queues, writer, callers, sending, framing, history,
       IInv, TypeOK, FramesInHand, Control, TxHeldInside, WriterStarted,
       CloseFdIsLast, ClosedIsQuiet

LEMMA GotoMoves ==
    ASSUME TypeOK, NEW t \in Threads, NEW p, Goto(t, p)
    PROVE  \A u \in Threads : pc'[u] = IF u = t THEN p ELSE pc[u]
BY DEF TypeOK, Goto

----------------------------------------------------------------------------

\* The writer never moves a caller and comes and goes only with started.
LEMMA WriterControl ==
    ASSUME IInv, WriterNext
    PROVE  Control' /\ FramesInHand'
<1> USE DEF IInv, Control, TxHeldInside, WriterStarted, CloseFdIsLast,
            ClosedIsQuiet, FramesInHand, descriptor, queues, writer, callers,
            sending, framing, history
<1>1. CASE WriterTake
  <2>1. wframe' \in Frame
    <3>1. CASE TakesHigh
      BY <1>1, <3>1, HeadTailProperties DEF WriterTake, TakesHigh, TypeOK
    <3>2. CASE ~TakesHigh
      BY <1>1, <3>2, HeadTailProperties
         DEF WriterTake, CanTake, TakesLow, TypeOK
    <3> QED BY <3>1, <3>2
  <2> QED
    BY <1>1, <2>1 DEF WriterTake, WriterRuns
<1>2. CASE WriterSleep
  BY <1>2 DEF WriterSleep
<1>3. CASE WriterStops
  BY <1>3 DEF WriterStops, WriterRuns
<1>4. CASE WriterSendOk
  BY <1>4 DEF WriterSendOk
<1>5. CASE WriterSendFail
  BY <1>5, ShutDownType DEF WriterSendFail
<1>6. CASE WriterSent
  BY <1>6 DEF WriterSent
<1>7. CASE WriterFailed
  BY <1>7 DEF WriterFailed
<1>8. CASE WriterExit
  BY <1>8 DEF WriterExit
<1>9. CASE WriterShut
  BY <1>9, ShutDownType DEF WriterShut
<1> QED
  BY <1>1, <1>2, <1>3, <1>4, <1>5, <1>6, <1>7, <1>8, <1>9 DEF WriterNext

\* A send runs while nobody else owns tx_, so nobody is inside closeFd.
LEMMA SendControl ==
    ASSUME IInv, NEW t \in Threads, SendStep(t) \/ DirectStep(t)
    PROVE  Control' /\ FramesInHand'
<1> USE DEF IInv, Control, TxHeldInside, WriterStarted, CloseFdIsLast,
            ClosedIsQuiet, FramesInHand, descriptor, queues, writer, callers,
            sending, framing, history, InsideTx
<1>0. NoThread \notin Threads
  BY ConnectionAssumption
<1>1. CASE EnableEncryption(t)
  BY <1>1 DEF EnableEncryption
<1>2. ASSUME NEW size \in Sizes, NEW l \in BOOLEAN, NEW b \in BOOLEAN,
             SendQueued(t, size, l, b)
      PROVE  Control' /\ FramesInHand'
  BY <1>0, <1>2 DEF SendQueued, StartWriter, Encode
<1>3. CASE SendRefused(t)
  BY <1>3 DEF SendRefused, Encode
<1>4. ASSUME NEW size \in Sizes, SendOverflows(t, size)
      PROVE  Control' /\ FramesInHand'
  BY <1>4, ShutDownType DEF SendOverflows, Encode
<1>5. ASSUME NEW size \in Sizes, DirectBegin(t, size)
      PROVE  Control' /\ FramesInHand'
  <2>1. direct' \in Frame
    BY <1>5, EncodedFrameType DEF DirectBegin
  <2>2. \A u \in Threads : pc'[u] = IF u = t THEN "direct" ELSE pc[u]
    BY <1>5, GotoMoves DEF DirectBegin
  <2> QED
    BY <1>0, <1>5, <2>1, <2>2 DEF DirectBegin, Encode
<1>6. CASE DirectStep(t)
  <2>1. \A u \in Threads : pc'[u] = IF u = t THEN "idle" ELSE pc[u]
    BY <1>6, GotoMoves DEF DirectStep, DirectOk, DirectFail
  <2>2. \A u \in Threads : u # t => pc[u] # "direct"
    BY <1>6 DEF DirectStep, DirectOk, DirectFail
  <2>3. /\ tx = t /\ tx' = NoThread
        /\ UNCHANGED <<descriptor, queues, writer>>
    BY <1>6 DEF DirectStep, DirectOk, DirectFail
  <2> QED
    BY <1>0, <2>1, <2>2, <2>3
<1> QED
  BY <1>1, <1>2, <1>3, <1>4, <1>5, <1>6 DEF SendStep

\* A teardown walks from stopWriter to closeFd under tx_.
LEMMA TeardownControl ==
    ASSUME IInv, NEW t \in Threads, Call(t) \/ TeardownStep(t)
    PROVE  Control' /\ FramesInHand'
<1> USE DEF IInv, Control, TxHeldInside, WriterStarted, CloseFdIsLast,
            ClosedIsQuiet, FramesInHand, descriptor, queues, writer, callers,
            sending, framing, history, InsideTx
<1>0. NoThread \notin Threads
  BY ConnectionAssumption
<1>1. CASE Call(t)
  <2>1. \/ \A u \in Threads : pc'[u] = IF u = t THEN "close" ELSE pc[u]
        \/ \A u \in Threads : pc'[u] = IF u = t THEN "abort" ELSE pc[u]
    BY <1>1, GotoMoves DEF Call
  <2> QED
    BY <1>1, <2>1 DEF Call
<1>2. CASE BeginStop(t)
  <2>1. \/ ~started /\ \A u \in Threads :
               pc'[u] = IF u = t THEN "closeFd" ELSE pc[u]
        \/ \A u \in Threads : pc'[u] = IF u = t THEN "notifyClose" ELSE pc[u]
        \/ \A u \in Threads : pc'[u] = IF u = t THEN "notifyAbort" ELSE pc[u]
    BY <1>2, GotoMoves DEF BeginStop
  <2> QED
    BY <1>0, <1>2, <2>1 DEF BeginStop
<1>3. CASE NotifyStop(t)
  <2>1. \/ \A u \in Threads : pc'[u] = IF u = t THEN "drain" ELSE pc[u]
        \/ \A u \in Threads : pc'[u] = IF u = t THEN "cut" ELSE pc[u]
    BY <1>3, GotoMoves DEF NotifyStop
  <2>2. fd' = "closed" <=> fd = "closed"
    BY <1>3, ShutDownType DEF NotifyStop
  <2> QED
    BY <1>3, <2>1, <2>2 DEF NotifyStop
<1>4. CASE DrainDone(t) \/ CutTail(t)
  <2>1. \A u \in Threads : pc'[u] = IF u = t THEN "join" ELSE pc[u]
    BY <1>4, GotoMoves DEF DrainDone, CutTail
  <2> QED
    BY <1>4, <2>1 DEF DrainDone, CutTail
<1>5. CASE DrainSleep(t)
  BY <1>5 DEF DrainSleep
<1>6. CASE DrainTimeout(t)
  <2>1. \A u \in Threads : pc'[u] = IF u = t THEN "cut" ELSE pc[u]
    BY <1>6, GotoMoves DEF DrainTimeout
  <2> QED
    BY <1>6, <2>1, ShutDownType DEF DrainTimeout
<1>7. CASE JoinWriter(t)
  <2>1. \A u \in Threads : pc'[u] = IF u = t THEN "closeFd" ELSE pc[u]
    BY <1>7, GotoMoves DEF JoinWriter
  <2> QED
    BY <1>7, <2>1 DEF JoinWriter
<1>8. CASE CloseFd(t)
  <2>1. IF fd = "closed"
          THEN /\ tx' = NoThread
               /\ \A u \in Threads : pc'[u] = IF u = t THEN "idle" ELSE pc[u]
          ELSE /\ tx' = tx
               /\ \A u \in Threads :
                      pc'[u] = IF u = t THEN "awaitUses" ELSE pc[u]
    BY <1>8, GotoMoves DEF CloseFd
  <2>2. fd' = "closed" <=> fd = "closed"
    BY <1>8, ShutDownType DEF CloseFd
  <2> QED
    BY <1>0, <1>8, <2>1, <2>2 DEF CloseFd
<1>9. CASE ReleaseFd(t)
  <2>1. \A u \in Threads : pc'[u] = IF u = t THEN "idle" ELSE pc[u]
    BY <1>9, GotoMoves DEF ReleaseFd
  <2> QED
    BY <1>0, <1>9, <2>1 DEF ReleaseFd
<1> QED
  BY <1>1, <1>2, <1>3, <1>4, <1>5, <1>6, <1>7, <1>8, <1>9 DEF TeardownStep

\* No new reader enters once socketClosing_ is set.
LEMMA UseControl ==
    ASSUME IInv, NEW r \in Readers, UseBegin(r) \/ UseEnd(r)
    PROVE  IInv'
<1> USE DEF IInv, descriptor, queues, writer, callers, sending, framing,
            history
<1>1. /\ UNCHANGED <<fd, socketClosing, queues, writer, callers, asleep,
                     history>>
      /\ uses' \subseteq Readers
      /\ fd = "closed" => uses' \subseteq uses
  BY DEF UseBegin, UseEnd, TypeOK
<1>2. TypeOK'
  BY <1>1 DEF TypeOK
<1>3. FramesInHand'
  BY <1>1 DEF FramesInHand
<1>4. Control'
  BY <1>1 DEF Control, TxHeldInside, WriterStarted, CloseFdIsLast,
              ClosedIsQuiet
<1> QED
  BY <1>2, <1>3, <1>4

LEMMA NextIInv == IInv /\ [Next]_vars => IInv'
<1> SUFFICES ASSUME IInv, [Next]_vars PROVE IInv'
  OBVIOUS
<1>1. CASE WriterNext
  BY <1>1, WriterTypes, WriterControl DEF IInv
<1>2. ASSUME NEW t \in Threads, SendStep(t) \/ DirectStep(t)
      PROVE  IInv'
  BY <1>2, SendTypes, SendControl DEF IInv
<1>3. ASSUME NEW t \in Threads, Call(t) \/ TeardownStep(t)
      PROVE  IInv'
  BY <1>3, TeardownTypes, TeardownControl DEF IInv
<1>4. ASSUME NEW r \in Readers, UseBegin(r) \/ UseEnd(r)
      PROVE  IInv'
  BY <1>4, UseControl
<1>5. CASE UNCHANGED vars
  BY <1>5, StutterIInv
<1> QED
  BY <1>1, <1>2, <1>3, <1>4, <1>5 DEF Next

----------------------------------------------------------------------------

\* The invariant holds of every behaviour of a connection.
THEOREM ConnectionInvariant == Spec => []IInv
BY InitIInv, NextIInv, PTL DEF Spec

\* Every variable of a connection keeps its type.
THEOREM ConnectionTypes == Spec => []TypeOK
<1>1. IInv => TypeOK
  BY DEF IInv
<1> QED
  BY <1>1, ConnectionInvariant, PTL

\* The descriptor number outlives every writer, direct send and reader: for
\* any number of closers, senders and readers, close and abort never hand a
\* number back to the operating system that a thread may still use.
THEOREM DescriptorSafety == Spec => []DescriptorOutlivesUsers
<1>1. IInv => DescriptorOutlivesUsers
  BY DEF IInv, Control, ClosedIsQuiet, WriterStarted, CloseFdIsLast,
         DescriptorOutlivesUsers
<1> QED
  BY <1>1, ConnectionInvariant, PTL

-----------------------------------------------------------------------------
(* The frames.  FInv is IInv with what the lanes, the frame in hand and    *)
(* the wire have to do with each other: the low lane continues the low     *)
(* sequence where the writer stands, the barriers of the urgent lane point *)
(* into that stretch, wire, hand and urgent lane are one stretch of cipher *)
(* text, and no id is in two places.                                       *)

\* close or abort reached closeFd: no frame is sent or accepted any more.
Closing ==
    \/ fd = "closed"
    \/ \E t \in Threads : pc[t] \in {"closeFd", "awaitUses"}

Ended == stop \/ directFailed \/ Closing

InHand == wpc \in {"send", "sent", "failed"}

\* The last low-priority frame the writer has taken.
LowTaken == IF InHand /\ wframe.low # 0 THEN wframe.low ELSE doneLow

\* The last low-priority frame the peer has for sure.
Reached == IF wpc = "sent" /\ wframe.low # 0 THEN wframe.low ELSE doneLow

\* The low lane is the next stretch of the low sequence; every barrier names a
\* frame of that stretch or the one before it; later barriers name later ones.
Lanes ==
    /\ \A i \in DOMAIN low :
          low[i].low = LowTaken + i /\ low[i].after = 0 /\ low[i].enc = 0
    /\ \A i \in DOMAIN high : high[i].low = 0
    /\ \A i \in DOMAIN high : high[i].after > 0 =>
          LowTaken <= high[i].after /\ high[i].after <= LowTaken + Len(low)
    /\ \A i, j \in DOMAIN high :
          i <= j /\ high[i].after > 0 /\ high[j].after > 0
            => high[i].after <= high[j].after
    /\ LowTaken + Len(low) <= nextLow
    /\ ~Ended => nextLow = LowTaken + Len(low)

\* What the writer and a direct send hold; who has left holds nothing.
Hands ==
    /\ InHand /\ wframe.low # 0 =>
          wframe.low = doneLow + 1 /\ wframe.after = 0 /\ wframe.enc = 0
    /\ wpc \in {"exit", "shut", "done"} => QueueEmpty /\ stop
    /\ ~started => QueueEmpty /\ queuedBytes = 0 /\ ~stop
    /\ directFailed => ~started
    /\ direct # NoFrame => \E t \in Threads : pc[t] = "direct"
    /\ \A t \in Threads : pc[t] = "direct" =>
          /\ direct.low = 0 /\ direct.after = 0 /\ direct.enc = 0
          /\ ~directFailed

\* The peer has every low frame up to doneLow, and none the writer has not
\* taken; a barrier is only sent when the two are equal.
Arrived ==
    /\ \A n \in 1 .. doneLow : \E j \in DOMAIN wire : wire[j].low = n /\ wire[j].whole
    /\ \A j \in DOMAIN wire : wire[j].whole => wire[j].low <= Reached
    /\ wpc = "sent" => wire # << >> /\ wire[Len(wire)] = OnWire(wframe, TRUE)
    /\ wpc = "send" /\ wframe.after > 0 => wframe.after = doneLow
    /\ BarrierOrdersWire

\* After a torn frame nobody can send.
Torn ==
    /\ TornFrameEndsStream
    /\ wire # << >> /\ ~wire[Len(wire)].whole =>
          \/ wpc \in {"failed", "exit", "shut", "done"}
          \/ wpc = "none" /\ Ended

Follows(a, b) == b = a + 1 \/ (a = 0 /\ b = 0)

LastOnWire == IF wire = << >> THEN 0 ELSE wire[Len(wire)].enc
LastTaken == IF wpc \in {"send", "failed"} THEN wframe.enc ELSE LastOnWire
LastQueued == IF high = << >> THEN LastTaken ELSE high[Len(high)].enc

\* The wire, the frame in hand and the urgent lane are one stretch of cipher
\* text, which ends where the cipher stands.
Ciphers ==
    /\ \A i \in 2 .. Len(wire) : Follows(wire[i - 1].enc, wire[i].enc)
    /\ \A i \in 2 .. Len(high) : Follows(high[i - 1].enc, high[i].enc)
    /\ wire # << >> => Follows(0, wire[1].enc)
    /\ wpc = "send" => Follows(LastOnWire, wframe.enc)
    /\ high # << >> => Follows(LastTaken, high[1].enc)
    /\ ~Ended => cipher = LastQueued
    /\ ~encrypted =>
          /\ cipher = 0
          /\ \A i \in DOMAIN wire : wire[i].enc = 0
          /\ \A i \in DOMAIN high : high[i].enc = 0
          /\ InHand => wframe.enc = 0
    /\ encrypted => nextLow = 0
    /\ ~started /\ ~Ended => ~encrypted

Apart ==
    /\ accepted = Ids(high) \cup Ids(low) \cup InFlightIds \cup WholeIds \cup cut
    /\ Ids(high) \cap Ids(low) = {} /\ Ids(high) \cap InFlightIds = {}
    /\ Ids(high) \cap WholeIds = {} /\ Ids(high) \cap cut = {}
    /\ Ids(low) \cap InFlightIds = {} /\ Ids(low) \cap WholeIds = {}
    /\ Ids(low) \cap cut = {} /\ InFlightIds \cap WholeIds = {}
    /\ InFlightIds \cap cut = {} /\ WholeIds \cap cut = {}
    /\ \A i, j \in DOMAIN wire :
          wire[i].whole /\ wire[j].whole /\ wire[i].id = wire[j].id => i = j

\* No frame is in a lane twice, and ids are not used again.
Distinct ==
    /\ \A i, j \in DOMAIN high : high[i].id = high[j].id => i = j
    /\ \A i, j \in DOMAIN low : low[i].id = low[j].id => i = j
    /\ \A id \in accepted : id <= encoded
    /\ Apart

\* queuedBytes_ counts the bytes of two finite lanes.
Counted == /\ IsFiniteSet(Bytes(high)) /\ IsFiniteSet(Bytes(low))
           /\ QueueAccounting

\* Between its first unlock and the join a teardown has stopped the writer.
Stopping ==
    \A t \in Threads :
        pc[t] \in {"notifyClose", "notifyAbort", "drain", "cut", "join"}
          => started /\ stop

Flow == Lanes /\ Hands /\ Arrived /\ Torn /\ Ciphers /\ Distinct

FInv == IInv /\ Stopping /\ Flow /\ Counted

----------------------------------------------------------------------------

LEMMA AppendFacts ==
    ASSUME NEW S, NEW s \in Seq(S), NEW e \in S
    PROVE  /\ Append(s, e) \in Seq(S)
           /\ Append(s, e) # << >>
           /\ Len(Append(s, e)) = Len(s) + 1
           /\ Len(s) \in Nat
           /\ DOMAIN s = 1 .. Len(s)
           /\ DOMAIN Append(s, e) = 1 .. Len(s) + 1
           /\ \A i \in 1 .. Len(s) : Append(s, e)[i] = s[i]
           /\ Append(s, e)[Len(s) + 1] = e
BY AppendProperties, LenProperties

LEMMA TailFacts ==
    ASSUME NEW S, NEW s \in Seq(S), s # << >>
    PROVE  /\ Tail(s) \in Seq(S)
           /\ Head(s) = s[1] /\ s[1] \in S
           /\ Len(s) \in Nat /\ Len(s) >= 1
           /\ DOMAIN s = 1 .. Len(s)
           /\ Len(Tail(s)) = Len(s) - 1
           /\ DOMAIN Tail(s) = 1 .. Len(s) - 1
           /\ \A i \in 1 .. Len(s) - 1 : Tail(s)[i] = s[i + 1]
<1>1. Tail(s) \in Seq(S) /\ Head(s) = s[1] /\ Len(Tail(s)) = Len(s) - 1
  BY HeadTailProperties
<1>2. Len(s) \in Nat /\ DOMAIN s = 1 .. Len(s) /\ DOMAIN Tail(s) = 1 .. Len(Tail(s))
  BY <1>1, LenProperties
<1>3. Len(s) >= 1
  BY <1>2, EmptySeq
<1>4. s[1] \in S
  BY <1>2, <1>3, ElementOfSeq
<1>5. \A i \in 1 .. Len(s) - 1 : Tail(s)[i] = s[i + 1]
  BY <1>1, <1>2, HeadTailProperties
<1> QED
  BY <1>1, <1>2, <1>3, <1>4, <1>5

LEMMA LaneFacts ==
    ASSUME TypeOK
    PROVE  /\ DOMAIN high = 1 .. Len(high) /\ Len(high) \in Nat
           /\ DOMAIN low = 1 .. Len(low) /\ Len(low) \in Nat
           /\ DOMAIN wire = 1 .. Len(wire) /\ Len(wire) \in Nat
           /\ \A i \in 1 .. Len(high) : high[i] \in Frame
           /\ \A i \in 1 .. Len(low) : low[i] \in Frame
           /\ \A i \in 1 .. Len(wire) : wire[i] \in WireFrame
           /\ high # << >> <=> Len(high) >= 1
           /\ low # << >> <=> Len(low) >= 1
           /\ wire # << >> <=> Len(wire) >= 1
BY LenProperties, ElementOfSeq, EmptySeq DEF TypeOK

----------------------------------------------------------------------------

\* Whoever ended the sending leaves it ended.
LEMMA EndedStays ==
    ASSUME IInv, [Next]_vars, Ended
    PROVE  Ended'
<1> USE DEF descriptor, queues, writer, callers, sending, framing, history
<1>1. CASE WriterNext
  <2>0. pc' = pc /\ directFailed' = directFailed
    BY <1>1 DEF WriterNext, WriterTake, WriterSleep, WriterStops, WriterSendOk,
                WriterSendFail, WriterSent, WriterFailed, WriterExit, WriterShut
  <2>a. stop' = stop \/ stop' = TRUE
    BY <1>1 DEF WriterNext, WriterTake, WriterSleep, WriterStops, WriterSendOk,
                WriterSendFail, WriterSent, WriterFailed, WriterExit, WriterShut
  <2>1. UNCHANGED <<pc, directFailed>> /\ (stop => stop')
    BY <2>0, <2>a
  <2>2. fd = "closed" => fd' = "closed"
    BY <1>1 DEF WriterNext, WriterTake, WriterSleep, WriterStops, WriterSendOk,
                WriterSendFail, WriterSent, WriterFailed, WriterExit, WriterShut,
                ShutDown
  <2> QED
    BY <2>1, <2>2 DEF Ended, Closing
<1>2. ASSUME NEW t \in Threads, SendStep(t) \/ DirectStep(t)
      PROVE  Ended'
  <2>a. stop' = stop \/ stop' = TRUE \/ ~stop
    BY <1>2 DEF SendStep, DirectStep, EnableEncryption, SendQueued, SendRefused,
                SendOverflows, DirectBegin, DirectOk, DirectFail, StartWriter
  <2>b. directFailed' = directFailed \/ directFailed' = TRUE
    BY <1>2 DEF SendStep, DirectStep, EnableEncryption, SendQueued, SendRefused,
                SendOverflows, DirectBegin, DirectOk, DirectFail, StartWriter
  <2>1. (stop => stop') /\ (directFailed => directFailed')
    BY <2>a, <2>b
  <2>2. fd = "closed" => fd' = "closed"
    BY <1>2 DEF SendStep, DirectStep, EnableEncryption, SendQueued, SendRefused,
                SendOverflows, DirectBegin, DirectOk, DirectFail, ShutDown
  <2>3. \A u \in Threads : pc[u] \in {"closeFd", "awaitUses"} => pc'[u] = pc[u]
    <3>1. CASE DirectStep(t)
      <4>1. pc[t] = "direct" /\ \A u \in Threads : u # t => pc'[u] = pc[u]
        BY <3>1 DEF DirectStep, DirectOk, DirectFail, Goto, IInv, TypeOK
      <4> QED
        BY <4>1
    <3>2. CASE SendStep(t)
      <4>1. pc[t] = "idle" /\ \A u \in Threads : u # t => pc'[u] = pc[u]
        BY <3>2 DEF SendStep, EnableEncryption, SendQueued, SendRefused,
                SendOverflows, DirectBegin, Encode, Goto, IInv, TypeOK
      <4> QED
        BY <4>1
    <3> QED
      BY <1>2, <3>1, <3>2
  <2> QED
    BY <2>1, <2>2, <2>3 DEF Ended, Closing
<1>3. ASSUME NEW t \in Threads, Call(t) \/ TeardownStep(t)
      PROVE  Ended'
  <2>1. directFailed' = directFailed /\ \A u \in Threads : u # t => pc'[u] = pc[u]
    BY <1>3 DEF Call, TeardownStep, BeginStop, NotifyStop, DrainDone, DrainSleep,
                DrainTimeout, CutTail, JoinWriter, CloseFd, ReleaseFd, Goto,
                IInv, TypeOK
  <2>2. fd = "closed" => fd' = "closed"
    BY <1>3 DEF Call, TeardownStep, BeginStop, NotifyStop, DrainDone, DrainSleep,
                DrainTimeout, CutTail, JoinWriter, CloseFd, ReleaseFd, ShutDown
  <2>3. stop => stop' \/ pc'[t] = "closeFd"
    BY <1>3 DEF Call, TeardownStep, BeginStop, NotifyStop, DrainDone, DrainSleep,
                DrainTimeout, CutTail, JoinWriter, CloseFd, ReleaseFd, Goto,
                IInv, TypeOK
  <2>4. pc[t] \in {"closeFd", "awaitUses"} =>
            pc'[t] \in {"closeFd", "awaitUses"} \/ fd' = "closed"
    BY <1>3 DEF Call, TeardownStep, BeginStop, NotifyStop, DrainDone, DrainSleep,
                DrainTimeout, CutTail, JoinWriter, CloseFd, ReleaseFd, Goto,
                IInv, TypeOK, ShutDown
  <2> QED
    BY <2>1, <2>2, <2>3, <2>4 DEF Ended, Closing
<1>4. CASE (\E r \in Readers : UseBegin(r) \/ UseEnd(r)) \/ UNCHANGED vars
  BY <1>4 DEF UseBegin, UseEnd, vars, Ended, Closing
<1> QED
  BY <1>1, <1>2, <1>3, <1>4 DEF Next

\* A step that moves no frame: who sends, sleeps, stops or closes may change,
\* and the encoder may have run over a frame that was refused.
Calm ==
    /\ UNCHANGED <<queues, wframe, direct, directFailed, started, history>>
    /\ \A t \in Threads : pc'[t] = "direct" <=> pc[t] = "direct"
    /\ \/ wpc' = wpc
       \/ ~InHand /\ wpc # "none" /\ wpc' \in {"exit", "shut", "done"}
          /\ QueueEmpty /\ stop /\ stop'
    /\ stop => stop'
    /\ stop' => stop \/ started
    /\ encoded \in Nat /\ encoded' \in Nat /\ encoded <= encoded'
    /\ \/ cipher' = cipher /\ encrypted' = encrypted
       \/ cipher' = cipher /\ encrypted' = TRUE /\ nextLow = 0 /\ started
       \/ Ended /\ encrypted' = encrypted /\ encrypted

LEMMA WriterStopsEmpty ==
    ASSUME IInv, Flow, WriterStops
    PROVE  QueueEmpty
<1> USE DEF IInv, Flow
<1>1. ~InHand
  BY DEF WriterStops, WriterRuns, InHand
<1>2. LowTaken = doneLow
  BY <1>1 DEF LowTaken
<1>3. CASE high = << >>
  BY <1>3 DEF WriterStops, CanTake, TakesHigh, TakesLow, BarrierBlocked, QueueEmpty
<1>4. CASE high # << >>
  <2>1. BarrierBlocked
    BY <1>4 DEF WriterStops, CanTake, TakesHigh
  <2>0. /\ Head(high) = high[1] /\ high[1] \in Frame
        /\ Len(high) >= 1 /\ Len(high) \in Nat /\ DOMAIN high = 1 .. Len(high)
    BY <1>4, TailFacts DEF TypeOK
  <2>2. high[1].after > doneLow /\ 1 \in DOMAIN high /\ high[1].after \in Nat
    BY <2>0, <2>1 DEF BarrierBlocked, Frame
  <2>3. high[1].after > 0 /\ high[1].after <= doneLow + Len(low)
    BY <1>2, <2>2 DEF Lanes, TypeOK
  <2>4. Len(low) >= 1
    BY <2>2, <2>3, LaneFacts DEF TypeOK
  <2>5. low # << >> /\ Head(low) = low[1] /\ 1 \in DOMAIN low
    BY <2>4, LaneFacts, TailFacts DEF TypeOK
  <2>6. Head(low).low = doneLow + 1
    BY <1>2, <2>5 DEF Lanes
  <2>7. Head(high) = high[1]
    BY <1>4, TailFacts DEF TypeOK
  <2>8. TakesLow
    BY <2>1, <2>2, <2>5, <2>6, <2>7 DEF TakesLow, TakesHigh, TypeOK
  <2> QED
    BY <2>8 DEF WriterStops, CanTake
<1> QED
  BY <1>3, <1>4

CalmWriter == WriterSleep \/ WriterStops \/ WriterExit \/ WriterShut
CalmCaller(t) ==
    \/ EnableEncryption(t) \/ SendRefused(t) \/ Call(t) \/ NotifyStop(t)
    \/ DrainDone(t) \/ DrainSleep(t) \/ DrainTimeout(t) \/ CloseFd(t)
    \/ ReleaseFd(t)
    \/ BeginStop(t) /\ UNCHANGED <<high, low, queuedBytes, cut>>

LEMMA CalmSteps ==
    ASSUME IInv, Flow,
           \/ CalmWriter
           \/ \E t \in Threads : CalmCaller(t)
           \/ \E r \in Readers : UseBegin(r) \/ UseEnd(r)
           \/ UNCHANGED vars
    PROVE  Calm
<1> USE DEF descriptor, queues, writer, callers, sending, framing, history,
            IInv, InHand
<1>1. CASE WriterSleep
  BY <1>1 DEF WriterSleep, Calm, TypeOK
<1>2. CASE WriterStops
  BY <1>2, WriterStopsEmpty DEF WriterStops, WriterRuns, Calm, TypeOK
<1>3. CASE WriterExit
  BY <1>3 DEF WriterExit, Calm, Flow, Hands, TypeOK
<1>4. CASE WriterShut
  BY <1>4 DEF WriterShut, Calm, Flow, Hands, TypeOK
<1>5. ASSUME NEW t \in Threads, EnableEncryption(t) \/ SendRefused(t) PROVE Calm
  <2>1. CASE EnableEncryption(t)
    BY <2>1 DEF EnableEncryption, Calm, TypeOK
  <2>2. CASE SendRefused(t)
    <3>1. ~encrypted \/ Ended
      BY <2>2 DEF SendRefused, Flow, Ciphers, Ended
    <3> QED
      BY <2>2, <3>1 DEF SendRefused, Encode, Calm, TypeOK
  <2> QED
    BY <1>5, <2>1, <2>2
<1>6. ASSUME NEW t \in Threads, CalmCaller(t), ~EnableEncryption(t), ~SendRefused(t)
      PROVE  Calm
  <2>1. /\ UNCHANGED <<queues, wframe, direct, directFailed, started, history,
                       wpc, framing>>
        /\ stop => stop'
        /\ stop' => stop \/ started
    BY <1>6 DEF CalmCaller, Call, NotifyStop, DrainDone, DrainSleep, DrainTimeout,
                CloseFd, ReleaseFd, BeginStop
  <2>2. /\ \A u \in Threads : u # t => pc'[u] = pc[u]
        /\ pc[t] # "direct" /\ pc'[t] # "direct"
    BY <1>6 DEF CalmCaller, Call, NotifyStop, DrainDone, DrainSleep, DrainTimeout,
                CloseFd, ReleaseFd, BeginStop, Goto, TypeOK
  <2> QED
    BY <2>1, <2>2 DEF Calm, TypeOK
<1>7. CASE (\E r \in Readers : UseBegin(r) \/ UseEnd(r)) \/ UNCHANGED vars
  BY <1>7 DEF UseBegin, UseEnd, vars, Calm, TypeOK
<1> QED
  BY <1>1, <1>2, <1>3, <1>4, <1>5, <1>6, <1>7 DEF CalmWriter

LEMMA FivePlaces ==
    ASSUME NEW A, NEW B, NEW C, NEW D, NEW E
    PROVE  LET p == <<A, B, C, D, E>>
           IN  /\ UNION {p[i] : i \in 1 .. 5} = A \cup B \cup C \cup D \cup E
               /\ (\A i, j \in 1 .. 5 : i # j => p[i] \cap p[j] = {})
                    <=> /\ A \cap B = {} /\ A \cap C = {} /\ A \cap D = {}
                        /\ A \cap E = {} /\ B \cap C = {} /\ B \cap D = {}
                        /\ B \cap E = {} /\ C \cap D = {} /\ C \cap E = {}
                        /\ D \cap E = {}
<1> DEFINE p == <<A, B, C, D, E>>
<1>1. p[1] = A /\ p[2] = B /\ p[3] = C /\ p[4] = D /\ p[5] = E
  OBVIOUS
<1>2. 1 .. 5 = {1, 2, 3, 4, 5}
  OBVIOUS
<1> HIDE DEF p
<1>3. UNION {p[i] : i \in 1 .. 5} = A \cup B \cup C \cup D \cup E
  BY <1>1, <1>2
<1>4. (\A i, j \in 1 .. 5 : i # j => p[i] \cap p[j] = {})
                    <=> /\ A \cap B = {} /\ A \cap C = {} /\ A \cap D = {}
                        /\ A \cap E = {} /\ B \cap C = {} /\ B \cap D = {}
                        /\ B \cap E = {} /\ C \cap D = {} /\ C \cap E = {}
                        /\ D \cap E = {}
  BY <1>1, <1>2
<1> QED
  BY <1>3, <1>4 DEF p

LEMMA ApartIsSilent == NoFrameLostSilently <=> Apart
<1> DEFINE p == <<Ids(high), Ids(low), InFlightIds, WholeIds, cut>>
<1>1. NoFrameLostSilently <=>
        /\ accepted = UNION {p[i] : i \in 1 .. 5}
        /\ \A i, j \in 1 .. 5 : i # j => p[i] \cap p[j] = {}
        /\ \A i, j \in DOMAIN wire :
              wire[i].whole /\ wire[j].whole /\ wire[i].id = wire[j].id => i = j
  BY DEF NoFrameLostSilently
<1> QED
  BY <1>1, FivePlaces DEF Apart

LEMMA CalmFlow ==
    ASSUME IInv, Flow, Counted, Calm, Ended => Ended'
    PROVE  Flow' /\ Counted'
<1> USE DEF Flow
<1>0. /\ high' = high /\ low' = low /\ queuedBytes' = queuedBytes
      /\ nextLow' = nextLow /\ doneLow' = doneLow /\ wframe' = wframe
      /\ direct' = direct /\ directFailed' = directFailed /\ started' = started
      /\ wire' = wire /\ accepted' = accepted /\ cut' = cut
  BY DEF Calm, queues, history
<1> USE DEF Calm
<1>1. InHand' = InHand /\ LowTaken' = LowTaken /\ Reached' = Reached
  BY <1>0 DEF InHand, LowTaken, Reached
<1>2. Lanes'
  BY <1>0, <1>1 DEF Lanes
<1>3. Hands'
  <2>1. InHand /\ wframe.low # 0 =>
          wframe.low = doneLow + 1 /\ wframe.after = 0 /\ wframe.enc = 0
    BY DEF Hands
  <2>2. wpc' \in {"exit", "shut", "done"} => QueueEmpty /\ stop'
    BY DEF Hands
  <2>3. ~started => QueueEmpty /\ queuedBytes = 0 /\ ~stop'
    BY DEF Hands
  <2>4. directFailed => ~started
    BY DEF Hands
  <2>5. direct # NoFrame => \E t \in Threads : pc'[t] = "direct"
    BY DEF Hands
  <2>6. \A t \in Threads : pc'[t] = "direct" =>
          /\ direct.low = 0 /\ direct.after = 0 /\ direct.enc = 0
          /\ ~directFailed
    BY DEF Hands
  <2> HIDE DEF Calm
  <2> QED
    BY <1>0, <1>1, <2>1, <2>2, <2>3, <2>4, <2>5, <2>6 DEF Hands, QueueEmpty
<1>4. Arrived'
  <2>1. wpc' = "sent" => wire # << >> /\ wire[Len(wire)] = OnWire(wframe, TRUE)
    BY DEF Arrived
  <2>2. wpc' = "send" /\ wframe.after > 0 => wframe.after = doneLow
    BY DEF Arrived
  <2>3. BarrierOrdersWire'
    BY <1>0 DEF Arrived, BarrierOrdersWire
  <2> HIDE DEF Calm
  <2> QED
    BY <1>0, <1>1, <2>1, <2>2, <2>3 DEF Arrived, OnWire
<1>5. Torn'
  BY <1>0, <1>1 DEF Torn, TornFrameEndsStream, InHand
<1>6. Ciphers'
  BY <1>0, <1>1 DEF Ciphers, LastQueued, LastTaken, LastOnWire, InHand, Ended
<1>7. Distinct'
  <2>1. InFlightIds' = InFlightIds
    <3>1. wpc' \in {"send", "failed"} <=> wpc \in {"send", "failed"}
      BY DEF InHand
    <3> QED
      BY <1>0, <3>1 DEF InFlightIds
  <2>a. Ids(high)' = Ids(high) /\ Ids(low)' = Ids(low) /\ WholeIds' = WholeIds
    BY <1>0 DEF Ids, WholeIds
  <2>2. Apart'
    BY <1>0, <2>1, <2>a DEF Distinct, Apart
  <2>3. \A id \in accepted : id <= encoded'
    BY DEF Distinct, IInv, TypeOK
  <2> QED
    BY <1>0, <2>2, <2>3 DEF Distinct
<1>8. Counted'
  <2>1. Bytes(high)' = Bytes(high) /\ Bytes(low)' = Bytes(low)
    BY <1>0 DEF Bytes
  <2> QED
    BY <1>0, <2>1 DEF Counted, QueueAccounting
<1> QED
  BY <1>2, <1>3, <1>4, <1>5, <1>6, <1>7, <1>8

----------------------------------------------------------------------------

FrameBytes(f) == {f.id} \X (1 .. f.size)

LEMMA SizeType ==
    ASSUME NEW n \in Sizes
    PROVE  n \in Nat /\ MaxQueuedBytes \in Nat /\ n <= MaxQueuedBytes
<1>1. MaxQueuedBytes \in Nat /\ n \in 1 .. MaxQueuedBytes
  BY ConnectionAssumption
<1> QED
  BY <1>1

LEMMA FrameBytesSize ==
    ASSUME NEW f \in Frame
    PROVE  IsFiniteSet(FrameBytes(f)) /\ Cardinality(FrameBytes(f)) = f.size
<1>1. f.size \in Nat
  BY SizeType DEF Frame
<1>2. IsFiniteSet(1 .. f.size) /\ Cardinality(1 .. f.size) = f.size
  BY SMTT(30), <1>1, FS_Interval
<1>3. IsFiniteSet({f.id}) /\ Cardinality({f.id}) = 1
  BY FS_Singleton
<1>4. /\ IsFiniteSet({f.id} \X (1 .. f.size))
      /\ Cardinality({f.id} \X (1 .. f.size)) = 1 * f.size
  BY ZenonT(60), <1>2, <1>3, FS_Product
<1> QED
  BY <1>1, <1>4 DEF FrameBytes

LEMMA BytesAppend ==
    ASSUME NEW s \in Seq(Frame), NEW f \in Frame
    PROVE  /\ Bytes(Append(s, f)) = Bytes(s) \cup FrameBytes(f)
           /\ Ids(Append(s, f)) = Ids(s) \cup {f.id}
<1> DEFINE a == Append(s, f)
<1>1. /\ DOMAIN s = 1 .. Len(s) /\ DOMAIN a = 1 .. Len(s) + 1 /\ Len(s) \in Nat
      /\ \A i \in 1 .. Len(s) : a[i] = s[i]
      /\ a[Len(s) + 1] = f
  BY AppendFacts
<1> HIDE DEF a
<1>2. DOMAIN a = DOMAIN s \cup {Len(s) + 1}
  BY <1>1
<1>3. Ids(a) = Ids(s) \cup {f.id}
  BY <1>1, <1>2 DEF Ids
<1>4. Bytes(a) = Bytes(s) \cup FrameBytes(f)
  BY <1>1, <1>2 DEF Bytes, FrameBytes
<1> QED
  BY <1>3, <1>4 DEF a

LEMMA BytesTail ==
    ASSUME NEW s \in Seq(Frame), s # << >>,
           \A i, j \in DOMAIN s : s[i].id = s[j].id => i = j
    PROVE  /\ Bytes(s) = Bytes(Tail(s)) \cup FrameBytes(Head(s))
           /\ Ids(s) = Ids(Tail(s)) \cup {Head(s).id}
           /\ Head(s).id \notin Ids(Tail(s))
           /\ Head(s) \in Frame
<1> DEFINE r == Tail(s)
<1>1. /\ DOMAIN s = 1 .. Len(s) /\ DOMAIN r = 1 .. Len(s) - 1 /\ Len(s) \in Nat
      /\ Len(s) >= 1
      /\ \A i \in 1 .. Len(s) - 1 : r[i] = s[i + 1]
      /\ Head(s) = s[1] /\ s[1] \in Frame
  BY TailFacts
<1> HIDE DEF r
<1>2. \A i \in DOMAIN s : i = 1 \/ (i - 1 \in DOMAIN r /\ s[i] = r[i - 1])
  BY <1>1
<1>3. \A i \in DOMAIN r : i + 1 \in DOMAIN s /\ s[i + 1] = r[i] /\ i + 1 # 1
  BY <1>1
<1>4. 1 \in DOMAIN s
  BY <1>1
<1>5. Ids(s) = Ids(r) \cup {s[1].id}
  BY <1>2, <1>3, <1>4 DEF Ids
<1>6. s[1].id \notin Ids(r)
  <2> SUFFICES ASSUME NEW i \in DOMAIN r, s[1].id = r[i].id PROVE FALSE
    BY DEF Ids
  <2> QED
    BY <1>3, <1>4
<1>7. Bytes(s) = Bytes(r) \cup FrameBytes(s[1])
  BY <1>2, <1>3, <1>4 DEF Bytes, FrameBytes
<1> QED
  BY <1>1, <1>5, <1>6, <1>7 DEF r

LEMMA BytesOfIds ==
    ASSUME NEW s, NEW x \in Bytes(s)
    PROVE  x[1] \in Ids(s)
BY DEF Bytes, Ids

LEMMA EmptyLane == Bytes(<< >>) = {} /\ Ids(<< >>) = {}
<1>1. DOMAIN << >> = {}
  OBVIOUS
<1> QED
  BY <1>1 DEF Bytes, Ids

\* Two lanes without a frame in common count what each of them counts.
LEMMA BytesDisjoint ==
    ASSUME NEW s, NEW r, Ids(s) \cap Ids(r) = {}
    PROVE  Bytes(s) \cap Bytes(r) = {}
BY BytesOfIds

----------------------------------------------------------------------------

\* Who may encode and is not told to stop finds nobody inside a call.
LEMMA SendersOpen ==
    ASSUME IInv, NEW t \in Threads, Encode(t)
    PROVE  ~Closing /\ \A u \in Threads : pc[u] # "direct"
BY ConnectionAssumption
   DEF IInv, Encode, Closing, Control, TxHeldInside, InsideTx

\* What sendQueued does with the frame it has encoded.
Queued(f) ==
    /\ f \in Frame /\ f.id = encoded + 1 /\ f.size \in Sizes
    /\ encoded' = encoded + 1 /\ encoded \in Nat
    /\ f.low = 0 \/ (f.low = nextLow + 1 /\ ~encrypted /\ f.after = 0)
    /\ f.low = 0 \/ f.enc = 0
    /\ f.after \in {0, nextLow}
    /\ f.enc = (IF encrypted THEN cipher + 1 ELSE 0)
    /\ cipher' = (IF encrypted THEN cipher + 1 ELSE cipher)
    /\ encrypted' = encrypted
    /\ IF f.low # 0
         THEN low' = Append(low, f) /\ nextLow' = f.low /\ high' = high
         ELSE high' = Append(high, f) /\ low' = low /\ nextLow' = nextLow
    /\ ~Ended /\ ~stop /\ started' = TRUE /\ stop' = FALSE
    /\ wpc' = (IF started THEN wpc ELSE "ready")
    /\ queuedBytes' = queuedBytes + f.size
    /\ queuedBytes <= MaxQueuedBytes - f.size
    /\ accepted' = accepted \cup {f.id}
    /\ doneLow' = doneLow /\ wframe' = wframe /\ pc' = pc
    /\ direct' = direct /\ directFailed' = directFailed
    /\ wire' = wire /\ cut' = cut
    /\ \A u \in Threads : pc[u] # "direct"
    /\ InHand' = InHand /\ LowTaken' = LowTaken /\ Reached' = Reached
    /\ (wpc' \in {"send", "failed"} <=> wpc \in {"send", "failed"})
    /\ (wpc' = "sent" <=> wpc = "sent") /\ (wpc' = "send" <=> wpc = "send")
    /\ wpc' # "none"
    /\ wpc' \in {"exit", "shut", "done"} <=> wpc \in {"exit", "shut", "done"}

LEMMA QueuedFacts ==
    ASSUME FInv, NEW t \in Threads, NEW size \in Sizes, NEW l \in BOOLEAN,
           NEW b \in BOOLEAN, SendQueued(t, size, l, b)
    PROVE  Queued(EncodedFrame(size, l, b))
<1> DEFINE f == EncodedFrame(size, l, b)
<1> USE DEF FInv, IInv
<1>1. f \in Frame
  BY EncodedFrameType
<1>2. /\ f.id = encoded + 1 /\ f.size = size
      /\ f.low = 0 \/ (f.low = nextLow + 1 /\ ~encrypted /\ f.after = 0)
      /\ f.after \in {0, nextLow}
      /\ f.enc = (IF encrypted THEN cipher + 1 ELSE 0)
  <2>1. CASE l /\ ~encrypted
    <3>1. f = [id |-> encoded + 1, size |-> size, low |-> nextLow + 1,
               after |-> 0, enc |-> 0]
      BY <2>1 DEF EncodedFrame
    <3> HIDE DEF f
    <3> QED
      BY <2>1, <3>1
  <2>2. CASE ~(l /\ ~encrypted)
    <3>1. f = [id |-> encoded + 1, size |-> size, low |-> 0,
               after |-> IF b THEN nextLow ELSE 0,
               enc |-> IF encrypted THEN cipher + 1 ELSE 0]
      BY <2>2 DEF EncodedFrame
    <3> HIDE DEF f
    <3> QED
      BY <3>1
  <2> QED
    BY <2>1, <2>2
<1>3. ~Closing /\ (\A u \in Threads : pc[u] # "direct") /\ ~stop /\ ~directFailed
  <2>1. Encode(t) /\ ~stop
    BY DEF SendQueued
  <2> QED
    BY <2>1, SendersOpen DEF Encode
<1>4. ~Ended
  BY <1>3 DEF Ended
<1>5. /\ encoded' = encoded + 1 /\ encoded \in Nat
      /\ cipher' = (IF encrypted THEN cipher + 1 ELSE cipher)
      /\ encrypted' = encrypted
      /\ IF f.low # 0
                THEN low' = Append(low, f) /\ nextLow' = f.low /\ high' = high
                ELSE high' = Append(high, f) /\ low' = low /\ nextLow' = nextLow
      /\ queuedBytes' = queuedBytes + f.size
      /\ accepted' = accepted \cup {f.id}
      /\ doneLow' = doneLow /\ wframe' = wframe /\ pc' = pc
      /\ direct' = direct /\ directFailed' = directFailed
      /\ wire' = wire /\ cut' = cut
  BY <1>2 DEF SendQueued, Encode, TypeOK, sending
<1> HIDE DEF f
<1>6. queuedBytes <= MaxQueuedBytes - size
  <2>1. MaxQueuedBytes \in Int /\ size \in Int /\ queuedBytes \in Int
    BY ConnectionAssumption DEF TypeOK
  <2> QED
    BY <2>1 DEF SendQueued, Overflows
<1>7. started' = TRUE /\ stop' = FALSE /\ wpc' = (IF started THEN wpc ELSE "ready")
  BY DEF SendQueued, StartWriter
<1>8. wpc' = wpc \/ (wpc = "none" /\ wpc' = "ready")
  BY <1>7 DEF Control, WriterStarted
<1>9. wpc' # "none"
  BY <1>7 DEF Control, WriterStarted
<1>10. InHand' = InHand /\ LowTaken' = LowTaken /\ Reached' = Reached
  BY <1>5, <1>8 DEF InHand, LowTaken, Reached
<1> QED
  BY <1>1, <1>2, <1>3, <1>4, <1>5, <1>6, <1>7, <1>8, <1>9, <1>10 DEF Queued, f

LEMMA QueuedFlow ==
    ASSUME FInv, NEW f, Queued(f)
    PROVE  Flow' /\ Counted'
<1>0. /\ f \in Frame /\ f.id = encoded + 1 /\ f.size \in Sizes
      /\ encoded' = encoded + 1 /\ encoded \in Nat
      /\ f.low = 0 \/ (f.low = nextLow + 1 /\ ~encrypted /\ f.after = 0)
      /\ f.low = 0 \/ f.enc = 0
      /\ f.after \in {0, nextLow}
      /\ f.enc = (IF encrypted THEN cipher + 1 ELSE 0)
      /\ cipher' = (IF encrypted THEN cipher + 1 ELSE cipher)
      /\ encrypted' = encrypted
      /\ IF f.low # 0
           THEN low' = Append(low, f) /\ nextLow' = f.low /\ high' = high
           ELSE high' = Append(high, f) /\ low' = low /\ nextLow' = nextLow
      /\ ~Ended /\ ~stop /\ started' = TRUE /\ stop' = FALSE
      /\ wpc' = (IF started THEN wpc ELSE "ready")
      /\ queuedBytes' = queuedBytes + f.size
      /\ queuedBytes <= MaxQueuedBytes - f.size
      /\ accepted' = accepted \cup {f.id}
      /\ doneLow' = doneLow /\ wframe' = wframe /\ pc' = pc
      /\ direct' = direct /\ directFailed' = directFailed
      /\ wire' = wire /\ cut' = cut
      /\ \A u \in Threads : pc[u] # "direct"
      /\ InHand' = InHand /\ LowTaken' = LowTaken /\ Reached' = Reached
      /\ (wpc' \in {"send", "failed"} <=> wpc \in {"send", "failed"})
      /\ (wpc' = "sent" <=> wpc = "sent") /\ (wpc' = "send" <=> wpc = "send")
      /\ wpc' # "none"
      /\ wpc' \in {"exit", "shut", "done"} <=> wpc \in {"exit", "shut", "done"}
  BY DEF Queued
<1>a. TypeOK /\ Lanes /\ Hands /\ Arrived /\ Torn /\ Ciphers /\ Distinct /\ Counted
  BY DEF FInv, IInv, Flow
<1>b. /\ DOMAIN high = 1 .. Len(high) /\ Len(high) \in Nat
      /\ DOMAIN low = 1 .. Len(low) /\ Len(low) \in Nat
      /\ \A i \in 1 .. Len(high) : high[i] \in Frame
      /\ \A i \in 1 .. Len(low) : low[i] \in Frame
      /\ LowTaken \in Nat /\ nextLow \in Nat /\ cipher \in Nat
  BY <1>a, LaneFacts DEF FInv, IInv, TypeOK, LowTaken, FramesInHand, InHand, Frame
<1>c. nextLow = LowTaken + Len(low)
  BY <1>0, <1>a DEF Lanes
<1>h. ASSUME f.low = 0
      PROVE  /\ Len(high') = Len(high) + 1 /\ DOMAIN high' = 1 .. Len(high) + 1
             /\ high' # << >>
             /\ \A i \in 1 .. Len(high) : high'[i] = high[i]
             /\ high'[Len(high) + 1] = f
             /\ low' = low /\ nextLow' = nextLow
  <2>1. high' = Append(high, f) /\ low' = low /\ nextLow' = nextLow
    BY <1>0, <1>h
  <2>2. high \in Seq(Frame) /\ f \in Frame
    BY <1>0, <1>a DEF TypeOK
  <2> QED
    BY <2>1, <2>2, AppendFacts
<1>l. ASSUME f.low # 0
      PROVE  /\ Len(low') = Len(low) + 1 /\ DOMAIN low' = 1 .. Len(low) + 1
             /\ low' # << >>
             /\ \A i \in 1 .. Len(low) : low'[i] = low[i]
             /\ low'[Len(low) + 1] = f
             /\ high' = high /\ nextLow' = nextLow + 1 /\ f.after = 0 /\ f.enc = 0
             /\ ~encrypted
  <2>1. low' = Append(low, f) /\ high' = high /\ nextLow' = nextLow + 1
    BY <1>0, <1>l
  <2>2. low \in Seq(Frame) /\ f \in Frame
    BY <1>0, <1>a DEF TypeOK
  <2>3. f.after = 0 /\ f.enc = 0 /\ ~encrypted
    BY <1>0, <1>l
  <2> QED
    BY <2>1, <2>2, <2>3, AppendFacts
<1>p. \A i \in DOMAIN high' :
         \/ i \in DOMAIN high /\ high'[i] = high[i]
         \/ f.low = 0 /\ i = Len(high) + 1 /\ high'[i] = f
  <2>1. CASE f.low # 0
    <3>1. high' = high
      BY <1>l, <2>1
    <3> QED
      BY <3>1
  <2>2. CASE f.low = 0
    <3> SUFFICES ASSUME NEW i \in DOMAIN high'
                 PROVE  \/ i \in DOMAIN high /\ high'[i] = high[i]
                        \/ i = Len(high) + 1 /\ high'[i] = f
      BY <2>2
    <3>1. /\ i \in 1 .. Len(high) + 1 /\ Len(high) \in Nat
          /\ DOMAIN high = 1 .. Len(high)
      BY <1>b, <1>h, <2>2
    <3>2. CASE i = Len(high) + 1
      BY <1>h, <2>2, <3>2
    <3>3. CASE i # Len(high) + 1
      <4>1. i \in 1 .. Len(high)
        BY <3>1, <3>3
      <4> QED
        BY <1>h, <2>2, <3>1, <4>1
    <3> QED
      BY <3>2, <3>3
  <2> QED
    BY <2>1, <2>2
<1>q. \A i \in DOMAIN low' :
         \/ i \in DOMAIN low /\ low'[i] = low[i]
         \/ f.low # 0 /\ i = Len(low) + 1 /\ low'[i] = f
  <2>1. CASE f.low = 0
    <3>1. low' = low
      BY <1>h, <2>1
    <3> QED
      BY <3>1
  <2>2. CASE f.low # 0
    <3> SUFFICES ASSUME NEW i \in DOMAIN low'
                 PROVE  \/ i \in DOMAIN low /\ low'[i] = low[i]
                        \/ i = Len(low) + 1 /\ low'[i] = f
      BY <2>2
    <3>1. /\ i \in 1 .. Len(low) + 1 /\ Len(low) \in Nat
          /\ DOMAIN low = 1 .. Len(low)
      BY <1>b, <1>l, <2>2
    <3>2. CASE i = Len(low) + 1
      BY <1>l, <2>2, <3>2
    <3>3. CASE i # Len(low) + 1
      <4>1. i \in 1 .. Len(low)
        BY <3>1, <3>3
      <4> QED
        BY <1>l, <2>2, <3>1, <4>1
    <3> QED
      BY <3>2, <3>3
  <2> QED
    BY <2>1, <2>2
<1>1. Lanes'
  <2>1. CASE f.low = 0
    <3>1. \A i \in DOMAIN high' : high'[i].low = 0
      BY <1>a, <1>b, <1>h, <2>1 DEF Lanes
    <3>2. \A i \in DOMAIN high' : high'[i].after > 0 =>
             LowTaken <= high'[i].after /\ high'[i].after <= LowTaken + Len(low)
      BY <1>0, <1>a, <1>b, <1>c, <1>h, <2>1 DEF Lanes
    <3>3. \A i, j \in DOMAIN high' :
             i <= j /\ high'[i].after > 0 /\ high'[j].after > 0
               => high'[i].after <= high'[j].after
      <4> SUFFICES ASSUME NEW i \in DOMAIN high', NEW j \in DOMAIN high',
                          i <= j, high'[i].after > 0, high'[j].after > 0
                   PROVE  high'[i].after <= high'[j].after
        OBVIOUS
      <4>1. CASE j \in 1 .. Len(high)
        BY <1>a, <1>b, <1>h, <2>1, <4>1 DEF Lanes
      <4>2. CASE j = Len(high) + 1 /\ i \in 1 .. Len(high)
        <5>1. high'[j].after = nextLow
          BY <1>0, <1>h, <2>1, <4>2
        <5> QED
          BY <1>a, <1>b, <1>c, <1>h, <2>1, <4>2, <5>1 DEF Lanes
      <4>3. CASE i = Len(high) + 1 /\ j = Len(high) + 1
        BY <1>0, <1>b, <1>h, <2>1, <4>3
      <4> QED
        BY <1>b, <1>h, <2>1, <4>1, <4>2, <4>3
    <3> QED
      BY <1>0, <1>a, <1>c, <1>h, <2>1, <3>1, <3>2, <3>3 DEF Lanes
  <2>2. CASE f.low # 0
    <3>1. \A i \in DOMAIN low' :
             low'[i].low = LowTaken + i /\ low'[i].after = 0 /\ low'[i].enc = 0
      <4> SUFFICES ASSUME NEW i \in DOMAIN low'
                   PROVE  low'[i].low = LowTaken + i /\ low'[i].after = 0
                            /\ low'[i].enc = 0
        OBVIOUS
      <4>1. CASE i \in 1 .. Len(low)
        BY <1>a, <1>b, <1>l, <2>2, <4>1 DEF Lanes
      <4>2. CASE i = Len(low) + 1
        BY <1>0, <1>b, <1>c, <1>l, <2>2, <4>2
      <4> QED
        BY <1>b, <1>l, <2>2, <4>1, <4>2
    <3>2. \A i \in DOMAIN high : high[i].after > 0 =>
             LowTaken <= high[i].after /\ high[i].after <= LowTaken + Len(low')
      BY <1>a, <1>b, <1>l, <2>2 DEF Lanes, Frame
    <3> QED
      <4>1. /\ high' = high /\ LowTaken' = LowTaken
            /\ nextLow' = LowTaken + Len(low')
            /\ LowTaken + Len(low') \in Nat
        BY <1>0, <1>b, <1>c, <1>l, <2>2
      <4>2. LowTaken + Len(low') <= nextLow'
        BY <4>1
      <4> QED
        BY <1>a, <3>1, <3>2, <4>1, <4>2 DEF Lanes
  <2> QED
    BY <2>1, <2>2
<1>2. Hands'
  <2>1. wpc' \notin {"exit", "shut", "done"}
    BY <1>0, <1>a DEF Hands
  <2>2. direct = NoFrame
    BY <1>0, <1>a DEF Hands
  <2> QED
    BY <1>0, <1>a, <2>1, <2>2 DEF Hands, Ended
<1>3. Arrived'
  <2>1. BarrierOrdersWire'
    BY <1>0, <1>a DEF Arrived, BarrierOrdersWire
  <2> QED
    BY <1>0, <1>a, <2>1 DEF Arrived, OnWire
<1>4. Torn'
  BY <1>0, <1>a DEF Torn, TornFrameEndsStream
<1>5. Ciphers'
  <2>1. LastOnWire' = LastOnWire /\ LastTaken' = LastTaken
    BY <1>0 DEF LastOnWire, LastTaken
  <2>2. cipher = LastQueued
    BY <1>0, <1>a DEF Ciphers
  <2>3. Follows(cipher, f.enc)
    BY <1>0, <1>a DEF Ciphers, Follows
  <2>4. cipher' = LastQueued'
    <3>1. CASE f.low = 0
      <4>1. LastQueued' = f.enc
        BY <1>h, <1>b, <3>1 DEF LastQueued
      <4>2. ~encrypted => cipher = 0
        BY <1>a DEF Ciphers
      <4> QED
        BY <1>0, <4>1, <4>2
    <3>2. CASE f.low # 0
      BY <1>0, <1>l, <2>1, <2>2, <3>2 DEF LastQueued
    <3> QED
      BY <3>1, <3>2
  <2>5. \A i \in 2 .. Len(high') : Follows(high'[i - 1].enc, high'[i].enc)
    <3>1. CASE f.low = 0
      <4> SUFFICES ASSUME NEW i \in 2 .. Len(high')
                   PROVE  Follows(high'[i - 1].enc, high'[i].enc)
        OBVIOUS
      <4>1. CASE i \in 2 .. Len(high)
        BY <1>a, <1>b, <1>h, <3>1, <4>1 DEF Ciphers
      <4>2. CASE i = Len(high) + 1
        <5>1. high # << >> /\ high'[i - 1] = high[Len(high)] /\ high'[i] = f
          BY <1>a, <1>b, <1>h, <3>1, <4>2, LaneFacts
        <5> QED
          BY <2>2, <2>3, <5>1 DEF LastQueued
      <4> QED
        BY <1>b, <1>h, <3>1, <4>1, <4>2
    <3>2. CASE f.low # 0
      BY <1>a, <1>l, <3>2 DEF Ciphers
    <3> QED
      BY <3>1, <3>2
  <2>6. high' # << >> => Follows(LastTaken, high'[1].enc)
    <3>1. CASE f.low = 0 /\ high = << >>
      <4>1. Len(high) = 0 /\ high'[1] = f
        BY <1>b, <1>h, <3>1
      <4> QED
        BY <2>2, <2>3, <3>1, <4>1 DEF LastQueued
    <3>2. CASE f.low = 0 /\ high # << >>
      <4>1. high'[1] = high[1]
        BY <1>a, <1>b, <1>h, <3>2, LaneFacts
      <4> QED
        BY <1>a, <3>2, <4>1 DEF Ciphers
    <3>3. CASE f.low # 0
      BY <1>a, <1>l, <3>3 DEF Ciphers
    <3> QED
      BY <3>1, <3>2, <3>3
  <2>7. (~encrypted' => cipher' = 0) /\ (encrypted' => nextLow' = 0)
    <3>0. (encrypted => nextLow' = 0) /\ (encrypted' => encrypted)
      BY <1>0, <1>a, <1>h, <1>l DEF Ciphers
    <3>1. ~encrypted' => cipher' = 0
      <4>1. ~encrypted => cipher = 0
        BY <1>a DEF Ciphers
      <4> QED
        BY <1>0, <4>1
    <3>2. encrypted' => nextLow' = 0
      BY <3>0
    <3> QED
      BY <3>1, <3>2
  <2>8. ~encrypted' => \A i \in DOMAIN high' : high'[i].enc = 0
    <3>1. ~encrypted => f.enc = 0 /\ \A i \in DOMAIN high : high[i].enc = 0
      BY <1>0, <1>a DEF Ciphers
    <3>2. ~encrypted' => ~encrypted
      BY <1>0
    <3>3. \A i \in DOMAIN high' : high'[i] = f \/ \E j \in DOMAIN high : high'[i] = high[j]
      BY <1>p
    <3> QED
      BY <3>1, <3>2, <3>3
  <2> QED
    BY <1>0, <1>a, <2>1, <2>4, <2>5, <2>6, <2>7, <2>8 DEF Ciphers, Follows
<1>6. Distinct'
  <2>1. f.id \notin accepted
    BY <1>0, <1>a DEF Distinct, TypeOK
  <2>2. InFlightIds' = InFlightIds /\ WholeIds' = WholeIds
    BY <1>0 DEF InFlightIds, WholeIds
  <2>3. IF f.low = 0
          THEN Ids(high') = Ids(high) \cup {f.id} /\ low' = low
          ELSE Ids(low') = Ids(low) \cup {f.id} /\ high' = high
    BY <1>0, <1>a, BytesAppend DEF TypeOK
  <2>4. Apart'
    BY <1>0, <1>a, <2>1, <2>2, <2>3 DEF Distinct, Apart
  <2>5. \A id \in accepted' : id <= encoded'
    BY <1>0, <1>a DEF Distinct, TypeOK
  <2>6. Ids(high) \subseteq accepted /\ Ids(low) \subseteq accepted
    BY <1>a DEF Distinct, Apart
  <2>7. \A i, j \in DOMAIN high' : high'[i].id = high'[j].id => i = j
    <3>1. CASE f.low = 0
      <4>1. \A i \in DOMAIN high : high[i].id # f.id
        BY <2>1, <2>6 DEF Ids
      <4> QED
        BY <1>a, <1>p, <4>1 DEF Distinct
    <3>2. CASE f.low # 0
      BY <1>a, <1>l, <3>2 DEF Distinct
    <3> QED
      BY <3>1, <3>2
  <2>8. \A i, j \in DOMAIN low' : low'[i].id = low'[j].id => i = j
    <3>1. CASE f.low # 0
      <4>1. \A i \in DOMAIN low : low[i].id # f.id
        BY <2>1, <2>6 DEF Ids
      <4> QED
        BY <1>a, <1>q, <4>1 DEF Distinct
    <3>2. CASE f.low = 0
      BY <1>a, <1>h, <3>2 DEF Distinct
    <3> QED
      BY <3>1, <3>2
  <2> QED
    BY <2>4, <2>5, <2>7, <2>8 DEF Distinct
<1>7. Counted'
  <2>1. f.id \notin Ids(high) \cup Ids(low)
    BY <1>0, <1>a DEF Distinct, Apart, TypeOK
  <2>2. Bytes(high') \cup Bytes(low') = (Bytes(high) \cup Bytes(low)) \cup FrameBytes(f)
    BY ZenonT(60), <1>0, <1>a, BytesAppend DEF TypeOK
  <2>3. (Bytes(high) \cup Bytes(low)) \cap FrameBytes(f) = {}
    <3> SUFFICES ASSUME NEW x \in Bytes(high) \cup Bytes(low), x \in FrameBytes(f)
                 PROVE  FALSE
      OBVIOUS
    <3>1. x[1] = f.id
      BY DEF FrameBytes
    <3> QED
      BY <2>1, <3>1, BytesOfIds
  <2>4. IsFiniteSet(FrameBytes(f)) /\ Cardinality(FrameBytes(f)) = f.size
    BY <1>0, FrameBytesSize
  <2>5. IsFiniteSet(Bytes(high) \cup Bytes(low))
    BY <1>a, FS_Union DEF Counted
  <2>6. Cardinality((Bytes(high) \cup Bytes(low)) \cup FrameBytes(f)) = queuedBytes + f.size
    <3>1. Cardinality((Bytes(high) \cup Bytes(low)) \cup FrameBytes(f))
            = queuedBytes + f.size - Cardinality({})
      <4> DEFINE S == Bytes(high) \cup Bytes(low)
      <4>1. Cardinality(S) = queuedBytes
        BY <1>a DEF Counted, QueueAccounting
      <4> HIDE DEF S
      <4>2. Cardinality(S \cup FrameBytes(f))
              = Cardinality(S) + Cardinality(FrameBytes(f)) - Cardinality(S \cap FrameBytes(f))
        BY <2>4, <2>5, FS_Union DEF S
      <4> QED
        BY <2>3, <2>4, <4>1, <4>2 DEF S
    <3>2. queuedBytes \in Int /\ f.size \in Int
      BY <1>0, <1>a, SizeType DEF TypeOK
    <3> QED
      BY <3>1, <3>2, FS_EmptySet
  <2>7. IsFiniteSet(Bytes(high')) /\ IsFiniteSet(Bytes(low'))
    <3>1. \/ Bytes(high') = Bytes(high) \cup FrameBytes(f) /\ low' = low
          \/ Bytes(low') = Bytes(low) \cup FrameBytes(f) /\ high' = high
      BY <1>0, <1>a, BytesAppend DEF TypeOK
    <3>2. /\ IsFiniteSet(Bytes(high)) /\ IsFiniteSet(Bytes(high) \cup FrameBytes(f))
          /\ IsFiniteSet(Bytes(low)) /\ IsFiniteSet(Bytes(low) \cup FrameBytes(f))
      BY <1>a, <2>4, FS_Union DEF Counted
    <3> QED
      BY <3>1, <3>2
  <2>8. queuedBytes' <= MaxQueuedBytes
    <3>1. f.size \in Nat /\ MaxQueuedBytes \in Nat /\ queuedBytes \in Int
      BY <1>0, <1>a, SizeType DEF TypeOK
    <3> QED
      BY <1>0, <3>1
  <2> QED
    BY <1>0, <2>2, <2>6, <2>7, <2>8 DEF Counted, QueueAccounting
<1> QED
  BY <1>1, <1>2, <1>3, <1>4, <1>5, <1>6, <1>7 DEF Flow

----------------------------------------------------------------------------

LEMMA DisjointUnion ==
    ASSUME NEW S, NEW T, IsFiniteSet(S), IsFiniteSet(T), S \cap T = {}
    PROVE  /\ Cardinality(S) \in Nat /\ Cardinality(T) \in Nat
           /\ Cardinality(S \cup T) = Cardinality(S) + Cardinality(T)
<1>1. Cardinality(S) \in Nat /\ Cardinality(T) \in Nat
  BY FS_CardinalityType
<1>2. Cardinality(S \cup T) = Cardinality(S) + Cardinality(T) - Cardinality(S \cap T)
  BY FS_Union
<1>3. Cardinality(S \cap T) = 0
  BY FS_EmptySet
<1> QED
  BY <1>1, <1>2, <1>3

\* What the writer does with the frame it takes off a lane.
Taken(f) ==
    /\ f \in Frame /\ wpc = "ready" /\ wpc' = "send" /\ wframe' = f
    /\ \/ /\ high # << >> /\ f = Head(high) /\ high' = Tail(high) /\ low' = low
          /\ f.after <= doneLow
       \/ /\ low # << >> /\ f = Head(low) /\ low' = Tail(low) /\ high' = high
          /\ high # << >> => high[1].after > doneLow
    /\ queuedBytes' = queuedBytes - f.size
    /\ started /\ direct = NoFrame /\ ~directFailed
    /\ \A t \in Threads : pc[t] # "direct"
    /\ nextLow' = nextLow /\ doneLow' = doneLow
    /\ started' = started /\ stop' = stop /\ pc' = pc
    /\ direct' = direct /\ directFailed' = directFailed
    /\ encrypted' = encrypted /\ encoded' = encoded /\ cipher' = cipher
    /\ fd' = fd /\ wire' = wire /\ accepted' = accepted /\ cut' = cut

LEMMA TakenFacts ==
    ASSUME FInv, WriterTake
    PROVE  \E f \in Frame : Taken(f)
<1> USE DEF FInv, IInv
<1>1. TypeOK /\ Hands /\ Control
  BY DEF Flow
<1>2. wpc = "ready" /\ wpc' = "send" /\ started
  BY <1>1 DEF WriterTake, WriterRuns, Control, WriterStarted
<1>3. \A t \in Threads : pc[t] # "direct"
  BY <1>1, <1>2 DEF Control, CloseFdIsLast
<1>4. direct = NoFrame /\ ~directFailed
  BY <1>1, <1>2, <1>3 DEF Hands
<1>5. /\ nextLow' = nextLow /\ doneLow' = doneLow
      /\ started' = started /\ stop' = stop /\ pc' = pc
      /\ direct' = direct /\ directFailed' = directFailed
      /\ encrypted' = encrypted /\ encoded' = encoded /\ cipher' = cipher
      /\ fd' = fd /\ wire' = wire /\ accepted' = accepted /\ cut' = cut
      /\ queuedBytes' = queuedBytes - wframe'.size
  BY DEF WriterTake, descriptor, callers, sending, framing, history
<1>6. high \in Seq(Frame) /\ low \in Seq(Frame) /\ doneLow \in Nat
  BY <1>1 DEF TypeOK
<1>7. CASE TakesHigh
  <2>1. high # << >> /\ wframe' = Head(high) /\ high' = Tail(high) /\ low' = low
    BY <1>7 DEF WriterTake, TakesHigh
  <2>2. Head(high) \in Frame
    BY <1>6, <2>1, TailFacts
  <2>3. Head(high).after <= doneLow
    BY <1>6, <1>7, <2>1, <2>2 DEF TakesHigh, BarrierBlocked, Frame
  <2> QED
    BY <1>2, <1>3, <1>4, <1>5, <2>1, <2>2, <2>3 DEF Taken
<1>8. CASE ~TakesHigh
  <2>1. low # << >> /\ wframe' = Head(low) /\ low' = Tail(low) /\ high' = high
    BY <1>8 DEF WriterTake, CanTake, TakesLow
  <2>2. Head(low) \in Frame
    BY <1>6, <2>1, TailFacts
  <2>3. high # << >> => high[1].after > doneLow
    BY <1>6, <1>8, TailFacts DEF TakesHigh, BarrierBlocked
  <2> QED
    BY <1>2, <1>3, <1>4, <1>5, <2>1, <2>2, <2>3 DEF Taken
<1> QED
  BY <1>7, <1>8

LEMMA TakenCounted ==
    ASSUME FInv, NEW f, Taken(f)
    PROVE  Counted'
<1>1. /\ f \in Frame /\ queuedBytes' = queuedBytes - f.size
      /\ \/ high # << >> /\ f = Head(high) /\ high' = Tail(high) /\ low' = low
         \/ low # << >> /\ f = Head(low) /\ low' = Tail(low) /\ high' = high
  BY DEF Taken
<1>2. /\ high \in Seq(Frame) /\ low \in Seq(Frame) /\ queuedBytes \in Int
      /\ \A i, j \in DOMAIN high : high[i].id = high[j].id => i = j
      /\ \A i, j \in DOMAIN low : low[i].id = low[j].id => i = j
      /\ Ids(high) \cap Ids(low) = {}
  BY DEF FInv, IInv, Flow, TypeOK, Distinct, Apart
<1>3. Counted
  BY DEF FInv
<1> DEFINE S == Bytes(high) \cup Bytes(low)
<1> DEFINE R == Bytes(high') \cup Bytes(low')
<1>4. /\ S = R \cup FrameBytes(f)
      /\ f.id \notin Ids(high') \cup Ids(low')
      /\ Bytes(high') \subseteq Bytes(high) /\ Bytes(low') \subseteq Bytes(low)
  <2>1. CASE high # << >> /\ f = Head(high) /\ high' = Tail(high) /\ low' = low
    <3>1. /\ Bytes(high) = Bytes(high') \cup FrameBytes(f)
          /\ Ids(high) = Ids(high') \cup {f.id} /\ f.id \notin Ids(high')
      BY <1>2, <2>1, BytesTail
    <3> QED
      BY <1>2, <2>1, <3>1
  <2>2. CASE low # << >> /\ f = Head(low) /\ low' = Tail(low) /\ high' = high
    <3>1. /\ Bytes(low) = Bytes(low') \cup FrameBytes(f)
          /\ Ids(low) = Ids(low') \cup {f.id} /\ f.id \notin Ids(low')
      BY <1>2, <2>2, BytesTail
    <3> QED
      BY <1>2, <2>2, <3>1
  <2> QED
    BY <1>1, <2>1, <2>2
<1>5. R \cap FrameBytes(f) = {}
  <2> SUFFICES ASSUME NEW x \in R, x \in FrameBytes(f) PROVE FALSE
    OBVIOUS
  <2>1. x[1] = f.id
    BY DEF FrameBytes
  <2> QED
    BY <1>4, <2>1, BytesOfIds
<1>6. IsFiniteSet(Bytes(high')) /\ IsFiniteSet(Bytes(low')) /\ IsFiniteSet(R)
  <2>1. IsFiniteSet(Bytes(high')) /\ IsFiniteSet(Bytes(low'))
    BY <1>3, <1>4, FS_Subset DEF Counted
  <2> QED
    BY <2>1, FS_Union
<1>7. IsFiniteSet(FrameBytes(f)) /\ Cardinality(FrameBytes(f)) = f.size
  BY <1>1, FrameBytesSize
<1>8. Cardinality(S) = queuedBytes /\ queuedBytes <= MaxQueuedBytes
  BY <1>3 DEF Counted, QueueAccounting
<1> HIDE DEF S, R
<1>9. /\ Cardinality(R) \in Nat /\ f.size \in Nat
      /\ Cardinality(S) = Cardinality(R) + f.size
  BY <1>4, <1>5, <1>6, <1>7, DisjointUnion
<1>10. Cardinality(R) = queuedBytes' /\ queuedBytes' <= MaxQueuedBytes
  <2>1. MaxQueuedBytes \in Nat
    BY ConnectionAssumption
  <2> QED
    BY <1>1, <1>2, <1>8, <1>9, <2>1
<1> QED
  BY <1>6, <1>10 DEF Counted, QueueAccounting, R

LEMMA TakenFlow ==
    ASSUME FInv, NEW f, Taken(f)
    PROVE  Flow'
<1>0. /\ f \in Frame /\ wpc = "ready" /\ wpc' = "send" /\ wframe' = f
      /\ started /\ direct = NoFrame /\ ~directFailed
      /\ \A t \in Threads : pc[t] # "direct"
      /\ nextLow' = nextLow /\ doneLow' = doneLow
      /\ started' = started /\ stop' = stop /\ pc' = pc
      /\ direct' = direct /\ directFailed' = directFailed
      /\ encrypted' = encrypted /\ encoded' = encoded /\ cipher' = cipher
      /\ fd' = fd /\ wire' = wire /\ accepted' = accepted /\ cut' = cut
  BY DEF Taken
<1>a. TypeOK /\ Lanes /\ Hands /\ Arrived /\ Torn /\ Ciphers /\ Distinct
  BY DEF FInv, IInv, Flow
<1>b. /\ DOMAIN high = 1 .. Len(high) /\ Len(high) \in Nat
      /\ DOMAIN low = 1 .. Len(low) /\ Len(low) \in Nat
      /\ \A i \in 1 .. Len(high) : high[i] \in Frame
      /\ \A i \in 1 .. Len(low) : low[i] \in Frame
      /\ high # << >> <=> Len(high) >= 1
      /\ doneLow \in Nat /\ nextLow \in Nat
      /\ LowTaken = doneLow /\ Reached = doneLow /\ Reached' = doneLow
      /\ LastTaken = LastOnWire /\ LastOnWire' = LastOnWire
      /\ LastTaken' = f.enc
      /\ Ended' = Ended
  BY <1>0, <1>a, LaneFacts
     DEF TypeOK, LowTaken, Reached, InHand, LastTaken, LastOnWire, Ended, Closing
<1>h. ASSUME high # << >> /\ f = Head(high) /\ high' = Tail(high) /\ low' = low,
             f.after <= doneLow
      PROVE  /\ f = high[1] /\ 1 \in DOMAIN high /\ low' = low
             /\ Len(high') = Len(high) - 1 /\ DOMAIN high' = 1 .. Len(high) - 1
             /\ high' # << >> <=> Len(high) >= 2
             /\ \A i \in 1 .. Len(high) - 1 : high'[i] = high[i + 1]
             /\ f.after > 0 => f.after = doneLow
             /\ f.low = 0 /\ LowTaken' = doneLow
  <2>1. /\ f = high[1] /\ 1 \in DOMAIN high
        /\ Len(high') = Len(high) - 1 /\ DOMAIN high' = 1 .. Len(high) - 1
        /\ \A i \in 1 .. Len(high) - 1 : high'[i] = high[i + 1]
        /\ high' \in Seq(Frame)
    BY <1>a, <1>b, <1>h, TailFacts DEF TypeOK
  <2>2. high' # << >> <=> Len(high) >= 2
    BY <1>b, <2>1, EmptySeq
  <2>3. f.low = 0 /\ (f.after > 0 => doneLow <= f.after)
    BY <1>a, <1>b, <2>1 DEF Lanes
  <2>4. f.after > 0 => f.after = doneLow
    BY <1>0, <1>b, <1>h, <2>3 DEF Frame
  <2>5. LowTaken' = doneLow
    BY <1>0, <2>3 DEF LowTaken, InHand
  <2> QED
    BY <1>h, <2>1, <2>2, <2>3, <2>4, <2>5
<1>l. ASSUME low # << >> /\ f = Head(low) /\ low' = Tail(low) /\ high' = high,
             high # << >> => high[1].after > doneLow
      PROVE  /\ f = low[1] /\ 1 \in DOMAIN low /\ high' = high
             /\ Len(low') = Len(low) - 1 /\ DOMAIN low' = 1 .. Len(low) - 1
             /\ \A i \in 1 .. Len(low) - 1 : low'[i] = low[i + 1]
             /\ f.low = doneLow + 1 /\ f.after = 0 /\ f.enc = 0
             /\ LowTaken' = doneLow + 1 /\ ~encrypted
  <2>1. /\ f = low[1] /\ 1 \in DOMAIN low /\ Len(low) >= 1
        /\ Len(low') = Len(low) - 1 /\ DOMAIN low' = 1 .. Len(low) - 1
        /\ \A i \in 1 .. Len(low) - 1 : low'[i] = low[i + 1]
    BY <1>a, <1>b, <1>l, TailFacts DEF TypeOK
  <2>2. f.low = doneLow + 1 /\ f.after = 0 /\ f.enc = 0
    BY <1>a, <1>b, <2>1 DEF Lanes
  <2>3. LowTaken' = doneLow + 1
    BY <1>0, <1>b, <2>2 DEF LowTaken, InHand
  <2>4. doneLow + Len(low) <= nextLow /\ (encrypted => nextLow = 0)
    BY <1>a, <1>b DEF Lanes, Ciphers
  <2>5. nextLow # 0
    BY <1>b, <2>1, <2>4
  <2> QED
    BY <1>l, <2>1, <2>2, <2>3, <2>4, <2>5
<1>c. \/ /\ high # << >> /\ f = Head(high) /\ high' = Tail(high) /\ low' = low
         /\ f.after <= doneLow
      \/ /\ low # << >> /\ f = Head(low) /\ low' = Tail(low) /\ high' = high
         /\ high # << >> => high[1].after > doneLow
  BY DEF Taken
<1>1. Lanes'
  <2>1. CASE high # << >> /\ f = Head(high) /\ high' = Tail(high) /\ low' = low
               /\ f.after <= doneLow
    <3>1. \A i \in DOMAIN low' :
             low'[i].low = LowTaken' + i /\ low'[i].after = 0 /\ low'[i].enc = 0
      BY <1>a, <1>b, <1>h, <2>1 DEF Lanes
    <3>2. \A i \in DOMAIN high' : i + 1 \in DOMAIN high /\ high'[i] = high[i + 1]
      BY <1>b, <1>h, <2>1
    <3>3. \A i \in DOMAIN high' : high'[i].low = 0
      BY <1>a, <3>2 DEF Lanes
    <3>4. \A i \in DOMAIN high' : high'[i].after > 0 =>
             LowTaken' <= high'[i].after /\ high'[i].after <= LowTaken' + Len(low')
      BY <1>a, <1>b, <1>h, <2>1, <3>2 DEF Lanes
    <3>5. \A i, j \in DOMAIN high' :
             i <= j /\ high'[i].after > 0 /\ high'[j].after > 0
               => high'[i].after <= high'[j].after
      <4>1. \A i, j \in DOMAIN high' : i <= j => i + 1 <= j + 1
        BY <1>h, <1>b, <2>1
      <4> QED
        BY <1>a, <3>2, <4>1 DEF Lanes
    <3>6. /\ LowTaken' + Len(low') <= nextLow'
          /\ ~Ended' => nextLow' = LowTaken' + Len(low')
      BY <1>0, <1>a, <1>b, <1>h, <2>1 DEF Lanes
    <3> QED
      BY <3>1, <3>3, <3>4, <3>5, <3>6 DEF Lanes
  <2>2. CASE low # << >> /\ f = Head(low) /\ low' = Tail(low) /\ high' = high
               /\ (high # << >> => high[1].after > doneLow)
    <3>1. \A i \in DOMAIN low' :
             low'[i].low = LowTaken' + i /\ low'[i].after = 0 /\ low'[i].enc = 0
      <4> SUFFICES ASSUME NEW i \in DOMAIN low'
                   PROVE  low'[i].low = LowTaken' + i /\ low'[i].after = 0
                            /\ low'[i].enc = 0
        OBVIOUS
      <4>1. i + 1 \in DOMAIN low /\ low'[i] = low[i + 1] /\ i \in Nat
        BY <1>b, <1>l, <2>2
      <4>2. low[i + 1].low = doneLow + (i + 1)
        BY <1>a, <1>b, <4>1 DEF Lanes
      <4> QED
        BY <1>a, <1>b, <1>l, <2>2, <4>1, <4>2 DEF Lanes
    <3>2. LowTaken' + Len(low') = doneLow + Len(low)
      BY <1>b, <1>l, <2>2
    <3>3. \A i \in DOMAIN high : high[i].after > 0 =>
             LowTaken' <= high[i].after /\ high[i].after <= LowTaken' + Len(low')
      <4> SUFFICES ASSUME NEW i \in DOMAIN high, high[i].after > 0
                   PROVE  LowTaken' <= high[i].after
                            /\ high[i].after <= LowTaken' + Len(low')
        OBVIOUS
      <4>1. 1 \in DOMAIN high /\ 1 <= i /\ high # << >>
        BY <1>b
      <4>2. high[1].after > doneLow /\ high[1].after > 0 /\ high[1] \in Frame
        BY <1>b, <2>2, <4>1 DEF Frame
      <4>3. high[1].after <= high[i].after
        BY <1>a, <4>1, <4>2 DEF Lanes
      <4>4. high[i].after \in Nat /\ high[1].after \in Nat
        BY <1>b, <4>2 DEF Frame
      <4>5. high[i].after <= doneLow + Len(low)
        BY <1>a, <1>b DEF Lanes
      <4> QED
        BY <1>b, <1>l, <2>2, <3>2, <4>2, <4>3, <4>4, <4>5
    <3>6. /\ LowTaken' + Len(low') <= nextLow'
          /\ ~Ended' => nextLow' = LowTaken' + Len(low')
      BY <1>0, <1>a, <1>b, <3>2 DEF Lanes
    <3> QED
      BY <1>a, <2>2, <3>1, <3>3, <3>6 DEF Lanes
  <2> QED
    BY <1>c, <2>1, <2>2
<1>2. Hands'
  <2>1. f.low # 0 => f.low = doneLow + 1 /\ f.after = 0 /\ f.enc = 0
    BY <1>c, <1>h, <1>l
  <2> QED
    BY <1>0, <2>1 DEF Hands
<1>3. Arrived'
  <2>1. f.after > 0 => f.after = doneLow
    BY <1>c, <1>h, <1>l
  <2>2. BarrierOrdersWire'
    BY <1>0, <1>a DEF Arrived, BarrierOrdersWire
  <2> QED
    BY <1>0, <1>a, <1>b, <2>1, <2>2 DEF Arrived
<1>4. Torn'
  BY <1>0, <1>a DEF Torn, TornFrameEndsStream
<1>5. Ciphers'
  <2>1. /\ Follows(LastOnWire, f.enc) /\ LastQueued' = LastQueued
        /\ \A i \in 2 .. Len(high') : Follows(high'[i - 1].enc, high'[i].enc)
        /\ high' # << >> => Follows(f.enc, high'[1].enc)
        /\ \A i \in DOMAIN high' : \E j \in DOMAIN high : high'[i] = high[j]
        /\ ~encrypted => f.enc = 0
    <3>1. CASE high # << >> /\ f = Head(high) /\ high' = Tail(high) /\ low' = low
                 /\ f.after <= doneLow
      <4>1. Follows(LastOnWire, f.enc)
        BY <1>a, <1>b, <1>h, <3>1 DEF Ciphers
      <4>2. LastQueued' = LastQueued
        <5>1. CASE Len(high) >= 2
          BY <1>b, <1>h, <3>1, <5>1 DEF LastQueued
        <5>2. CASE Len(high) = 1
          BY <1>b, <1>h, <3>1, <5>2 DEF LastQueued
        <5> QED
          BY <1>b, <3>1, <5>1, <5>2
      <4>3. \A i \in 2 .. Len(high') : Follows(high'[i - 1].enc, high'[i].enc)
        <5>1. \A i \in 2 .. Len(high') : /\ high'[i - 1] = high[i]
                                         /\ high'[i] = high[i + 1]
                                         /\ i + 1 \in 2 .. Len(high)
                                         /\ (i + 1) - 1 = i
          BY <1>b, <1>h, <3>1
        <5> QED
          BY <1>a, <5>1 DEF Ciphers
      <4>4. high' # << >> => Follows(f.enc, high'[1].enc)
        <5>1. high' # << >> => 2 \in 2 .. Len(high) /\ high'[1] = high[2] /\ 2 - 1 = 1
          BY <1>b, <1>h, <3>1
        <5> QED
          BY <1>a, <1>h, <3>1, <5>1 DEF Ciphers
      <4>5. \A i \in DOMAIN high' : \E j \in DOMAIN high : high'[i] = high[j]
        <5>1. \A i \in DOMAIN high' : i + 1 \in DOMAIN high /\ high'[i] = high[i + 1]
          BY <1>b, <1>h, <3>1
        <5> QED
          BY <5>1
      <4>6. ~encrypted => f.enc = 0
        BY <1>a, <1>h, <3>1 DEF Ciphers
      <4> QED
        BY <4>1, <4>2, <4>3, <4>4, <4>5, <4>6
    <3>2. CASE low # << >> /\ f = Head(low) /\ low' = Tail(low) /\ high' = high
                 /\ (high # << >> => high[1].after > doneLow)
      <4>1. LastOnWire = 0
        <5>1. wire # << >> => Len(wire) \in DOMAIN wire
          BY <1>a, LaneFacts
        <5> QED
          BY <1>a, <1>l, <3>2, <5>1 DEF Ciphers, LastOnWire
      <4>2. f.enc = 0 /\ high' = high
        BY <1>l, <3>2
      <4>3. LastTaken' = LastTaken
        BY <1>b, <4>1, <4>2
      <4>4. LastQueued' = LastQueued
        BY <4>2, <4>3 DEF LastQueued
      <4> QED
        BY <1>a, <1>b, <4>1, <4>2, <4>4 DEF Ciphers, Follows
    <3> QED
      BY <1>c, <3>1, <3>2
  <2>2. ~encrypted' => /\ cipher' = 0
                       /\ \A i \in DOMAIN wire' : wire'[i].enc = 0
                       /\ \A i \in DOMAIN high' : high'[i].enc = 0
                       /\ wframe'.enc = 0
    BY <1>0, <1>a, <2>1 DEF Ciphers
  <2> QED
    BY <1>0, <1>a, <1>b, <2>1, <2>2 DEF Ciphers
<1>6. Distinct'
  <2>1. InFlightIds = {} /\ InFlightIds' = {f.id} /\ WholeIds' = WholeIds
    BY <1>0 DEF InFlightIds, WholeIds
  <2>2. CASE high # << >> /\ f = Head(high) /\ high' = Tail(high) /\ low' = low
               /\ f.after <= doneLow
    <3>1. Ids(high) = Ids(high') \cup {f.id} /\ f.id \notin Ids(high')
      BY <1>a, <2>2, BytesTail DEF TypeOK, Distinct
    <3>2. \A i, j \in DOMAIN high' : high'[i].id = high'[j].id => i = j
      <4>1. \A i \in DOMAIN high' :
               i + 1 \in DOMAIN high /\ high'[i] = high[i + 1] /\ i \in Nat
        BY <1>b, <1>h, <2>2
      <4> QED
        BY <1>a, <4>1 DEF Distinct
    <3>3. Apart'
      BY <1>0, <1>a, <2>1, <2>2, <3>1 DEF Distinct, Apart
    <3> QED
      BY <1>0, <1>a, <2>2, <3>2, <3>3 DEF Distinct
  <2>3. CASE low # << >> /\ f = Head(low) /\ low' = Tail(low) /\ high' = high
               /\ (high # << >> => high[1].after > doneLow)
    <3>1. Ids(low) = Ids(low') \cup {f.id} /\ f.id \notin Ids(low')
      BY <1>a, <2>3, BytesTail DEF TypeOK, Distinct
    <3>2. \A i, j \in DOMAIN low' : low'[i].id = low'[j].id => i = j
      <4>1. \A i \in DOMAIN low' :
               i + 1 \in DOMAIN low /\ low'[i] = low[i + 1] /\ i \in Nat
        BY <1>b, <1>l, <2>3
      <4> QED
        BY <1>a, <4>1 DEF Distinct
    <3>3. Apart'
      BY <1>0, <1>a, <2>1, <2>3, <3>1 DEF Distinct, Apart
    <3> QED
      BY <1>0, <1>a, <2>3, <3>2, <3>3 DEF Distinct
  <2> QED
    BY <1>c, <2>2, <2>3
<1> QED
  BY <1>1, <1>2, <1>3, <1>4, <1>5, <1>6 DEF Flow

----------------------------------------------------------------------------

\* While somebody may write, every frame on the wire is whole.
LEMMA WireIsWhole ==
    ASSUME TypeOK, Torn, wpc \notin {"failed", "exit", "shut", "done"},
           wpc = "none" => ~Ended
    PROVE  \A j \in DOMAIN wire : wire[j].whole
<1> SUFFICES ASSUME NEW j \in DOMAIN wire, ~wire[j].whole PROVE FALSE
  OBVIOUS
<1>1. j = Len(wire) /\ wire # << >>
  BY LaneFacts DEF Torn, TornFrameEndsStream
<1> QED
  BY <1>1 DEF Torn

\* A frame, whole or torn, reaches the end of a stream of whole frames.
LEMMA WireGrows ==
    ASSUME FInv, NEW f \in Frame, NEW c \in BOOLEAN,
           wire' = Append(wire, OnWire(f, c)), doneLow' = doneLow,
           \A j \in DOMAIN wire : wire[j].whole,
           f.after > 0 => f.after = doneLow, Reached = doneLow,
           Follows(LastOnWire, f.enc), f.id \notin WholeIds
    PROVE  /\ \A n \in 1 .. doneLow :
                 \E j \in DOMAIN wire' : wire'[j].low = n /\ wire'[j].whole
           /\ \A j \in DOMAIN wire' : wire'[j].whole =>
                 wire'[j].low <= doneLow \/ wire'[j].low = f.low
           /\ BarrierOrdersWire' /\ TornFrameEndsStream'
           /\ wire' # << >> /\ wire'[Len(wire')] = OnWire(f, c)
           /\ \A i \in 2 .. Len(wire') : Follows(wire'[i - 1].enc, wire'[i].enc)
           /\ Follows(0, wire'[1].enc) /\ LastOnWire' = f.enc
           /\ \A i \in DOMAIN wire' : wire'[i].enc = f.enc
                 \/ \E j \in DOMAIN wire : wire'[i].enc = wire[j].enc
           /\ WholeIds' = WholeIds \cup (IF c THEN {f.id} ELSE {})
           /\ \A i, j \in DOMAIN wire' : wire'[i].whole /\ wire'[j].whole
                 /\ wire'[i].id = wire'[j].id => i = j
<1> DEFINE w == OnWire(f, c)
<1>a. TypeOK /\ Arrived /\ Ciphers /\ Distinct
  BY DEF FInv, IInv, Flow
<1>w. /\ w.low = f.low /\ w.after = f.after /\ w.enc = f.enc /\ w.id = f.id
      /\ w.whole = c /\ w \in WireFrame /\ w.after \in Nat /\ w.low \in Nat
  BY OnWireType DEF OnWire, Frame
<1> HIDE DEF w
<1>b. /\ DOMAIN wire = 1 .. Len(wire) /\ Len(wire) \in Nat
      /\ Len(wire') = Len(wire) + 1 /\ DOMAIN wire' = 1 .. Len(wire) + 1
      /\ \A i \in 1 .. Len(wire) : wire'[i] = wire[i]
      /\ wire'[Len(wire) + 1] = w /\ wire' # << >>
      /\ wire # << >> <=> Len(wire) >= 1
      /\ doneLow \in Nat
  <2>1. wire \in Seq(WireFrame) /\ wire' = Append(wire, w) /\ doneLow \in Nat
    BY <1>a DEF TypeOK, w
  <2>2. Len(wire') = Len(wire) + 1
    BY <1>w, <2>1, AppendFacts
  <2> QED
    BY <1>a, <1>w, <2>1, <2>2, AppendFacts, LaneFacts
<1>1. \A n \in 1 .. doneLow :
         \E j \in 1 .. Len(wire) : wire'[j].low = n /\ wire'[j].whole
  BY SMTT(30), <1>a, <1>b DEF Arrived
<1>2. \A j \in 1 .. Len(wire) : wire'[j].low <= doneLow
  BY <1>a, <1>b DEF Arrived
<1>3. BarrierOrdersWire'
  <2> SUFFICES ASSUME NEW i \in DOMAIN wire', wire'[i].after > 0
               PROVE  /\ \A n \in 1 .. wire'[i].after :
                            \E j \in 1 .. i - 1 : wire'[j].low = n /\ wire'[j].whole
                      /\ \A j \in 1 .. i - 1 : wire'[j].low <= wire'[i].after
    BY DEF BarrierOrdersWire
  <2>1. CASE i \in 1 .. Len(wire)
    <3>1. /\ wire'[i] = wire[i] /\ i \in DOMAIN wire /\ wire[i].after > 0
          /\ \A j \in 1 .. i - 1 : wire'[j] = wire[j]
      BY <1>b, <2>1
    <3> QED
      BY <1>a, <3>1 DEF Arrived, BarrierOrdersWire
  <2>2. CASE i = Len(wire) + 1
    <3>1. wire'[i].after = doneLow /\ i - 1 = Len(wire)
      BY <1>b, <1>w, <2>2
    <3> QED
      BY <1>1, <1>2, <3>1
  <2> QED
    BY <1>b, <2>1, <2>2
<1>4. TornFrameEndsStream'
  BY <1>b DEF TornFrameEndsStream
<1>5. \A i \in 2 .. Len(wire') : Follows(wire'[i - 1].enc, wire'[i].enc)
  <2> SUFFICES ASSUME NEW i \in 2 .. Len(wire')
               PROVE  Follows(wire'[i - 1].enc, wire'[i].enc)
    OBVIOUS
  <2>1. CASE i \in 2 .. Len(wire)
    BY <1>a, <1>b, <2>1 DEF Ciphers
  <2>2. CASE i = Len(wire) + 1
    <3>0. i - 1 = Len(wire) /\ Len(wire) >= 1 /\ Len(wire) \in 1 .. Len(wire)
      BY <1>b, <2>2
    <3>1. wire'[i - 1] = wire[Len(wire)] /\ wire'[i] = w /\ wire # << >>
      BY <1>b, <2>2, <3>0
    <3> QED
      BY <1>w, <3>1 DEF LastOnWire
  <2> QED
    BY <1>b, <2>1, <2>2
<1>6. Follows(0, wire'[1].enc)
  <2>1. CASE wire = << >>
    <3>1. wire'[1] = w /\ LastOnWire = 0
      BY <1>b, <2>1 DEF LastOnWire
    <3> QED
      BY <1>w, <3>1
  <2>2. CASE wire # << >>
    BY <1>a, <1>b, <2>2 DEF Ciphers
  <2> QED
    BY <2>1, <2>2
<1>7. LastOnWire' = f.enc
  BY <1>b, <1>w DEF LastOnWire
<1>8. WholeIds' = WholeIds \cup (IF c THEN {f.id} ELSE {})
  <2>1. DOMAIN wire' = DOMAIN wire \cup {Len(wire) + 1}
    BY <1>b
  <2>2. \A i \in DOMAIN wire : wire'[i] = wire[i]
    BY <1>b
  <2> QED
    BY <1>b, <1>w, <2>1, <2>2 DEF WholeIds
<1>9. \A i, j \in DOMAIN wire' : wire'[i].whole /\ wire'[j].whole
                 /\ wire'[i].id = wire'[j].id => i = j
  <2>1. \A i \in DOMAIN wire : wire[i].id # f.id
    BY DEF WholeIds
  <2>2. \A i, j \in DOMAIN wire : wire[i].id = wire[j].id => i = j
    BY <1>a DEF Distinct, Apart
  <2> QED
    BY <1>b, <1>w, <2>1, <2>2
<1>10. \A j \in DOMAIN wire' : wire'[j].whole =>
                 wire'[j].low <= doneLow \/ wire'[j].low = f.low
  BY <1>b, <1>w, <1>2
<1>11. \A i \in DOMAIN wire' : wire'[i].enc = f.enc
                 \/ \E j \in DOMAIN wire : wire'[i].enc = wire[j].enc
  BY <1>b, <1>w
<1>12. \A n \in 1 .. doneLow :
                 \E j \in DOMAIN wire' : wire'[j].low = n /\ wire'[j].whole
  BY <1>b, <1>1
<1> QED
  BY <1>b, <1>3, <1>4, <1>5, <1>6, <1>7, <1>8, <1>9, <1>10, <1>11, <1>12 DEF w

\* Nobody sends directly beside the writer.
LEMMA WriterAlone ==
    ASSUME FInv, wpc # "none"
    PROVE  /\ started /\ direct = NoFrame /\ fd # "closed" /\ ~Closing
           /\ ~directFailed /\ \A t \in Threads : pc[t] # "direct"
<1>1. started /\ fd # "closed" /\ ~Closing /\ \A t \in Threads : pc[t] # "direct"
  BY DEF FInv, IInv, Control, WriterStarted, CloseFdIsLast, ClosedIsQuiet, Closing
<1> QED
  BY <1>1 DEF FInv, Flow, Hands

LEMMA SendOkFlow ==
    ASSUME FInv, WriterSendOk
    PROVE  Flow' /\ Counted'
<1>a. /\ TypeOK /\ Lanes /\ Hands /\ Arrived /\ Torn /\ Ciphers /\ Distinct
      /\ Counted /\ FramesInHand
  BY DEF FInv, IInv, Flow
<1>0. /\ wpc = "send" /\ wpc' = "sent" /\ wframe' = wframe
      /\ wire' = Append(wire, OnWire(wframe, TRUE))
      /\ fd' = fd /\ high' = high /\ low' = low /\ queuedBytes' = queuedBytes
      /\ nextLow' = nextLow /\ doneLow' = doneLow
      /\ started' = started /\ stop' = stop /\ pc' = pc
      /\ direct' = direct /\ directFailed' = directFailed
      /\ encrypted' = encrypted /\ encoded' = encoded /\ cipher' = cipher
      /\ accepted' = accepted /\ cut' = cut
  BY DEF WriterSendOk, descriptor, queues, callers, sending, framing
<1>1. /\ started /\ direct = NoFrame /\ ~directFailed
      /\ \A t \in Threads : pc[t] # "direct"
  BY <1>0, WriterAlone
<1>2. wframe \in Frame /\ InHand /\ InHand'
  BY <1>a, <1>0 DEF FramesInHand, InHand
<1>3. InFlightIds = {wframe.id} /\ InFlightIds' = {}
  BY <1>0, <1>1 DEF InFlightIds
<1>4. /\ Reached = doneLow /\ LowTaken' = LowTaken
      /\ Reached' = IF wframe.low # 0 THEN wframe.low ELSE doneLow
      /\ LastTaken = wframe.enc /\ LastTaken' = LastOnWire' /\ Ended' = Ended
  BY <1>0 DEF Reached, LowTaken, InHand, LastTaken, Ended, Closing
<1>5. \A j \in DOMAIN wire : wire[j].whole
  BY <1>a, <1>0, WireIsWhole
<1>6. /\ wframe.after > 0 => wframe.after = doneLow
      /\ Follows(LastOnWire, wframe.enc) /\ wframe.id \notin WholeIds
  BY <1>a, <1>0, <1>3 DEF Arrived, Ciphers, Distinct, Apart
<1>7. /\ \A n \in 1 .. doneLow :
            \E j \in DOMAIN wire' : wire'[j].low = n /\ wire'[j].whole
      /\ \A j \in DOMAIN wire' : wire'[j].whole =>
            wire'[j].low <= doneLow \/ wire'[j].low = wframe.low
      /\ BarrierOrdersWire' /\ TornFrameEndsStream'
      /\ wire' # << >> /\ wire'[Len(wire')] = OnWire(wframe, TRUE)
      /\ \A i \in 2 .. Len(wire') : Follows(wire'[i - 1].enc, wire'[i].enc)
      /\ Follows(0, wire'[1].enc) /\ LastOnWire' = wframe.enc
      /\ \A i \in DOMAIN wire' : wire'[i].enc = wframe.enc
            \/ \E j \in DOMAIN wire : wire'[i].enc = wire[j].enc
      /\ WholeIds' = WholeIds \cup {wframe.id}
      /\ \A i, j \in DOMAIN wire' : wire'[i].whole /\ wire'[j].whole
            /\ wire'[i].id = wire'[j].id => i = j
  BY <1>0, <1>2, <1>4, <1>5, <1>6, WireGrows
<1>8. Lanes'
  BY <1>a, <1>0, <1>4 DEF Lanes
<1>9. Hands'
  BY <1>a, <1>0, <1>1, <1>2 DEF Hands
<1>10. Arrived'
  <2>1. doneLow \in Nat /\ wframe.low \in Nat
    BY <1>a, <1>2 DEF TypeOK, Frame
  <2>2. doneLow <= Reached' /\ wframe.low <= Reached'
    BY <1>a, <1>0, <1>2, <1>4, <2>1 DEF Hands
  <2>3. \A j \in DOMAIN wire' : wire'[j].whole => wire'[j].low <= Reached'
    <3> SUFFICES ASSUME NEW j \in DOMAIN wire', wire'[j].whole
                 PROVE  wire'[j].low <= Reached'
      OBVIOUS
    <3>1. Reached' \in Nat /\ wire'[j].low \in Nat
      <4>1. wire \in Seq(WireFrame) /\ OnWire(wframe, TRUE) \in WireFrame
        BY <1>a, <1>2, OnWireType DEF TypeOK
      <4>2. wire' \in Seq(WireFrame)
        BY <1>0, <4>1, AppendFacts
      <4>3. wire'[j] \in WireFrame
        BY <4>2, ElementOfSeq, LenProperties
      <4>4. wire'[j].low \in Nat
        BY <4>3 DEF WireFrame
      <4> QED
        BY <1>4, <2>1, <4>4
    <3> QED
      BY <1>7, <2>1, <2>2, <3>1
  <2> QED
    BY <1>0, <1>7, <2>3 DEF Arrived
<1>11. Torn'
  <2>1. wire'[Len(wire')].whole
    BY <1>7 DEF OnWire
  <2> QED
    BY <1>0, <1>7, <2>1 DEF Torn
<1>12. Ciphers'
  <2>1. LastTaken' = LastTaken /\ LastQueued' = LastQueued
    BY <1>0, <1>4, <1>7 DEF LastQueued
  <2>2. ~encrypted => wframe.enc = 0 /\ \A i \in DOMAIN wire' : wire'[i].enc = 0
    BY <1>a, <1>2, <1>7 DEF Ciphers
  <2> QED
    BY <1>a, <1>0, <1>4, <1>7, <2>1, <2>2 DEF Ciphers
<1>13. Distinct'
  <2>1. Ids(high)' = Ids(high) /\ Ids(low)' = Ids(low)
    BY <1>0 DEF Ids
  <2>2. Apart'
    BY <1>a, <1>0, <1>3, <1>7, <2>1 DEF Distinct, Apart
  <2> QED
    BY <1>a, <1>0, <2>2 DEF Distinct
<1>14. Counted'
  BY <1>a, <1>0 DEF Counted, QueueAccounting, Bytes
<1> QED
  BY <1>8, <1>9, <1>10, <1>11, <1>12, <1>13, <1>14 DEF Flow

LEMMA SendFailFlow ==
    ASSUME FInv, WriterSendFail
    PROVE  Flow' /\ Counted'
<1>a. /\ TypeOK /\ Lanes /\ Hands /\ Arrived /\ Torn /\ Ciphers /\ Distinct
      /\ Counted /\ FramesInHand
  BY DEF FInv, IInv, Flow
<1>0. /\ wpc = "send" /\ wpc' = "failed" /\ wframe' = wframe
      /\ wire' = wire \/ wire' = Append(wire, OnWire(wframe, FALSE))
      /\ high' = high /\ low' = low /\ queuedBytes' = queuedBytes
      /\ nextLow' = nextLow /\ doneLow' = doneLow
      /\ started' = started /\ stop' = stop /\ pc' = pc
      /\ direct' = direct /\ directFailed' = directFailed
      /\ encrypted' = encrypted /\ encoded' = encoded /\ cipher' = cipher
      /\ accepted' = accepted /\ cut' = cut /\ fd' = ShutDown(fd)
  BY DEF WriterSendFail, descriptor, queues, callers, sending, framing
<1>1. /\ started /\ direct = NoFrame /\ ~directFailed /\ fd # "closed" /\ ~Closing
      /\ \A t \in Threads : pc[t] # "direct"
  BY <1>0, WriterAlone
<1>2. wframe \in Frame /\ InHand /\ InHand'
  BY <1>a, <1>0 DEF FramesInHand, InHand
<1>3. InFlightIds = {wframe.id} /\ InFlightIds' = {wframe.id}
  BY <1>0, <1>1 DEF InFlightIds
<1>4. /\ Reached = doneLow /\ LowTaken' = LowTaken /\ Reached' = doneLow
      /\ LastTaken = wframe.enc /\ LastTaken' = wframe.enc
  BY <1>0 DEF Reached, LowTaken, InHand, LastTaken
<1>d. Ended' <=> Ended
  BY <1>0, <1>1 DEF Ended, Closing, ShutDown
<1>5. \A j \in DOMAIN wire : wire[j].whole
  BY <1>a, <1>0, WireIsWhole
<1>6. /\ wframe.after > 0 => wframe.after = doneLow
      /\ Follows(LastOnWire, wframe.enc) /\ wframe.id \notin WholeIds
  BY <1>a, <1>0, <1>3 DEF Arrived, Ciphers, Distinct, Apart
<1>7. /\ \A n \in 1 .. doneLow :
            \E j \in DOMAIN wire' : wire'[j].low = n /\ wire'[j].whole
      /\ \A j \in DOMAIN wire' : wire'[j].whole => wire'[j].low <= doneLow
      /\ BarrierOrdersWire' /\ TornFrameEndsStream'
      /\ \A i \in 2 .. Len(wire') : Follows(wire'[i - 1].enc, wire'[i].enc)
      /\ wire' # << >> => Follows(0, wire'[1].enc)
      /\ \A i \in DOMAIN wire' : wire'[i].enc = wframe.enc
            \/ \E j \in DOMAIN wire : wire'[i].enc = wire[j].enc
      /\ WholeIds' = WholeIds
      /\ \A i, j \in DOMAIN wire' : wire'[i].whole /\ wire'[j].whole
            /\ wire'[i].id = wire'[j].id => i = j
  <2>1. CASE wire' = wire
    <3>1. BarrierOrdersWire' /\ TornFrameEndsStream' /\ WholeIds' = WholeIds
      BY <1>a, <2>1 DEF Arrived, BarrierOrdersWire, Torn, TornFrameEndsStream, WholeIds
    <3> QED
      BY <1>a, <1>4, <2>1, <3>1 DEF Arrived, Ciphers, Distinct, Apart
  <2>2. CASE wire' = Append(wire, OnWire(wframe, FALSE))
    <3>1. WholeIds' = WholeIds \cup {}
      BY <1>0, <1>2, <1>4, <1>5, <1>6, <2>2, WireGrows
    <3>2. \A j \in DOMAIN wire' : wire'[j].whole => wire'[j].low <= doneLow
      <4> DEFINE w == OnWire(wframe, FALSE)
      <4>1. wire \in Seq(WireFrame) /\ w \in WireFrame /\ ~w.whole
        <5>1. w \in WireFrame
          BY <1>2, OnWireType
        <5>2. ~w.whole
          BY DEF OnWire
        <5> QED
          BY <1>a, <5>1, <5>2 DEF TypeOK
      <4>2. wire' = Append(wire, w)
        BY <2>2
      <4> HIDE DEF w
      <4>3. /\ DOMAIN wire = 1 .. Len(wire) /\ Len(wire) \in Nat
            /\ DOMAIN wire' = 1 .. Len(wire) + 1
            /\ \A i \in 1 .. Len(wire) : wire'[i] = wire[i]
            /\ wire'[Len(wire) + 1] = w
        BY <4>1, <4>2, AppendFacts
      <4>4. \A j \in DOMAIN wire : wire[j].whole => wire[j].low <= doneLow
        BY <1>a, <1>4 DEF Arrived
      <4>5. \A j \in DOMAIN wire' : j = Len(wire) + 1 \/ j \in DOMAIN wire
        BY <4>3
      <4> QED
        BY <4>1, <4>3, <4>4, <4>5
    <3> QED
      BY <1>0, <1>2, <1>4, <1>5, <1>6, <2>2, <3>1, <3>2, WireGrows
  <2> QED
    BY <1>0, <2>1, <2>2
<1>8. Lanes'
  BY <1>a, <1>0, <1>4, <1>d DEF Lanes
<1>9. Hands'
  BY <1>a, <1>0, <1>1, <1>2 DEF Hands
<1>10. Arrived'
  BY <1>0, <1>4, <1>7 DEF Arrived
<1>11. Torn'
  BY <1>0, <1>7 DEF Torn
<1>12. Ciphers'
  <2>1. LastTaken' = LastTaken /\ LastQueued' = LastQueued
    BY <1>0, <1>4 DEF LastQueued
  <2>2. ~encrypted => wframe.enc = 0 /\ \A i \in DOMAIN wire' : wire'[i].enc = 0
    BY <1>a, <1>2, <1>7 DEF Ciphers
  <2> QED
    BY <1>a, <1>0, <1>7, <1>d, <2>1, <2>2 DEF Ciphers
<1>13. Distinct'
  <2>1. Ids(high)' = Ids(high) /\ Ids(low)' = Ids(low)
    BY <1>0 DEF Ids
  <2>2. Apart'
    BY <1>a, <1>0, <1>3, <1>7, <2>1 DEF Distinct, Apart
  <2> QED
    BY <1>a, <1>0, <2>2 DEF Distinct
<1>14. Counted'
  BY <1>a, <1>0 DEF Counted, QueueAccounting, Bytes
<1> QED
  BY <1>8, <1>9, <1>10, <1>11, <1>12, <1>13, <1>14 DEF Flow

----------------------------------------------------------------------------

LEMMA SentFlow ==
    ASSUME FInv, WriterSent
    PROVE  Flow' /\ Counted'
<1>a. /\ TypeOK /\ Lanes /\ Hands /\ Arrived /\ Torn /\ Ciphers /\ Distinct
      /\ Counted /\ FramesInHand
  BY DEF FInv, IInv, Flow
<1>0. /\ wpc = "sent" /\ wpc' = "ready"
      /\ doneLow' = (IF wframe.low # 0 THEN wframe.low ELSE doneLow)
      /\ high' = high /\ low' = low /\ queuedBytes' = queuedBytes
      /\ nextLow' = nextLow /\ wire' = wire /\ fd' = fd
      /\ started' = started /\ stop' = stop /\ pc' = pc
      /\ direct' = direct /\ directFailed' = directFailed
      /\ encrypted' = encrypted /\ encoded' = encoded /\ cipher' = cipher
      /\ accepted' = accepted /\ cut' = cut
  BY DEF WriterSent, descriptor, callers, sending, framing, history
<1>1. /\ started /\ direct = NoFrame /\ ~directFailed
      /\ \A t \in Threads : pc[t] # "direct"
  BY <1>0, WriterAlone
<1>2. wframe \in Frame /\ InHand /\ ~InHand'
  BY <1>a, <1>0 DEF FramesInHand, InHand
<1>3. InFlightIds' = InFlightIds /\ WholeIds' = WholeIds
  BY <1>0, <1>1 DEF InFlightIds, WholeIds
<1>4. /\ LowTaken' = LowTaken /\ Reached' = Reached /\ Reached = doneLow'
      /\ LastOnWire' = LastOnWire
      /\ LastTaken = LastOnWire /\ LastTaken' = LastOnWire /\ Ended' = Ended
  BY <1>0, <1>2
     DEF Reached, LowTaken, InHand, LastTaken, LastOnWire, Ended, Closing
<1>8. Lanes'
  BY <1>a, <1>0, <1>4 DEF Lanes
<1>9. Hands'
  BY <1>a, <1>0, <1>1, <1>2 DEF Hands
<1>10. Arrived'
  <2>1. BarrierOrdersWire'
    BY <1>a, <1>0 DEF Arrived, BarrierOrdersWire
  <2>2. \A n \in 1 .. doneLow' : \E j \in DOMAIN wire : wire[j].low = n /\ wire[j].whole
    <3>1. doneLow \in Nat /\ (wframe.low # 0 => wframe.low = doneLow + 1)
      BY <1>a, <1>2 DEF TypeOK, Hands
    <3>2. \A n \in 1 .. doneLow' : n \in 1 .. doneLow \/ n = wframe.low
      <4>1. CASE wframe.low = 0
        BY <1>0, <4>1
      <4>2. CASE wframe.low # 0
        <5>1. doneLow' = doneLow + 1 /\ wframe.low = doneLow + 1
          BY <1>0, <3>1, <4>2
        <5> QED
          BY <3>1, <5>1
      <4> QED
        BY <4>1, <4>2
    <3>3. Len(wire) \in DOMAIN wire /\ wire[Len(wire)] = OnWire(wframe, TRUE)
      <4>1. wire # << >> /\ wire[Len(wire)] = OnWire(wframe, TRUE)
        BY <1>a, <1>0 DEF Arrived
      <4>2. Len(wire) >= 1 /\ Len(wire) \in Nat /\ DOMAIN wire = 1 .. Len(wire)
        BY <1>a, <4>1, LaneFacts
      <4> QED
        BY <4>1, <4>2
    <3>4. wire[Len(wire)].low = wframe.low /\ wire[Len(wire)].whole
      BY <3>3 DEF OnWire
    <3>5. \A n \in 1 .. doneLow : \E j \in DOMAIN wire : wire[j].low = n /\ wire[j].whole
      BY <1>a DEF Arrived
    <3> QED
      BY <3>2, <3>3, <3>4, <3>5
  <2> QED
    BY <1>a, <1>0, <1>4, <2>1, <2>2 DEF Arrived
<1>11. Torn'
  BY <1>a, <1>0 DEF Torn, TornFrameEndsStream
<1>12. Ciphers'
  <2>1. LastQueued' = LastQueued
    BY <1>0, <1>4 DEF LastQueued
  <2> QED
    BY <1>a, <1>0, <1>2, <1>4, <2>1 DEF Ciphers
<1>13. Distinct'
  <2>1. Ids(high)' = Ids(high) /\ Ids(low)' = Ids(low)
    BY <1>0 DEF Ids
  <2>2. Apart'
    BY <1>a, <1>0, <1>3, <2>1 DEF Distinct, Apart
  <2> QED
    BY <1>a, <1>0, <2>2 DEF Distinct
<1>14. Counted'
  BY <1>a, <1>0 DEF Counted, QueueAccounting, Bytes
<1> QED
  BY <1>8, <1>9, <1>10, <1>11, <1>12, <1>13, <1>14 DEF Flow

LEMMA EmptyCounted ==
    ASSUME high' = << >>, low' = << >>, queuedBytes' = 0
    PROVE  Counted'
<1>1. Bytes(high') = {} /\ Bytes(low') = {}
  BY EmptyLane
<1>2. IsFiniteSet({}) /\ Cardinality({}) = 0 /\ MaxQueuedBytes \in Nat
  BY FS_EmptySet, ConnectionAssumption
<1>3. Bytes(high') \cup Bytes(low') = {}
  BY <1>1
<1>4. 0 <= MaxQueuedBytes
  BY <1>2
<1> QED
  BY <1>1, <1>2, <1>3, <1>4 DEF Counted, QueueAccounting

LEMMA FailedFlow ==
    ASSUME FInv, WriterFailed
    PROVE  Flow' /\ Counted'
<1>a. /\ TypeOK /\ Lanes /\ Hands /\ Arrived /\ Torn /\ Ciphers /\ Distinct
      /\ Counted /\ FramesInHand
  BY DEF FInv, IInv, Flow
<1>0. /\ wpc = "failed" /\ wpc' = "exit" /\ stop' = TRUE
      /\ high' = << >> /\ low' = << >> /\ queuedBytes' = 0
      /\ cut' = cut \cup Ids(high) \cup Ids(low) \cup {wframe.id}
      /\ nextLow' = nextLow /\ doneLow' = doneLow /\ wire' = wire
      /\ started' = started /\ pc' = pc
      /\ direct' = direct /\ directFailed' = directFailed
      /\ encrypted' = encrypted /\ encoded' = encoded /\ cipher' = cipher
      /\ accepted' = accepted
  BY DEF WriterFailed, callers, sending, framing
<1>1. /\ started /\ direct = NoFrame /\ ~directFailed
      /\ \A t \in Threads : pc[t] # "direct"
  BY <1>0, WriterAlone
<1>2. wframe \in Frame /\ InHand /\ ~InHand' /\ Ended'
  BY <1>a, <1>0 DEF FramesInHand, InHand, Ended
<1>3. /\ InFlightIds = {wframe.id} /\ InFlightIds' = {} /\ WholeIds' = WholeIds
      /\ Ids(high') = {} /\ Ids(low') = {}
  BY <1>0, <1>1, EmptyLane DEF InFlightIds, WholeIds
<1>4. LowTaken' = doneLow /\ Reached = doneLow /\ Reached' = doneLow
  BY <1>0, <1>2 DEF Reached, LowTaken, InHand
<1>5. DOMAIN high' = {} /\ DOMAIN low' = {} /\ Len(low') = 0 /\ Len(high') = 0
  BY <1>0
<1>8. Lanes'
  <2>1. doneLow <= nextLow
    <3>1. /\ doneLow \in Nat /\ nextLow \in Nat /\ Len(low) \in Nat
          /\ LowTaken + Len(low) <= nextLow
      BY <1>a, LaneFacts DEF TypeOK, Lanes
    <3>2. LowTaken = doneLow \/ LowTaken = doneLow + 1
      BY <1>a, <1>2 DEF LowTaken, Hands
    <3> QED
      BY <3>1, <3>2
  <2>2. LowTaken' + Len(low') <= nextLow'
    BY <1>a, <1>0, <1>4, <1>5, <2>1 DEF TypeOK
  <2> QED
    BY <1>2, <1>5, <2>2 DEF Lanes
<1>9. Hands'
  BY <1>a, <1>0, <1>1, <1>2 DEF Hands, QueueEmpty
<1>10. Arrived'
  <2>1. BarrierOrdersWire'
    BY <1>a, <1>0 DEF Arrived, BarrierOrdersWire
  <2> QED
    BY <1>a, <1>0, <1>4, <2>1 DEF Arrived
<1>11. Torn'
  BY <1>a, <1>0 DEF Torn, TornFrameEndsStream
<1>12. Ciphers'
  <2>1. \A i \in 2 .. Len(high') : FALSE
    BY <1>5
  <2> QED
    BY <1>a, <1>0, <1>2, <1>5, <2>1 DEF Ciphers
<1>13. Distinct'
  <2>2. Apart'
    BY <1>a, <1>0, <1>3 DEF Distinct, Apart
  <2> QED
    BY <1>a, <1>0, <1>5, <2>2 DEF Distinct
<1>14. Counted'
  BY <1>0, EmptyCounted
<1> QED
  BY <1>8, <1>9, <1>10, <1>11, <1>12, <1>13, <1>14 DEF Flow

\* Both lanes are given up by somebody who ends the sending.
Dropped ==
    /\ high' = << >> /\ low' = << >> /\ queuedBytes' = 0
    /\ cut' = cut \cup Ids(high) \cup Ids(low)
    /\ nextLow' = nextLow /\ doneLow' = doneLow /\ wire' = wire
    /\ started' = started /\ wpc' = wpc /\ wframe' = wframe
    /\ \A u \in Threads : pc'[u] = "direct" <=> pc[u] = "direct"
    /\ direct' = direct /\ directFailed' = directFailed
    /\ encrypted' = encrypted /\ accepted' = accepted
    /\ encoded \in Nat /\ encoded' \in Nat /\ encoded <= encoded'
    /\ encrypted \/ cipher' = cipher
    /\ Ended' /\ (stop => stop') /\ (stop' => stop \/ started)

LEMMA DroppedFlow ==
    ASSUME FInv, Dropped
    PROVE  Flow' /\ Counted'
<1>a. /\ TypeOK /\ Lanes /\ Hands /\ Arrived /\ Torn /\ Ciphers /\ Distinct
      /\ Counted /\ FramesInHand
  BY DEF FInv, IInv, Flow
<1>0. /\ high' = << >> /\ low' = << >> /\ queuedBytes' = 0
      /\ cut' = cut \cup Ids(high) \cup Ids(low)
      /\ nextLow' = nextLow /\ doneLow' = doneLow /\ wire' = wire
      /\ started' = started /\ wpc' = wpc /\ wframe' = wframe
      /\ \A u \in Threads : pc'[u] = "direct" <=> pc[u] = "direct"
      /\ direct' = direct /\ directFailed' = directFailed
      /\ encrypted' = encrypted /\ accepted' = accepted
      /\ encoded \in Nat /\ encoded' \in Nat /\ encoded <= encoded'
      /\ encrypted \/ cipher' = cipher
      /\ Ended' /\ (stop => stop') /\ (stop' => stop \/ started)
  BY DEF Dropped
<1>3. /\ InFlightIds' = InFlightIds /\ WholeIds' = WholeIds
      /\ Ids(high') = {} /\ Ids(low') = {}
  BY <1>0, EmptyLane DEF InFlightIds, WholeIds
<1>4. /\ LowTaken' = LowTaken /\ Reached' = Reached /\ InHand' = InHand
      /\ LastOnWire' = LastOnWire
  BY <1>0 DEF Reached, LowTaken, InHand, LastOnWire
<1>5. DOMAIN high' = {} /\ DOMAIN low' = {} /\ Len(low') = 0 /\ Len(high') = 0
  BY <1>0
<1>8. Lanes'
  <2>1. LowTaken' + Len(low') <= nextLow'
    <3>1. /\ LowTaken \in Nat /\ nextLow \in Nat /\ Len(low) \in Nat
          /\ LowTaken + Len(low) <= nextLow
      BY <1>a, LaneFacts DEF TypeOK, Lanes, LowTaken, FramesInHand, InHand, Frame
    <3> QED
      BY <1>0, <1>4, <1>5, <3>1
  <2> QED
    BY <1>0, <1>5, <2>1 DEF Lanes
<1>9. Hands'
  <2>1. wpc' \in {"exit", "shut", "done"} => QueueEmpty' /\ stop'
    BY <1>a, <1>0 DEF Hands, QueueEmpty
  <2>2. ~started' => QueueEmpty' /\ queuedBytes' = 0 /\ ~stop'
    BY <1>a, <1>0 DEF Hands, QueueEmpty
  <2>3. directFailed' => ~started'
    BY <1>a, <1>0 DEF Hands
  <2>4. direct' # NoFrame => \E t \in Threads : pc'[t] = "direct"
    BY <1>a, <1>0 DEF Hands
  <2>5. \A t \in Threads : pc'[t] = "direct" =>
          /\ direct'.low = 0 /\ direct'.after = 0 /\ direct'.enc = 0
          /\ ~directFailed'
    BY <1>a, <1>0 DEF Hands
  <2>6. InHand' /\ wframe'.low # 0 =>
          wframe'.low = doneLow' + 1 /\ wframe'.after = 0 /\ wframe'.enc = 0
    BY <1>a, <1>0, <1>4 DEF Hands
  <2> QED
    BY <2>1, <2>2, <2>3, <2>4, <2>5, <2>6 DEF Hands
<1>10. Arrived'
  <2>1. BarrierOrdersWire'
    BY <1>a, <1>0 DEF Arrived, BarrierOrdersWire
  <2> QED
    BY <1>a, <1>0, <1>4, <2>1 DEF Arrived, OnWire
<1>11. Torn'
  BY <1>a, <1>0 DEF Torn, TornFrameEndsStream
<1>12. Ciphers'
  <2>1. \A i \in 2 .. Len(high') : FALSE
    BY <1>5
  <2>2. ~encrypted' => cipher' = 0
    BY <1>a, <1>0 DEF Ciphers
  <2>3. ~encrypted' => \A i \in DOMAIN wire' : wire'[i].enc = 0
    BY <1>a, <1>0 DEF Ciphers
  <2>4. ~encrypted' => (InHand' => wframe'.enc = 0)
    BY <1>a, <1>0, <1>4 DEF Ciphers
  <2>5. encrypted' => nextLow' = 0
    BY <1>a, <1>0 DEF Ciphers
  <2>6. \A i \in 2 .. Len(wire') : Follows(wire'[i - 1].enc, wire'[i].enc)
    BY <1>a, <1>0 DEF Ciphers
  <2>7. (wire' # << >> => Follows(0, wire'[1].enc))
        /\ (wpc' = "send" => Follows(LastOnWire', wframe'.enc))
    BY <1>a, <1>0, <1>4 DEF Ciphers
  <2> QED
    BY <1>0, <1>5, <2>1, <2>2, <2>3, <2>4, <2>5, <2>6, <2>7 DEF Ciphers
<1>13. Distinct'
  <2>1. Apart'
    BY <1>a, <1>0, <1>3 DEF Distinct, Apart
  <2>2. \A id \in accepted : id <= encoded'
    BY <1>a, <1>0 DEF Distinct, TypeOK
  <2> QED
    BY <1>a, <1>0, <1>5, <2>1, <2>2 DEF Distinct
<1>14. Counted'
  BY <1>0, EmptyCounted
<1> QED
  BY <1>8, <1>9, <1>10, <1>11, <1>12, <1>13, <1>14 DEF Flow

LEMMA OverflowDrops ==
    ASSUME FInv, NEW t \in Threads, NEW size \in Sizes, SendOverflows(t, size)
    PROVE  Dropped
<1>1. TypeOK /\ Hands
  BY DEF FInv, IInv, Flow
<1>2. started
  <2>1. queuedBytes > MaxQueuedBytes - size
    BY DEF SendOverflows, Overflows
  <2>2. size \in Nat /\ MaxQueuedBytes \in Nat /\ size <= MaxQueuedBytes
    BY SizeType
  <2>3. queuedBytes # 0
    BY <2>1, <2>2
  <2> QED
    BY <1>1, <2>3 DEF Hands
<1>3. /\ encoded \in Nat /\ encoded' = encoded + 1
      /\ encrypted \/ cipher' = cipher
  BY <1>1 DEF SendOverflows, Encode, TypeOK
<1>4. /\ high' = << >> /\ low' = << >> /\ queuedBytes' = 0
      /\ cut' = cut \cup Ids(high) \cup Ids(low)
      /\ nextLow' = nextLow /\ doneLow' = doneLow /\ wire' = wire
      /\ started' = started /\ wpc' = wpc /\ wframe' = wframe
      /\ pc' = pc /\ direct' = direct /\ directFailed' = directFailed
      /\ encrypted' = encrypted /\ accepted' = accepted /\ stop' = TRUE
  BY DEF SendOverflows, DropQueue, sending
<1>5. Ended'
  BY <1>4 DEF Ended
<1>6. encoded' \in Nat /\ encoded <= encoded'
  BY <1>3
<1> QED
  BY <1>2, <1>3, <1>4, <1>5, <1>6 DEF Dropped

LEMMA TeardownDrops ==
    ASSUME FInv, NEW t \in Threads,
           \/ BeginStop(t) /\ ~(UNCHANGED <<high, low, queuedBytes, cut>>)
           \/ CutTail(t),
           Ended => Ended'
    PROVE  Dropped
<1>1. TypeOK /\ Hands /\ Control
  BY DEF FInv, IInv, Flow
<1>2. /\ nextLow' = nextLow /\ doneLow' = doneLow /\ wire' = wire
      /\ started' = started /\ wpc' = wpc /\ wframe' = wframe
      /\ direct' = direct /\ directFailed' = directFailed
      /\ encrypted' = encrypted /\ accepted' = accepted
      /\ encoded' = encoded /\ cipher' = cipher
  BY DEF BeginStop, CutTail, descriptor, sending, framing, writer
<1>3. DropQueue
  BY DEF BeginStop, CutTail
<1>4. \A u \in Threads : pc'[u] = "direct" <=> pc[u] = "direct"
  <2>1. /\ \A u \in Threads : u # t => pc'[u] = pc[u]
        /\ pc[t] # "direct" /\ pc'[t] # "direct"
    BY <1>1 DEF BeginStop, CutTail, Goto, TypeOK
  <2> QED
    BY <2>1
<1>5. (stop => stop') /\ (stop' => stop \/ started)
  BY <1>1 DEF BeginStop, CutTail, writer, TypeOK
<1>6. Ended'
  <2>1. CASE CutTail(t)
    <3>1. stop
      BY <2>1 DEF FInv, Stopping, CutTail
    <3> QED
      BY <1>5, <3>1 DEF Ended
  <2>2. CASE ~CutTail(t)
    <3>1. BeginStop(t) /\ ~(UNCHANGED <<high, low, queuedBytes, cut>>)
      BY <2>2
    <3>2. stop' = TRUE
      BY <3>1 DEF BeginStop
    <3> QED
      BY <3>2 DEF Ended
  <2> QED
    BY <2>1, <2>2
<1>7. encoded \in Nat
  BY <1>1 DEF TypeOK
<1> QED
  BY <1>2, <1>3, <1>4, <1>5, <1>6, <1>7 DEF Dropped, DropQueue

LEMMA StoppingKept ==
    ASSUME IInv, Stopping, [Next]_vars
    PROVE  Stopping'
<1> DEFINE Places == {"notifyClose", "notifyAbort", "drain", "cut", "join"}
<1> USE DEF IInv, descriptor, queues, writer, callers, sending, framing, history
<1>0. /\ NoThread \notin Threads /\ pc \in [Threads -> CallerStates]
      /\ \A u \in Threads : pc[u] \in Places => tx = u /\ started /\ stop
      /\ \A u \in Threads : pc[u] \in InsideTx => tx = u
  BY ConnectionAssumption DEF TypeOK, Control, TxHeldInside, InsideTx, Stopping
<1>1. CASE WriterNext
  <2>1. pc' = pc /\ started' = started /\ (stop' = stop \/ stop' = TRUE)
    BY <1>1 DEF WriterNext, WriterTake, WriterSleep, WriterStops, WriterSendOk,
                WriterSendFail, WriterSent, WriterFailed, WriterExit, WriterShut
  <2>2. (started => started') /\ (stop => stop')
    BY <2>1
  <2> QED
    BY <2>1, <2>2 DEF Stopping
<1>2. ASSUME NEW t \in Threads, SendStep(t) \/ DirectStep(t)
      PROVE  Stopping'
  <2>1. \A u \in Threads : pc[u] \notin Places
    <3>1. tx = NoThread \/ (tx = t /\ pc[t] = "direct")
      BY <1>0, <1>2 DEF SendStep, DirectStep, EnableEncryption, SendQueued,
                SendRefused, SendOverflows, DirectBegin, DirectOk, DirectFail,
                Encode, InsideTx
    <3> QED
      BY <1>0, <3>1
  <2>2. \A u \in Threads : pc'[u] = pc[u] \/ pc'[u] \in {"direct", "idle"}
    <3>1. pc' = pc \/ pc' = [pc EXCEPT ![t] = "direct"]
                   \/ pc' = [pc EXCEPT ![t] = "idle"]
      BY <1>2 DEF SendStep, DirectStep, EnableEncryption, SendQueued, SendRefused,
                  SendOverflows, DirectBegin, DirectOk, DirectFail, Goto
    <3> QED
      BY <1>0, <3>1
  <2> QED
    BY <2>1, <2>2 DEF Stopping
<1>3. ASSUME NEW t \in Threads, Call(t) PROVE Stopping'
  <2>1. /\ started' = started /\ stop' = stop
        /\ \A u \in Threads : pc'[u] = pc[u] \/ pc'[u] \in {"close", "abort"}
    BY <1>0, <1>3 DEF Call, Goto
  <2> QED
    BY <2>1 DEF Stopping
<1>4. ASSUME NEW t \in Threads, BeginStop(t) PROVE Stopping'
  <2>1. \A u \in Threads : pc[u] \notin Places
    BY <1>0, <1>4 DEF BeginStop
  <2>2. \A u \in Threads : u # t => pc'[u] = pc[u]
    BY <1>0, <1>4 DEF BeginStop, Goto
  <2>3. pc'[t] \in Places => started' /\ stop'
    BY <1>0, <1>4 DEF BeginStop, Goto
  <2> QED
    BY <2>1, <2>2, <2>3 DEF Stopping
<1>5. ASSUME NEW t \in Threads, TeardownStep(t), ~BeginStop(t) PROVE Stopping'
  <2>1. tx = t
    BY <1>0, <1>5 DEF TeardownStep, NotifyStop, DrainDone, DrainSleep,
                DrainTimeout, CutTail, JoinWriter, CloseFd, ReleaseFd, InsideTx
  <2>2. \A u \in Threads : u # t => pc[u] \notin Places /\ pc'[u] = pc[u]
    BY <1>0, <1>5, <2>1 DEF TeardownStep, NotifyStop, DrainDone, DrainSleep,
                DrainTimeout, CutTail, JoinWriter, CloseFd, ReleaseFd, Goto
  <2>3. pc'[t] \in Places => pc[t] \in Places /\ started' = started /\ stop' = stop
    BY <1>0, <1>5 DEF TeardownStep, NotifyStop, DrainDone, DrainSleep,
                DrainTimeout, CutTail, JoinWriter, CloseFd, ReleaseFd, Goto
  <2>4. pc'[t] \in Places => started' /\ stop'
    BY <1>0, <2>3
  <2> QED
    BY <2>2, <2>4 DEF Stopping
<1>6. CASE (\E r \in Readers : UseBegin(r) \/ UseEnd(r)) \/ UNCHANGED vars
  BY <1>6 DEF UseBegin, UseEnd, vars, Stopping
<1> QED
  BY <1>1, <1>2, <1>3, <1>4, <1>5, <1>6 DEF Next

LEMMA JoinFlow ==
    ASSUME FInv, NEW t \in Threads, JoinWriter(t)
    PROVE  Flow' /\ Counted'
<1>a. /\ TypeOK /\ Lanes /\ Hands /\ Arrived /\ Torn /\ Ciphers /\ Distinct
      /\ Counted
  BY DEF FInv, IInv, Flow
<1>0. /\ wpc = "done" /\ wpc' = "none" /\ ~started' /\ ~stop'
      /\ high' = << >> /\ low' = << >> /\ queuedBytes' = 0
      /\ nextLow' = nextLow /\ doneLow' = doneLow /\ wire' = wire
      /\ wframe' = wframe /\ cut' = cut /\ accepted' = accepted
      /\ direct' = direct /\ directFailed' = directFailed
      /\ encrypted' = encrypted /\ encoded' = encoded /\ cipher' = cipher
  BY DEF JoinWriter, descriptor, sending, framing, history
<1>1. /\ direct = NoFrame /\ ~directFailed
      /\ \A u \in Threads : pc[u] # "direct"
  BY <1>0, WriterAlone
<1>2. pc'[t] = "closeFd" /\ \A u \in Threads : pc'[u] # "direct"
  BY <1>a, <1>1 DEF JoinWriter, Goto, TypeOK
<1>3. Ended'
  BY <1>2 DEF Ended, Closing
<1>4. high = << >> /\ low = << >>
  BY <1>a, <1>0 DEF Hands, QueueEmpty
<1>5. /\ ~InHand /\ ~InHand' /\ LowTaken' = LowTaken /\ Reached' = Reached
      /\ LastOnWire' = LastOnWire
  BY <1>0 DEF InHand, LowTaken, Reached, LastOnWire
<1>6. /\ InFlightIds' = InFlightIds /\ WholeIds' = WholeIds
      /\ Ids(high') = Ids(high) /\ Ids(low') = Ids(low)
  BY <1>0, <1>4 DEF InFlightIds, WholeIds
<1>8. Lanes'
  BY <1>a, <1>0, <1>3, <1>4, <1>5 DEF Lanes
<1>9. Hands'
  BY <1>0, <1>1, <1>2, <1>5 DEF Hands, QueueEmpty
<1>10. Arrived'
  <2>1. BarrierOrdersWire'
    BY <1>a, <1>0 DEF Arrived, BarrierOrdersWire
  <2> QED
    BY <1>a, <1>0, <1>5, <2>1 DEF Arrived
<1>11. Torn'
  BY <1>a, <1>0, <1>3 DEF Torn, TornFrameEndsStream
<1>12. Ciphers'
  BY <1>a, <1>0, <1>3, <1>4, <1>5 DEF Ciphers
<1>13. Distinct'
  <2>1. Apart'
    BY <1>a, <1>0, <1>6 DEF Distinct, Apart
  <2> QED
    BY <1>a, <1>0, <1>4, <2>1 DEF Distinct
<1>14. Counted'
  BY <1>0, EmptyCounted
<1> QED
  BY <1>8, <1>9, <1>10, <1>11, <1>12, <1>13, <1>14 DEF Flow

LEMMA NoFrameIsNone == NoFrame \notin Frame
<1> SUFFICES ASSUME NoFrame \in Frame PROVE FALSE
  OBVIOUS
<1>1. NoFrame.size \in Sizes /\ NoFrame.size = 0
  BY DEF NoFrame, Frame
<1>2. 0 \in 1 .. MaxQueuedBytes
  BY <1>1, ConnectionAssumption
<1>3. MaxQueuedBytes \in Nat
  BY ConnectionAssumption
<1> QED
  BY <1>2, <1>3

LEMMA DirectBeginFlow ==
    ASSUME FInv, NEW t \in Threads, NEW size \in Sizes, DirectBegin(t, size)
    PROVE  Flow' /\ Counted'
<1>a. /\ TypeOK /\ Lanes /\ Hands /\ Arrived /\ Torn /\ Ciphers /\ Distinct
      /\ Counted /\ Control
  BY DEF FInv, IInv, Flow
<1>0. /\ ~started /\ ~started' /\ wpc' = wpc /\ wframe' = wframe /\ stop' = stop
      /\ high' = high /\ low' = low /\ queuedBytes' = queuedBytes
      /\ nextLow' = nextLow /\ doneLow' = doneLow /\ wire' = wire
      /\ cut' = cut /\ accepted' = accepted \cup {encoded + 1}
      /\ directFailed' = directFailed /\ encrypted' = encrypted
      /\ encoded' = encoded + 1 /\ encoded \in Nat /\ ~directFailed
      /\ cipher' = (IF encrypted THEN cipher + 1 ELSE cipher)
      /\ direct' = EncodedFrame(size, FALSE, FALSE)
  BY <1>a DEF DirectBegin, Encode, queues, writer, TypeOK
<1>1. ~Closing /\ \A u \in Threads : pc[u] # "direct"
  <2>1. Encode(t)
    BY DEF DirectBegin
  <2> QED
    BY <2>1, SendersOpen DEF FInv
<1>2. wpc = "none" /\ ~stop /\ high = << >> /\ low = << >>
  BY <1>a, <1>0 DEF Control, WriterStarted, Hands, QueueEmpty
<1>3. ~Ended /\ ~encrypted /\ cipher' = cipher
  <2>1. ~Ended
    BY <1>0, <1>1, <1>2 DEF Ended
  <2>2. ~encrypted
    BY <1>a, <1>0, <2>1 DEF Ciphers
  <2> QED
    BY <1>0, <2>1, <2>2
<1>4. direct' = [id |-> encoded + 1, size |-> size, low |-> 0, after |-> 0, enc |-> 0]
  BY <1>0, <1>3 DEF EncodedFrame
<1>5. /\ direct'.id = encoded + 1 /\ direct'.low = 0 /\ direct'.after = 0
      /\ direct'.enc = 0 /\ direct' # NoFrame
  <2>1. direct'.id = encoded + 1 /\ direct'.low = 0 /\ direct'.after = 0
        /\ direct'.enc = 0
    BY <1>4
  <2>2. direct'.id # 0
    <3>1. encoded \in Nat
      BY <1>0
    <3>2. encoded + 1 # 0
      BY <3>1
    <3> QED
      BY <2>1, <3>2
  <2>3. direct' # NoFrame
    BY <2>2 DEF NoFrame
  <2> QED
    BY <2>1, <2>3
<1>6. pc'[t] = "direct"
  BY <1>a DEF DirectBegin, Goto, TypeOK
<1>7. direct = NoFrame /\ InFlightIds = {} /\ InFlightIds' = {encoded + 1}
  <2>1. direct = NoFrame
    BY <1>a, <1>1 DEF Hands
  <2> QED
    BY <1>0, <1>2, <1>5, <2>1 DEF InFlightIds
<1>b. /\ ~InHand /\ ~InHand' /\ LowTaken' = LowTaken /\ Reached' = Reached
      /\ LastOnWire' = LastOnWire /\ LastTaken' = LastTaken
      /\ LastQueued' = LastQueued
      /\ WholeIds' = WholeIds /\ Ids(high') = Ids(high) /\ Ids(low') = Ids(low)
  BY <1>0, <1>2 DEF InHand, LowTaken, Reached, LastOnWire, LastTaken, LastQueued, WholeIds
<1>8. Lanes'
  BY <1>a, <1>0, <1>3, <1>b DEF Lanes
<1>9. Hands'
  BY <1>a, <1>0, <1>2, <1>5, <1>6, <1>b DEF Hands, QueueEmpty
<1>10. Arrived'
  <2>1. BarrierOrdersWire'
    BY <1>a, <1>0 DEF Arrived, BarrierOrdersWire
  <2> QED
    BY <1>a, <1>0, <1>2, <1>b, <2>1 DEF Arrived
<1>11. Torn'
  <2>1. wire # << >> => wire[Len(wire)].whole
    BY <1>a, <1>2, <1>3 DEF Torn
  <2> QED
    BY <1>a, <1>0, <2>1 DEF Torn, TornFrameEndsStream
<1>12. Ciphers'
  BY <1>a, <1>0, <1>2, <1>3, <1>b DEF Ciphers
<1>13. Distinct'
  <2>1. encoded + 1 \notin accepted
    BY <1>a, <1>0 DEF Distinct, TypeOK
  <2>2. Apart'
    BY <1>a, <1>0, <1>7, <1>b, <2>1 DEF Distinct, Apart
  <2>3. \A id \in accepted' : id <= encoded'
    BY <1>a, <1>0 DEF Distinct, TypeOK
  <2> QED
    BY <1>a, <1>0, <2>2, <2>3 DEF Distinct
<1>14. Counted'
  BY <1>a, <1>0 DEF Counted, QueueAccounting, Bytes
<1> QED
  BY <1>8, <1>9, <1>10, <1>11, <1>12, <1>13, <1>14 DEF Flow

\* What is true while a thread writes a frame of its own.
LEMMA DirectFacts ==
    ASSUME FInv, NEW t \in Threads, pc[t] = "direct"
    PROVE  /\ direct \in Frame /\ direct # NoFrame /\ InFlightIds = {direct.id}
           /\ direct.low = 0 /\ direct.after = 0 /\ direct.enc = 0
           /\ wpc = "none" /\ ~started /\ ~Ended /\ Reached = doneLow
           /\ Follows(LastOnWire, direct.enc) /\ direct.id \notin WholeIds
           /\ \A j \in DOMAIN wire : wire[j].whole
           /\ \A u \in Threads : u # t => pc[u] # "direct"
<1>a. /\ TypeOK /\ Lanes /\ Hands /\ Arrived /\ Torn /\ Ciphers /\ Distinct
      /\ Control /\ FramesInHand
  BY DEF FInv, IInv, Flow
<1>1. /\ direct \in Frame /\ direct.low = 0 /\ direct.after = 0
      /\ direct.enc = 0 /\ ~directFailed
  BY <1>a DEF FramesInHand, Hands
<1>2. wpc = "none" /\ ~started /\ fd # "closed"
  BY <1>a DEF Control, WriterStarted, CloseFdIsLast
<1>3. ~stop /\ high = << >>
  BY <1>a, <1>2 DEF Hands, QueueEmpty
<1>4. \A u \in Threads : u # t => pc[u] \notin InsideTx
  BY <1>a, ConnectionAssumption DEF Control, TxHeldInside, InsideTx
<1>5. ~Ended
  BY <1>1, <1>2, <1>3, <1>4 DEF Ended, Closing, InsideTx
<1>6. direct # NoFrame /\ InFlightIds = {direct.id}
  BY <1>1, <1>2, NoFrameIsNone DEF InFlightIds
<1>7. LastOnWire = 0
  <2>1. cipher = LastQueued /\ cipher = 0
    BY <1>a, <1>2, <1>5 DEF Ciphers
  <2> QED
    BY <1>2, <1>3, <2>1 DEF LastQueued, LastTaken
<1>8. direct.id \notin WholeIds
  BY <1>a, <1>6 DEF Distinct, Apart
<1>9. \A j \in DOMAIN wire : wire[j].whole
  BY <1>a, <1>2, <1>5, WireIsWhole
<1> QED
  BY <1>1, <1>2, <1>4, <1>5, <1>6, <1>7, <1>8, <1>9
     DEF InsideTx, Follows, Reached

\* A plain frame of no lane that reaches the wire.
LEMMA PlainGrows ==
    ASSUME FInv, NEW f \in Frame, NEW c \in BOOLEAN,
           wire' = Append(wire, OnWire(f, c)), doneLow' = doneLow,
           f.low = 0, f.after = 0, f.enc = 0,
           \A j \in DOMAIN wire : wire[j].whole, Reached = doneLow,
           Follows(LastOnWire, f.enc), f.id \notin WholeIds
    PROVE  /\ \A n \in 1 .. doneLow :
                 \E j \in DOMAIN wire' : wire'[j].low = n /\ wire'[j].whole
           /\ \A j \in DOMAIN wire' : wire'[j].whole => wire'[j].low <= doneLow
           /\ BarrierOrdersWire' /\ TornFrameEndsStream'
           /\ \A i \in 2 .. Len(wire') : Follows(wire'[i - 1].enc, wire'[i].enc)
           /\ wire' # << >> => Follows(0, wire'[1].enc)
           /\ \A i \in DOMAIN wire' : wire'[i].enc = 0
                 \/ \E j \in DOMAIN wire : wire'[i].enc = wire[j].enc
           /\ LastOnWire' = 0
           /\ \A i, j \in DOMAIN wire' : wire'[i].whole /\ wire'[j].whole
                 /\ wire'[i].id = wire'[j].id => i = j
           /\ WholeIds' = WholeIds \cup (IF c THEN {f.id} ELSE {})
           /\ wire'[Len(wire')] = OnWire(f, c)
<1>1. f.after > 0 => f.after = doneLow
  OBVIOUS
<1>2. /\ \A n \in 1 .. doneLow :
            \E j \in DOMAIN wire' : wire'[j].low = n /\ wire'[j].whole
      /\ \A j \in DOMAIN wire' : wire'[j].whole =>
            wire'[j].low <= doneLow \/ wire'[j].low = f.low
      /\ BarrierOrdersWire' /\ TornFrameEndsStream'
      /\ wire' # << >> /\ wire'[Len(wire')] = OnWire(f, c)
      /\ \A i \in 2 .. Len(wire') : Follows(wire'[i - 1].enc, wire'[i].enc)
      /\ Follows(0, wire'[1].enc) /\ LastOnWire' = f.enc
      /\ \A i \in DOMAIN wire' : wire'[i].enc = f.enc
            \/ \E j \in DOMAIN wire : wire'[i].enc = wire[j].enc
      /\ WholeIds' = WholeIds \cup (IF c THEN {f.id} ELSE {})
      /\ \A i, j \in DOMAIN wire' : wire'[i].whole /\ wire'[j].whole
            /\ wire'[i].id = wire'[j].id => i = j
  BY <1>1, WireGrows
<1>3. \A j \in DOMAIN wire' : wire'[j].whole => wire'[j].low <= doneLow
  <2>1. doneLow \in Nat
    BY DEF FInv, IInv, TypeOK
  <2>2. \A j \in DOMAIN wire' : wire'[j].whole =>
            wire'[j].low <= doneLow \/ wire'[j].low = 0
    BY <1>2
  <2> QED
    BY <2>1, <2>2
<1> QED
  BY <1>2, <1>3

LEMMA DirectStepFlow ==
    ASSUME FInv, NEW t \in Threads, DirectStep(t)
    PROVE  Flow' /\ Counted'
<1>a. /\ TypeOK /\ Lanes /\ Hands /\ Arrived /\ Torn /\ Ciphers /\ Distinct
      /\ Counted
  BY DEF FInv, IInv, Flow
<1>0. /\ pc[t] = "direct" /\ wpc' = wpc /\ wframe' = wframe /\ stop' = stop
      /\ started' = started
      /\ high' = high /\ low' = low /\ queuedBytes' = queuedBytes
      /\ nextLow' = nextLow /\ doneLow' = doneLow
      /\ accepted' = accepted /\ encrypted' = encrypted
      /\ encoded' = encoded /\ cipher' = cipher /\ direct' = NoFrame
  BY DEF DirectStep, DirectOk, DirectFail, queues, writer, framing
<1>1. /\ direct \in Frame /\ direct # NoFrame /\ InFlightIds = {direct.id}
      /\ direct.low = 0 /\ direct.after = 0 /\ direct.enc = 0
      /\ wpc = "none" /\ ~started /\ ~Ended /\ Reached = doneLow
      /\ Follows(LastOnWire, direct.enc) /\ direct.id \notin WholeIds
      /\ \A j \in DOMAIN wire : wire[j].whole
      /\ \A u \in Threads : u # t => pc[u] # "direct"
  BY <1>0, DirectFacts
<1>2. \/ /\ wire' = Append(wire, OnWire(direct, TRUE))
         /\ cut' = cut /\ directFailed' = directFailed
      \/ /\ wire' = Append(wire, OnWire(direct, FALSE))
         /\ cut' = cut \cup {direct.id} /\ directFailed'
      \/ /\ wire' = wire
         /\ cut' = cut \cup {direct.id} /\ directFailed'
  BY DEF DirectStep, DirectOk, DirectFail
<1>3. \A u \in Threads : pc'[u] # "direct"
  BY <1>a, <1>1 DEF DirectStep, DirectOk, DirectFail, Goto, TypeOK
<1>4. /\ ~InHand /\ ~InHand' /\ LowTaken' = LowTaken /\ Reached' = doneLow
      /\ InFlightIds' = {} /\ Ids(high') = Ids(high) /\ Ids(low') = Ids(low)
      /\ doneLow \in Nat /\ high = << >> /\ QueueEmpty /\ ~stop /\ queuedBytes = 0
  BY <1>a, <1>0, <1>1 DEF InHand, LowTaken, Reached, InFlightIds, TypeOK, Hands,
                           QueueEmpty
<1>5. /\ \A n \in 1 .. doneLow :
            \E j \in DOMAIN wire' : wire'[j].low = n /\ wire'[j].whole
      /\ \A j \in DOMAIN wire' : wire'[j].whole => wire'[j].low <= doneLow
      /\ BarrierOrdersWire' /\ TornFrameEndsStream'
      /\ \A i \in 2 .. Len(wire') : Follows(wire'[i - 1].enc, wire'[i].enc)
      /\ wire' # << >> => Follows(0, wire'[1].enc)
      /\ \A i \in DOMAIN wire' : wire'[i].enc = 0
            \/ \E j \in DOMAIN wire : wire'[i].enc = wire[j].enc
      /\ LastOnWire' = 0
      /\ \A i, j \in DOMAIN wire' : wire'[i].whole /\ wire'[j].whole
            /\ wire'[i].id = wire'[j].id => i = j
      /\ \/ /\ WholeIds' = WholeIds \cup {direct.id} /\ cut' = cut
            /\ wire'[Len(wire')].whole /\ directFailed' = directFailed
         \/ /\ WholeIds' = WholeIds /\ cut' = cut \cup {direct.id}
            /\ directFailed'
  <2>1. ASSUME NEW c \in BOOLEAN, wire' = Append(wire, OnWire(direct, c))
        PROVE  /\ \A n \in 1 .. doneLow :
                     \E j \in DOMAIN wire' : wire'[j].low = n /\ wire'[j].whole
               /\ \A j \in DOMAIN wire' : wire'[j].whole => wire'[j].low <= doneLow
               /\ BarrierOrdersWire' /\ TornFrameEndsStream'
               /\ \A i \in 2 .. Len(wire') : Follows(wire'[i - 1].enc, wire'[i].enc)
               /\ wire' # << >> => Follows(0, wire'[1].enc)
               /\ \A i \in DOMAIN wire' : wire'[i].enc = 0
                     \/ \E j \in DOMAIN wire : wire'[i].enc = wire[j].enc
               /\ LastOnWire' = 0
               /\ \A i, j \in DOMAIN wire' : wire'[i].whole /\ wire'[j].whole
                     /\ wire'[i].id = wire'[j].id => i = j
               /\ WholeIds' = WholeIds \cup (IF c THEN {direct.id} ELSE {})
               /\ wire'[Len(wire')] = OnWire(direct, c)
    BY <1>0, <1>1, <2>1, PlainGrows
  <2>2. CASE wire' = Append(wire, OnWire(direct, TRUE))
             /\ cut' = cut /\ directFailed' = directFailed
    <3>1. OnWire(direct, TRUE).whole
      BY DEF OnWire
    <3> QED
      BY <2>1, <2>2, <3>1
  <2>3. CASE wire' = Append(wire, OnWire(direct, FALSE))
             /\ cut' = cut \cup {direct.id} /\ directFailed'
    BY <2>1, <2>3
  <2>4. CASE wire' = wire /\ cut' = cut \cup {direct.id} /\ directFailed'
    <3>1. BarrierOrdersWire' /\ TornFrameEndsStream' /\ WholeIds' = WholeIds
      BY <1>a, <2>4 DEF Arrived, BarrierOrdersWire, Torn, TornFrameEndsStream, WholeIds
    <3>2. LastOnWire' = 0
      BY <1>a, <1>0, <1>1, <1>4, <2>4 DEF Ciphers, LastQueued, LastTaken, LastOnWire
    <3>3. \A i, j \in DOMAIN wire : wire[i].whole /\ wire[j].whole
            /\ wire[i].id = wire[j].id => i = j
      BY <1>a DEF Distinct, Apart
    <3> QED
      BY <1>a, <1>1, <2>4, <3>1, <3>2, <3>3 DEF Arrived, Ciphers
  <2> QED
    BY <1>2, <2>2, <2>3, <2>4
<1>8. Lanes'
  BY <1>a, <1>0, <1>1, <1>4 DEF Lanes
<1>9. Hands'
  BY <1>0, <1>1, <1>3, <1>4 DEF Hands, QueueEmpty
<1>10. Arrived'
  BY <1>0, <1>1, <1>4, <1>5 DEF Arrived
<1>11. Torn'
  <2>1. (wire' # << >> => wire'[Len(wire')].whole) \/ Ended'
    BY <1>5 DEF Ended
  <2> QED
    BY <1>0, <1>1, <1>5, <2>1 DEF Torn
<1>12. Ciphers'
  <2>1. ~encrypted /\ cipher = 0
    BY <1>a, <1>1 DEF Ciphers
  <2>2. \A i \in DOMAIN wire' : wire'[i].enc = 0
    BY <1>a, <1>5, <2>1 DEF Ciphers
  <2>3. LastQueued' = 0 /\ LastTaken' = 0
    BY <1>0, <1>1, <1>4, <1>5 DEF LastQueued, LastTaken
  <2> QED
    BY <1>a, <1>0, <1>1, <1>4, <1>5, <2>1, <2>2, <2>3 DEF Ciphers
<1>13. Distinct'
  <2>1. Apart'
    BY <1>a, <1>0, <1>1, <1>4, <1>5 DEF Distinct, Apart
  <2> QED
    BY <1>a, <1>0, <2>1 DEF Distinct
<1>14. Counted'
  BY <1>a, <1>0 DEF Counted, QueueAccounting, Bytes
<1> QED
  BY <1>8, <1>9, <1>10, <1>11, <1>12, <1>13, <1>14 DEF Flow

LEMMA InitFlow ==
    ASSUME Init
    PROVE  Flow /\ Counted /\ Stopping
<1>1. /\ high = << >> /\ low = << >> /\ wire = << >>
      /\ DOMAIN high = {} /\ DOMAIN low = {} /\ DOMAIN wire = {}
      /\ Len(high) = 0 /\ Len(low) = 0 /\ Len(wire) = 0
      /\ \A t \in Threads : pc[t] = "idle"
  BY DEF Init
<1>2. ~InHand /\ LowTaken = 0 /\ Reached = 0
  BY DEF Init, InHand, LowTaken, Reached
<1>3. Lanes
  BY <1>1, <1>2 DEF Init, Lanes
<1>4. Hands
  BY <1>1, <1>2 DEF Init, Hands, QueueEmpty
<1>5. Arrived
  BY <1>1 DEF Init, Arrived, BarrierOrdersWire
<1>6. Torn
  BY <1>1 DEF Torn, TornFrameEndsStream
<1>7. Ciphers
  <2>1. \A i \in 2 .. 0 : FALSE
    OBVIOUS
  <2>2. cipher = 0 /\ LastQueued = 0
    BY <1>1 DEF Init, LastQueued, LastTaken, LastOnWire
  <2> QED
    BY <1>1, <1>2, <2>1, <2>2 DEF Init, Ciphers
<1>8. Distinct
  <2>1. Ids(high) = {} /\ Ids(low) = {} /\ WholeIds = {} /\ InFlightIds = {}
    BY <1>1 DEF Init, Ids, WholeIds, InFlightIds
  <2> QED
    BY <1>1, <2>1 DEF Init, Distinct, Apart
<1>9. Counted
  <2>1. Bytes(high) = {} /\ Bytes(low) = {}
    BY <1>1, EmptyLane
  <2>2. IsFiniteSet({}) /\ Cardinality({}) = 0 /\ MaxQueuedBytes \in Nat
    BY FS_EmptySet, ConnectionAssumption
  <2>3. Bytes(high) \cup Bytes(low) = {} /\ 0 <= MaxQueuedBytes /\ queuedBytes = 0
    BY <2>1, <2>2 DEF Init
  <2> QED
    BY <2>1, <2>2, <2>3 DEF Counted, QueueAccounting
<1>10. Stopping
  BY <1>1 DEF Stopping
<1> QED
  BY <1>3, <1>4, <1>5, <1>6, <1>7, <1>8, <1>9, <1>10 DEF Flow

LEMMA NextFlow ==
    ASSUME FInv, [Next]_vars
    PROVE  Flow' /\ Counted'
<1>0. IInv /\ Flow /\ Counted
  BY DEF FInv
<1>1. Ended => Ended'
  BY <1>0, EndedStays
<1>2. ASSUME Calm PROVE Flow' /\ Counted'
  BY <1>0, <1>1, <1>2, CalmFlow
<1>3. CASE WriterNext
  <2>1. CASE WriterTake
    BY <2>1, TakenFacts, TakenFlow, TakenCounted
  <2>2. CASE CalmWriter
    BY <1>0, <1>2, <2>2, CalmSteps
  <2>3. CASE WriterSendOk \/ WriterSendFail \/ WriterSent \/ WriterFailed
    BY <2>3, SendOkFlow, SendFailFlow, SentFlow, FailedFlow
  <2> QED
    BY <1>3, <2>1, <2>2, <2>3 DEF WriterNext, CalmWriter
<1>4. ASSUME NEW t \in Threads, SendStep(t) PROVE Flow' /\ Counted'
  <2>1. CASE EnableEncryption(t) \/ SendRefused(t)
    <3>1. CalmCaller(t)
      BY <2>1 DEF CalmCaller
    <3> QED
      BY <1>0, <1>2, <3>1, CalmSteps
  <2>2. ASSUME NEW size \in Sizes, NEW l \in BOOLEAN, NEW b \in BOOLEAN,
               SendQueued(t, size, l, b)
        PROVE  Flow' /\ Counted'
    <3>1. Queued(EncodedFrame(size, l, b))
      BY <2>2, QueuedFacts
    <3> QED
      BY <3>1, QueuedFlow
  <2>3. ASSUME NEW size \in Sizes, SendOverflows(t, size)
        PROVE  Flow' /\ Counted'
    BY <2>3, OverflowDrops, DroppedFlow
  <2>4. ASSUME NEW size \in Sizes, DirectBegin(t, size)
        PROVE  Flow' /\ Counted'
    BY <2>4, DirectBeginFlow
  <2> QED
    BY <1>4, <2>1, <2>2, <2>3, <2>4 DEF SendStep
<1>5. ASSUME NEW t \in Threads, TeardownStep(t) \/ Call(t) PROVE Flow' /\ Counted'
  <2>1. CASE JoinWriter(t)
    BY <2>1, JoinFlow
  <2>2. CASE \/ BeginStop(t) /\ ~(UNCHANGED <<high, low, queuedBytes, cut>>)
             \/ CutTail(t)
    <3>1. Dropped
      BY <1>1, <2>2, TeardownDrops
    <3> QED
      BY <3>1, DroppedFlow
  <2>3. CASE CalmCaller(t)
    BY <1>0, <1>2, <2>3, CalmSteps
  <2> QED
    BY <1>5, <2>1, <2>2, <2>3 DEF TeardownStep, CalmCaller
<1>6. ASSUME NEW t \in Threads, DirectStep(t) PROVE Flow' /\ Counted'
  BY <1>6, DirectStepFlow
<1>7. CASE (\E r \in Readers : UseBegin(r) \/ UseEnd(r)) \/ UNCHANGED vars
  BY <1>0, <1>2, <1>7, CalmSteps
<1> QED
  BY <1>3, <1>4, <1>5, <1>6, <1>7 DEF Next

\* FInv holds in every state a connection reaches.
THEOREM FlowInvariant == Spec => []FInv
<1>1. Init => FInv
  BY InitIInv, InitFlow DEF FInv
<1>2. FInv /\ [Next]_vars => FInv'
  <2> SUFFICES ASSUME FInv, [Next]_vars PROVE FInv'
    OBVIOUS
  <2>1. IInv'
    BY NextIInv DEF FInv
  <2>2. Stopping'
    BY StoppingKept DEF FInv
  <2>3. Flow' /\ Counted'
    BY NextFlow
  <2> QED
    BY <2>1, <2>2, <2>3 DEF FInv
<1> QED
  BY <1>1, <1>2, PTL DEF Spec

\* Every frame sendQueued or a direct send accepted is in exactly one place,
\* and queuedBytes_ is the size of the two lanes, under its cap.
THEOREM FramesAreAccounted == Spec => []FramesAccounted
<1>1. FInv => FramesAccounted
  BY ApartIsSilent DEF FInv, Flow, Distinct, Counted, FramesAccounted
<1> QED
  BY <1>1, FlowInvariant, PTL

\* What reaches the peer is in the order of the barriers and of the cipher,
\* and ends with the first torn frame.
THEOREM WireIsOrdered == Spec => []WireOrder
<1>1. FInv => WireOrder
  <2> SUFFICES ASSUME FInv PROVE WireOrder
    OBVIOUS
  <2>1. TypeOK /\ Arrived /\ Torn /\ Ciphers
    BY DEF FInv, IInv, Flow
  <2>2. CipherInStep
    <3> SUFFICES ASSUME NEW i \in DOMAIN wire
                 PROVE  LET before == IF i = 1 THEN 0 ELSE wire[i - 1].enc
                        IN  \/ wire[i].enc = before + 1
                            \/ wire[i].enc = 0 /\ before = 0
      BY DEF CipherInStep
    <3>1. CASE i = 1
      <4>1. Follows(0, wire[1].enc)
        BY <2>1, <3>1, LaneFacts DEF Ciphers
      <4> QED
        BY <3>1, <4>1 DEF Follows
    <3>2. CASE i # 1
      <4>1. i \in 2 .. Len(wire)
        BY <2>1, <3>2, LaneFacts
      <4> QED
        BY <2>1, <3>2, <4>1 DEF Ciphers, Follows
    <3> QED
      BY <3>1, <3>2
  <2> QED
    BY <2>1, <2>2 DEF WireOrder, Arrived, Torn
<1> QED
  BY <1>1, FlowInvariant, PTL

----------------------------------------------------------------------------
(***************************************************************************)
(* The channel.  A connection implements FrameChannel: each of its steps   *)
(* is a step of the channel or leaves the channel as it is.  Bounded adds  *)
(* to FInv that what the encoder counts stays within its frames.  Every    *)
(* action is put down to one of the channel's steps by a lemma about the   *)
(* four mapped variables, in which they stay closed.                       *)
(***************************************************************************)

Bounded == encoded <= MaxFrames /\ nextLow <= encoded /\ cipher <= encoded

CInv == FInv /\ Bounded

ChannelStep == [Channel!Next]_(Channel!vars)

----------------------------------------------------------------------------
(* The channel's steps.                                                    *)

LEMMA AcceptingUnlessEnded ==
    ASSUME TypeOK
    PROVE  Accepting <=> ~Ended
BY DEF Accepting, Ended, Closing

LEMMA AcceptingUnlessEndedNext ==
    ASSUME TypeOK'
    PROVE  Accepting' <=> ~Ended'
BY DEF Accepting, Ended, Closing

LEMMA AcceptingBoolean == Accepting \in BOOLEAN /\ Accepting' \in BOOLEAN
BY DEF Accepting

\* The lanes and the peer see nothing; the channel may end or be cut.
LEMMA Closes ==
    ASSUME Urgent' = Urgent, Deferred' = Deferred, Delivered' = Delivered,
           Accepting' => Accepting, fd' = "open" => fd = "open"
    PROVE  ChannelStep
<1>1. Accepting' \in {Accepting, FALSE}
  BY AcceptingBoolean
<1>2. (fd' = "open") \in {fd = "open", FALSE}
  OBVIOUS
<1>3. Channel!Close
  BY <1>1, <1>2 DEF Channel!Close
<1> QED
  BY <1>3 DEF ChannelStep, Channel!Next

\* The channel has ended and loses the ends of its lanes.
LEMMA Drops ==
    ASSUME ~Accepting', Delivered' = Delivered, fd' = "open" => fd = "open",
           Urgent' \in Channel!Prefixes(Urgent),
           Deferred' \in Channel!Prefixes(Deferred)
    PROVE  ChannelStep
<1>1. Accepting' \in {Accepting, FALSE}
  BY AcceptingBoolean
<1>2. (fd' = "open") \in {fd = "open", FALSE}
  OBVIOUS
<1>3. Channel!Close
  BY <1>1, <1>2 DEF Channel!Close
<1> QED
  BY <1>3 DEF ChannelStep, Channel!Next

\* A frame is queued at the end of one lane.
LEMMA Accepts ==
    ASSUME NEW f \in ChannelFrame,
           Accepting, Accepting', Delivered' = Delivered, fd' = fd,
           \/ f.low = 0 /\ Urgent' = Append(Urgent, f) /\ Deferred' = Deferred
           \/ f.low # 0 /\ Deferred' = Append(Deferred, f) /\ Urgent' = Urgent
    PROVE  ChannelStep
<1>1. Accepting' = Accepting
  BY AcceptingBoolean
<1>2. Channel!Accept
  BY <1>1 DEF Channel!Accept
<1> QED
  BY <1>2 DEF ChannelStep, Channel!Next

LEMMA DeliversUrgent ==
    ASSUME fd = "open", fd' = fd, Accepting' = Accepting,
           Urgent # << >>, Urgent' = Tail(Urgent), Deferred' = Deferred,
           Delivered' = Append(Delivered, Head(Urgent)),
           \A i \in DOMAIN Deferred : Deferred[i].low > Head(Urgent).after
    PROVE  ChannelStep
BY DEF ChannelStep, Channel!Next, Channel!DeliverUrgent

LEMMA DeliversDeferred ==
    ASSUME fd = "open", fd' = fd, Accepting' = Accepting,
           Deferred # << >>, Deferred' = Tail(Deferred), Urgent' = Urgent,
           Delivered' = Append(Delivered, Head(Deferred)),
           \A i \in DOMAIN Urgent :
              Urgent[i].after > 0 => Head(Deferred).low <= Urgent[i].after
    PROVE  ChannelStep
BY DEF ChannelStep, Channel!Next, Channel!DeliverDeferred

----------------------------------------------------------------------------
(* The lanes with the frame in flight.                                     *)

LEMMA ConsFacts ==
    ASSUME NEW S, NEW f \in S, NEW s \in Seq(S)
    PROVE  /\ <<f>> \o s \in Seq(S) /\ <<f>> \o s # << >>
           /\ Head(<<f>> \o s) = f /\ Tail(<<f>> \o s) = s
           /\ DOMAIN (<<f>> \o s) = 1 .. Len(s) + 1
           /\ (<<f>> \o s)[1] = f
           /\ \A i \in 1 .. Len(s) : (<<f>> \o s)[i + 1] = s[i]
           /\ SubSeq(<<f>> \o s, 1, 1) = <<f>>
           /\ << >> \o s = s
<1>1. <<f>> \in Seq(S) /\ Len(<<f>>) = 1 /\ <<f>>[1] = f
  OBVIOUS
<1>2. /\ <<f>> \o s \in Seq(S) /\ Len(<<f>> \o s) = 1 + Len(s)
      /\ \A i \in 1 .. 1 + Len(s) :
            (<<f>> \o s)[i] = IF i <= 1 THEN <<f>>[i] ELSE s[i - 1]
  BY <1>1, ConcatProperties
<1>3. Len(s) \in Nat /\ DOMAIN s = 1 .. Len(s)
  BY LenProperties
<1> DEFINE c == <<f>> \o s
<1>4. c \in Seq(S) /\ Len(c) = Len(s) + 1 /\ c[1] = f
      /\ \A i \in 1 .. Len(s) : c[i + 1] = s[i]
  BY <1>1, <1>2, <1>3
<1> HIDE DEF c
<1>5. c # << >> /\ DOMAIN c = 1 .. Len(s) + 1
  BY <1>3, <1>4, LenProperties, EmptySeq
<1>6. Head(c) = f /\ Tail(c) \in Seq(S) /\ Len(Tail(c)) = Len(s)
      /\ \A i \in 1 .. Len(s) : Tail(c)[i] = c[i + 1]
  BY <1>3, <1>4, <1>5, TailFacts
<1>7. Tail(c) = s
  BY <1>3, <1>4, <1>6, SeqEqual
<1>8. SubSeq(c, 1, 1) = <<f>>
  <2>1. SubSeq(c, 1, 1) = SubSeq(<<f>>, 1, 1)
    BY <1>1, SubSeqOfConcat1 DEF c
  <2>2. SubSeq(<<f>>, 1, 1) = <<f>>
    BY <1>1, SubSeqFull
  <2> QED
    BY <2>1, <2>2
<1>9. << >> \o s = s
  BY ConcatEmptySeq
<1> QED
  BY <1>4, <1>5, <1>6, <1>7, <1>8, <1>9 DEF c

\* A lane with the frame in flight, if that is of the lane, in front.
LEMMA InLaneFacts ==
    ASSUME NEW f \in Frame, NEW s \in Seq(Frame)
    PROVE  /\ f.low = 0 => /\ InLane(<<f>>, FALSE) \o s = <<f>> \o s
                           /\ InLane(<<f>>, TRUE) \o s = s
           /\ f.low # 0 => /\ InLane(<<f>>, TRUE) \o s = <<f>> \o s
                           /\ InLane(<<f>>, FALSE) \o s = s
<1>1. <<f>> # << >> /\ Head(<<f>>) = f /\ f.low \in Nat
  BY DEF Frame
<1>2. << >> \o s = s
  BY ConcatEmptySeq
<1> QED
  BY <1>1, <1>2 DEF InLane

LEMMA NoHand ==
    ASSUME NEW s \in Seq(Frame), NEW b \in BOOLEAN
    PROVE  InLane(<< >>, b) \o s = s
<1>1. << >> \o s = s
  BY ConcatEmptySeq
<1> QED
  BY <1>1 DEF InLane

LEMMA LanesNow ==
    ASSUME TypeOK
    PROVE  /\ InFlight = << >> => Urgent = high /\ Deferred = low
           /\ \A f \in Frame : InFlight = <<f>> =>
                 /\ f.low = 0 => Urgent = <<f>> \o high /\ Deferred = low
                 /\ f.low # 0 => Urgent = high /\ Deferred = <<f>> \o low
<1>1. high \in Seq(Frame) /\ low \in Seq(Frame)
  BY DEF TypeOK
<1>2. /\ Urgent = InLane(InFlight, FALSE) \o high
      /\ Deferred = InLane(InFlight, TRUE) \o low
  BY DEF Urgent, Deferred
<1>3. ASSUME InFlight = << >>
      PROVE  Urgent = high /\ Deferred = low
  <2>1. InLane(<< >>, FALSE) \o high = high /\ InLane(<< >>, TRUE) \o low = low
    BY <1>1, NoHand
  <2> QED
    BY <1>2, <1>3, <2>1
<1>4. ASSUME NEW f \in Frame, InFlight = <<f>>
      PROVE  /\ f.low = 0 => Urgent = <<f>> \o high /\ Deferred = low
             /\ f.low # 0 => Urgent = high /\ Deferred = <<f>> \o low
  BY <1>1, <1>2, <1>4, InLaneFacts
<1> QED
  BY <1>3, <1>4

LEMMA LanesNext ==
    ASSUME TypeOK'
    PROVE  /\ InFlight' = << >> => Urgent' = high' /\ Deferred' = low'
           /\ \A f \in Frame : InFlight' = <<f>> =>
                 /\ f.low = 0 => Urgent' = <<f>> \o high' /\ Deferred' = low'
                 /\ f.low # 0 => Urgent' = high' /\ Deferred' = <<f>> \o low'
<1>1. high' \in Seq(Frame) /\ low' \in Seq(Frame)
  BY DEF TypeOK
<1>2. /\ Urgent' = InLane(InFlight', FALSE) \o high'
      /\ Deferred' = InLane(InFlight', TRUE) \o low'
  BY DEF Urgent, Deferred
<1>3. ASSUME InFlight' = << >>
      PROVE  Urgent' = high' /\ Deferred' = low'
  <2>1. InLane(<< >>, FALSE) \o high' = high' /\ InLane(<< >>, TRUE) \o low' = low'
    BY <1>1, NoHand
  <2> QED
    BY <1>2, <1>3, <2>1
<1>4. ASSUME NEW f \in Frame, InFlight' = <<f>>
      PROVE  /\ f.low = 0 => Urgent' = <<f>> \o high' /\ Deferred' = low'
             /\ f.low # 0 => Urgent' = high' /\ Deferred' = <<f>> \o low'
  BY <1>1, <1>2, <1>4, InLaneFacts
<1> QED
  BY <1>3, <1>4

LEMMA LanesUnchanged ==
    ASSUME high' = high, low' = low, InFlight' = InFlight
    PROVE  Urgent' = Urgent /\ Deferred' = Deferred
BY DEF Urgent, Deferred

\* What is in flight is one frame, a frame indeed.
LEMMA InFlightNow ==
    ASSUME FInv
    PROVE  /\ wpc \in {"send", "failed"} => wframe \in Frame /\ InFlight = <<wframe>>
           /\ wpc \notin {"send", "failed"} /\ direct = NoFrame => InFlight = << >>
           /\ wpc \notin {"send", "failed"} /\ direct # NoFrame =>
                 InFlight = <<direct>> /\ direct \in Frame /\ direct.low = 0
<1>1. wpc \in {"send", "failed"} => wframe \in Frame
  BY DEF FInv, IInv, FramesInHand
<1>2. direct # NoFrame => direct \in Frame /\ direct.low = 0
  BY DEF FInv, IInv, FramesInHand, Flow, Hands
<1> QED
  BY <1>1, <1>2 DEF InFlight

----------------------------------------------------------------------------
(* What the peer has.                                                      *)

LEMMA DeliveredUnchanged ==
    ASSUME wire' = wire
    PROVE  Delivered' = Delivered
<1>1. Arrivals' = Arrivals
  BY DEF Arrivals
<1> QED
  BY <1>1 DEF Delivered

\* A wire without a torn frame has arrived.
LEMMA WholeArrives ==
    ASSUME TypeOK, \A j \in DOMAIN wire : wire[j].whole
    PROVE  Arrivals = wire
<1>1. wire # << >> => wire[Len(wire)].whole
  BY LaneFacts
<1> QED
  BY <1>1 DEF Arrivals

LEMMA TornAddsNothing ==
    ASSUME TypeOK, NEW f \in Frame, \A j \in DOMAIN wire : wire[j].whole,
           wire' = Append(wire, OnWire(f, FALSE))
    PROVE  Delivered' = Delivered
<1>1. OnWire(f, FALSE) \in WireFrame /\ ~OnWire(f, FALSE).whole
  BY OnWireType DEF OnWire
<1> DEFINE g == OnWire(f, FALSE)
<1> HIDE DEF g
<1>2. /\ wire' = Append(wire, g) /\ g \in WireFrame /\ ~g.whole
      /\ wire \in Seq(WireFrame)
  BY <1>1 DEF g, TypeOK
<1>3. /\ wire' # << >> /\ Len(wire') = Len(wire) + 1 /\ Len(wire) \in Nat
      /\ wire'[Len(wire')] = g
  <2>1. /\ Append(wire, g) # << >> /\ Len(Append(wire, g)) = Len(wire) + 1
        /\ Len(wire) \in Nat /\ Append(wire, g)[Len(wire) + 1] = g
    BY <1>2, AppendFacts
  <2> QED
    BY <1>2, <2>1
<1>4. Arrivals' = SubSeq(wire', 1, Len(wire))
  <2>1. Len(wire') - 1 = Len(wire)
    BY <1>3
  <2>2. wire' # << >> /\ ~wire'[Len(wire')].whole
    BY <1>2, <1>3
  <2> QED
    BY <2>1, <2>2 DEF Arrivals
<1>5. SubSeq(Append(wire, g), 1, Len(wire)) = wire
  <2> DEFINE a == Append(wire, g)
  <2>1. /\ a \in Seq(WireFrame) /\ Len(a) = Len(wire) + 1 /\ Len(wire) \in Nat
        /\ \A i \in 1 .. Len(wire) : a[i] = wire[i] /\ a[i] \in WireFrame
    BY <1>2, AppendFacts, ElementOfSeq
  <2> HIDE DEF a
  <2> DEFINE p == SubSeq(a, 1, Len(wire))
  <2>2. /\ p \in Seq(WireFrame) /\ Len(p) = Len(wire)
        /\ \A i \in 1 .. Len(wire) : p[i] = a[i]
    <3>1. /\ p \in Seq(WireFrame)
          /\ Len(p) = IF 1 <= Len(wire) THEN Len(wire) - 1 + 1 ELSE 0
          /\ \A i \in 1 .. Len(wire) - 1 + 1 : p[i] = a[1 + i - 1]
      BY <2>1, SubSeqProperties
    <3> HIDE DEF p
    <3> QED
      BY <2>1, <3>1
  <2> HIDE DEF p
  <2>3. p = wire
    BY <1>2, <2>1, <2>2, SeqEqual
  <2> QED
    BY <2>3 DEF p, a
<1>6. Arrivals' = Arrivals
  BY <1>2, <1>4, <1>5, WholeArrives
<1> QED
  BY <1>6 DEF Delivered

LEMMA LaneOfFunction ==
    ASSUME NEW n \in Nat, NEW d \in [1 .. n -> Frame]
    PROVE  d \in Seq(Frame) /\ Len(d) = n
<1>1. d \in Seq(Frame)
  BY SeqDef
<1>2. Len(d) \in Nat /\ 1 .. Len(d) = 1 .. n
  BY <1>1, LenProperties
<1> QED
  BY <1>1, <1>2

LEMMA UnmarkedFrame ==
    ASSUME NEW f \in Frame, NEW c \in BOOLEAN
    PROVE  Unmarked(OnWire(f, c)) = f
BY DEF Unmarked, OnWire, Frame

LEMMA WholeIsDelivered ==
    ASSUME TypeOK, NEW f \in Frame, \A j \in DOMAIN wire : wire[j].whole,
           wire' = Append(wire, OnWire(f, TRUE))
    PROVE  Delivered' = Append(Delivered, f)
<1> DEFINE g == OnWire(f, TRUE)
<1>1. g \in WireFrame /\ g.whole /\ Unmarked(g) = f
  BY OnWireType, UnmarkedFrame DEF OnWire
<1>2. wire' = Append(wire, g) /\ wire \in Seq(WireFrame)
  BY DEF TypeOK
<1> HIDE DEF g
<1>3. /\ wire' # << >> /\ Len(wire') = Len(wire) + 1 /\ Len(wire) \in Nat
      /\ wire'[Len(wire')] = g /\ DOMAIN wire = 1 .. Len(wire)
      /\ DOMAIN wire' = 1 .. Len(wire) + 1
      /\ \A i \in 1 .. Len(wire) : wire'[i] = wire[i]
  <2>1. /\ Append(wire, g) # << >> /\ Len(Append(wire, g)) = Len(wire) + 1
        /\ Len(wire) \in Nat /\ Append(wire, g)[Len(wire) + 1] = g
        /\ DOMAIN wire = 1 .. Len(wire)
        /\ DOMAIN Append(wire, g) = 1 .. Len(wire) + 1
        /\ \A i \in 1 .. Len(wire) : Append(wire, g)[i] = wire[i]
    BY <1>1, <1>2, AppendFacts
  <2> QED
    BY <1>2, <2>1
<1>4. Arrivals' = wire' /\ Arrivals = wire
  BY <1>1, <1>3, WholeArrives DEF Arrivals
<1>5. /\ Delivered = [i \in 1 .. Len(wire) |-> Unmarked(wire[i])]
      /\ Delivered' = [i \in 1 .. Len(wire) + 1 |-> Unmarked(wire'[i])]
  BY <1>3, <1>4 DEF Delivered
<1>6. \A w \in WireFrame : Unmarked(w) \in Frame
  BY DEF WireFrame, Frame, Unmarked
<1> DEFINE d == Delivered
           n == Delivered'
<1>7. d \in Seq(Frame) /\ Len(d) = Len(wire)
  <2>1. \A i \in 1 .. Len(wire) : Unmarked(wire[i]) \in Frame
    BY <1>2, <1>6, ElementOfSeq
  <2>2. d \in [1 .. Len(wire) -> Frame]
    BY <1>5, <2>1
  <2> QED
    BY <1>3, <2>2, LaneOfFunction
<1>8. n \in Seq(Frame) /\ Len(n) = Len(wire) + 1
  <2>1. \A i \in 1 .. Len(wire) : Unmarked(wire'[i]) \in Frame
    BY <1>2, <1>3, <1>6, ElementOfSeq
  <2>2. wire'[Len(wire) + 1] = g
    BY <1>3
  <2>3. \A i \in 1 .. Len(wire) + 1 : Unmarked(wire'[i]) \in Frame
    <3>1. \A i \in 1 .. Len(wire) + 1 : i \in 1 .. Len(wire) \/ i = Len(wire) + 1
      BY <1>3
    <3>2. Unmarked(wire'[Len(wire) + 1]) \in Frame
      BY <1>1, <1>6, <2>2
    <3> QED
      BY <2>1, <3>1, <3>2
  <2>4. n \in [1 .. Len(wire) + 1 -> Frame]
    BY <1>5, <2>3
  <2> QED
    BY <1>3, <2>4, LaneOfFunction
<1>9. /\ \A i \in 1 .. Len(wire) : n[i] = d[i]
      /\ n[Len(wire) + 1] = f
  <2>1. Len(wire) + 1 \in 1 .. Len(wire) + 1
        /\ \A i \in 1 .. Len(wire) : i \in 1 .. Len(wire) + 1
    BY <1>3
  <2>2. wire'[Len(wire) + 1] = g
    BY <1>3
  <2>3. n[Len(wire) + 1] = Unmarked(wire'[Len(wire) + 1])
    BY <1>5, <2>1
  <2>4. \A i \in 1 .. Len(wire) : n[i] = Unmarked(wire'[i]) /\ d[i] = Unmarked(wire[i])
    BY <1>5, <2>1
  <2> QED
    BY <1>1, <1>3, <2>2, <2>3, <2>4
<1>10. d \in Seq(Frame) /\ Len(d) = Len(wire) /\ n \in Seq(Frame)
       /\ Len(n) = Len(wire) + 1
  BY <1>7, <1>8
<1> HIDE DEF d, n
<1>11. /\ Append(d, f) \in Seq(Frame) /\ Len(Append(d, f)) = Len(wire) + 1
       /\ \A i \in 1 .. Len(wire) : Append(d, f)[i] = d[i]
       /\ Append(d, f)[Len(wire) + 1] = f
  BY <1>10, AppendFacts
<1>12. \A i \in 1 .. Len(n) : n[i] = Append(d, f)[i]
  BY <1>3, <1>9, <1>10, <1>11
<1>13. n = Append(d, f)
  BY <1>10, <1>11, <1>12, SeqEqual
<1> QED
  BY <1>13 DEF n, d

----------------------------------------------------------------------------
(* What every step of a connection keeps.                                  *)

LEMMA InitBounded == Init => Bounded
BY ConnectionAssumption DEF Init, Bounded

\* The counters of the encoder move with a frame that is encoded.
LEMMA BoundedKept ==
    ASSUME TypeOK, Bounded, [Next]_vars
    PROVE  Bounded'
<1> USE DEF descriptor, queues, writer, callers, sending, framing, history
<1>1. ASSUME NEW t \in Threads, SendStep(t) PROVE Bounded'
  <2>1. CASE EnableEncryption(t)
    BY <2>1 DEF EnableEncryption, Bounded
  <2>2. ASSUME Encode(t), nextLow' \in {nextLow, nextLow + 1} PROVE Bounded'
    <3>1. encoded' = encoded + 1 /\ encoded < MaxFrames
          /\ cipher' \in {cipher, cipher + 1}
      BY <2>2 DEF Encode
    <3> QED
      BY <2>2, <3>1, ConnectionAssumption DEF Bounded, TypeOK
  <2>3. ASSUME NEW size \in Sizes, NEW l \in BOOLEAN, NEW b \in BOOLEAN,
               SendQueued(t, size, l, b)
        PROVE  Bounded'
    <3>1. EncodedFrame(size, l, b).low \in {0, nextLow + 1}
      BY DEF EncodedFrame
    <3> QED
      BY <2>2, <2>3, <3>1 DEF SendQueued
  <2>4. CASE SendRefused(t)
    BY <2>2, <2>4 DEF SendRefused
  <2>5. ASSUME NEW size \in Sizes, SendOverflows(t, size) \/ DirectBegin(t, size)
        PROVE  Bounded'
    BY <2>2, <2>5 DEF SendOverflows, DirectBegin
  <2> QED
    BY <1>1, <2>1, <2>3, <2>4, <2>5 DEF SendStep
<1>2. ASSUME UNCHANGED <<encoded, nextLow, cipher>> PROVE Bounded'
  BY <1>2 DEF Bounded
<1>3. CASE WriterNext
  BY <1>2, <1>3 DEF WriterNext, WriterTake, WriterSleep, WriterStops, WriterSendOk,
              WriterSendFail, WriterSent, WriterFailed, WriterExit, WriterShut
<1>4. ASSUME NEW t \in Threads, DirectStep(t) \/ Call(t) PROVE Bounded'
  BY <1>2, <1>4 DEF DirectStep, DirectOk, DirectFail, Call
<1>5. ASSUME NEW t \in Threads, TeardownStep(t) PROVE Bounded'
  BY <1>2, <1>5 DEF TeardownStep, BeginStop, NotifyStop, DrainDone, DrainSleep,
              DrainTimeout, CutTail, JoinWriter, CloseFd, ReleaseFd
<1>6. CASE (\E r \in Readers : UseBegin(r) \/ UseEnd(r)) \/ UNCHANGED vars
  BY <1>2, <1>6 DEF UseBegin, UseEnd, vars
<1> QED
  BY <1>1, <1>3, <1>4, <1>5, <1>6 DEF Next

\* Only an open descriptor stays one.
LEMMA DownForGood ==
    ASSUME [Next]_vars, fd' = "open"
    PROVE  fd = "open"
<1> USE DEF descriptor, queues, writer, callers, sending, framing, history, ShutDown
<1>1. CASE WriterNext
  BY <1>1 DEF WriterNext, WriterTake, WriterSleep, WriterStops, WriterSendOk,
              WriterSendFail, WriterSent, WriterFailed, WriterExit, WriterShut
<1>2. ASSUME NEW t \in Threads, SendStep(t) \/ DirectStep(t) \/ Call(t)
      PROVE  fd = "open"
  BY <1>2 DEF SendStep, EnableEncryption, SendQueued, SendRefused, SendOverflows,
              DirectBegin, DirectStep, DirectOk, DirectFail, Call
<1>3. ASSUME NEW t \in Threads, TeardownStep(t) PROVE fd = "open"
  BY <1>3 DEF TeardownStep, BeginStop, NotifyStop, DrainDone, DrainSleep,
              DrainTimeout, CutTail, JoinWriter, CloseFd, ReleaseFd
<1>4. CASE (\E r \in Readers : UseBegin(r) \/ UseEnd(r)) \/ UNCHANGED vars
  BY <1>4 DEF UseBegin, UseEnd, vars
<1> QED
  BY <1>1, <1>2, <1>3, <1>4 DEF Next

\* Who may rely on both ends of a step: the invariant holds before and after,
\* and what has ended stays ended.
Before == /\ CInv /\ CInv'
          /\ Accepting' => Accepting
          /\ fd' = "open" => fd = "open"

LEMMA InvariantSteps ==
    ASSUME CInv, [Next]_vars
    PROVE  Before
<1>1. CInv'
  <2>1. FInv'
    <3>1. IInv'
      BY NextIInv DEF CInv, FInv
    <3>2. Stopping'
      BY StoppingKept DEF CInv, FInv
    <3>3. Flow' /\ Counted'
      BY NextFlow DEF CInv
    <3> QED
      BY <3>1, <3>2, <3>3 DEF FInv
  <2>2. Bounded'
    BY BoundedKept DEF CInv, FInv, IInv
  <2> QED
    BY <2>1, <2>2 DEF CInv
<1>2. Accepting' => Accepting
  <2>1. Ended => Ended'
    BY EndedStays DEF CInv, FInv
  <2>2. TypeOK /\ TypeOK'
    BY <1>1 DEF CInv, FInv, IInv
  <2> QED
    BY <2>1, <2>2, AcceptingUnlessEnded, AcceptingUnlessEndedNext
<1>3. fd' = "open" => fd = "open"
  BY DownForGood
<1> QED
  BY <1>1, <1>2, <1>3 DEF Before

----------------------------------------------------------------------------
(* The writer's steps.                                                     *)

LEMMA CalmChannel ==
    ASSUME Before, Calm
    PROVE  ChannelStep
<1>1. /\ high' = high /\ low' = low /\ wframe' = wframe /\ direct' = direct
      /\ wire' = wire
  BY DEF Calm, queues, history
<1>2. wpc' = wpc \/ (wpc \notin {"send", "failed"} /\ wpc' \notin {"send", "failed"})
  BY DEF Calm, InHand
<1>3. InFlight' = InFlight
  BY <1>1, <1>2 DEF InFlight
<1>4. Urgent' = Urgent /\ Deferred' = Deferred
  BY <1>1, <1>3, LanesUnchanged
<1>5. Delivered' = Delivered
  BY <1>1, DeliveredUnchanged
<1> QED
  BY <1>4, <1>5, Closes DEF Before

LEMMA ConsHeadTail ==
    ASSUME NEW S, NEW s \in Seq(S), s # << >>
    PROVE  <<Head(s)>> \o Tail(s) = s
<1> DEFINE h == Head(s)
           r == Tail(s)
<1>1. /\ h \in S /\ r \in Seq(S) /\ Len(r) = Len(s) - 1 /\ Len(s) \in Nat
      /\ h = s[1] /\ \A i \in 1 .. Len(s) - 1 : r[i] = s[i + 1]
      /\ Len(s) >= 1
  BY TailFacts
<1> HIDE DEF h, r
<1> DEFINE c == <<h>> \o r
<1>2. /\ c \in Seq(S) /\ DOMAIN c = 1 .. Len(r) + 1 /\ c[1] = h
      /\ \A i \in 1 .. Len(r) : c[i + 1] = r[i]
  BY <1>1, ConsFacts
<1> HIDE DEF c
<1>3. Len(c) = Len(s)
  BY <1>1, <1>2, LenProperties
<1>4. \A i \in 1 .. Len(s) : c[i] = s[i]
  <2> SUFFICES ASSUME NEW i \in 1 .. Len(s) PROVE c[i] = s[i]
    OBVIOUS
  <2>1. CASE i = 1
    BY <1>1, <1>2, <2>1
  <2>2. CASE i # 1
    <3>1. i - 1 \in 1 .. Len(r) /\ i - 1 + 1 = i
      BY <1>1, <2>2
    <3> QED
      BY <1>1, <1>2, <3>1
  <2> QED
    BY <2>1, <2>2
<1>5. c = s
  BY <1>2, <1>3, <1>4, SeqEqual
<1> QED
  BY <1>5 DEF c, h, r

\* A frame that is taken stays at the front of its lane.
LEMMA TakenChannel ==
    ASSUME Before, NEW f \in Frame, Taken(f)
    PROVE  ChannelStep
<1>1. TypeOK /\ TypeOK' /\ Lanes /\ FInv /\ FInv'
  BY DEF Before, CInv, FInv, IInv, Flow
<1>2. InFlight = << >> /\ InFlight' = <<f>>
  BY DEF Taken, InFlight
<1>3. Urgent = high /\ Deferred = low
  BY <1>1, <1>2, LanesNow
<1>4. /\ f.low = 0 => Urgent' = <<f>> \o high' /\ Deferred' = low'
      /\ f.low # 0 => Urgent' = high' /\ Deferred' = <<f>> \o low'
  BY <1>1, <1>2, LanesNext
<1>5. Urgent' = Urgent /\ Deferred' = Deferred
  <2>1. CASE high # << >> /\ f = Head(high) /\ high' = Tail(high) /\ low' = low
    <3>1. high \in Seq(Frame)
      BY <1>1 DEF TypeOK
    <3>2. Head(high) = high[1] /\ 1 \in DOMAIN high
      BY <2>1, <3>1, TailFacts
    <3>3. f.low = 0
      BY <1>1, <2>1, <3>2 DEF Lanes
    <3>4. <<f>> \o high' = high
      BY <2>1, <3>1, ConsHeadTail
    <3> QED
      BY <1>3, <1>4, <2>1, <3>3, <3>4
  <2>2. CASE low # << >> /\ f = Head(low) /\ low' = Tail(low) /\ high' = high
    <3>1. low \in Seq(Frame) /\ LowTaken = doneLow /\ doneLow \in Nat
      BY <1>1 DEF TypeOK, LowTaken, InHand, Taken
    <3>2. Head(low) = low[1] /\ 1 \in DOMAIN low
      BY <2>2, <3>1, TailFacts
    <3>3. f.low # 0
      BY <1>1, <2>2, <3>1, <3>2 DEF Lanes
    <3>4. <<f>> \o low' = low
      BY <2>2, <3>1, ConsHeadTail
    <3> QED
      BY <1>3, <1>4, <2>2, <3>3, <3>4
  <2> QED
    BY <2>1, <2>2 DEF Taken
<1>6. Delivered' = Delivered
  BY DeliveredUnchanged DEF Taken
<1> QED
  BY <1>5, <1>6, Closes DEF Before

LEMMA SentChannel ==
    ASSUME Before, WriterSent
    PROVE  ChannelStep
<1>1. /\ wpc = "sent" /\ wpc' = "ready" /\ high' = high /\ low' = low
      /\ direct' = direct /\ wire' = wire
  BY DEF WriterSent, callers, sending, history
<1>2. direct = NoFrame
  BY <1>1, WriterAlone DEF Before, CInv
<1>3. InFlight' = InFlight
  BY <1>1, <1>2 DEF InFlight
<1> QED
  BY <1>1, <1>3, LanesUnchanged, DeliveredUnchanged, Closes DEF Before

LEMMA SendFailChannel ==
    ASSUME Before, WriterSendFail
    PROVE  ChannelStep
<1>1. /\ wpc = "send" /\ wpc' = "failed" /\ wframe' = wframe
      /\ high' = high /\ low' = low
      /\ wire' = wire \/ wire' = Append(wire, OnWire(wframe, FALSE))
  BY DEF WriterSendFail, queues
<1>2. InFlight' = InFlight
  BY <1>1 DEF InFlight
<1>3. TypeOK /\ wframe \in Frame /\ Torn
  BY <1>1 DEF Before, CInv, FInv, IInv, FramesInHand, Flow
<1>4. \A j \in DOMAIN wire : wire[j].whole
  BY <1>1, <1>3, WireIsWhole
<1>5. Delivered' = Delivered
  BY <1>1, <1>3, <1>4, DeliveredUnchanged, TornAddsNothing
<1> QED
  BY <1>1, <1>2, <1>5, LanesUnchanged, Closes DEF Before

LEMMA SendOkChannel ==
    ASSUME Before, WriterSendOk
    PROVE  ChannelStep
<1>1. /\ wpc = "send" /\ wpc' = "sent" /\ fd = "open" /\ fd' = fd
      /\ high' = high /\ low' = low /\ direct' = direct
      /\ wire' = Append(wire, OnWire(wframe, TRUE))
      /\ stop' = stop /\ directFailed' = directFailed /\ pc' = pc
  BY DEF WriterSendOk, descriptor, queues, callers, sending
<1>2. /\ TypeOK /\ TypeOK' /\ wframe \in Frame /\ Torn /\ Lanes /\ Arrived
      /\ Hands /\ FInv
  BY <1>1 DEF Before, CInv, FInv, IInv, FramesInHand, Flow
<1>3. \A j \in DOMAIN wire : wire[j].whole
  BY <1>1, <1>2, WireIsWhole
<1>4. Delivered' = Append(Delivered, wframe)
  BY <1>1, <1>2, <1>3, WholeIsDelivered
<1>5. direct = NoFrame
  BY <1>1, <1>2, WriterAlone
<1>6. InFlight = <<wframe>> /\ InFlight' = << >>
  BY <1>1, <1>5 DEF InFlight
<1>7. Urgent' = high /\ Deferred' = low
  BY <1>1, <1>2, <1>6, LanesNext
<1>8. Accepting' = Accepting
  <2>1. Accepting' <=> Accepting
    BY <1>1 DEF Accepting
  <2> QED
    BY <2>1, AcceptingBoolean
<1>9. /\ high \in Seq(Frame) /\ low \in Seq(Frame) /\ doneLow \in Nat
      /\ wframe.low \in Nat /\ wframe.after \in Nat /\ InHand
  BY <1>1, <1>2 DEF TypeOK, Frame, InHand
<1>10. CASE wframe.low = 0
  <2>1. Urgent = <<wframe>> \o high /\ Deferred = low
    BY <1>2, <1>6, <1>10, LanesNow
  <2>2. Urgent # << >> /\ Head(Urgent) = wframe /\ Tail(Urgent) = high
    BY <1>2, <1>9, <2>1, ConsFacts
  <2>3. \A i \in DOMAIN low : low[i].low = doneLow + i /\ i \in Nat /\ i >= 1
    BY <1>2, <1>10, LaneFacts DEF Lanes, LowTaken
  <2>4. wframe.after = 0 \/ wframe.after = doneLow
    BY <1>1, <1>2, <1>9 DEF Arrived
  <2>5. \A i \in DOMAIN Deferred : Deferred[i].low > Head(Urgent).after
    BY <1>9, <2>1, <2>2, <2>3, <2>4
  <2> QED
    BY <1>1, <1>4, <1>7, <1>8, <2>1, <2>2, <2>5, DeliversUrgent
<1>11. CASE wframe.low # 0
  <2>1. Deferred = <<wframe>> \o low /\ Urgent = high
    BY <1>2, <1>6, <1>11, LanesNow
  <2>2. Deferred # << >> /\ Head(Deferred) = wframe /\ Tail(Deferred) = low
    BY <1>2, <1>9, <2>1, ConsFacts
  <2>3. LowTaken = wframe.low
    BY <1>9, <1>11 DEF LowTaken
  <2>4. \A i \in DOMAIN Urgent :
            Urgent[i].after > 0 => Head(Deferred).low <= Urgent[i].after
    BY <1>2, <2>1, <2>2, <2>3 DEF Lanes
  <2> QED
    BY <1>1, <1>4, <1>7, <1>8, <2>1, <2>2, <2>4, DeliversDeferred
<1> QED
  BY <1>10, <1>11

----------------------------------------------------------------------------
(* Dropping what is queued.                                                *)

LEMMA PrefixFacts ==
    ASSUME NEW S, NEW s \in Seq(S)
    PROVE  /\ << >> \in Channel!Prefixes(s)
           /\ \A f \in S : <<f>> \in Channel!Prefixes(<<f>> \o s)
<1>1. << >> \in Channel!Prefixes(s)
  <2>1. SubSeq(s, 1, 0) = << >> /\ 0 \in 0 .. Len(s)
    BY SubSeqEmpty, LenProperties
  <2> QED
    BY <2>1 DEF Channel!Prefixes
<1>2. ASSUME NEW f \in S PROVE <<f>> \in Channel!Prefixes(<<f>> \o s)
  <2> DEFINE c == <<f>> \o s
  <2>1. /\ SubSeq(c, 1, 1) = <<f>> /\ DOMAIN c = 1 .. Len(s) + 1
        /\ c \in Seq(S) /\ Len(s) \in Nat
    BY ConsFacts, LenProperties
  <2> HIDE DEF c
  <2>2. 1 \in 0 .. Len(c)
    BY <2>1, LenProperties
  <2>3. <<f>> \in Channel!Prefixes(c)
    BY <2>1, <2>2 DEF Channel!Prefixes
  <2> QED
    BY <2>3 DEF c
<1> QED
  BY <1>1, <1>2

LEMMA LanesAreSequences ==
    ASSUME FInv
    PROVE  Urgent \in Seq(Frame) /\ Deferred \in Seq(Frame)
<1>1. TypeOK /\ high \in Seq(Frame) /\ low \in Seq(Frame)
  BY DEF FInv, IInv, TypeOK
<1>2. CASE InFlight = << >>
  BY <1>1, <1>2, LanesNow
<1>3. ASSUME NEW f \in Frame, InFlight = <<f>>
      PROVE  Urgent \in Seq(Frame) /\ Deferred \in Seq(Frame)
  <2>1. <<f>> \o high \in Seq(Frame) /\ <<f>> \o low \in Seq(Frame)
    BY <1>1, ConsFacts
  <2> QED
    BY <1>1, <1>3, <2>1, LanesNow
<1> QED
  BY <1>2, <1>3, InFlightNow

\* The queue is emptied; a frame in flight stays where it is.
LEMMA DroppedChannel ==
    ASSUME Before, Dropped
    PROVE  ChannelStep
<1>1. /\ high' = << >> /\ low' = << >> /\ wire' = wire
      /\ wpc' = wpc /\ wframe' = wframe /\ direct' = direct
  BY DEF Dropped
<1>2. /\ TypeOK /\ TypeOK' /\ FInv
      /\ high \in Seq(Frame) /\ low \in Seq(Frame)
  BY DEF Before, CInv, FInv, IInv, TypeOK
<1>3. InFlight' = InFlight
  BY <1>1 DEF InFlight
<1>4. ~Accepting'
  BY <1>2, AcceptingUnlessEndedNext DEF Dropped
<1>5. Urgent' \in Channel!Prefixes(Urgent) /\ Deferred' \in Channel!Prefixes(Deferred)
  <2>1. CASE InFlight = << >>
    <3>1. Urgent' = << >> /\ Deferred' = << >>
      BY <1>1, <1>2, <1>3, <2>1, LanesNext
    <3> QED
      BY <1>2, <3>1, LanesAreSequences, PrefixFacts
  <2>2. ASSUME NEW f \in Frame, InFlight = <<f>>
        PROVE  /\ Urgent' \in Channel!Prefixes(Urgent)
               /\ Deferred' \in Channel!Prefixes(Deferred)
    <3>1. <<f>> \o << >> = <<f>>
      OBVIOUS
    <3>2. CASE f.low = 0
      <4>1. /\ Urgent = <<f>> \o high /\ Deferred = low
            /\ Urgent' = <<f>> /\ Deferred' = << >>
        BY <1>1, <1>2, <1>3, <2>2, <3>1, <3>2, LanesNow, LanesNext
      <4> QED
        BY <1>2, <4>1, PrefixFacts
    <3>3. CASE f.low # 0
      <4>1. /\ Urgent = high /\ Deferred = <<f>> \o low
            /\ Urgent' = << >> /\ Deferred' = <<f>>
        BY <1>1, <1>2, <1>3, <2>2, <3>1, <3>3, LanesNow, LanesNext
      <4> QED
        BY <1>2, <4>1, PrefixFacts
    <3> QED
      BY <3>2, <3>3
  <2> QED
    BY <1>2, <2>1, <2>2, InFlightNow
<1>6. Delivered' = Delivered
  BY <1>1, DeliveredUnchanged
<1> QED
  BY <1>4, <1>5, <1>6, Drops DEF Before

\* The lanes end up empty, and nothing is in flight any more.
LEMMA LosesAll ==
    ASSUME Before, high' = << >>, low' = << >>, InFlight' = << >>,
           Delivered' = Delivered, ~Accepting'
    PROVE  ChannelStep
<1>1. FInv /\ TypeOK'
  BY DEF Before, CInv, FInv, IInv
<1>2. Urgent' = << >> /\ Deferred' = << >>
  BY <1>1, LanesNext
<1> QED
  BY <1>1, <1>2, LanesAreSequences, PrefixFacts, Drops DEF Before

LEMMA FailedChannel ==
    ASSUME Before, WriterFailed
    PROVE  ChannelStep
<1>1. /\ wpc = "failed" /\ wpc' = "exit" /\ high' = << >> /\ low' = << >>
      /\ direct' = direct /\ wire' = wire /\ stop'
  BY DEF WriterFailed, callers, sending
<1>2. direct = NoFrame
  BY <1>1, WriterAlone DEF Before, CInv
<1>3. InFlight' = << >>
  BY <1>1, <1>2 DEF InFlight
<1>4. ~Accepting'
  BY <1>1 DEF Accepting
<1> QED
  BY <1>1, <1>3, <1>4, DeliveredUnchanged, LosesAll

LEMMA JoinChannel ==
    ASSUME Before, NEW t \in Threads, JoinWriter(t)
    PROVE  ChannelStep
<1>1. /\ wpc = "done" /\ wpc' = "none" /\ high' = << >> /\ low' = << >>
      /\ direct' = direct /\ wire' = wire /\ Goto(t, "closeFd")
  BY DEF JoinWriter, sending, history
<1>2. direct = NoFrame
  BY <1>1, WriterAlone DEF Before, CInv
<1>3. InFlight' = << >>
  BY <1>1, <1>2 DEF InFlight
<1>4. ~Accepting'
  <2>1. pc'[t] = "closeFd"
    BY <1>1, GotoMoves DEF Before, CInv, FInv, IInv
  <2> QED
    BY <2>1 DEF Accepting
<1> QED
  BY <1>1, <1>3, <1>4, DeliveredUnchanged, LosesAll

----------------------------------------------------------------------------
(* Senders.                                                                *)

LEMMA EncodedIsChannelFrame ==
    ASSUME CInv, NEW f \in Frame, encoded < MaxFrames, f.id = encoded + 1,
           f.low \in {0, nextLow + 1}, f.after \in {0, nextLow},
           f.enc \in {0, cipher + 1}
    PROVE  f \in ChannelFrame
<1>1. /\ encoded \in Nat /\ nextLow \in Nat /\ cipher \in Nat /\ MaxFrames \in Nat
      /\ nextLow <= encoded /\ cipher <= encoded
  BY ConnectionAssumption DEF CInv, FInv, IInv, TypeOK, Bounded
<1>2. /\ f.id \in 1 .. MaxFrames /\ f.low \in 0 .. MaxFrames
      /\ f.after \in 0 .. MaxFrames /\ f.enc \in 0 .. MaxFrames
  BY <1>1
<1> QED
  BY <1>2 DEF Frame, ChannelFrame

LEMMA ConcatAppend ==
    ASSUME NEW S, NEW r \in Seq(S), NEW s \in Seq(S), NEW e \in S
    PROVE  r \o Append(s, e) = Append(r \o s, e)
<1>1. Append(s, e) = s \o <<e>> /\ <<e>> \in Seq(S)
  BY AppendIsConcat
<1>2. r \o s \in Seq(S)
  BY ConcatProperties
<1>3. Append(r \o s, e) = (r \o s) \o <<e>>
  BY <1>2, AppendIsConcat
<1>4. (r \o s) \o <<e>> = r \o (s \o <<e>>)
  BY <1>1, ConcatAssociative
<1> QED
  BY <1>1, <1>3, <1>4

LEMMA QueuedChannel ==
    ASSUME Before, NEW f, Queued(f), encoded < MaxFrames, fd' = fd
    PROVE  ChannelStep
<1>1. /\ FInv /\ CInv /\ TypeOK /\ TypeOK'
      /\ high \in Seq(Frame) /\ low \in Seq(Frame) /\ f \in Frame
  BY DEF Before, CInv, FInv, IInv, TypeOK, Queued
<1>2. f \in ChannelFrame
  BY <1>1, EncodedIsChannelFrame DEF Queued
<1>3. Accepting
  BY <1>1, AcceptingUnlessEnded DEF Queued
<1>4. Accepting'
  BY <1>3 DEF Accepting, Queued
<1>5. Delivered' = Delivered
  BY DeliveredUnchanged DEF Queued
<1>6. InFlight' = InFlight
  BY DEF InFlight, Queued
<1> DEFINE u == InLane(InFlight, FALSE)
           d == InLane(InFlight, TRUE)
<1>7. u \in Seq(Frame) /\ d \in Seq(Frame)
  <2>1. << >> \in Seq(Frame) /\ \A g \in Frame : <<g>> \in Seq(Frame)
    OBVIOUS
  <2>2. InFlight = << >> \/ \E g \in Frame : InFlight = <<g>>
    BY <1>1, InFlightNow
  <2>3. InFlight \in Seq(Frame)
    BY <2>1, <2>2
  <2> QED
    BY <2>1, <2>3 DEF InLane
<1>8. /\ Urgent = u \o high /\ Deferred = d \o low
      /\ Urgent' = u \o high' /\ Deferred' = d \o low'
  BY <1>6 DEF Urgent, Deferred
<1> HIDE DEF u, d
<1>9. CASE f.low # 0
  <2>1. low' = Append(low, f) /\ high' = high
    BY <1>9 DEF Queued
  <2>2. Deferred' = Append(Deferred, f) /\ Urgent' = Urgent
    BY <1>1, <1>7, <1>8, <2>1, ConcatAppend
  <2> QED
    BY <1>2, <1>3, <1>4, <1>5, <1>9, <2>2, Accepts
<1>10. CASE f.low = 0
  <2>1. high' = Append(high, f) /\ low' = low
    BY <1>10 DEF Queued
  <2>2. Urgent' = Append(Urgent, f) /\ Deferred' = Deferred
    BY <1>1, <1>7, <1>8, <2>1, ConcatAppend
  <2> QED
    BY <1>2, <1>3, <1>4, <1>5, <1>10, <2>2, Accepts
<1> QED
  BY <1>9, <1>10

\* A frame that is written at once is the only one of the connection.
LEMMA DirectBeginChannel ==
    ASSUME Before, NEW t \in Threads, NEW size \in Sizes, DirectBegin(t, size)
    PROVE  ChannelStep
<1> DEFINE f == EncodedFrame(size, FALSE, FALSE)
<1>1. /\ FInv /\ CInv /\ TypeOK /\ TypeOK' /\ Hands /\ IInv /\ Control
  BY DEF Before, CInv, FInv, IInv, Flow
<1>2. /\ Encode(t) /\ ~started /\ direct' = f /\ Goto(t, "direct")
      /\ high' = high /\ low' = low /\ wire' = wire /\ wpc' = wpc
      /\ fd' = fd /\ stop' = stop /\ directFailed' = directFailed
  BY DEF DirectBegin, descriptor, queues, writer
<1>3. ~Closing /\ \A u \in Threads : pc[u] # "direct"
  BY <1>1, <1>2, SendersOpen
<1>4. direct = NoFrame /\ wpc = "none" /\ high = << >> /\ low = << >> /\ ~stop
  BY <1>1, <1>2, <1>3 DEF Hands, QueueEmpty, Control, WriterStarted
<1>5. /\ f \in Frame /\ f.low = 0 /\ f.id = encoded + 1 /\ f.after = 0
      /\ f.enc \in {0, cipher + 1}
  <2>1. f \in Frame
    BY <1>1, EncodedFrameType
  <2> QED
    BY <2>1 DEF EncodedFrame
<1>6. encoded < MaxFrames /\ ~directFailed /\ fd # "closed"
  BY <1>2 DEF Encode
<1> HIDE DEF f
<1>7. f \in ChannelFrame
  BY <1>1, <1>5, <1>6, EncodedIsChannelFrame
<1>8. f # NoFrame
  BY <1>5, NoFrameIsNone
<1>9. InFlight = << >> /\ InFlight' = <<f>>
  BY <1>2, <1>4, <1>8 DEF InFlight
<1>10. Urgent = << >> /\ Deferred = << >>
  BY <1>1, <1>4, <1>9, LanesNow
<1>11. Urgent' = <<f>> \o << >> /\ Deferred' = << >>
  BY <1>1, <1>2, <1>4, <1>5, <1>9, LanesNext
<1>12. Urgent' = Append(Urgent, f) /\ Deferred' = Deferred
  <2>1. <<f>> \o << >> = Append(<< >>, f)
    BY <1>5, AppendIsConcat, EmptySeq, ConcatEmptySeq
  <2> QED
    BY <1>10, <1>11, <2>1
<1>13. Accepting
  BY <1>3, <1>4, <1>6 DEF Accepting, Closing
<1>14. Accepting'
  <2>1. \A u \in Threads : pc'[u] = IF u = t THEN "direct" ELSE pc[u]
    BY <1>1, <1>2, GotoMoves
  <2> QED
    BY <1>2, <1>13, <2>1 DEF Accepting
<1> QED
  BY <1>2, <1>5, <1>7, <1>12, <1>13, <1>14, DeliveredUnchanged, Accepts

LEMMA DirectChannel ==
    ASSUME Before, NEW t \in Threads, DirectStep(t)
    PROVE  ChannelStep
<1>1. /\ FInv /\ TypeOK /\ TypeOK' /\ Hands
  BY DEF Before, CInv, FInv, IInv, Flow
<1>2. /\ pc[t] = "direct" /\ high' = high /\ low' = low /\ wpc' = wpc
      /\ direct' = NoFrame /\ stop' = stop /\ fd' = fd /\ Goto(t, "idle")
  BY DEF DirectStep, DirectOk, DirectFail, descriptor, queues, writer
<1>3. /\ direct \in Frame /\ direct # NoFrame /\ direct.low = 0
      /\ direct.after = 0 /\ wpc = "none" /\ ~started
      /\ \A j \in DOMAIN wire : wire[j].whole
  BY <1>1, <1>2, DirectFacts
<1>4. high = << >> /\ low = << >>
  BY <1>1, <1>3 DEF Hands, QueueEmpty
<1>5. InFlight = <<direct>> /\ InFlight' = << >>
  BY <1>2, <1>3 DEF InFlight
<1>6. CASE DirectOk(t)
  <2>1. fd = "open" /\ wire' = Append(wire, OnWire(direct, TRUE))
        /\ directFailed' = directFailed
    BY <1>6 DEF DirectOk
  <2>2. Delivered' = Append(Delivered, direct)
    BY <1>1, <1>3, <2>1, WholeIsDelivered
  <2>3. Urgent = <<direct>> \o << >> /\ Deferred = << >>
    BY <1>1, <1>3, <1>4, <1>5, LanesNow
  <2>4. Urgent' = << >> /\ Deferred' = << >>
    BY <1>1, <1>2, <1>4, <1>5, LanesNext
  <2>5. Urgent # << >> /\ Head(Urgent) = direct /\ Tail(Urgent) = << >>
    BY <1>3, <2>3, ConsFacts, EmptySeq
  <2>6. Accepting' = Accepting
    <3>1. \A u \in Threads : pc'[u] = IF u = t THEN "idle" ELSE pc[u]
      BY <1>1, <1>2, GotoMoves
    <3>2. Accepting' <=> Accepting
      BY <1>2, <2>1, <3>1 DEF Accepting
    <3> QED
      BY <3>2, AcceptingBoolean
  <2>7. DOMAIN Deferred = {}
    BY <2>3
  <2> QED
    BY <1>2, <2>1, <2>2, <2>3, <2>4, <2>5, <2>6, <2>7, DeliversUrgent
<1>7. CASE DirectFail(t)
  <2>1. /\ wire' = wire \/ wire' = Append(wire, OnWire(direct, FALSE))
        /\ directFailed'
    BY <1>7 DEF DirectFail
  <2>2. Delivered' = Delivered
    BY <1>1, <1>3, <2>1, DeliveredUnchanged, TornAddsNothing
  <2>3. ~Accepting'
    BY <2>1 DEF Accepting
  <2> QED
    BY <1>2, <1>4, <1>5, <2>2, <2>3, LosesAll
<1> QED
  BY <1>6, <1>7 DEF DirectStep

----------------------------------------------------------------------------

LEMMA InitChannel == Init => Channel!Init
<1> SUFFICES ASSUME Init PROVE Channel!Init
  OBVIOUS
<1>1. /\ high = << >> /\ low = << >> /\ wire = << >> /\ fd = "open"
      /\ wpc = "none" /\ direct = NoFrame
      /\ ~stop /\ ~directFailed /\ \A t \in Threads : pc[t] = "idle"
  BY DEF Init
<1>2. InFlight = << >>
  BY <1>1 DEF InFlight
<1>3. Urgent = << >> /\ Deferred = << >>
  <2>1. InLane(<< >>, FALSE) = << >> /\ InLane(<< >>, TRUE) = << >>
    BY DEF InLane
  <2>2. << >> \o << >> = << >>
    OBVIOUS
  <2> QED
    BY <1>1, <1>2, <2>1, <2>2 DEF Urgent, Deferred
<1>4. Delivered = << >>
  <2>1. Arrivals = << >>
    BY <1>1 DEF Arrivals
  <2> QED
    BY <2>1 DEF Delivered
<1>5. Accepting = TRUE
  <2>1. Accepting
    BY <1>1 DEF Accepting
  <2> QED
    BY <2>1, AcceptingBoolean
<1>6. (fd = "open") = TRUE
  BY <1>1
<1> QED
  BY <1>3, <1>4, <1>5, <1>6 DEF Channel!Init

LEMMA NextChannel ==
    ASSUME CInv, [Next]_vars
    PROVE  ChannelStep
<1>0. Before /\ FInv /\ IInv /\ Flow
  BY InvariantSteps DEF CInv, FInv
<1>1. CASE WriterNext
  <2>1. CASE WriterTake
    BY <1>0, <2>1, TakenFacts, TakenChannel
  <2>2. CASE CalmWriter
    BY <1>0, <2>2, CalmSteps, CalmChannel
  <2>3. CASE WriterSendOk \/ WriterSendFail \/ WriterSent \/ WriterFailed
    BY <1>0, <2>3, SendOkChannel, SendFailChannel, SentChannel, FailedChannel
  <2> QED
    BY <1>1, <2>1, <2>2, <2>3 DEF WriterNext, CalmWriter
<1>2. ASSUME NEW t \in Threads, SendStep(t) PROVE ChannelStep
  <2>1. CASE EnableEncryption(t) \/ SendRefused(t)
    <3>1. CalmCaller(t)
      BY <2>1 DEF CalmCaller
    <3> QED
      BY <1>0, <3>1, CalmSteps, CalmChannel
  <2>2. ASSUME NEW size \in Sizes, NEW l \in BOOLEAN, NEW b \in BOOLEAN,
               SendQueued(t, size, l, b)
        PROVE  ChannelStep
    <3>1. Queued(EncodedFrame(size, l, b))
      BY <1>0, <2>2, QueuedFacts
    <3>2. encoded < MaxFrames /\ fd' = fd
      BY <2>2 DEF SendQueued, Encode, descriptor
    <3> QED
      BY <1>0, <3>1, <3>2, QueuedChannel
  <2>3. ASSUME NEW size \in Sizes, SendOverflows(t, size)
        PROVE  ChannelStep
    BY <1>0, <2>3, OverflowDrops, DroppedChannel
  <2>4. ASSUME NEW size \in Sizes, DirectBegin(t, size)
        PROVE  ChannelStep
    BY <1>0, <2>4, DirectBeginChannel
  <2> QED
    BY <1>2, <2>1, <2>2, <2>3, <2>4 DEF SendStep
<1>3. ASSUME NEW t \in Threads, TeardownStep(t) \/ Call(t) PROVE ChannelStep
  <2>1. CASE JoinWriter(t)
    BY <1>0, <2>1, JoinChannel
  <2>2. CASE \/ BeginStop(t) /\ ~(UNCHANGED <<high, low, queuedBytes, cut>>)
             \/ CutTail(t)
    <3>1. Ended => Ended'
      BY <1>0, EndedStays
    <3>2. Dropped
      BY <1>0, <2>2, <3>1, TeardownDrops
    <3> QED
      BY <1>0, <3>2, DroppedChannel
  <2>3. CASE CalmCaller(t)
    BY <1>0, <2>3, CalmSteps, CalmChannel
  <2> QED
    BY <1>3, <2>1, <2>2, <2>3 DEF TeardownStep, CalmCaller
<1>4. ASSUME NEW t \in Threads, DirectStep(t) PROVE ChannelStep
  BY <1>0, <1>4, DirectChannel
<1>5. CASE (\E r \in Readers : UseBegin(r) \/ UseEnd(r)) \/ UNCHANGED vars
  BY <1>0, <1>5, CalmSteps, CalmChannel
<1> QED
  BY <1>1, <1>2, <1>3, <1>4, <1>5 DEF Next

\* The encoder's counters never exceed the frames it was given, and with them
\* every frame a connection handles is a frame of the channel.
THEOREM ChannelInvariant == Spec => []CInv
<1>1. Init => Bounded
  BY InitBounded
<1>2. TypeOK /\ Bounded /\ [Next]_vars => Bounded'
  BY BoundedKept
<1>3. FInv => TypeOK
  BY DEF FInv, IInv
<1>4. Spec => []Bounded
  BY <1>1, <1>2, <1>3, FlowInvariant, PTL DEF Spec
<1>5. FInv /\ Bounded <=> CInv
  BY DEF CInv
<1> QED
  BY <1>4, <1>5, FlowInvariant, PTL

\* A connection, with its writer thread, its direct sends, its drain and all
\* the ways to tear it down, behaves like the two-lane channel: what the peer
\* receives comes off the fronts of the lanes, a barrier after the low frames
\* before it, and only a channel that takes no more frames drops some.
THEOREM ConnectionIsAChannel == Spec => ImplementsChannel
<1>1. Init => Channel!Init
  BY InitChannel
<1>2. CInv /\ [Next]_vars => [Channel!Next]_(Channel!vars)
  BY NextChannel DEF ChannelStep
<1> QED
  BY <1>1, <1>2, ChannelInvariant, PTL DEF Spec, ImplementsChannel, Channel!Spec
=============================================================================

---------------------------- MODULE Connection ----------------------------
(***************************************************************************)
(* One client connection: net/Connection.hpp.                              *)
(*                                                                         *)
(* Several server threads share a Connection.  A frame is encoded under    *)
(* tx_ and either written at once (before the connection has a writer      *)
(* thread) or queued for that writer in one of two lanes: the urgent lane  *)
(* and the low-priority one that carries chunks.  A barrier frame of the   *)
(* urgent lane waits for the low frames queued before it.  close() drains  *)
(* the queue for at most 100 ms, abort() throws it away; both join the     *)
(* writer before the descriptor goes back to the operating system.         *)
(*                                                                         *)
(* A critical section of queueMtx_ is one action.  lifecycleMtx_ is only   *)
(* taken under tx_, so it is folded into it.  The condition variable       *)
(* queueCv_ is the set of the threads asleep on it: a notification takes   *)
(* threads out of the set, and a thread in it cannot run.                  *)
(***************************************************************************)
EXTENDS Integers, Sequences, FiniteSets

CONSTANTS
    Threads,         \* threads that send on or tear down the connection
    Readers,         \* threads that use the descriptor through SocketUse
    Writer,          \* the writer thread of the connection
    NoThread,        \* tx_ is free
    Sizes,           \* sizes of encoded frames
    MaxQueuedBytes,  \* kMaxQueuedBytes
    MaxFrames        \* bound: frames encoded in one behaviour

\* PacketEncoder caps a frame at 2^21 + 2 bytes, under kMaxQueuedBytes = 2^22.
ASSUME ConnectionAssumption ==
    /\ Writer \notin Threads
    /\ NoThread \notin Threads
    /\ MaxQueuedBytes \in Nat
    /\ Sizes \subseteq 1 .. MaxQueuedBytes
    /\ MaxFrames \in Nat

VARIABLES
    fd,              \* "open", "shut" (down, number still owned), "closed"
    socketClosing,   \* closeFd has begun
    uses,            \* readers that hold a SocketUse (activeSocketUses_)
    tx,              \* owner of tx_
    pc,              \* where each thread is in the call it is in
    direct,          \* frame of a direct send, written under tx_
    directFailed,    \* a direct send threw: its session sends nothing more
    encrypted,       \* encrypted_
    encoded,         \* frames encoded so far
    cipher,          \* frames the outgoing cipher has run over
    high, low,       \* queuedFrames_, queuedLowFrames_
    queuedBytes,     \* queuedBytes_
    nextLow,         \* nextLowSequence_
    doneLow,         \* completedLowSequence_
    started,         \* writerStarted_
    stop,            \* writerStop_
    busy,            \* writerBusy_
    exitShut,        \* shutdownOnWriterExit_
    wpc,             \* where the writer is
    wframe,          \* the frame the writer is sending
    asleep,          \* threads waiting on queueCv_
    wire,            \* what the peer's stream carries, in order
    accepted,        \* ids of the frames queued or begun directly
    cut              \* ids dropped by an abort, timeout, overflow or error

descriptor == <<fd, socketClosing, uses>>
queues     == <<high, low, queuedBytes, nextLow, doneLow>>
writer     == <<started, stop, busy, exitShut, wpc, wframe>>
framing    == <<encrypted, encoded, cipher>>
sending    == <<direct, directFailed>>
callers    == <<tx, pc, sending, framing>>
history    == <<wire, accepted, cut>>
vars       == <<descriptor, queues, writer, callers, asleep, history>>

----------------------------------------------------------------------------

\* low: place in the low lane, 0 in the urgent one; after: waitForLowSequence;
\* enc: place in the cipher stream, 0 for plain text.
Frame == [id : Nat, size : Sizes, low : Nat, after : Nat, enc : Nat]
WireFrame == [id : Nat, size : Sizes, low : Nat, after : Nat, enc : Nat,
              whole : BOOLEAN]

NoFrame == [id |-> 0, size |-> 0, low |-> 0, after |-> 0, enc |-> 0]

OnWire(f, complete) ==
    [id |-> f.id, size |-> f.size, low |-> f.low, after |-> f.after,
     enc |-> f.enc, whole |-> complete]

Ids(s) == {s[i].id : i \in DOMAIN s}

CallerStates == {"idle", "direct", "close", "abort", "notifyClose",
                 "notifyAbort", "drain", "cut", "join", "closeFd", "awaitUses"}
WriterStates == {"none", "ready", "send", "sent", "failed", "exit", "shut",
                 "done"}

\* Faulty: a barrier is content with all but one of its low frames.
BarrierBlockedEarly == high # <<>> /\ Head(high).after > doneLow + 1

\* The front urgent frame waits for low frames that are not sent yet.
BarrierBlocked == high # <<>> /\ Head(high).after > doneLow

\* Faulty: the urgent lane is served only when the low one is empty.
TakesHighLast == high # <<>> /\ ~BarrierBlocked /\ low = <<>>

TakesHigh == high # <<>> /\ ~BarrierBlocked

TakesLow == /\ low # <<>>
            /\ ~TakesHigh
            /\ BarrierBlocked => Head(low).low <= Head(high).after

CanTake == TakesHigh \/ TakesLow

QueueEmpty == high = <<>> /\ low = <<>>

\* Faulty: the byte count survives its queue.
DropQueueKeepBytes ==
    /\ high' = <<>>
    /\ low' = <<>>
    /\ UNCHANGED queuedBytes
    /\ cut' = cut \cup Ids(high) \cup Ids(low)

DropQueue ==
    /\ high' = <<>>
    /\ low' = <<>>
    /\ queuedBytes' = 0
    /\ cut' = cut \cup Ids(high) \cup Ids(low)

ShutDown(d) == IF d = "open" THEN "shut" ELSE d

NotifyAll == asleep' = {}
\* Faulty: a new frame wakes nobody.
NotifyNobody == UNCHANGED asleep

NotifyOne == \/ asleep = {} /\ asleep' = {}
             \/ \E x \in asleep : asleep' = asleep \ {x}

Goto(t, place) == pc' = [pc EXCEPT ![t] = place]

----------------------------------------------------------------------------

Init ==
    /\ fd = "open" /\ socketClosing = FALSE /\ uses = {}
    /\ tx = NoThread /\ pc = [t \in Threads |-> "idle"]
    /\ direct = NoFrame /\ directFailed = FALSE
    /\ encrypted = FALSE /\ encoded = 0 /\ cipher = 0
    /\ high = <<>> /\ low = <<>> /\ queuedBytes = 0
    /\ nextLow = 0 /\ doneLow = 0
    /\ started = FALSE /\ stop = FALSE /\ busy = FALSE /\ exitShut = FALSE
    /\ wpc = "none" /\ wframe = NoFrame
    /\ asleep = {}
    /\ wire = <<>> /\ accepted = {} /\ cut = {}

----------------------------------------------------------------------------
(* Sending.                                                                *)

\* The login handler turns encryption on once, after its EncryptionRequest
\* went through the writer and before any chunk exists.
EnableEncryption(t) ==
    /\ pc[t] = "idle" /\ tx = NoThread
    /\ started /\ nextLow = 0 /\ ~encrypted
    /\ encrypted' = TRUE
    /\ UNCHANGED <<descriptor, queues, writer, tx, pc, sending, encoded,
                   cipher, asleep, history>>

\* tx_ is free, the descriptor is valid, and the frame is encoded.
Encode(t) ==
    /\ pc[t] = "idle" /\ tx = NoThread
    /\ fd # "closed" /\ ~directFailed
    /\ encoded < MaxFrames
    /\ encoded' = encoded + 1
    /\ cipher' = IF encrypted THEN cipher + 1 ELSE cipher

\* Faulty: encrypted frames may be deferred.
EncodedFrameAnyLane(size, lowPriority, barrier) ==
    [id |-> encoded + 1, size |-> size,
     low |-> IF lowPriority THEN nextLow + 1 ELSE 0,
     after |-> IF barrier THEN nextLow ELSE 0,
     enc |-> IF encrypted THEN cipher + 1 ELSE 0]

\* Faulty: a barrier names the last low frame by an index from zero.
EncodedFrameFromZero(size, lowPriority, barrier) ==
    LET inLow == lowPriority /\ ~encrypted
    IN  [id |-> encoded + 1, size |-> size,
         low |-> IF inLow THEN nextLow + 1 ELSE 0,
         after |-> IF barrier /\ ~inLow THEN nextLow - 1 ELSE 0,
         enc |-> IF encrypted THEN cipher + 1 ELSE 0]

\* Encrypted frames stay in one lane.
EncodedFrame(size, lowPriority, barrier) ==
    LET inLow == lowPriority /\ ~encrypted
    IN  [id |-> encoded + 1, size |-> size,
         low |-> IF inLow THEN nextLow + 1 ELSE 0,
         after |-> IF barrier /\ ~inLow THEN nextLow ELSE 0,
         enc |-> IF encrypted THEN cipher + 1 ELSE 0]

Overflows(size) == queuedBytes > MaxQueuedBytes - size

StartWriter ==
    /\ started' = TRUE
    /\ stop' = FALSE
    /\ wpc' = IF started THEN wpc ELSE "ready"

\* A send inside a simulation dispatch, or once the writer runs.
SendQueued(t, size, lowPriority, barrier) ==
    LET f == EncodedFrame(size, lowPriority, barrier)
    IN  /\ Encode(t)
        /\ ~stop
        /\ ~Overflows(size)
        /\ StartWriter
        /\ IF f.low # 0
             THEN /\ low' = Append(low, f)
                  /\ nextLow' = f.low
                  /\ UNCHANGED high
             ELSE /\ high' = Append(high, f)
                  /\ UNCHANGED <<low, nextLow>>
        /\ queuedBytes' = queuedBytes + size
        /\ NotifyOne
        /\ accepted' = accepted \cup {f.id}
        /\ UNCHANGED <<descriptor, doneLow, busy, exitShut, wframe, tx, pc,
                       sending, encrypted, wire, cut>>

\* The queue is being stopped, or its thread cannot be created: the send
\* throws, after the frame was encoded.
SendRefused(t) ==
    /\ Encode(t)
    /\ stop \/ ~started
    /\ UNCHANGED <<descriptor, queues, writer, tx, pc, sending, encrypted,
                   asleep, history>>

\* The queue is full: the connection is given up.
SendOverflows(t, size) ==
    /\ Encode(t)
    /\ ~stop
    /\ Overflows(size)
    /\ stop' = TRUE
    /\ DropQueue
    /\ exitShut' = TRUE
    /\ fd' = ShutDown(fd)
    /\ NotifyAll
    /\ UNCHANGED <<socketClosing, uses, nextLow, doneLow, started, busy, wpc,
                   wframe, tx, pc, sending, encrypted, wire, accepted>>

\* Outside a dispatch and without a writer the caller writes under tx_.
DirectBegin(t, size) ==
    /\ Encode(t)
    /\ ~started
    /\ tx' = t
    /\ Goto(t, "direct")
    /\ direct' = EncodedFrame(size, FALSE, FALSE)
    /\ accepted' = accepted \cup {encoded + 1}
    /\ UNCHANGED <<descriptor, queues, writer, directFailed, encrypted,
                   asleep, wire, cut>>

DirectOk(t) ==
    /\ pc[t] = "direct"
    /\ fd = "open"
    /\ wire' = Append(wire, OnWire(direct, TRUE))
    /\ direct' = NoFrame
    /\ tx' = NoThread
    /\ Goto(t, "idle")
    /\ UNCHANGED <<descriptor, queues, writer, directFailed, framing, asleep,
                   accepted, cut>>

\* The 250 ms send timeout or the peer: nothing or a part was written.
DirectFail(t) ==
    /\ pc[t] = "direct"
    /\ wire' \in {wire, Append(wire, OnWire(direct, FALSE))}
    /\ cut' = cut \cup {direct.id}
    /\ direct' = NoFrame
    /\ directFailed' = TRUE
    /\ tx' = NoThread
    /\ Goto(t, "idle")
    /\ UNCHANGED <<descriptor, queues, writer, framing, asleep, accepted>>

----------------------------------------------------------------------------
(* The writer thread: writerLoop.                                          *)

WriterRuns == wpc = "ready" /\ Writer \notin asleep

WriterTake ==
    /\ WriterRuns
    /\ CanTake
    /\ IF TakesHigh
         THEN wframe' = Head(high) /\ high' = Tail(high) /\ UNCHANGED low
         ELSE wframe' = Head(low) /\ low' = Tail(low) /\ UNCHANGED high
    /\ queuedBytes' = queuedBytes - wframe'.size
    /\ busy' = TRUE
    /\ wpc' = "send"
    /\ NotifyAll
    /\ UNCHANGED <<descriptor, nextLow, doneLow, started, stop, exitShut,
                   callers, history>>

\* Faulty: a writer without a frame sleeps although it was told to stop.
WriterSleepStopped ==
    /\ WriterRuns
    /\ ~CanTake
    /\ asleep' = asleep \cup {Writer}
    /\ UNCHANGED <<descriptor, queues, writer, callers, history>>

WriterSleep ==
    /\ WriterRuns
    /\ ~CanTake /\ ~stop
    /\ asleep' = asleep \cup {Writer}
    /\ UNCHANGED <<descriptor, queues, writer, callers, history>>

WriterStops ==
    /\ WriterRuns
    /\ ~CanTake /\ stop
    /\ wpc' = "exit"
    /\ UNCHANGED <<descriptor, queues, started, stop, busy, exitShut, wframe,
                   callers, asleep, history>>

WriterSendOk ==
    /\ wpc = "send"
    /\ fd = "open"
    /\ wire' = Append(wire, OnWire(wframe, TRUE))
    /\ wpc' = "sent"
    /\ UNCHANGED <<descriptor, queues, started, stop, busy, exitShut, wframe,
                   callers, asleep, accepted, cut>>

\* A timeout, an error, or the shutdown of the socket: the writer shuts the
\* socket down but keeps the descriptor allocated.
WriterSendFail ==
    /\ wpc = "send"
    /\ wire' \in {wire, Append(wire, OnWire(wframe, FALSE))}
    /\ fd' = ShutDown(fd)
    /\ wpc' = "failed"
    /\ UNCHANGED <<socketClosing, uses, queues, started, stop, busy,
                   exitShut, wframe, callers, asleep, accepted, cut>>

WriterSent ==
    /\ wpc = "sent"
    /\ doneLow' = IF wframe.low # 0 THEN wframe.low ELSE doneLow
    /\ busy' = FALSE
    /\ wframe' = NoFrame
    /\ wpc' = "ready"
    /\ NotifyAll
    /\ UNCHANGED <<descriptor, high, low, queuedBytes, nextLow, started,
                   stop, exitShut, callers, history>>

\* Faulty: the writer goes on with the next frame.
WriterFailedGoesOn ==
    /\ wpc = "failed"
    /\ busy' = FALSE
    /\ cut' = cut \cup {wframe.id}
    /\ wframe' = NoFrame
    /\ wpc' = "ready"
    /\ NotifyAll
    /\ UNCHANGED <<descriptor, queues, started, stop, exitShut, callers,
                   wire, accepted>>

WriterFailed ==
    /\ wpc = "failed"
    /\ stop' = TRUE
    /\ busy' = FALSE
    /\ high' = <<>> /\ low' = <<>> /\ queuedBytes' = 0
    /\ cut' = cut \cup Ids(high) \cup Ids(low) \cup {wframe.id}
    /\ wframe' = NoFrame
    /\ wpc' = "exit"
    /\ NotifyAll
    /\ UNCHANGED <<descriptor, nextLow, doneLow, started, exitShut, callers,
                   wire, accepted>>

WriterExit ==
    /\ wpc = "exit"
    /\ wpc' = IF exitShut THEN "shut" ELSE "done"
    /\ exitShut' = FALSE
    /\ UNCHANGED <<descriptor, queues, started, stop, busy, wframe, callers,
                   asleep, history>>

WriterShut ==
    /\ wpc = "shut"
    /\ fd' = ShutDown(fd)
    /\ wpc' = "done"
    /\ UNCHANGED <<socketClosing, uses, queues, started, stop, busy,
                   exitShut, wframe, callers, asleep, history>>

WriterNext == WriterTake \/ WriterSleep \/ WriterStops \/ WriterSendOk
                \/ WriterSendFail \/ WriterSent \/ WriterFailed \/ WriterExit
                \/ WriterShut

----------------------------------------------------------------------------
(* Tearing down: close and abort, stopWriter, closeFd.                     *)

Call(t) ==
    /\ pc[t] = "idle"
    /\ \E call \in {"close", "abort"} : Goto(t, call)
    /\ UNCHANGED <<descriptor, queues, writer, tx, sending, framing, asleep,
                   history>>

BeginStop(t) ==
    /\ pc[t] \in {"close", "abort"}
    /\ tx = NoThread
    /\ tx' = t
    /\ \/ /\ ~started
          /\ Goto(t, "closeFd")
          /\ UNCHANGED <<stop, high, low, queuedBytes, cut>>
       \/ /\ started /\ pc[t] = "close"
          /\ stop' = TRUE
          /\ Goto(t, "notifyClose")
          /\ UNCHANGED <<high, low, queuedBytes, cut>>
       \/ /\ started /\ pc[t] = "abort"
          /\ stop' = TRUE
          /\ DropQueue
          /\ Goto(t, "notifyAbort")
    /\ UNCHANGED <<descriptor, nextLow, doneLow, started, busy, exitShut,
                   wpc, wframe, sending, framing, asleep, wire, accepted>>

\* The notification follows the unlock of queueMtx_.
NotifyStop(t) ==
    /\ \/ pc[t] = "notifyClose" /\ Goto(t, "drain") /\ UNCHANGED fd
       \/ pc[t] = "notifyAbort" /\ Goto(t, "cut") /\ fd' = ShutDown(fd)
    /\ NotifyAll
    /\ UNCHANGED <<socketClosing, uses, queues, writer, tx, sending, framing,
                   history>>

Drained == QueueEmpty /\ ~busy

DrainDone(t) ==
    /\ pc[t] = "drain" /\ t \notin asleep
    /\ Drained
    /\ NotifyAll
    /\ Goto(t, "join")
    /\ UNCHANGED <<descriptor, queues, writer, tx, sending, framing,
                   history>>

DrainSleep(t) ==
    /\ pc[t] = "drain" /\ t \notin asleep
    /\ ~Drained
    /\ asleep' = asleep \cup {t}
    /\ UNCHANGED <<descriptor, queues, writer, callers, history>>

\* The 100 ms are over and the queue is not drained.
DrainTimeout(t) ==
    /\ pc[t] = "drain"
    /\ ~Drained
    /\ asleep' = asleep \ {t}
    /\ fd' = ShutDown(fd)
    /\ Goto(t, "cut")
    /\ UNCHANGED <<socketClosing, uses, queues, writer, tx, sending, framing,
                   history>>

\* The queue is cleared once its lock is taken again (after an abort it is
\* already empty: tx_ keeps every sender out).
CutTail(t) ==
    /\ pc[t] = "cut"
    /\ DropQueue
    /\ NotifyAll
    /\ Goto(t, "join")
    /\ UNCHANGED <<descriptor, nextLow, doneLow, writer, tx, sending,
                   framing, wire, accepted>>

\* Faulty: the writer is given up instead of joined.
DetachWriter(t) ==
    /\ pc[t] = "join"
    /\ wpc' = "none"
    /\ started' = FALSE /\ stop' = FALSE
    /\ high' = <<>> /\ low' = <<>> /\ queuedBytes' = 0
    /\ Goto(t, "closeFd")
    /\ UNCHANGED <<descriptor, nextLow, doneLow, busy, exitShut, wframe, tx,
                   sending, framing, asleep, history>>

JoinWriter(t) ==
    /\ pc[t] = "join"
    /\ wpc = "done"
    /\ wpc' = "none"
    /\ started' = FALSE /\ stop' = FALSE
    /\ high' = <<>> /\ low' = <<>> /\ queuedBytes' = 0
    /\ Goto(t, "closeFd")
    /\ UNCHANGED <<descriptor, nextLow, doneLow, busy, exitShut, wframe, tx,
                   sending, framing, asleep, history>>

CloseFd(t) ==
    /\ pc[t] = "closeFd"
    /\ socketClosing' = TRUE
    /\ IF fd = "closed"
         THEN tx' = NoThread /\ Goto(t, "idle")
         ELSE Goto(t, "awaitUses") /\ UNCHANGED tx
    /\ fd' = ShutDown(fd)
    /\ UNCHANGED <<uses, queues, writer, sending, framing, asleep, history>>

\* Faulty: the descriptor is released without waiting for its readers.
ReleaseFdNow(t) ==
    /\ pc[t] = "awaitUses"
    /\ fd' = "closed"
    /\ tx' = NoThread
    /\ Goto(t, "idle")
    /\ UNCHANGED <<socketClosing, uses, queues, writer, sending, framing,
                   asleep, history>>

ReleaseFd(t) ==
    /\ pc[t] = "awaitUses"
    /\ uses = {}
    /\ fd' = "closed"
    /\ tx' = NoThread
    /\ Goto(t, "idle")
    /\ UNCHANGED <<socketClosing, uses, queues, writer, sending, framing,
                   asleep, history>>

TeardownStep(t) == BeginStop(t) \/ NotifyStop(t) \/ DrainDone(t)
                     \/ DrainSleep(t) \/ DrainTimeout(t) \/ CutTail(t)
                     \/ JoinWriter(t) \/ CloseFd(t) \/ ReleaseFd(t)

----------------------------------------------------------------------------
(* Receiving and inspecting: SocketUse.                                    *)

UseBegin(r) ==
    /\ r \notin uses
    /\ ~socketClosing /\ fd # "closed"
    /\ uses' = uses \cup {r}
    /\ UNCHANGED <<fd, socketClosing, queues, writer, callers, asleep,
                   history>>

UseEnd(r) ==
    /\ r \in uses
    /\ uses' = uses \ {r}
    /\ UNCHANGED <<fd, socketClosing, queues, writer, callers, asleep,
                   history>>

----------------------------------------------------------------------------

SendStep(t) ==
    \/ EnableEncryption(t)
    \/ \E size \in Sizes, lowPriority, barrier \in BOOLEAN :
          /\ ~(lowPriority /\ barrier)
          /\ SendQueued(t, size, lowPriority, barrier)
    \/ SendRefused(t)
    \/ \E size \in Sizes : SendOverflows(t, size)
    \/ \E size \in Sizes : DirectBegin(t, size)

DirectStep(t) == DirectOk(t) \/ DirectFail(t)

Next ==
    \/ WriterNext
    \/ \E t \in Threads : SendStep(t) \/ DirectStep(t) \/ Call(t)
                            \/ TeardownStep(t)
    \/ \E r \in Readers : UseBegin(r) \/ UseEnd(r)

\* A blocked send ends by the 250 ms send timeout, a receive by its deadline or
\* by the shutdown of the socket, a drain by its 100 ms.  A thread that holds
\* a lock runs on.  No thread is assumed ever to win tx_.
Fairness ==
    /\ WF_vars(WriterNext)
    /\ \A t \in Threads : /\ WF_vars(DirectStep(t))
                          /\ WF_vars(tx = t /\ TeardownStep(t))
    /\ \A r \in Readers : WF_vars(UseEnd(r))

Spec == Init /\ [][Next]_vars
FairSpec == Spec /\ Fairness

----------------------------------------------------------------------------
(* Properties.                                                             *)

\* Every variable of a connection has its type.
TypeOK ==
    /\ fd \in {"open", "shut", "closed"}
    /\ socketClosing \in BOOLEAN
    /\ uses \subseteq Readers
    /\ tx \in Threads \cup {NoThread}
    /\ pc \in [Threads -> CallerStates]
    /\ direct \in Frame \cup {NoFrame}
    /\ directFailed \in BOOLEAN
    /\ encrypted \in BOOLEAN
    /\ encoded \in Nat
    /\ cipher \in Nat
    /\ high \in Seq(Frame)
    /\ low \in Seq(Frame)
    /\ queuedBytes \in Int
    /\ nextLow \in Nat
    /\ doneLow \in Nat
    /\ started \in BOOLEAN
    /\ stop \in BOOLEAN
    /\ busy \in BOOLEAN
    /\ exitShut \in BOOLEAN
    /\ wpc \in WriterStates
    /\ wframe \in Frame \cup {NoFrame}
    /\ asleep \subseteq Threads \cup {Writer}
    /\ wire \in Seq(WireFrame)
    /\ accepted \subseteq Nat
    /\ cut \subseteq Nat

WholeIds == {wire[i].id : i \in {j \in DOMAIN wire : wire[j].whole}}

InFlightIds == (IF wpc \in {"send", "failed"} THEN {wframe.id} ELSE {})
                 \cup (IF direct # NoFrame THEN {direct.id} ELSE {})

\* The operating system never gets a descriptor back that the writer, a direct
\* send or a reader may still use: close and abort join and wait first.
DescriptorOutlivesUsers ==
    fd = "closed" => /\ uses = {}
                     /\ wpc = "none"
                     /\ \A t \in Threads : pc[t] # "direct"

\* A frame that was accepted is queued, in flight, wholly on the wire or
\* dropped for a stated reason, and in one of these places only: a graceful
\* close in particular leaves no frame behind in the queue.
NoFrameLostSilently ==
    LET places == <<Ids(high), Ids(low), InFlightIds, WholeIds, cut>>
    IN  /\ accepted = UNION {places[i] : i \in 1 .. 5}
        /\ \A i, j \in 1 .. 5 : i # j => places[i] \cap places[j] = {}
        /\ \A i, j \in DOMAIN wire :
              wire[i].whole /\ wire[j].whole /\ wire[i].id = wire[j].id => i = j

\* A barrier frame (Respawn) reaches the peer after every low-priority frame
\* (chunk data of the old dimension) queued before it, and no low-priority
\* frame queued after it overtakes it.
BarrierOrdersWire ==
    \A i \in DOMAIN wire : wire[i].after > 0 =>
        /\ \A n \in 1 .. wire[i].after :
              \E j \in 1 .. i - 1 : wire[j].low = n /\ wire[j].whole
        /\ \A j \in 1 .. i - 1 : wire[j].low <= wire[i].after

\* The peer decrypts what it receives with a cipher in step with the server's:
\* encrypted frames arrive in the order they were encrypted, none missing, and
\* nothing comes as plain text after them.
CipherInStep ==
    \A i \in DOMAIN wire :
        LET before == IF i = 1 THEN 0 ELSE wire[i - 1].enc
        IN  \/ wire[i].enc = before + 1
            \/ wire[i].enc = 0 /\ before = 0

\* After a frame that was written in part the stream carries nothing more.
TornFrameEndsStream ==
    \A i \in DOMAIN wire : ~wire[i].whole => i = Len(wire)

\* The bytes of the frames of a lane, each byte once.
Bytes(s) == UNION {{s[i].id} \X (1 .. s[i].size) : i \in DOMAIN s}

\* queuedBytes_ is the size of the two lanes and stays under the cap.
QueueAccounting ==
    /\ queuedBytes = Cardinality(Bytes(high) \cup Bytes(low))
    /\ queuedBytes <= MaxQueuedBytes

\* Nothing that was accepted is lost, doubled or left uncounted.
FramesAccounted == NoFrameLostSilently /\ QueueAccounting

\* The peer gets frames in the order the protocol and the cipher need, and
\* nothing after a torn one.
WireOrder == BarrierOrdersWire /\ CipherInStep /\ TornFrameEndsStream

\* A writer that sleeps un-notified has nothing to do: no frame waits, not
\* even one behind a barrier, and nobody asked it to stop (unless that thread
\* is about to notify).
NoLostWakeup ==
    Writer \in asleep =>
        \/ QueueEmpty /\ ~stop
        \/ \E t \in Threads : pc[t] \in {"notifyClose", "notifyAbort"}

\* A teardown, or a direct send, lets go of tx_: no chain of waits between a
\* closer, the writer and the readers holds a connection for ever.
TxReleased == \A t \in Threads : tx = t ~> tx # t

\* An accepted frame does not stay in the queue for ever.
AcceptedFrameSettles ==
    \A id \in 1 .. MaxFrames : id \in accepted ~> id \in WholeIds \cup cut

----------------------------------------------------------------------------
(* A connection implements the channel its senders rely on.  A frame in    *)
(* flight is still at the front of its lane; a refused send is invisible.  *)

InFlight == IF wpc \in {"send", "failed"} THEN <<wframe>>
            ELSE IF direct # NoFrame THEN <<direct>> ELSE <<>>

\* InFlight has one frame at most.
InLane(s, isLow) == IF s # <<>> /\ (Head(s).low > 0) = isLow THEN s ELSE <<>>

Urgent   == InLane(InFlight, FALSE) \o high
Deferred == InLane(InFlight, TRUE) \o low

\* The frames that reached the peer: all but a torn one at the end.
Arrivals == IF wire # <<>> /\ ~wire[Len(wire)].whole
            THEN SubSeq(wire, 1, Len(wire) - 1) ELSE wire

Unmarked(f) == [id |-> f.id, size |-> f.size, low |-> f.low,
                after |-> f.after, enc |-> f.enc]

Delivered == [i \in DOMAIN Arrivals |-> Unmarked(Arrivals[i])]

Accepting == /\ ~stop /\ ~directFailed /\ fd # "closed"
             /\ \A t \in Threads : pc[t] \notin {"closeFd", "awaitUses"}

ChannelFrame == [id : 1 .. MaxFrames, size : Sizes, low : 0 .. MaxFrames,
                 after : 0 .. MaxFrames, enc : 0 .. MaxFrames]

Channel == INSTANCE FrameChannel WITH
    Frame     <- ChannelFrame,
    urgent    <- Urgent,
    deferred  <- Deferred,
    delivered <- Delivered,
    accepting <- Accepting,
    up        <- fd = "open"

\* Whatever its threads do, a connection behaves like a two-lane channel that
\* drops frames only from the ends of its lanes, after it stopped accepting.
ImplementsChannel == Channel!Spec
=============================================================================

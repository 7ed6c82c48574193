--------------------------- MODULE FrameChannel ---------------------------
(***************************************************************************)
(* What a Connection promises to its senders, without threads or locks.    *)
(*                                                                         *)
(* Frames are accepted in two lanes, urgent and deferred, and delivered    *)
(* from the fronts of the lanes.  Urgent frames may overtake deferred      *)
(* ones.  A barrier is an urgent frame that is delivered after every       *)
(* deferred frame accepted before it and before every one accepted after.  *)
(* The channel may stop accepting, and then drop what is left from the     *)
(* ends of its lanes; it may be cut, and then delivers nothing more.       *)
(***************************************************************************)
EXTENDS Naturals, Sequences

CONSTANT Frame       \* records with the fields low and after, see Connection

VARIABLES urgent, deferred,  \* the lanes
          delivered,         \* what the peer received, in order
          accepting,         \* frames are still accepted
          up                 \* frames can still be delivered

vars == <<urgent, deferred, delivered, accepting, up>>

TypeOK ==
    /\ urgent \in Seq(Frame) /\ deferred \in Seq(Frame)
    /\ delivered \in Seq(Frame)
    /\ accepting \in BOOLEAN /\ up \in BOOLEAN

Prefixes(s) == {SubSeq(s, 1, n) : n \in 0 .. Len(s)}

Init == /\ urgent = <<>> /\ deferred = <<>> /\ delivered = <<>>
        /\ accepting = TRUE /\ up = TRUE

Accept ==
    /\ accepting
    /\ \E f \in Frame :
          \/ f.low = 0 /\ urgent' = Append(urgent, f) /\ UNCHANGED deferred
          \/ f.low # 0 /\ deferred' = Append(deferred, f) /\ UNCHANGED urgent
    /\ UNCHANGED <<delivered, accepting, up>>

\* No deferred frame that the front of the urgent lane waits for is left.
DeliverUrgent ==
    /\ up
    /\ urgent # <<>>
    /\ \A i \in DOMAIN deferred : deferred[i].low > Head(urgent).after
    /\ delivered' = Append(delivered, Head(urgent))
    /\ urgent' = Tail(urgent)
    /\ UNCHANGED <<deferred, accepting, up>>

\* No barrier accepted before this frame is left.
DeliverDeferred ==
    /\ up
    /\ deferred # <<>>
    /\ \A i \in DOMAIN urgent :
          urgent[i].after > 0 => Head(deferred).low <= urgent[i].after
    /\ delivered' = Append(delivered, Head(deferred))
    /\ deferred' = Tail(deferred)
    /\ UNCHANGED <<urgent, accepting, up>>

\* The channel is told to end, or fails: each of the three may come alone.
Close ==
    /\ accepting' \in {accepting, FALSE}
    /\ up' \in {up, FALSE}
    /\ \/ UNCHANGED <<urgent, deferred>>
       \/ /\ ~accepting'
          /\ urgent' \in Prefixes(urgent)
          /\ deferred' \in Prefixes(deferred)
    /\ UNCHANGED delivered

Next == Accept \/ DeliverUrgent \/ DeliverDeferred \/ Close

Spec == Init /\ [][Next]_vars
=============================================================================

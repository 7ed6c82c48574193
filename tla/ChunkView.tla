------------------------------ MODULE ChunkView ------------------------------
(***************************************************************************)
(* What a player sees of the blocks: chunks are serialised from the world  *)
(* or taken from the cache of bodies, edits are collected in the batcher   *)
(* and follow, and both wait in the connection's two lanes while the       *)
(* player walks on, travels or respawns.                                   *)
(*                                                                         *)
(* Every action of the server runs under the simulation gate; only the     *)
(* writer of a connection, and the client behind it, go on by themselves.  *)
(*                                                                         *)
(* Abstracted: a line of chunks with one block each, whose state counts    *)
(* its edits; the batcher's packets (BlockUpdate, MultiBlockChange, their  *)
(* bundles) carry the last state of each block; the cache forgets whenever *)
(* it likes (least recently used, unloads); light is left out, and so is   *)
(* what loading does to a chunk (ChunkStore).                              *)
(***************************************************************************)
EXTENDS Integers, SequencesExt

CONSTANTS
  Viewers,   \* the players
  Walkers,   \* Bound: those of them who do not stay where they are
  Dims,      \* the dimensions
  Spots,     \* the chunks of each, a range of integers; respawns are at its first
  ViewDist,  \* effectiveViewDistance
  OneLane,   \* the players whose connection is encrypted: all frames in one lane
  MaxEdits,  \* Bound: edits
  MaxMoves   \* Bound: moves, travels, respawns, corrections, bodies kept and dropped

ChunkViewConstants ==
  /\ "over" \in Dims /\ Spots \subseteq Int /\ IsFiniteSet(Spots)
  /\ OneLane \cup Walkers \subseteq Viewers
  /\ {ViewDist, MaxEdits, MaxMoves} \subseteq Nat

VARIABLES
  world,     \* the state of each block, per dimension
  cache,     \* chunkCache_: the body of a chunk as far as it is kept
  batch,     \* the batcher's queue: the last state of blocks edited lately
  at,        \* the dimension and chunk each player is in
  sent,      \* sentChunks_: chunks without their dimension
  high, low, \* the lanes of his connection
  screen,    \* what the client knows of the blocks of its dimension
  untold,    \* chunks a player has with an edit that he was not told of
  blank,     \* chunks that count as sent to a player who has lost them
  edits, moves

vars == <<world, cache, batch, at, sent, high, low, screen, untold, blank, edits, moves>>

None == -1
Near(c, r) == {x \in Spots : x - c <= r /\ c - x <= r}
Origin == Min(Spots)

Body(c, v) == [k |-> "chunk", c |-> c, v |-> v, wait |-> 0]
Update(c, v) == [k |-> "update", c |-> c, v |-> v, wait |-> 0]
Forget(c) == [k |-> "forget", c |-> c, v |-> None, wait |-> 0]
Respawned(p) == [k |-> "respawn", c |-> Origin, v |-> None, wait |-> Len(low[p])]

Init ==
  /\ world = [d \in Dims |-> [c \in Spots |-> 0]]
  /\ cache = [d \in Dims |-> [c \in Spots |-> None]]
  /\ batch = [d \in Dims |-> [c \in Spots |-> None]]
  /\ at = [p \in Viewers |-> [dim |-> "over", c |-> Origin]]
  /\ sent = [p \in Viewers |-> Near(Origin, ViewDist)]
  /\ high = [p \in Viewers |-> <<>>] /\ low = high
  /\ screen = [p \in Viewers |-> [c \in Spots |-> IF c \in sent[p] THEN 0 ELSE None]]
  /\ untold = [p \in Viewers |-> {}] /\ blank = untold
  /\ edits = 0 /\ moves = 0

Moves == moves < MaxMoves /\ moves' = moves + 1
---------------------------------------------------------------------------
(* Edits.                                                                   *)

Uncached(d, c) == [cache EXCEPT ![d][c] = None]

\* World::setBlock with its callback.
setBlock(d, c) ==
  /\ edits < MaxEdits /\ edits' = edits + 1
  /\ world' = [world EXCEPT ![d][c] = @ + 1]
  /\ cache' = Uncached(d, c)
  /\ UNCHANGED <<at, sent, high, low, screen, blank, moves>>

\* An edit that is followed by broadcastBlockChangeFor.
Edit(d, c) ==
  /\ setBlock(d, c)
  /\ batch' = [batch EXCEPT ![d][c] = world[d][c] + 1]
  /\ UNCHANGED untold

\* The players who have chunk c of dimension d.
Has(q, d, c) == at[q].dim = d /\ c \in sent[q] \ blank[q]
Untold(d, c) == [q \in Viewers |-> untold[q] \cup {x \in {c} : Has(q, d, c)}]

\* Fluids and most of redstone leave it at setBlock: nobody is told, and what the
\* batch has of the block is old.
EditUntold(d, c) ==
  /\ setBlock(d, c)
  /\ untold' = Untold(d, c)
  /\ UNCHANGED batch

\* The frames that follow each other to player p, in the lane of chunks.
Behind(p, frames) ==
  IF p \in OneLane THEN high' = [high EXCEPT ![p] = @ \o frames] /\ UNCHANGED low
  ELSE low' = [low EXCEPT ![p] = @ \o frames] /\ UNCHANGED high

\* Some chunks in the order of their keys, which differ; and from left to right.
InOrder(cs, key) ==
  [n \in 1 .. Cardinality(cs) |->
     CHOOSE c \in cs : Cardinality({e \in cs : key[e] <= key[c]}) = n]
Listed(cs) == InOrder(cs, [c \in Spots |-> c])

Edited(d) == Listed({c \in Spots : batch[d][c] # None})
Updates(d) == [i \in DOMAIN Edited(d) |-> Update(Edited(d)[i], batch[d][Edited(d)[i]])]

\* Faulty: as sendPacket does, not trySendPacketLowPriority.
EveryoneUrgent(frs) ==
  /\ high' = [p \in Viewers |-> high[p] \o frs[p]]
  /\ UNCHANGED low

\* broadcastPacketExceptInDimension to the players of d: the frames frs[p].
Everyone(frs) ==
  /\ high' = [p \in Viewers |-> IF p \in OneLane THEN high[p] \o frs[p] ELSE high[p]]
  /\ low' = [p \in Viewers |-> IF p \in OneLane THEN low[p] ELSE low[p] \o frs[p]]

\* Of the chunks a player has, those whose edits he does not know after the batch.
Behindhand(p) ==
  LET d == at[p].dim
  IN  {c \in sent[p] \ blank[p] : IF batch[d][c] = None THEN c \in untold[p]
                                 ELSE batch[d][c] # world[d][c]}

\* PacketBatcher::flush, by the tick or because the queue is long.
Flush ==
  /\ \E d \in Dims : Edited(d) # <<>>
  /\ Everyone([p \in Viewers |-> Updates(at[p].dim)])
  /\ batch' = [d \in Dims |-> [c \in Spots |-> None]]
  /\ untold' = [p \in Viewers |-> Behindhand(p)]
  /\ UNCHANGED <<world, cache, at, sent, screen, blank, edits, moves>>

\* A body is dropped from the cache, or put there by an asynchronous save.
Keep(d, c) ==
  /\ Moves
  /\ \E v \in {None, world[d][c]} \ {cache[d][c]} : cache' = [cache EXCEPT ![d][c] = v]
  /\ UNCHANGED <<world, batch, at, sent, high, low, screen, untold, blank, edits>>
---------------------------------------------------------------------------
(* Players.                                                                 *)

\* tickChunksAround for player p in the chunk c of d, who was sent `had': the
\* missing chunks, the nearest first, then what is too far away is forgotten.
Missing(c, had) ==
  InOrder(Near(c, ViewDist) \ had,
          [x \in Spots |-> IF x < c THEN 2 * (c - x) ELSE 2 * (x - c) + 1])
TooFar(c, had) == had \ Near(c, ViewDist + 1)
Body1(d, c) == IF cache[d][c] # None THEN cache[d][c] ELSE world[d][c]

Stream(p, d, c, had) ==
  LET new == Missing(c, had)
      old == Listed(TooFar(c, had))
  IN  /\ sent' = [sent EXCEPT ![p] = (had \cup Near(c, ViewDist)) \ TooFar(c, had)]
      /\ untold' = [untold EXCEPT ![p] = @ \ TooFar(c, had)]
      /\ blank' = [blank EXCEPT ![p] = @ \ TooFar(c, had)]
      /\ cache' = [cache EXCEPT ![d] = [x \in Spots |->
           IF x \in Near(c, ViewDist) \ had THEN Body1(d, x) ELSE cache[d][x]]]
      /\ Behind(p, [i \in DOMAIN new |-> Body(new[i], Body1(d, new[i]))]
                   \o [i \in DOMAIN old |-> Forget(old[i])])

\* onMovement, also after a teleport.
Walk(p, c) ==
  /\ Moves
  /\ at' = [at EXCEPT ![p].c = c]
  /\ Stream(p, at[p].dim, c, sent[p])
  /\ UNCHANGED <<world, batch, screen, edits>>

\* tryTeleport and the end of onMovement: Respawn is a barrier, all that was
\* sent counts no more.  Without ground at the exit a platform is built, which
\* is not broadcast to the players who see it.
Travel(p, d, c) ==
  /\ Moves /\ d # at[p].dim
  /\ at' = [at EXCEPT ![p] = [dim |-> d, c |-> c]]
  /\ \E platform \in {TRUE, FALSE} :
       LET there == [world[d] EXCEPT ![c] = IF platform THEN @ + 1 ELSE @]
           dropped == [x \in Spots |-> IF x \in Near(c, 2) THEN None ELSE cache[d][x]]
           body(x) == IF dropped[x] # None THEN dropped[x] ELSE there[x]
           new == Missing(c, {})
           frames == [i \in DOMAIN new |-> Body(new[i], body(new[i]))]
       IN  /\ platform => edits < MaxEdits
           /\ edits' = IF platform THEN edits + 1 ELSE edits
           /\ world' = [world EXCEPT ![d] = there]
           /\ untold' = [IF platform THEN Untold(d, c) ELSE untold EXCEPT ![p] = {}]
           /\ cache' = [cache EXCEPT ![at[p].dim][at[p].c] = None,
                ![d] = [x \in Spots |-> IF x \in Near(c, ViewDist) THEN body(x) ELSE dropped[x]]]
           /\ IF p \in OneLane
              THEN high' = [high EXCEPT ![p] = @ \o <<Respawned(p)>> \o frames] /\ UNCHANGED low
              ELSE /\ high' = [high EXCEPT ![p] = Append(@, Respawned(p))]
                   /\ low' = [low EXCEPT ![p] = @ \o frames]
  /\ sent' = [sent EXCEPT ![p] = Near(c, ViewDist)]
  /\ blank' = [blank EXCEPT ![p] = {}]
  /\ UNCHANGED <<batch, screen>>

\* handleRespawnRequest: what was sent counts on, also in another dimension, where
\* the client has none of it.
Respawn(p) ==
  /\ Moves
  /\ at' = [at EXCEPT ![p] = [dim |-> "over", c |-> Origin]]
  /\ high' = [high EXCEPT ![p] = Append(@, [Respawned(p) EXCEPT
       !.k = IF at[p].dim = "over" THEN "stay" ELSE "respawn"])]
  /\ IF at[p].dim = "over" THEN UNCHANGED <<untold, blank>>
     ELSE /\ untold' = [untold EXCEPT ![p] = {}]
          /\ blank' = [blank EXCEPT ![p] = sent[p]]
  /\ UNCHANGED <<world, cache, batch, sent, low, screen, edits>>

\* A dig that comes to nothing: the block as it is, to the digger alone or to
\* all players of his dimension; after a listener changed it, to everyone, who
\* may take it for a block of another dimension.
Correct(p, c) ==
  /\ Moves /\ c \in Near(at[p].c, ViewDist)
  /\ LET frame == <<Update(c, world[at[p].dim][c])>>
         there == {q \in Viewers : at[q].dim = at[p].dim}
     IN  \E to \in {{p}, there, Viewers} :
           /\ Everyone([q \in Viewers |-> IF q \in to THEN frame ELSE <<>>])
           /\ untold' = [q \in Viewers |->
                IF q \notin to THEN untold[q] ELSE IF q \in there THEN untold[q] \ {c}
                ELSE untold[q] \cup ({c} \cap (sent[q] \ blank[q]))]
  /\ UNCHANGED <<world, cache, batch, at, sent, screen, blank, edits>>
---------------------------------------------------------------------------
(* The writer of the connection, and the client, which has no updates for   *)
(* chunks it does not have and a new level after a change of dimension.     *)

Shown(s, f) ==
  CASE f.k = "chunk" -> [s EXCEPT ![f.c] = f.v]
    [] f.k = "update" /\ s[f.c] # None -> [s EXCEPT ![f.c] = f.v]
    [] f.k = "forget" -> [s EXCEPT ![f.c] = None]
    [] f.k = "respawn" -> [c \in Spots |-> None]
    [] OTHER -> s

Blocked(p) == high[p] # <<>> /\ Head(high[p]).wait > 0
OneSent(f) == IF f.wait > 0 THEN [f EXCEPT !.wait = @ - 1] ELSE f

Deliver(p) ==
  /\ \/ /\ high[p] # <<>> /\ ~Blocked(p)
        /\ screen' = [screen EXCEPT ![p] = Shown(@, Head(high[p]))]
        /\ high' = [high EXCEPT ![p] = Tail(@)] /\ UNCHANGED low
     \/ /\ low[p] # <<>> /\ (high[p] = <<>> \/ Blocked(p))
        /\ screen' = [screen EXCEPT ![p] = Shown(@, Head(low[p]))]
        /\ low' = [low EXCEPT ![p] = Tail(@)]
        /\ high' = [high EXCEPT ![p] = [i \in DOMAIN @ |-> OneSent(@[i])]]
  /\ UNCHANGED <<world, cache, batch, at, sent, untold, blank, edits, moves>>
---------------------------------------------------------------------------
Next ==
  \/ Flush
  \/ \E d \in Dims, c \in Spots : Edit(d, c) \/ EditUntold(d, c) \/ Keep(d, c)
  \/ \E p \in Viewers :
       \/ Deliver(p)
       \/ p \in Walkers /\ Respawn(p)
       \/ p \in Walkers /\ \E c \in Spots :
            Walk(p, c) \/ Correct(p, c) \/ \E d \in Dims : Travel(p, d, c)

Spec == Init /\ [][Next]_vars
---------------------------------------------------------------------------
Quiet(p) == high[p] = <<>> /\ low[p] = <<>> /\ Edited(at[p].dim) = <<>>

\* Once what is under way has arrived, a client has the chunks it was sent and
\* no others, each as it is in the world of the player's dimension: whatever
\* the cache kept, however edits fell between the serialising, the batch and
\* the lanes, and wherever the player went meanwhile.  The exceptions are for a
\* player and a chunk: those whose last edit he was not told of (setBlock alone,
\* a platform, an old entry of the batch, a correction from another dimension),
\* until he is told or sent the chunk anew, and those he had in the dimension
\* he died in.
SeesTheWorld ==
  \A p \in Viewers : Quiet(p) => \A c \in Spots :
    /\ screen[p][c] # None <=> c \in sent[p] \ blank[p]
    /\ c \in sent[p] \ (blank[p] \cup untold[p]) => screen[p][c] = world[at[p].dim][c]
=============================================================================

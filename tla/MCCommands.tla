----------------------------- MODULE MCCommands -----------------------------
(***************************************************************************)
(* What plugins and operators hang on to the server: listeners of events   *)
(* (EventBus; they share a priority but Lowest, which comes last), the     *)
(* boards that commands change (Boards), functions with the commands that  *)
(* run commands (Execution), and the handles of Java code (JavaHandles).   *)
(* They share no state; a behaviour is one of them.                        *)
(***************************************************************************)
EXTENDS EventBus, Functions, TLC

CONSTANTS
  Lowest,
  Players, Objectives, TeamNames, BarIds, Bosses, MaxScore, MaxOrders, None,
  Console, Dims, Ids, MaxRecursion, MaxTime, MaxEntered,
  Addrs, Host, Sessions, Mods, MaxThings, MaxHandles, MaxAsked, NoThing

VARIABLES part,
  online, board, view, enabled, missed, orphans, torn, cleanup, crossed, orders,
  present, by, packs, functions, scheduled, now, depth, ret, runs, at, cur, res,
  entered, returned,
  heap, born, listed, refs, table, next, given, late, closed, cache, lock, state, caller,
  plan, of, gone, borrow, wrap, queue, asked

boards ==
  <<online, board, view, enabled, missed, orphans, torn, cleanup, crossed, orders>>
executions == <<present, by, packs, functions, scheduled, now, depth, ret, runs, at, cur,
                res, entered, returned>>
holds == <<heap, born, listed, refs, table, next, given, late, closed, cache, lock, state,
           caller, plan, of, gone, borrow, wrap, queue, asked>>

MCPriority == [l \in Listeners |-> IF l = Lowest THEN 1 ELSE 0]

\* Any callback may reset any subscription.
MCAnyReset == Listeners \X Listeners

\* A callback may reset its own subscription.
MCOwnReset == {<<l, l>> : l \in Listeners}

Symmetry == Permutations(Threads) \cup Permutations(Addrs)

\* Lines of functions.  g recurses into itself by way of h, returns at times and
\* takes the pack away that it came from; h puts itself on the schedule.
Plain(v) == [k |-> "plain", v |-> v]
Call(f) == [k |-> "function", f |-> f]
Return3 == [k |-> "return", v |-> 3]
If(l) == [k |-> "if", inner |-> l]
In(d, l) == [k |-> "in", dim |-> d, inner |-> l]
Plan(f, t, how) == [k |-> "schedule", f |-> f, t |-> t, how |-> how]
For(k, l) == [k |-> k, whom |-> Players, inner |-> l]
With(k, l) == [k |-> k, inner |-> l]
Stored(success, l) == [k |-> "store", success |-> success, inner |-> l]
Of(k, p) == [k |-> k, p |-> p]
MCContent ==
  [a |-> [f |-> <<Call("g"), If(Call("h")), Plain(2)>>,
          g |-> <<In("nether", For("as", With("positioned", Plain(1)))), If(Return3), Plain(4)>>,
          h |-> <<Plan("h", 0, "append"), Call("h")>>],
   b |-> [g |-> <<Of("disable", "b"), With("return run", For("at", Plain(1))), Plain(5)>>]]
MCLines ==
  {Call("f"), Return3, In("nether", With("run", Call("f"))), For("as", Call("g")),
   For("rotated", Plain(1)), Plan("f", 1, "replace"), Plan("f", 0, "default"),
   Plan("g", 2, "append"), [k |-> "reload"], Of("enable", "b"), Of("disable", "b"),
   Stored(TRUE, Call("g")), With("return run", Plain(1))}

MCInner(ls) == {l.inner : l \in {m \in ls : "inner" \in DOMAIN m}}
MCAllLines ==
  LET Held(p) == UNION {Range(MCContent[p][f]) : f \in DOMAIN MCContent[p]}
      top == MCLines \cup UNION {Held(p) : p \in DOMAIN MCContent}
  IN top \cup MCInner(top) \cup MCInner(MCInner(top)) \cup MCInner(MCInner(MCInner(top)))

B == INSTANCE Boards
X == INSTANCE Execution WITH
       enabled <- packs, stack <- runs, Overworld <- "over", Packs <- <<"a", "b">>,
       Where <- [p \in Players |-> IF p = "p1" THEN "over" ELSE "nether"],
       Content <- MCContent, Lines <- MCAllLines, Commands <- MCLines

J == INSTANCE JavaHandles

ASSUME CommandsConstants ==
  B!BoardsConstants /\ X!ExecutionConstants /\ J!JavaHandlesConstants

NoListeners ==
  /\ registered = {} /\ seq = [l \in Listeners |-> 0] /\ sequence = 0
  /\ active = [l \in Listeners |-> FALSE] /\ inFlight = [l \in Listeners |-> 0]
  /\ drainWaiters = [l \in Listeners |-> 0] /\ stack = [t \in Threads |-> <<>>]
  /\ resetBy = [l \in Listeners |-> {}]
NoBoards ==
  /\ online = <<>> /\ board = <<>> /\ view = <<>> /\ enabled = <<>> /\ missed = <<>>
  /\ orphans = <<>> /\ torn = <<>> /\ cleanup = <<>> /\ crossed = <<>> /\ orders = <<>>
NoExecutions ==
  /\ present = <<>> /\ by = <<>> /\ packs = <<>> /\ functions = <<>> /\ scheduled = <<>>
  /\ now = <<>> /\ depth = <<>> /\ ret = <<>> /\ runs = <<>> /\ at = <<>> /\ cur = <<>>
  /\ res = <<>> /\ entered = <<>> /\ returned = <<>>
NoHolds ==
  /\ heap = <<>> /\ born = <<>> /\ listed = <<>> /\ refs = <<>> /\ table = <<>>
  /\ next = <<>> /\ given = <<>> /\ late = <<>> /\ closed = <<>> /\ cache = <<>>
  /\ lock = <<>> /\ state = <<>> /\ caller = <<>> /\ plan = <<>> /\ of = <<>>
  /\ gone = <<>> /\ borrow = <<>> /\ wrap = <<>> /\ queue = <<>> /\ asked = <<>>

CommandsInit ==
  \/ part = "listeners" /\ Init /\ NoBoards /\ NoExecutions /\ NoHolds
  \/ part = "boards" /\ B!Init /\ NoListeners /\ NoExecutions /\ NoHolds
  \/ part = "runs" /\ X!Init /\ NoListeners /\ NoBoards /\ NoHolds
  \/ part = "holds" /\ J!Init /\ NoListeners /\ NoBoards /\ NoExecutions

CommandsNext ==
  \/ part = "listeners" /\ Next /\ UNCHANGED <<part, boards, executions, holds>>
  \/ part = "boards" /\ B!Next /\ UNCHANGED <<part, vars, executions, holds>>
  \/ part = "runs" /\ X!Next /\ UNCHANGED <<part, vars, boards, holds>>
  \/ part = "holds" /\ J!Next /\ UNCHANGED <<part, vars, boards, executions>>

CommandsSpec == CommandsInit /\ [][CommandsNext]_<<part, vars, boards, executions, holds>>

\* EventBus: once a reset has returned no other thread is in the callback, and
\* no call of it begins.  JavaHandles: a handle in the table leads to the living
\* thing it was made for, a cached wrapper is of a valid handle.
NothingAfterRelease ==
  /\ [](part = "listeners" => ResetDrains) /\ NeverCalledAfterReset
  /\ [](part = "holds" => J!HandlesSound)

\* Boards: a client in play sees the objectives, scores, teams and bars that the
\* server has, but for the known gaps.
ClientsAgree == part = "boards" => B!ClientsAgree

\* Execution: depths, returns and dimensions are those of the run at work, and
\* an entry leaves the schedule only to be run, on time, or to be replaced.
RunsAsWritten ==
  /\ [](part = "runs" => X!ExecutionSound)
  /\ [][part = "runs" => X!EntryKept]_<<part, executions>>
=============================================================================

----------------------------- MODULE Execution -----------------------------
(***************************************************************************)
(* Functions of datapacks and what runs commands inside commands: execute, *)
(* function, return, schedule, reload and the packs that are enabled       *)
(* (FunctionEvaluator.cpp, commands_execute.cpp, commands_data.cpp,        *)
(* DatapackManager.hpp, brigadier/Tree.hpp).                               *)
(*                                                                         *)
(* One thread at a time is in here (CommandIngress): a stack of frames     *)
(* with the line that runs or the result that comes back.  Players may     *)
(* leave meanwhile.  What a line does to the world is abstracted to its    *)
(* result; a source is who runs a line, and the dimension that execute has *)
(* put it in; places, rotations, permissions and macros are left out.      *)
(***************************************************************************)
EXTENDS Integers, SequencesExt

CONSTANTS
    Players, Console,
    Dims, Overworld,
    Where,         \* the dimension of each player
    Ids,           \* of functions
    Packs,         \* of the world, in the order of the directory
    Content,       \* of each pack: the lines of its functions
    Lines,         \* what a line can be, those inside others too
    Commands,      \* lines that players and the console enter
    MaxRecursion,  \* kMaxRecursion
    MaxTime,       \* bound: ticks
    MaxEntered,    \* bound: lines entered
    None

\* What execute does with the line inside.
Nests == {"run", "store", "as", "at", "rotated", "positioned", "in", "if"}

ExecutionConstants ==
  /\ Where \in [Players -> Dims] /\ Overworld \in Dims /\ Console \notin Players
  /\ IsFiniteSet(Players) /\ None \notin Dims /\ Commands \subseteq Lines
  /\ \A p \in ToSet(Packs) :
       /\ DOMAIN Content[p] \subseteq Ids
       /\ \A f \in DOMAIN Content[p] : Content[p][f] \in Seq(Lines)
  /\ \A l \in Lines :
       /\ l.k \in Nests \cup {"return run"} => l.inner \in Lines
       /\ l.k = "in" => l.dim \in Dims
       /\ l.k = "schedule" => l.t \in Nat
  /\ MaxRecursion \in Nat \ {0} /\ {MaxTime, MaxEntered} \subseteq Nat

VARIABLES
    present,    \* players whose sessions last
    by,         \* who entered the line at work
    enabled,    \* enabledPacks, but for the built-in ones
    functions,  \* the index
    scheduled,  \* scheduled_, with the time when each entry was made
    now,        \* tickNo_
    depth,      \* recursionDepth_
    ret,        \* hasReturn_ and returnValue_
    stack,      \* innermost first
    at,         \* "idle", "run" a line, or "back" with its result
    cur,        \* the line that runs and its source
    res,        \* the result that comes back
    entered,
    returned    \* history: a return was met since the outermost function began

fnVars == <<present, by, enabled, functions, scheduled, now, depth, ret, stack, at, cur,
            res, entered, returned>>
Outside == <<present, by, now, entered>>
Tables == <<enabled, functions, scheduled>>
Flags == <<depth, ret, returned>>

NoReturn == [has |-> FALSE, v |-> 0]
Source(who, dim) == [who |-> who, dim |-> dim]
Dimension(src) ==
  IF src.dim # None THEN src.dim ELSE IF src.who = Console THEN Overworld ELSE Where[src.who]

\* What the packs of a set hold; of two with the same function the later has it.
Index(packs) ==
  LET Holders(f) == {i \in DOMAIN Packs : Packs[i] \in packs /\ f \in DOMAIN Content[Packs[i]]}
  IN [f \in {g \in Ids : Holders(g) # {}} |-> Content[Packs[Max(Holders(f))]][f]]

Init ==
  /\ present = Players /\ by = Console /\ enabled = ToSet(Packs)
  /\ functions = Index(ToSet(Packs)) /\ scheduled = <<>> /\ now = 0 /\ depth = 0
  /\ ret = NoReturn /\ stack = <<>> /\ at = "idle" /\ cur = None /\ res = None
  /\ entered = 0 /\ returned = FALSE

\* What a function has to do yet, execute for some sources, and a tick.
FunctionFrame(src, todo, last) ==
  [k |-> "function", src |-> src, todo |-> todo, last |-> last]
EachFrame(how, todo, total) == [k |-> "each", how |-> how, todo |-> todo, total |-> total]
TickFrame(todo) == [k |-> "tick", todo |-> todo]
ReturnFrame == [k |-> "return run"]

\* The entries at some places of the schedule, in their order.
InOrder(places) ==
  [n \in 1 .. Cardinality(places) |->
     scheduled[CHOOSE i \in places : Cardinality({j \in places : j <= i}) = n]]
DueBy(time) == {i \in DOMAIN scheduled : scheduled[i].due <= time}

Going(line, src) == at' = "run" /\ cur' = [line |-> line, src |-> src] /\ res' = None
Back(r) == at' = "back" /\ res' = r /\ cur' = None
Result(v) == [ok |-> TRUE, v |-> v]
Failure == [ok |-> FALSE, v |-> 0]
Value(r) == IF r.ok THEN r.v ELSE 0
---------------------------------------------------------------------------
(* Lines come from players and the console, functions that are due from    *)
(* the tick.                                                               *)

Enter(line, who) ==
  /\ at = "idle" /\ entered < MaxEntered /\ entered' = entered + 1
  /\ who \in present \cup {Console} /\ by' = who
  /\ Going(line, Source(who, None))
  /\ UNCHANGED <<present, now, stack, Tables, Flags>>

\* The cleanup of a session takes no gate: only the player's own command keeps
\* the player here.
Leave(p) ==
  /\ p \in present /\ (at = "idle" \/ by # p)
  /\ present' = present \ {p}
  /\ UNCHANGED <<by, now, entered, Tables, Flags, stack, at, cur, res>>

\* FunctionEvaluator::tick: the entries that are due leave the list first.
Tick ==
  /\ at = "idle" /\ now < MaxTime /\ now' = now + 1 /\ by' = Console
  /\ stack' = <<TickFrame(InOrder(DueBy(now')))>>
  /\ scheduled' = InOrder(DOMAIN scheduled \ DueBy(now'))
  /\ Back(None)
  /\ UNCHANGED <<present, entered, enabled, functions, Flags>>

\* Faulty: as if a return were only cleared when the outermost function ends.
BegunStale(f, src, under) ==
  /\ stack' = <<FunctionFrame(src, functions[f], 0)>> \o under
  /\ depth' = depth + 1 /\ UNCHANGED ret
  /\ returned' = (returned /\ depth > 0)

\* executeFunction, below its limit, with the lines of a function that is there:
\* they are copied, and what an earlier return left is cleared.
Begun(f, src, under) ==
  /\ stack' = <<FunctionFrame(src, functions[f], 0)>> \o under
  /\ depth' = depth + 1 /\ ret' = NoReturn
  /\ returned' = (returned /\ depth > 0)

On(kind) == at = "back" /\ stack # <<>> /\ Head(stack).k = kind
Under == Tail(stack)

\* The next function of a tick, for the console; one that is gone is passed over.
RunDue ==
  /\ On("tick") /\ Head(stack).todo # <<>>
  /\ LET f == Head(Head(stack).todo).f
         under == <<TickFrame(Tail(Head(stack).todo))>> \o Under
     IN IF f \in DOMAIN functions THEN Begun(f, Source(Console, None), under)
        ELSE stack' = under /\ UNCHANGED Flags
  /\ Back(None) /\ UNCHANGED <<Outside, Tables>>

\* A tick, or a line that was entered, is done.
Done ==
  /\ at = "back" /\ (stack = <<>> \/ (On("tick") /\ Head(stack).todo = <<>>))
  /\ stack' = <<>> /\ at' = "idle" /\ res' = None
  /\ UNCHANGED <<cur, Outside, Tables, Flags>>
---------------------------------------------------------------------------
(* A function goes through its lines.                                      *)

Latest == IF res = None THEN Head(stack).last
        ELSE IF ret.has THEN ret.v ELSE Value(res)

Returns(v) == ret' = [has |-> TRUE, v |-> v] /\ returned' = (depth > 0) /\ UNCHANGED depth

\* executeLine looks at a line that begins with return itself.
NextLine ==
  /\ On("function") /\ ~ret.has /\ Head(stack).todo # <<>>
  /\ LET F == Head(stack)
         line == Head(F.todo)
         rest == <<FunctionFrame(F.src, Tail(F.todo), Latest)>> \o Under
     IN \/ /\ line.k = "return" /\ Returns(line.v)
           /\ stack' = rest /\ Back(Result(line.v))
        \/ /\ line.k = "return run" /\ UNCHANGED Flags
           /\ stack' = <<ReturnFrame>> \o rest /\ Going(line.inner, F.src)
        \/ /\ line.k \notin {"return", "return run"} /\ UNCHANGED Flags
           /\ stack' = rest /\ Going(line, F.src)
  /\ UNCHANGED <<Outside, Tables>>

ReturnRun ==
  /\ On("return run") /\ Returns(Value(res))
  /\ stack' = Under /\ Back(Result(Value(res)))
  /\ UNCHANGED <<Outside, Tables>>

\* The end of the lines, or a return, also one that a function met which this
\* one called; the outermost clears it.
FunctionEnds ==
  /\ On("function") /\ (ret.has \/ Head(stack).todo = <<>>)
  /\ stack' = Under /\ Back(Result(Latest)) /\ depth' = depth - 1
  /\ ret' = (IF depth = 1 THEN NoReturn ELSE ret)
  /\ UNCHANGED <<returned, Outside, Tables>>
---------------------------------------------------------------------------
(* The dispatcher runs a line.                                             *)

Runs(kind) == at = "run" /\ cur.line.k = kind
Who == cur.src.who

\* makeNestedCommandSource
Nested(who) == Source(who, cur.src.dim)

\* Any other command, with its result or its error.
Plain ==
  /\ \/ Runs("plain") /\ (Back(Result(cur.line.v)) \/ Back(Failure))
     \/ Runs("return run") /\ Back(Failure)
  /\ UNCHANGED <<stack, Outside, Tables, Flags>>

\* return as a command of its own.
Return ==
  /\ Runs("return") /\ Returns(cur.line.v) /\ Back(Result(cur.line.v))
  /\ UNCHANGED <<stack, Outside, Tables>>

Function ==
  /\ Runs("function")
  /\ LET f == cur.line.f
     IN IF f \notin DOMAIN functions THEN Back(Failure) /\ UNCHANGED <<stack, Flags>>
        ELSE IF depth >= MaxRecursion THEN Back(Result(0)) /\ UNCHANGED <<stack, Flags>>
        ELSE Begun(f, Nested(Who), stack) /\ Back(None)
  /\ UNCHANGED <<Outside, Tables>>

\* Without a word an entry is due in a tick at least; with one, perhaps at once.
Schedule ==
  /\ Runs("schedule")
  /\ LET l == cur.line
         t == IF l.how = "default" /\ l.t <= 0 THEN 1 ELSE l.t
         kept == IF l.how = "append" THEN DOMAIN scheduled
                 ELSE {i \in DOMAIN scheduled : scheduled[i].f # l.f}
     IN scheduled' = InOrder(kept \cap DueBy(now + t))
                       \o <<[f |-> l.f, due |-> now + t, made |-> now]>>
                       \o InOrder(kept \ DueBy(now + t))
  /\ Back(Result(1)) /\ UNCHANGED <<stack, Outside, enabled, functions, Flags>>

\* Every pack that is found is enabled again.
Reload ==
  /\ Runs("reload")
  /\ enabled' = ToSet(Packs) /\ functions' = Index(ToSet(Packs))
  /\ Back(Result(1)) /\ UNCHANGED <<stack, Outside, scheduled, Flags>>
Enable ==
  /\ Runs("enable")
  /\ IF cur.line.p \in enabled THEN Back(Result(0)) /\ UNCHANGED <<enabled, functions>>
     ELSE /\ enabled' = enabled \cup {cur.line.p} /\ functions' = Index(enabled')
          /\ Back(Result(1))
  /\ UNCHANGED <<stack, Outside, scheduled, Flags>>
Disable ==
  /\ Runs("disable")
  /\ IF cur.line.p \notin enabled THEN Back(Result(0)) /\ UNCHANGED <<enabled, functions>>
     ELSE /\ enabled' = enabled \ {cur.line.p} /\ functions' = Index(enabled')
          /\ Back(Result(1))
  /\ UNCHANGED <<stack, Outside, scheduled, Flags>>
---------------------------------------------------------------------------
(* execute: a line is run for some sources, and the results are added.     *)

For(srcs) ==
  /\ stack' = <<EachFrame(cur.line, srcs, 0)>> \o stack
  /\ Back(None) /\ UNCHANGED <<Outside, Tables, Flags>>

Targets == SetToSeq(cur.line.whom \cap present)

\* execute run, and store, whose inner line has a source of its own.
Run == Runs("run") /\ For(<<Nested(Who)>>)
Store == Runs("store") /\ For(<<Nested(Who)>>)
As == Runs("as") /\ For([i \in DOMAIN Targets |-> Nested(Targets[i])])

\* at and positioned as: the console runs the line as the target.
At ==
  /\ Runs("at")
  /\ For([i \in DOMAIN Targets |-> Source(IF Who = Console THEN Targets[i] ELSE Who, cur.src.dim)])
Rotated == Runs("rotated") /\ For([i \in DOMAIN Targets |-> Source(Who, cur.src.dim)])

\* positioned, anchored, align, rotated and facing.
Positioned == Runs("positioned") /\ For(<<Source(Who, cur.src.dim)>>)
In == Runs("in") /\ For(<<Source(Who, cur.line.dim)>>)

\* if and unless, with a test that may go either way.
Condition ==
  /\ Runs("if")
  /\ \/ For(<<Source(Who, cur.src.dim)>>)
     \/ Back(Result(0)) /\ UNCHANGED <<stack, Outside, Tables, Flags>>

Counted(how) ==
  IF res = None THEN 0 ELSE IF how.k = "store" /\ how.success THEN (IF res.ok THEN 1 ELSE 0)
  ELSE Value(res)

EachGoesOn ==
  /\ On("each")
  /\ LET E == Head(stack)
         total == E.total + Counted(E.how)
     IN IF E.todo = <<>> THEN stack' = Under /\ Back(Result(total))
        ELSE /\ stack' = <<EachFrame(E.how, Tail(E.todo), total)>> \o Under
             /\ Going(E.how.inner, Head(E.todo))
  /\ UNCHANGED <<Outside, Tables, Flags>>
---------------------------------------------------------------------------
Dispatch ==
  \/ Plain \/ Return \/ Function \/ Schedule \/ Reload \/ Enable \/ Disable
  \/ Run \/ Store \/ As \/ At \/ Rotated \/ Positioned \/ In \/ Condition
Next ==
  \/ \E c \in Commands, who \in Players \cup {Console} : Enter(c, who)
  \/ \E p \in Players : Leave(p)
  \/ Tick \/ RunDue \/ Done \/ NextLine \/ ReturnRun \/ FunctionEnds \/ EachGoesOn \/ Dispatch

Spec == Init /\ [][Next]_fnVars
---------------------------------------------------------------------------
Frames(kind) == {i \in DOMAIN stack : stack[i].k = kind}

\* Execution: the depth is that of the functions at work and never above the
\* limit; only a return that was met in this run cuts functions short; a line
\* under execute in runs in that dimension, whatever is in between; and after a
\* tick no entry is left that was due before.
ExecutionSound ==
  /\ depth = Cardinality(Frames("function")) /\ depth <= MaxRecursion
  /\ depth > 0 /\ ret.has => returned
  /\ at = "run" =>
       LET ins == {i \in Frames("each") : stack[i].how.k = "in"}
       IN \A i \in ins :
             (\A j \in ins : i <= j) => Dimension(cur.src) = stack[i].how.dim
  /\ at = "idle" => \A i \in DOMAIN scheduled : scheduled[i].due > now \/ scheduled[i].made = now

\* Execution: an entry leaves the schedule when its time has come, to be run, or
\* for another entry of its function.
EntryKept ==
  \A e \in ToSet(scheduled) \ ToSet(scheduled)' :
     \/ e.due <= now' /\ stack' # <<>> /\ stack'[1].k = "tick" /\ Contains(stack'[1].todo, e)
     \/ Runs("schedule") /\ cur.line.f = e.f

\* What the comment at CommandsHelpers.hpp:117 asks of those who use a player's
\* pointer: they do not keep it beyond the session.
BorrowsLive == at = "run" => cur.src.who \in present \cup {Console}
=============================================================================

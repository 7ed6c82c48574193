# TLA+ models of CppFabricMC

CppFabricMC is a Minecraft 1.21.4 server in C++20 with an embedded JVM for Fabric mods.
This directory holds TLA+ models of its concurrent, stateful and failure-prone parts, the TLC
configurations that check them, and TLAPS proofs of the results that matter most.
Paths below are relative to `src/src/` of the repository unless they begin with `docs/`.

Contents: 1 the system, 2 what is hard about it, 3 the modules, 4 the runs, 5 fairness,
6 the proofs, 7 what the models found, 8 what is not modelled, 9 the plan, 10 how to run it.

## 1. The system

### Threads

| thread | code | what it does |
|---|---|---|
| main, accept | `main.cpp`, `game/GameServer_core.cpp` `runForever` | accepts sockets, starts one session thread each, runs `stop` |
| session | `game/GameServer_session.cpp` `Session::run` | handshake, login, configuration, play; reads frames and handles packets |
| writer | `net/Connection.hpp` `writerLoop` | one per connection, writes queued frames |
| tick | `game/GameServer_core.cpp` `startTickLoop`, `GameServer_tick.cpp` | 50 ms simulation step, drains the server-thread task queue |
| janitor | `game/GameServer_core.cpp` `runForever` | keep-alives and timeouts, every 500 ms |
| I/O pool | `core/ThreadPool.hpp` | chunk loads and saves |
| Persistence worker | `game/Persistence.hpp` `loop` | every 3 s writes the dirty chunks of its dimension |
| RCON, console | `net/Rcon.hpp`, `game/GameServer_world.cpp` | administration commands |
| Java threads | `jvm/JvmRuntime.cpp` | mods; re-enter the server through native methods |

The recursive mutex `simulationDispatchMtx_` is the *gate* of the simulation: the tick and
each packet handler run inside it. A send made inside the gate is queued for the writer
thread of its connection, so that the gate is never held across socket I/O. What runs inside
the gate is not atomic to a mod: events of the bus, hooks of the JVM and blows call Java in
the middle of a handler, which may change what the handler has looked at. What runs outside
the gate is the connection, the cleanup at the end of a session, both savers of chunks, the
natives of foreign Java threads, and all of start and stop.

### Components

| component | state | what makes it correct | modelled in |
|---|---|---|---|
| Connection | two lanes of frames, writer, cipher position, descriptor | order on the wire, bounded memory, every teardown ends, the descriptor outlives its users | `Connection`, `FrameChannel` |
| Admission and roster | reservations, roster, data files, tab lists | the player cap holds, no slot leaks, one session owns a player's data, everyone is listed | `PlayerSessions` |
| Session protocol, administration | login state, lists and their files | nobody plays whom a list bans; the lists survive a restart | `Admission` |
| Lifecycle, RCON | running flag, threads, connections, descriptors | stop ends, and no thread outlives what it uses | `ServerLifecycle`, `Rcon` |
| Server-thread executor | task queue, task states, counters of the idle wait | a task runs at most once and never after its caller was told it was cancelled; a stop leaves none | `ServerExecutor` |
| Command ingress | the gate, the command lock, the lock of Java | one mutator of the world at a time; no cycle of waits | `CommandIngress` |
| EventBus | subscriptions, snapshots, calls in flight | no callback runs after its reset returned | `EventBus` |
| JVM runtime, handles | machine, leases, fence of stop; handle table, wrappers, borrows | no call outlives the machine; no handle outlives its object | `JavaRuntime`, `JavaHandles` |
| Functions and execute; boards | frames, return flag, schedule, packs; objectives, teams, bars | runs are independent; clients see the server's boards | `Execution`, `Boards` |
| Chunk persistence | chunks, dirty set, staged region, pool queue, pending loads | an edit a player saw is on disk in the end, and is what a reload gives back | `ChunkStore` |
| level.dat, region files, progress | files, backups, sectors, advancements | a crash leaves an old or a new version readable; what was earned is kept | `LevelStore`, `RegionSectors`, `Progress` |
| Menus, devices, players, mobs, items in use | slots, inventories, blocks, drops | items are neither made nor lost | `Menus`, `Automation`, `PlayerLife`, `Mobs`, `Using` |
| Streaming, light, fluids, pistons, growth | caches, queues, scheduled ticks | clients see the world; what settles is what is defined; no block is lost | `ChunkView`, `BlockLight`, `Fluids`, `Pistons`, `Growth` |
| Bodies, world and player commands | health, effects, attributes; settings | health and death fit together; a command does what it answers | `Vitals`, `WorldCommands`, `PlayerCommands` |

`PROJECT.json` lists every component with the part of it that is left out.

### How they interact

* A session reads a frame (`Connection::readFrame`), takes the gate, handles the packet and
  queues its answers on its own and on other connections. The writer threads send them.
* A packet, the console or RCON may carry a command. Java is asked first (`callMutex`), then
  the native dispatcher runs under the gate and the command lock. A Java callback may hand
  work to the tick thread through the executor and wait for it with a deadline.
* The tick drains the executor's queue twice, evicts chunks, installs chunks that were read
  asynchronously, moves everything that moves, and fires events of the bus.
* An edit of a block marks the chunk dirty. The worker of `Persistence` takes the dirty set
  every three seconds; the tick, evicting a chunk, hands a snapshot to the pool. Both write
  the same region file under different mutexes.
* `GameServer::stop` aborts the connections, stops RCON, waits for the executor, joins the
  tick, the janitor and the sessions, shuts the pool down, stops the JVM and then Persistence.

## 2. What is hard about it

`PROJECT.json` lists each hazard with its line and the properties aimed at it. In short:

* **Lock order is not the order of effects.** A frame is encrypted under one lock and sent
  later by another thread; a task leaves the queue under one lock and begins under none; a
  chunk leaves the dirty set long before it is stored.
* **Two savers and two loaders** work on one region file under two mutexes that do not
  exclude each other.
* **Condition variables shared by different predicates**: `queueCv_` by the writer's two
  waits and the drain, `serverThreadTaskIdleCv_` by the counters of three kinds of thread.
* **Deadlines** race the answer: 250 ms for a socket send, 100 ms for a drain, and the
  deadline of a caller that waits for the tick thread.
* **Reentrancy**: recursive locks, callbacks that reset their own subscription, listeners that
  change the block, the stack or the health the handler around them is about to act on.
* **Lists that are taken apart later**: hits of a tick's projectiles, random ticks of a
  section, players of an `execute as`, a snapshot of listeners: each is gathered first and
  worked off when what is in it may be gone.
* **Copies told by deltas**: a client's chunks, boards, bars, border, effects and inventory.
* **Crashes** between the renames of level.dat, inside a store in place, and between the steps
  of a piston.
* **Teardown from anywhere**: a connection, the executor, the bus, the JVM and the pool are
  stopped by one thread while others are inside them.

## 3. The modules

Every module names, at each operation, the function it stands for; `PROJECT.json` "map" gives
the lines (a helper of a line or two is not listed: the lines are those of its callers). A critical section of a mutex is one action, and so is a compare-and-swap; a
condition variable is the set of threads asleep on it, so that a missing notification is
visible. What the gate makes atomic is one action, unless a listener is called in its middle:
then the handler is cut there, with its rest on a stack. Operators marked *Faulty* are not part
of a specification: each is a plausible bug in the definition that follows it.

Where the code has a known way to break a promise, the module takes part in it and writes its
name into a variable (`leaks`, `races`, `oddities`, `trouble`, `gaps`, `slips`, `lost`,
`overwritten`, `crossed`, `untold`), and the
property says that there is no other way. The name is recorded where the actors meet, not
where the damage shows. Some modules explore nothing past the first of them.

### The server and its threads

**`Connection`** (net/Connection.hpp). State: the descriptor (`fd`, `socketClosing`, `uses`),
the two lanes with their sequence numbers and byte count, the writer (`started`, `stop`, `busy`,
`wpc`, `wframe`), the owner of `tx_` and the place of every calling thread, the cipher, and
`asleep` for `queueCv_`. History variables `wire`, `accepted` and `cut` hold what the peer
received, what was taken and what was dropped for a reason. A send encodes and queues a frame
in the urgent or in the low lane, or as a barrier; before the writer exists it writes directly.
Overflow, a failed or partial send, a timeout and the peer's end are outcomes of the send
actions. The writer takes the urgent lane first unless its front is a barrier that low frames
precede. `close` stops the writer, drains for 100 ms, cuts what is left, joins, shuts down,
waits for readers and releases the descriptor; `abort` does so without a drain. Bytes are a
size, encryption is a position in the cipher stream.

**`FrameChannel`** is the promise made to senders: two lanes, delivery from the fronts,
barriers ordered against the deferred lane, and an end that drops frames only from the backs.
`ImplementsChannel` is the refinement; a frame in flight is still at the front of its lane.

**`PlayerSessions`**. The life of a session: login with its reservation, acknowledgement,
configuration, load of the player's file, announcement, join with `kickDuplicate`, play, and
the cleanup, which does not take the gate (leave, tell, save, remove). The roster, the counter
of pending admissions, the data files and every client's tab list are shared. Before play a
session waits for one packet after the other and tolerates others, so that only a client that
closes or is `silent` ends the wait. Progress has three parts: place and experience are what
the file had, health and food are replaced when the player is registered (`Join`), the
inventory by the starter items (`Stock`), and what was replaced is in `overwritten`. The
history variable `raced` names the players of whom one session loaded while another had still
to save; `UnracedProgressKept` is about the others, and says what a join may replace.

**`Admission`**. Handshake, status, login with encryption, compression and the session server,
configuration with resource packs, and entry; the lists of bans, operators and the whitelist
with the files, the commands that change them and restarts that read them.

**`ServerLifecycle`** and **`Rcon`**. main's early check for a signal, the listener, the accept
loop with its two admission limits, session threads with their registry, the order of
`GameServer::stop`; and `RconServer`, whose descriptors are small numbers that the system gives
out again.

**`ServerExecutor`**. `queue`, the `status` of each request (moved by compare-and-swap), the
counters `active` and `cleanups` that the idle wait reads, the place of the tick thread, of
each caller, of each thread that stops the server and of each that stops a JVM runtime.

**`CommandIngress`**. Sessions, consoles (RCON included) and the tick thread, the gate, the
command lock and the lock of Java with their depths. A session handles a packet in the gate; a
command asks Java and then runs; a Java callback may hand a request to the tick thread. The
tick drains its requests twice and runs a Java hook. Deadlock is checked.

**`EventBus`**. A stack of frames per thread: a fire with the rest of its snapshot, a call, a
reset. Fires, calls, exceptions, subscriptions and resets nest in any order. `MayReset` says
which callbacks reset which subscriptions, `MaxDepth` bounds the stack.

**`JavaRuntime`**. Runtimes that want the one machine of the process: claim, creation,
bootstrap, failure at each point, leases, the lock that admits one thread into Java, natives on
any thread, and `stop` with its fence, its wait for those inside and the destruction.

**`JavaHandles`**. The table from handles to addresses with borrows, the cache of wrappers, and
everybody who makes, lists, invalidates and frees a player or mob: the tick, sessions whose
cleanup is outside the gate, and threads of mods. Addresses are used again. Handles the code
makes after an object's last invalidation are in `late`, and the promise excepts them.

**`Execution`** and **`Boards`**. Functions that call, return, recurse, schedule and disable
their pack, with `execute` and `return run`, as a stack of frames; objectives, scores, teams
and boss bars with each client's copy. The end of a session takes no gate: its scores are reset
(`ResetLeaver`) and the clients told (`TellLeaver`) in two steps that commands fall between;
a score whose packet crossed that reset is in `crossed`.

### Files

**`ChunkStore`**. The content of a chunk is the number of its last edit. State: `live`
(World::chunks_ with the revision), `dirty`, the holder of the gate, the worker inside
`flushOnce`, the staged region of `storeChunkAtomically`, the region file, the pool's queue and
threads, `pendingLoads_`, the save coordinator with its stamps, and the phase of `stop`.
Actions: edit (the block and then the dirty mark), send a chunk to a player (asynchronous read
queued *and* synchronous load), install a read, evict (clean, dirty through the pool, over the
cap, with a failing snapshot) and erase, every step of a flush and of a staged store, the steps
of a pool task, failures of each disk operation, and the shutdown with its final passes.
`races` records that a chunk has been through one of five races:

| race | what happens |
|---|---|
| window | the chunk is erased unsaved while `flushOnce` has it out of the dirty set and unsaved, or after a flush that failed put it back |
| reload | the chunk is read from disk while a save of it still waits in the pool |
| late load | the bytes of an asynchronous read replace a chunk that has other content by now |
| failed | a disk operation failed where the code only logs |
| overlap | a store in place meets a staged copy or rename of the same region |

**`LevelStore`**. level.dat, its backup and the staged file under `atomicWrite` and
`loadWithRecovery`; `earlier` holds the directories a crash may fall back to because they were
not synced. **`RegionSectors`**. One region file, found sound or malformed, with stores in place
whose writes a crash may cut. **`Progress`**. Advancements, recipe book and play time of a
player in memory, on disk and on his screen, over two sessions, while packs come and go. A
session saves early in its end and leaves the roster last (`Save`, `Leave`); what a command, a
blow or the tick grants in between is `late`.

### Items

**`Menus`**: every click mode, drags over several packets, recipe placement, opening, closing
and the end of a session, for the inventory, the crafting table, the stonecutter and a chest
that two players share. **`Automation`**: turns of hoppers, droppers, dispensers, furnaces,
brewing stands and crafters in a column. **`PlayerLife`**: digging and placing with their
listeners and second checks, hurt, death, respawn, portals, ground items, orbs, and the end of
a session beside a tick; only survival players place. **`Mobs`**: who hurts, kills, takes out
and pays, with listeners that set health. **`Using`**: the right click on blocks and in the
air, and beds. All of them count what there is; a total that changes is a bug or a named leak.

### Blocks, bodies, commands

**`ChunkView`**: streaming, the cache of chunk bodies, the batcher of block changes, the two
queues of a connection, walking, portals, respawn. `Edit` is an edit that is broadcast,
`EditUntold` one that reaches the world by setBlock alone, as those of fluids and most of
redstone do; `untold` has the chunks of each player whose last edit he was not told of, `blank`
those that count as sent though he lost them with the dimension he died in. **`BlockLight`**: the two queues of the
light engine. **`Fluids`**: water and lava in a vertical slice of the overworld. **`Pistons`**:
three steps that lie ticks apart, with builders, saves and crashes between. **`Growth`**: random
and scheduled ticks and bone meal on slices of the world. **`Vitals`**: one body under hunger,
hazards, effects, attributes, blows with their callbacks, death and respawn. **`WorldCommands`**
and **`PlayerCommands`**: the commands on blocks, settings, bags, places and lives, with what
clients are told, the tick and a restart.

### MC modules

`MCConnection` and `MCPlayerSessions` only give values to constants. `MCServerLifecycle`,
`MCCommands`, `MCPersistence`, `MCItems` and `MCWorld` put modules that share no state side by
side: a behaviour is one of the parts while the variables of the others stand still, so that
one run checks them all and the state space is the sum, not the product. `ServerExecutor`,
`CommandIngress` and `Fluids` are run as they are.

## 4. The runs

| run | question | bounds |
|---|---|---|
| `MCConnection` | do the descriptor, the accounting of frames and the order on the wire hold in every interleaving? | 2 threads that send and tear down, 1 reader, the writer, 4 frames of sizes 1 and 2, cap 3 |
| `MCConnectionLive` | does the implementation refine `FrameChannel`; does every teardown end and every accepted frame settle? | 2 threads, 1 reader, 3 frames of size 1, cap 2, no symmetry |
| `MCPlayerSessions` | are cap, reservations, roster, tab lists and progress right in every order of login, join, kick and leave, and does every session settle whose client answers, closes or falls silent? | 3 sessions, two of one player and two that claim one name, cap 2 |
| `MCServerLifecycle` | does every stop return, of the server, of RCON and of Java, and is nothing left running; are all calls made within the life of the machine? | 2 clients that may never speak, limits of 1; 2 descriptors; 2 runtimes, 3 threads, 4 frames of calls, 2 starts |
| `MCServerExecutor` | do claims, answers, counters and the idle wait agree, and do requests and stops end? | 2 callers, a thread that stops the server, one that stops a runtime, 2 requests, cap 2, one task a tick |
| `MCCommandIngress` | no deadlock, one mutator, locks where the code is, and consoles are served without a deadline? | 2 sessions, 2 consoles; one console does not time out |
| `MCCommands` | does a reset drain; do clients see the boards; do functions run as written; do handles lead to the living? | 2 threads, 3 listeners of two priorities, 4 frames a thread, any reset from any callback; 2 players and 4 orders; 3 functions in 2 packs, recursion 3; 2 addresses, 2 things, a host, a session and a mod |
| `MCPersistence` | is an edit, a level, a list, a sector or a deed lost in a way that is not named? | 1 chunk, 2 edits, 2 pool threads, 1 failure, 2 final passes; 3 chunks in 8 sectors; 4 saves of a level, 2 spoilt files; 2 logins, 2 orders, 1 boot; 3 packs, 2 sessions of a player |
| `MCItems` | is an item, block or point made, lost or doubled in a way that is not named? | 2 players; 8 columns of devices; 6 herds; 17 clicks and nights |
| `MCWorld` | do players see the world, do light, fluids, pistons and plants settle as defined, do commands do what they answer, is a body sound? | 2 viewers on 3 chunks in 2 dimensions, 2 edits and 2 moves; 6 cells of light; slices of 3 by 2; 5 cells of pistons; 10 slices of plants; 10 days of a body; 71 edicts and 11 scenes of people |
| `MCChunkStoreEvict` | is an evicted chunk saved? (violated, 7) | 1 chunk, 2 edits, no failure |
| `MCFluids` | does a tick of the fluids return? (violated, 7) | a slice of 2 by 2, levels as in the code |

Why the bounds are enough. *Connection*: two threads give every pair of calls, a closer
beside a closer included; four frames are two low ones with a barrier between them and one
after; the cap of 3 with sizes 1 and 2 is reached with one and with two frames queued; the
proofs cover any number. *Sessions*: duplicates by uuid and by name need three sessions, of
which a cap of two refuses one. *Executor*: two requests fill the queue, and the drain budget
of one leaves the second for a later tick. The same configuration with two threads that stop
the server (289 329 states) and with a waiter and three requests (17 million) also passes; the
proofs cover any number. *Ingress*: a thread of each kind to hold each lock and one more to
wait for it. *EventBus*: two threads that wait for each other need two frames each, four leave
room for a reset inside both. *ChunkStore*: the races are between two operations on one chunk,
the order of two saves of one chunk needs two pool threads, and an edit lost needs one that
was saved before it; the proofs cover any number, here and for the level. The scenes of `MCItems` and `MCWorld` are chosen
so that each disjunct of each module is taken and each named way to fail is met.

Bounds that stand for counters the code leaves unbounded: `MaxFrames`, `MaxEdits`, `MaxQueue`,
`MaxFails`, `MaxStores`, `MaxSaves`, `MaxRots`, `MaxOrders`, `MaxBoots`, `MaxStarts`, `MaxAsked`,
`MaxMoves`, `MaxChanges`, `MaxPlaced`, `MaxDone`, `MaxGrown`, `MaxBabies`, `Turns`, `Meddling`,
`Drops`, and the budgets of a scene. `FinalPasses` stands for 8 and is one more than the
failures. Levels, ages, air, food and intervals are smaller than in the code where a module
says so. Where a run checks deadlock off, the system may really come to rest: what was to be
asked has been asked, or the threads of `EventBus` wait for each other (7).

Each property of a passing run has a mutant in `PROJECT.json`: a bug in one mapped definition
for which TLC finds the property violated under the same configuration.

## 5. Fairness

* *Connection*: the writer runs; a thread that owns `tx_` goes on; a direct send and a read
  end. The code bounds each of these: sends by the 250 ms of `SO_SNDTIMEO`
  (`GameServer_core.cpp:375`), reads by 30 s and by the shutdown of the socket, the drain by
  100 ms. No thread is assumed to win `tx_`.
* *PlayerSessions*: a session's own steps are taken. The 30 seconds of a read are those of one
  read: a session before play gives up once its connection is closed or its client sends
  nothing more, and nothing is assumed of one whose client goes on sending packets that login
  and configuration tolerate. What waits for a client in play need not come. A frame that was read is handled: strong fairness,
  since others hold the gate for a while.
* *ServerLifecycle*, *Rcon*: threads run, and the read of a socket that was shut down fails. No
  client need connect, speak or leave, and nobody need stop the server.
* *ServerExecutor*: the tick thread and the stopping threads run. Running a task and beginning
  a tick are strongly fair, since both need locks others use for a while. No caller is assumed
  to time out and nobody to stop the server.
* *CommandIngress*: threads run, Java callbacks and handlers end, and a thread that keeps
  asking for the gate gets it (strong fairness), since others release it for whole ticks.
  Sessions time out; consoles are not assumed to.
* *JavaRuntime*: a stop that was begun goes on, a call that can end ends, and the mutex of the
  machine, free again and again, is got in the end (strong fairness of the destruction).
* *EventBus* states that threads run and callbacks end; only the claim that fails (7) uses it.
* *Fluids*: the cells that are due are worked off. The counterexample of `MCFluids` is a tick
  that does so for ever.
* Everything else is checked for safety only; that the final passes of `ChunkStore` save what
  is dirty is an invariant of the stopped state.

## 6. The proofs

Eight modules hold proofs for every value of the constants that satisfies the named
assumptions. None of them assumes more than that names of different things differ, that a set
of sessions is finite, and that a cap, a limit or a bound is a natural number (the executor's
cap and budget, the final passes of `Persistence` and the sizes of frames positive, a frame
under the cap, as `PacketEncoder` has it).

| module | theorem | states |
|---|---|---|
| `ConnectionProofs` | `ConnectionTypes`, `DescriptorSafety`, `FramesAreAccounted`, `WireIsOrdered`, `ConnectionIsAChannel` | types; `DescriptorOutlivesUsers`, `FramesAccounted`, `WireOrder`; `ImplementsChannel`: a connection refines `FrameChannel` |
| `PlayerSessionsProofs` | `AdmissionSafe`, `AdmissionExact`, `RosterUnique`, `SessionTypes`, `ProgressKept`, `PlayersListed` | `NotOversubscribed`, `ReservationsExact`, `PlayersUnique`, types, `UnracedProgressKept`, `EveryoneListed` |
| `ServerLifecycleProofs` | `StopIsLast`, `AdmissionIsBounded`, `StopsAreSound` | `NoThreadOutlivesStop`; `AdmissionBounded`; `AdmissionsAndCalls`, which is `AdmissionBounded` together with `JavaSound` of `JavaRuntime` |
| `PersistenceProofs` | `EditsKept`, `StopSaves`, `StampsAreReleased`, `FilesAreSound`, `DoorIsKept`, `EarningsAreKept` | `UnracedKeepsEdits`, `StoppedIsSaved`, `StampsHaveSaves` of the chunks (a run of `MCPersistence` is one of `ChunkStore`: `ChunksRun`); `FilesSound` (`LevelSurvives` and `BackupHolds` of the level, `ChunksIntact` and `StoredAlone` of a region file), `DoorKept`, `EarningsKept` |
| `WorldProofs` | `WorldIsSeen`, `PistonsKeepStones` | `SeesTheWorld`; `StonesKept` |
| `ServerExecutorProofs` | `ExecutorTypes`, `OutcomesAgree`, `StopFindsNothing` | types, `Outcomes`, `StopFindsNone` |
| `CommandIngressProofs` | `CommandsStayApart` | `CommandsApart` |
| `CommandsProofs` | `ResetsWait`, `ResetForbidsCalls`, `BoardsShown`, `ReleasedStaysReleased`, `FunctionsRunAsWritten` | `NoLostDrainWakeup` with `ResetDrains`; the action property `NeverCalledAfterReset`; `ClientsAgree`; `NothingAfterRelease` (`ResetDrains`, `NeverCalledAfterReset` and `HandlesSound` of `JavaHandles`); `RunsAsWritten` |

Each proof has the same shape: an inductive invariant, first checked by TLC on a small
instance, a lemma for each action or group of actions, and one temporal step at the end.

**Connection.** `DescriptorOutlivesUsers` is not inductive: that the writer is gone when the
descriptor closes depends on the order of the whole teardown. `IInv` adds: a thread is inside
a call that takes `tx_` exactly when it owns `tx_` (so at most one thread tears down, and none
sends meanwhile); the writer exists exactly while `writerStarted_` is set; `closeFd` begins
only when the writer has been joined, and bars new readers before it waits for the old; a
sender in the middle of a send holds a frame.

**Frames.** `FInv` adds to `IInv` what the lanes, the frame in hand and the wire have to do
with each other. *Lanes*: the low lane is the next stretch of the low sequence, and each
barrier of the urgent lane names a frame of that stretch or the last one taken, in order.
*Arrived*: the peer has every low frame up to `doneLow`, and the writer only sends a barrier
when nothing before it is missing. *Ciphers*: wire, hand and urgent lane are one stretch of
cipher text that ends where the cipher stands. *Distinct*: no id is in two places. *Counted*:
`queuedBytes_` is the size of a finite set of bytes. *Torn* and *Stopping* say when nobody can
send any more, which is what lets the others break off.

**Channel.** `ConnectionIsAChannel` puts every step of a connection down to a step of
`FrameChannel` or to none. It uses `FInv` before and after the step, and `Bounded` (the
encoder's counters stay within its frames). A send that is queued or begun directly is
`Accept`; a send that went through is `DeliverUrgent` or `DeliverDeferred`, and that its guard
holds is what *Lanes* and *Arrived* say of the barriers; whatever ends the sending is `Close`,
with the lanes as they were, cut back to the frame in flight, or empty; the rest changes
nothing a sender or the peer can see.

**Sessions.** `NotOversubscribed` needs `ReservationsExact` (a join consumes a slot only if
the counter is not zero), which needs `Holders`: a session holds a reservation exactly from
its login to its join, and a session in the roster has joined. `PInv` adds `GateHeld` (who
enters play holds the gate until it has been given its items), `Solo` (of the sessions of a
player that nobody raced, one at a time is between loading and saving), `Carried` (that one
carries all progress that no join replaced, and until it is registered the file has it too),
`Own` (what a file or a session holds is of its uuid) and `MadeLate` (nobody makes progress
before play, so a join replaces only that of sessions that are over); and `Announced`, what a newcomer has told and was told before it is in the roster.

**Lifecycle.** The invariant follows the order of `GameServer::stop`. That the join of the
sessions misses none is `Tracked`: every live session is in the registry, except for the one
that was just spawned. `AdmissionBounded` is about sessions, the gates count slots: *Held* says
which slot a session holds from its admission until it leaves or enters play, *Within* that no
more slots are out than the limit, and the sessions counted are a subset of the holders.

**Java.** `JavaSound` needs four pieces. *MachineFits* says who owns the process and what there
is of a machine at each point of a start and of a stop: the owner is published before a machine
is made, there is one machine, and a stop that waits has taken `live_` away, so that no new
lease begins. *LeasesFit*: who is inside has a machine that no stop has found empty; this is
what makes the destruction safe. *MutexFits*: the one mutex of calls has one holder, a callback
of the holder included, and never while the stop has it. *RequestFits* and *TasksFit*: a
mutation of the world is under a call of its own runtime, or it is the one from the queue,
which a stop waits for; without them the stop could find a runtime empty whose mutation goes on.

**Chunks.** `SInv` finds, for each chunk that no named race has touched, the place of its last
edit (*EditKept*): a loaded chunk has it, and while the disk does not, the chunk is *Covered*: dirty,
in the batch of a flush, staged, or in the hands of the simulation; of an evicted one it is on
disk or in a queued save that will not be superseded (*Stored*). The pieces that make this inductive: *Holders* (the
staged copy shows the chunk as it is, because a flush stages under the read lock and the tick
behind the gate; who stores in place is a pool thread with a save), *CopyFits* (the staged
copy of the region shows such a chunk as the disk does, unless it is the one staged), *Stamped* (no
two chunks share a stamp of the coordinator, so that a save that was superseded was superseded
by a save of the same chunk) and *Stopping* (the pool is empty before `Persistence` stops, and
each final pass that left something dirty had a failure). Most of the work is in the region: a
store in place and a staged copy overlap without a lock, and each way they can is either
harmless for the chunk or one of the five named races.

**What a player sees.** `SeesTheWorld` speaks of the moment when nothing is under way; the
invariant (`ViewFits`, for each player *Sees*) says what the frames under way lead to. The lane with the chunks is one
sequence, and a respawn, which may be in the other lane, a *bar* behind the place in it that the
respawn waits for. *Comes*: a chunk that the player has (`Had`: sent, and not lost
by dying elsewhere) has a body, in the lane or already shown, that nothing beyond it forgets,
neither a bar nor a frame; each body of any other chunk has something beyond it that does; and
the last frame that writes to the block of a chunk that he has says its state in the world,
unless it is `Awaited`: the block is in the batch, whose flush goes behind everything, or he was
not told of its last edit. *Lanes* says that the other lane has only barriers, each waiting for no fewer frames
than the one before it, *Fitting* that the cache has nothing but the present world; an entry of the batch may be old,
and a flush says who is then left untold. Each
action is a lemma about two sequences: frames that go behind, a barrier, a frame taken from either
lane. That a list made from a finite set of chunks has each of them, nearest first, is a fact
about ranks; `ChunkView` writes its lists with `InOrder` so that it can be proved.

**Pistons.** `StonesKept` counts the stones that lie and those that moves carry. Two facts about
moves make it inductive. *MovesApart*: no two moves write to one cell, or they had met.
*MovesShown*: while a move is under way its cells show as moving, the cell beyond is still air,
and what it will pull is where it was. So the cells with a stone, in place or under way
(*Laden*), are as many before a move is put down as after it: each goes one cell further, and
no two come to the same cell. A flush puts down all moves together, and because they are apart
each cell has only one to look at. That a piston begins only what fits (`ReachFits`: its
blocks, one cell further, end in the air that stopped it) is where the look beyond the last
block is needed.

**The level.** `LevelSurvives` speaks of every state the directory may fall back to in a crash,
not only of the one the process sees. `LevelInv` says what all of them have at each step of a
save (*LevelStaged*: the staged file is the save that is under way, and a directory that is
booted from has nothing unsynced; *LevelRunning*: level.dat, or for lack of it level.dat_old,
is whole and no older than what is promised, and a leftover staged file is only there beside a
whole level.dat with nothing unsynced, so that truncating it is safe) and what is left when
level.dat is spoilt (*LevelBacked*). The exception is the claim that fails in 7: a process that
runs on a staged file that it did not promote.

**Region files.** A store that a crash may cut after any sector harms no other chunk because
of where it writes: *RegionStore* says that no entry of another chunk claims those sectors, and
of its own chunk only if nobody else does (`StoreFree`), and that what it has written is there
(`StoreWritten`). A file may come with entries that overlap, and then only old data may be in
the sectors two entries share (*NewParts*). A store that does not use its own sectors again
goes behind the last entry; that a finite set of numbers has a greatest comes from the
well-foundedness of the naturals.

**The door.** `BannedStayOut` is only inductive with *Watched*: whoever is on a list was past
its check, and this already on the way into the roster. *Rostered* ties the roster to the phase
and to the resource pack, *WiresFit* says for each phase what of the wire is compressed and
encrypted, and *ListsFiled* that each list that is not lost is the file as well (the operators:
the file together with ops.txt, of which they are never rid). A boot reads the lists back from
there.

**Progress.** While no session of the player overtook another there is at most one
(*OneSession*), and what he earned is with it until it leaves the roster, and from its save on,
or for lack of a session, in the file
(*EarnedSomewhere*, unless something came late); the time he played is in the session's counter, its ticks since the join
added, or in the file (*TimeSomewhere*). `CacheTrue` is that the definitions a session reads
are those of the packs there are; the client's side (`ShownIsHeld`) and the recipes' numbers
(`NumbersAgree`) are then inductive.

**Executor.** `Outcomes` needs `Claims` (a request is Running exactly while it is the tick
thread's current one and its body runs) and `Calls`. `StopFindsNone` needs three facts more:
*Cleanups*, that the number the idle wait reads is the size of a set with an element for each
request off the queue and not accounted for; *Found*, that a pending request is in the queue
or in the hands of a thread that cancels; *Stopped*, that what each place of a stopping thread
stands for stays so, whoever else stops or cancels meanwhile.

**Ingress.** `CInv` ties the owner and depth of each of the three locks to the place of every
thread (`Held`), says that what is queued is pending and queued once (`Queued`), and that a
session's request is pending for as long as the session waits (`Unserved`): the tick thread
needs the gate to serve it, and the session has it.

**EventBus.** `EInv` says how stacks are built (`Shape`: a call stands on its fire, a reset is
the innermost frame), that `inFlight` is the number of calls on all stacks (`Counted`, the size
of a finite set of pairs of thread and place), that a listener is reset once (`OneReset`), what
a sleeping reset waits for (`Sleepers`: more calls than its own thread has) and what is true
for ever once it has returned (`Past`, `Emptied`). `ResetForbidsCalls` is an action property that follows from it.

**Boards.** A client's copy cannot be right for good unless the server's board is orderly:
*Vacant* says that what is not there has no score but by mistake (`orphans`), no members and
nobody who missed it, and is not displayed. With it, the copy of each client in play is in three
parts (*SeesObjectives*, *SeesSide*, *SeesTeams*), each up to the named gaps, and a packet is
shown to do to the copy what the command did to the board. A removed objective is the hard
case: its name may be added again, and then neither the old scores nor the old sidebar may show.
While the end of a session is between its two steps nothing is promised of the scores of its
name, and the second makes good what the first has done, but for the `crossed`.

**Handles.** That a handle leads home (*Home*) holds because memory goes only after its handles.
*Promise* says why: a thing that was not given up is listed, or some thread is still going to
list it or to invalidate it, and that thread keeps it alive (*Owned*, *Alive*), so whoever drops
the last reference finds it closed; *ClosedLate* says that all its handles then are late ones,
and *Parting* that a session takes its player off the roster with the handle invalidated. The
natives need *BorrowFits* (a borrow is under the table's mutex, and its thread does nothing
else) and *StateFits* (who holds an object's own lock is at a step of its plan, or in a native),
from which the absence of a ring follows.

**Execution.** `RInv` reads the stack from the outside in: the sources a frame still has to
serve are where the innermost `execute in` below it has put them (*Stacked*, *Placed*), a tick is
only ever the outermost frame, and `depth` is the number of frames of functions (*Levels*), which
is why a return can only have been met in this run. Lines are any set that is closed under
nesting (`Lines`), so nothing is proved by induction over a line: what is inside a line is a
line. *Timely* says of the schedule what the invariant does, after every step, and the action
property needs that `InOrder` neither loses nor invents an entry, which is a fact about ranks in
a finite set of places.

**Only model-checked.** Liveness: fairness and ENABLED are beyond the prover. What a recursive
definition computes (light, recipes, the score of an advancement): the induction theorems of
the library take an operator as a parameter, which none of the provers can instantiate, and a
module with RECURSIVE operators cannot be proved about at all. The properties of
`MCItems` and of `Rcon`, and those of `MCWorld` but `SeesTheWorld` and `StonesKept`. All safety properties of
`MCServerLifecycle`, `MCPersistence` and `MCCommands` are proved.

## 7. What the models found

### Violated runs

* **An evicted chunk is not saved** (`MCChunkStoreEvict`). `chunksUnloadTick`
  (`game/GameServer_tick.cpp:562`) takes "not in `dirty_`" for "saved", which is not so while
  `flushOnce` works on a batch.
* **A tick of the fluids that never returns** (`MCFluids`). A falling column spreads level 1
  into the air beside it; that cell takes its level from its neighbours, which is more than 7,
  and dries up; each change wakes both at once, and the loop of `physics/Fluids.cpp:246` takes
  whatever is due. The compiled `Fluids.cpp` does the same with one water block above a drop.

### Claims of the repository that fail in a model

They are stated in the modules and no run checks them; to see one fail, give its name as
INVARIANT or PROPERTY in the configuration of its module.

| claim | module | what happens |
|---|---|---|
| `StopRequestHonoured` (`main.cpp:168`) | `ServerLifecycle` | `runForever` sets `running_` after the signal that cleared it; the signal is lost |
| `NoLostIdleWakeup` | `ServerExecutor` | with a waiter that only waits, discarding a cancelled request notifies nobody; `GameServer::stop` is not affected, it cancels first |
| `JavaOutsideGate` (`GameServer_session.cpp:4355`) | `CommandIngress` | every caller holds the gate for the whole packet; a callback that hands work to the tick thread stalls the simulation until its deadline (`SessionRequestNeverServed`, proved) |
| `SlotsComeBack` | `PlayerSessions` | login and configuration end a read after 30 seconds, not a client that keeps sending packets they tolerate (`GameServer_session.cpp:912-948`, `1068-1137`): its reservation stays |
| `OwnResetReturns` | `EventBus` | two threads that nest two callbacks in opposite orders wait for each other |
| `InstallKeepsEdits` (docs/SPEC_GAMEPLAY.md) | `ChunkStore` | `pollPendingLoads` installs old bytes over a chunk loaded and edited meanwhile |
| `BootedLevelSurvives` | `LevelStore` | a boot from level.dat.new leaves that file where the next save truncates it |
| `SwitchSurvives` (docs/MISSING_FEATURES_1_21_4.md:265) | `Admission` | `/whitelist on` is not saved |
| `CloseKeepsItems` | `Menus` | what the 2x2 grid holds is hidden and lost at the close of a crafting table |
| `DigStaysInItsDimension` | `PlayerLife` | a respawn leaves a dig at work on the same place of another dimension |
| `PaidOnce` | `Mobs` | two projectiles of one tick that hit one mob both pay for it (`GameServer_items.cpp:3162-3196`) |
| `ClearedIsClear` (`commands_scoreboard.cpp:291`) | `Boards` | clearing the sidebar clears slot 0, the player list |
| `BorrowsLive` (`CommandsHelpers.hpp:117`) | `Execution` | `execute as` keeps a player whose session ends, outside the gate |
| `LightFlowsBack` (`LightEngine.cpp`) | `BlockLight` | neighbours that run again do not spread |
| `NothingMovesOnDisk` (`GameServer_world.cpp`) | `Pistons` | between the barrier and the snapshot the saving thread lets the gate go |

### What the models name and except

* *Java.* A lowering of the count of calls notifies without the mutex of the wait, and a stop
  can sleep through it (`missed`); callbacks are skipped with the default answer while another
  thread is in Java; a refresh of a player or mob after its last invalidation makes a handle
  that stays (`late`), so that `NativeHandleTable.cpp:36-38` ("stale fails closed") does not
  hold for it.
* *Persistence.* The five races of section 3. In `Progress`: play time counted twice by the
  periodic save and the end of a session, one merge cache for all packs, revocations not told,
  recipe numbers stale after a change of packs, a malformed file overwritten, only the first
  criterion told, '#tag' that matches everything; what is granted between the save at the end
  of a session (`GameServer_session.cpp:506`) and the departure from the roster (`:534`) is lost.
* *Admission.* A ban while its player logs in does not kick him; the refusal after a failed
  verification is unreadable; compression is set twice online; an operator of ops.txt who was
  deopped comes back; an offline name that is IP-banned bans the text; save-off and save-on do
  nothing; any packet keeps a session alive without its keep-alive.
* *Entering play.* `onEnterPlay` (`GameServer_session.cpp:1192-1235`, `1626-1648`) resets mode,
  health and food, and the starter items overwrite what was loaded (`overwritten`); an entry
  that fails in between saves the new health and the loaded inventory.
* *Boards.* A client that joins is told of bars but not of objectives and teams; scores set
  before their objective; a player in two teams; a score set while the end of a session
  (`GameServer_session.cpp:526-530`) resets those of its name is kept by the server and wiped
  from the clients; a leaver loses his scores; triggers stay
  enabled; nothing is persisted.
* *Functions.* One return flag for all functions; a missing scheduled function is skipped;
  `/reload` re-enables disabled packs and keeps old recipes; the schedule is not persisted;
  several conditions of `execute if` run what follows at 0,0,0.
* *Items.* Dispensers and droppers pull and push like hoppers; a furnace's output has no limit;
  stacks of buckets; lone and recreated halves of doors; placements that nobody paid for; boats
  paid though refused; lost bowls; sleepers that stay after they left.
* *Mobs.* Arrow and explosion kills give no experience and split no slimes; explosions roll no
  loot; an enderman's block is lost; brains of the dead and links of vehicles dangle.
* *What a player sees.* The changes of fluids (`Fluids.cpp:282-449`) and most of redstone's are
  told to nobody, nor is the platform of a portal to those who see it (`untold`); an entry of
  the batch tells the state at which it was queued, also when another edit came after it; a
  correction may go to players of another dimension; who dies in another dimension keeps the
  chunks he was sent there on his list, and is not sent those of the overworld (`blank`).
* *World.* Four kinds of edit
  break the light; a block built where a piston's move ends is overwritten. Bamboo stops at 4
  where docs/MISSING_FEATURES_1_21_4.md:138 has up to 16; cane and cactus grow to 4
  (`game/GameServer.hpp:688-689`); torchflowers and pitchers start again at age 0; a sapling's
  trunk overwrites any block.
* *Bodies.* `effectsTick` heals the dead; levels from 128 on are negative; effects outlive a
  death; Java's `setHealth` kills and raises silently; `/attribute armor base` is overwritten; a
  modifier named effect_speed is dropped; a respawn does not ask whether the player is dead.
* *World commands.* `/worldborder size` cannot be reached; a border from level.dat that was on
  its way overrules a later one; the day advances with doDaylightCycle off
  (`game/GameServer.hpp:1486`); whoever joins in another dimension is not told of rain, border
  and time; difficulty, and forced chunks and spawns of other dimensions, are lost at a restart;
  a clone reads air from chunks that are not loaded, and an overlapping move blanks its copy;
  block entities survive what replaces their blocks.
* *Player commands.* `/data` pretends; `/give` cuts a stack when there is no room; `/clear`
  counts stacks; `/kill` counts survivors; `/loot replace` writes the crafting result; viewers
  of a chest are not told of `/item block`; a teleport into a wall is corrected for ever; a
  teleport to another dimension takes the coordinates only.

## 8. What is not modelled

* Numeric gameplay that is single-threaded inside the gate and looks at nothing another actor
  can change: movement, pathfinding and goals of mobs (AiBrain), wires and gates, sky light,
  world generation, rolls of loot. It is compared with recordings of vanilla by the repository's
  golden and parity tests; a model would repeat the formulas.
* Parsers and encoders (NBT, JSON, packets, configuration, the grammar of commands): no state
  between calls.
* The session lock of a world directory: one advisory lock of the system.
* Authentication and cryptography, apart from the order of their steps and the position of the
  cipher stream.
* Screens other than the inventory, the crafting table, the stonecutter and the chest.
* In the modelled components: crashes inside `ChunkStore` (`RegionSectors` and `LevelStore`
  have them), block entities of chunks, more than one event type of the bus, Java callbacks
  fired by a running command, a stop of the JVM out of a callback, transformed methods and
  their routing, token buckets.

## 9. The plan

What is left, the most important first.

1. Proofs: `FlowKept` of `Automation`.
2. Models: wires and repeaters; anvil, enchanting and merchant screens; the packets of play
   that no module has.

## 10. Running it

    tlc -workers 2 -config MCConnection.cfg MCConnection     # one run; at most 3 min each
    tlc -workers 2 -config MCServerExecutor.cfg ServerExecutor
    tlapm ConnectionProofs.tla                               # one proof module

The `.cfg` of a run is named after it; `PROJECT.json` "runs" names its module.

# TLA+ project for ta-engine

ta-engine reimplements the engine of *Total Annihilation* and *Kingdoms*: a
deterministic simulation (`src/src/sim`), a lockstep server that orders the players'
commands into ticks (`src/src/server`), a client that plays and shows them
(`src/src/client`), and the formats both read. This directory holds a formal model
of the parts of it in which several actors or several steps have to agree: TLA+
modules, TLC configurations that check them on small instances, and proofs that
TLAPS checks for every instance. Source references below are to `src/src/...` of the
repository, written without that prefix.

Contents: 1 the system, 2 the plan, 3 how each module corresponds to the code, 4 the
runs and their bounds, 5 fairness, 6 what is proved, 7 where code and documentation
part ways, 8 what is not modelled.

To check: `tlc -config MCX.cfg MCX` for the runs of section 4 (the configuration of
each names its module's `MC` module), `tlapm XProofs.tla` for the proofs.

## 1. The system

### How the parts interact

```
 client                          server (one thread + worker pool)
 ------                          ---------------------------------
 UI, input --orders--> command   Conn ----> onFrame: helloMsg / lobbyMsg / gameMsg
   flow (credit, window) --TCP-->              |            |
 MpClient <---bundles, GameStarting, ... --- rooms: slots, spectators, queues
   | session state machine                     | closeTick: queues -> bundle -> log
   v                                           |   -> broadcast, catch-up feed
 simulation thread: World::tick                v
   | per-tick hash --StateHash-------------> desync referee: its own World::tick
   v
 rendering, thread pool                     accounts file, throttle
```

Every participant runs the same `World` on the same bundles; nothing but the
players' commands crosses the wire. So correctness splits in two: *everybody is
given the same stream of bundles, with nobody's orders lost and no way for the
stream to stop* (server and command flow), and *what the simulation does with it is
consistent in itself* (building, orders, transport, paths).

### Inventory

Status: M modelled, P partly, - not modelled.

**Server**

| component | code | state | operations | hard behaviours | correct when | |
|---|---|---|---|---|---|---|
| worker pool | `server/server.cpp` 222-300 | mutex-guarded batch (`fn_`, `count_`, `gen_`, `finished_`), atomic `cursor_` | `run`, `drain`, `workerLoop`, destructor | a worker late for one batch meets the next; wake-ups | each room ticked once per batch, `run` returns, threads join | M |
| tick sequencer, running rooms | `server/server.cpp` `closeTick`, `canAdvance`, `dropClient`, `leaveRoom`, `run`; `net/lockstep.h` | per room: log, input-delay buckets, pending events, slots, holds, pause; per client: queue, ack, replay cursor | commands, reports, drop, rejoin, spectate, leave, pause, sweep, close a tick, feed history, tear down | any order of loss, return, deadline and frame; live stream against history; deadlines against returns | one gapless stream for each; orders in order, once; one end for each player; no stop | P |
| lobby and rooms | `server/server.cpp` `lobbyMsg`, `gameMsg`, `tryStart`, `leaveRoom` | rooms by id, slot table, `slotClient`; per client `state`, `roomId`, `slot` | create, join, edit slot, kick, start, leave, drop, rejoin, spectate, tear down | the same fact kept twice; edits that cross joins | both records agree; a listed room can be started | P |
| desync referee | `server/server.cpp` `gameMsg` StateHash, `checkHashes`, `closeTick` | reports by tick and connection, ring of the referee's hashes, flags | report, judge, trim | reports out of step, reports of connections that are gone, a referee that is wrong itself | a diverged player is told, a right one spared | M |
| sign-in, accounts, throttle | `server/accounts.cpp`, `net/auth.cpp`, `server.cpp` `authBegin..` | account map and file, per-connection exchange, failure counts | begin, prove, register, save | two registrations of one name; save fails after insert; crash between temp file and rename; counters at their limits | a name has one owner; what is confirmed is on disk; guesses are counted | M |
| framed connection | `net/conn.cpp`, `net/protocol.cpp` | receive and send buffers, offsets, error | `send`, `recv`, `poll`, `flushWrite` | partial reads and writes, FIN with frames behind it, compaction | frames whole, in order, none lost before an orderly close | P |

**Client**

| component | code | state | operations | hard behaviours | correct when | |
|---|---|---|---|---|---|---|
| command flow | `net/protocol.h`, `client/gameview_net.cpp` `mpStep` | credit, in-flight count, catch-up gate, tick counters | send, simulate bundles, leave catch-up, rejoin | bursts, stalled uplinks, rejoin with unsigned counters | server queue never overflows; the count is exact | M |
| network session | `net/client.cpp`, `client/gameview_net.cpp` `mpAutoStep` | `MpClient::State`, buffered bundles, rejoin flag, resume card | connect, lobby, start, play, drop, auto-rejoin | refused rejoin, leftovers of the old connection | only ticks of the game the world was built for are played; a game goes on for those who are left | P |
| simulation thread | `gameview_net.cpp`, `gameview_impl.cpp` 700-830, 2840-2900 | `simInbox_`, `simOutbox_`, three frame buffers, world mutex, quit and cancel flags | post a job, take it, step, publish a frame, report, draw, stop | the worker ahead of a slow frame; acknowledging what is only queued; stopping with jobs waiting | the inline simulation, tick for tick; frames whole; no tick acknowledged early | M |
| thread pool | `client/threadpool.h` | as the server's pool, chunked | `parallelFor`, destructor | threads late for one loop meet the counter of the next | each item once, `parallelFor` returns | M |
| interface, rendering | `client/*.cpp` | views | draw, input | - | - | - |
| replay files | `client/replayfile.cpp`, `net/replayhdr.h` | bundle log | write, read | - | what is read is what was written | - |

**Simulation** (one thread, a fixed order of passes in `World::tick`)

| component | code | state | operations | hard behaviours | correct when | |
|---|---|---|---|---|---|---|
| building, repair, reclaim | `sim/sim.cpp` 3221-3430, 3665-3968, `World::tick`; `sim/matchsetup.cpp` `applyCommand` | `Unit::orders`, `buildSiteId`, `reclaimId`, sites, blocked cells | order, queue, cancel, assist, start, work, give up, decay, die | ids kept after their site has ended; five ways for a site to end; orders and jobs as separate records | ground freed, one structure a spot, finished is safe, assigned is kept | P |
| orders and queues | `sim/sim.cpp` 1190-1360, 2180-2330, `World::tick` | `Unit::orders`, legs, `abandoned_`, training queue; patrol loops | order, attack, wait, board, stop, arrive, give up, train, strike off, repeat; patrol, guard | legs replaced by routes under way; several producers against one count in one tick | a route changes the leg it was asked for; stopped is stopped; no unit past a limit | P |
| transport, capture | `sim/sim.cpp` `loadInto`, `unloadAt`, `tickTransport`, death sweep | `cargo`, `inTransport` | board, ride, put off, death of either | carrier dies loaded, itself a passenger; ids served before and after | passenger in one place; nobody outlives the carrier | P |
| movement, combat, visibility | `sim/sim.cpp`, `sim/detmath.cpp` | positions, projectiles; two fog grids, a cache of masks, a worker thread | per tick; start, compute and land a pass, change the map | determinism; a pass that lands late or after the map has changed | equal on every peer; what is lit was in view | P |
| path search service | `sim/pathsearch.cpp` | request queue, pool of searches, budget | request, step, complete, cancel | slots refilled within a tick; unit dies in search | slots and searches name each other; each request is served | M |
| missions, scenarios | `sim/mission.cpp`, `sim/scenario.cpp` | script VM, conditions, pending spawns, outcome | tick, evaluate | outcome decided once; spawns of dead ids | - | - |
| COB virtual machine | `cob/vm.cpp` | script threads, signal masks, pieces | start, signal, sleep, wait, call | signals that kill the caller; waits on motions that others change; the gate that skips still pieces | a wait ends when its motion does | P |
| match setup | `sim/matchsetup.cpp` | - | one pass at the start | - | - | - |
| AI | `ai/ai.cpp` | its plans | orders into the bundle | heuristics | - | - |

**Data, tools**: campaign progress (`campaign/`), archives and formats (`hpi`,
`tnt`, `tdf`, `gaf`, `fnt`, `gui`, `sct`, `tdo`, `crt`, `terrain`), decoders
(`video`, `util`), cryptographic primitives (`net/crypto.cpp`), map editor
(`cartographer/`), utilities, tests. Pure functions of files, or a program of its
own with no concurrency; not modelled.

The hazards, each at its line with the properties that would catch it, are in
`PROJECT.json` under `hazards`.

## 2. The plan

In order of what the game depends on most:

1. `WorkerPool` + `ParallelFor`: the shared-memory concurrency of the server;
   everything per room relies on it. *Done, proved.*
2. `TickServer` + `BundleStream`: the stream of bundles. *Done; the stream, its
   refinement and the place of each player proved.*
3. `CmdWindow`: the orders on their way to the stream. *Done, proved.*
4. `Lobby`, `HashReferee`: who may be in a game, and who is told that theirs has
   diverged. *Done, proved but for the end of waiting.*
5. `BuildOrders`: the part of the simulation with the most records to keep in step.
   *Done, proved, without repair.* `Production`: what factories
   turn out, its limits, and capture. *Done, proved.*
6. `SimThread` + `InlineSim`: where the stream meets the world, on two threads.
   *Done; refinement and safety proved.* `ClientPool`, the other threads of the
   client. *Done, proved.*
7. `Session`, `EndOfGame`, `FramedConn` + `FrameLink`, `Accounts`: the life of one
   client, from the socket and the sign-in to the end of the game. *Done; proved but for
   liveness, `EndOfGame` model-checked.*
8. `PathOrders`, `Transport`: the other records of the simulation that are kept
   twice. *Done; their agreement proved.* `Fog`. *Done; that it is true to the view is
   proved.* `CobVm`. *Done; that motions end is
   proved.*
9. Left: rally plans, patrol and guarding, repair and corpses in
   `BuildOrders`; missions and scenarios; the threads of `CobVm` in proofs.

Abstract specifications: `ParallelFor` (what either pool promises its caller),
`BundleStream` (what the server promises those attached), `InlineSim` (what the
simulation thread promises the server), `FrameLink` (what a framed connection
promises both).

## 3. Modules and code

Each module says in its header what it abstracts. `PROJECT.json` (`map`) gives the
lines of every definition. Definitions with an underscore in their name
(`Live_Catching`) are mutants: forms a plausible mistake would have given the code.
They are used by nothing; putting one in the place of the definition it is a mutant
of makes a run fail, which is how each property is shown to depend on the code.

**`WorkerPool`** is class `WorkerPool`, for one caller and any number of workers. A
step is what the mutex or the atomic makes indivisible: `Publish` is the locked
block of `run`, `Fetch` the `fetch_add`, `Test` the comparison with `count_`, which
is read without the lock, `Call` the callback, `CheckStart` and `AwaitDone` one
evaluation of a wait predicate, `Report` the locked increment. Spurious wake-ups
happen and are owed no fairness. `fn_` is the generation whose callback it points
to, so that a dangling pointer is visible. **`ParallelFor`** is what the caller may
assume: `n` items, each run once, then the return.

**`TickServer`** is one running room. Server handlers are single steps because the
server is one thread and rooms are independent (`server.cpp:1897-1903`); what
interleaves is frames, lost connections, deadlines and ticks. `log` is the room's
bundle log, `sched` the buckets of `TA_SRV_DELAY`, `sent[c]` what has been put on
the connection since `GameStarting`, `card` the resume token the client has on disk
against `token`, the server's. A deadline may fall due at any time, so `Sweep` is
enabled as soon as a slot is held; the budget is kept as "some left or none". The
client side is the part the server depends on: it reads in order, reports what it
has simulated and keeps its orders while it catches up. **`BundleStream`** is the
promise: published ticks, subscribers, and each subscriber's stream a growing
prefix. `published` is the length of the log, `member` those attached, `stream` is
`sent`. What a connection's `ackTick` is when the game begins (`InitAcks`) is whatever
earlier games left there, because nothing resets it; `brought`, a history variable,
remembers it, for `LeadIsBounded`.

**`CmdWindow`** counts one player's orders from `mpStep` to the bundle and back.
`taken[t + 1]` is how many of this player's are in bundles `0..t`. The client's tick
counters wrap (`Modulus` for 2^32) because a rejoin sets one of them back
(`Accrued`).

**`Lobby`** is all rooms and all connections: for each room phase, host, slot types,
ready flags, `slotClient`, held slots, spectators; for each connection the state,
room and slot it believes it has. `EditOther` is the host's `SlotUpdate` for any slot, also
one that somebody has: the program sends the next type of a row it shows as empty, or
other settings for an AI (`gameview_lobby.cpp:621-672`), the view may be out of date, and
the server does not look (`server.cpp:1334-1337`). `retyped`, a history variable, is the
rooms in which such an edit has hit a slot with a player in it. Only "human" is never
sent for such a row, as no row offers it. `Missions` says of which kinds rooms may be.
A room created by someone who only watches is private, as the client
offers that in single player (`gameview_net.cpp:556-604`).

**`HashReferee`** is the reports of one running game. A hash is the world it was
taken of; ticks count hash periods. Players lag and fall silent as they like, which
is `TickServer`'s matter to limit.

**`BuildOrders`** is one tick of the simulation, pass by pass (`phase`) and builder
by builder (`turn`), for what concerns builders: construction and reclaiming, decay
of sites, the death sweep, orders claiming jobs and legs ending, and the builds that
came due; between ticks, the commands of the bundle and fatal hits. A site's `state`
is "site" while under construction, "lost" when killed before it was finished (the
record stays and still says `underConstruction`), "wreck" when what was finished
leaves something that keeps the ground. Reach, resources, time outs and routes are
free choices. A Build order reaches dead builders too, as `queueBuild` does not ask
(`sim.cpp:3365-3385`); they never act on it.

**`SimThread`** is `beginFrame`, `endFrame`, `mpStep`'s pushing and reporting,
`simWorkerLoop`, `captureFrame` and `stopSimThread`. The world is the sequence of
the bundles it was stepped with; so is a snapshot, and `Torn` while it is being
written. `main` and `worker` say where the two threads are; every section under a
mutex, every notification and every store of an atomic is a step. **`InlineSim`** is
`mpStep`'s own branch without the thread: apply, step, report.

**`ClientPool`** is `threadpool.h`: unlike the server's pool the threads take chunks,
the caller is counted too, and every thread is counted out of each loop.

**`Session`** is one client, the server's record of it, and the games it can be in.
`net` is `MpClient`, `view` is `GameView`'s part, `up` and `down` the frames in
flight. It can be cut off at every moment, the program included. It finds games that run
(`Live`) and that wait (`Theirs`), and may create some (`Own`); a single player has a
server of its own without the others, and only it may create a room just to watch.
`crossed` is a history variable, kept by nobody in the code: a LEAVE of this connection
reached the server when the game already ran. **`EndOfGame`** is
the end of a game among several clients: what each makes of the same ticks, and how
the server paces the room to it. The clients' copies agree (that is `InlineSim`'s and
`HashReferee`'s matter), so the tick in which a player loses its last unit is chosen
once for all.

**`FramedConn`** is one direction of `Conn`. Pieces stand for bytes: a frame is a
header piece and its body. `txOff`, `rxOff` are the read offsets, `Compact…` what
`flushWrite` and `poll` do with the dead prefix. **`FrameLink`** is the promise:
`left` is how many frames have left the sender whole.

**`Accounts`** is `authMsg` with the client's side of the exchange, `AccountStore::save`
operation by operation (`write`, `rename` over a file or, where that fails, by way of
`.bak`), and the throttle. `disk` keeps what a restart finds.

**`PathOrders`** is the order list of units on foot and `PathService`. A search is known
by its unit, as in the code; `PathStep` is one step of the service within
`World::tick`: admit, run a round, hand an answer over, end the tick. A wait (`Pause`) has
a place, where the unit stood, and may be asked a route to, since the sweep skips only
orders with a target (`sim.cpp:5268`). **`Transport`** is
who carries whom, kept on both sides, served in the order of ids.

**`Production`** is the training queues of all units through a tick: each producer's
turn by id, completions, captures and deaths in any order, the sites that come due,
the count of `updateOutcome`; between ticks, the commands. `unitCount` is the count
kept by hand (`spawn`, `captureUnit`), which is above the number of the living between
a death and the end of the tick. `work` has four levels of `buildProgress`: nothing,
some, all, and all with the 2.5 s of waiting for the exit used up.

**`CobVm`** is `cob/vm.cpp`: the sweep over the pieces with its gate (`anyMotion_`),
the threads in their order, the pending ones, signals. What an instruction does to
threads and motions is modelled, which one comes next is free.

**`Fog`** is `visPump`, `updateVisibility` and `setTerrain` on the simulation's thread and
`visCompute` on the worker's, in its two parts: fill the missing masks, stamp. `beat` is
where the tick is. A mask is what it lights; `sighted` and `latest` remember what was in
view when a pass was begun, which the grid has to show once it has landed.

Modules that share no state are checked in one run where that saves a run:
`MCThreads`, `MCServer`, `MCTickLive`, `MCConnections`, `MCUnits` extend several modules, a
variable `part` says which of them a behaviour is of, and a property speaks of the
variables of its own module only.

## 4. Runs

Deadlock is not checked (`CHECK_DEADLOCK FALSE`) where a bounded system may really
stop: the bound on ticks, batches or rooms is reached, or all have gone home.
`BuildOrders`, `Production` and `Fog` cannot stop, but share their runs with parts that do;
that a tick goes on is what `OrphanGoes` and `FogFollows` rest on.

| run | question | instance | why enough |
|---|---|---|---|
| `threads` | `ExactlyOnce`, `CallsReturn`, `ImplementsParallelFor` (server's pool); `LoopIsWhole` (client's pool); `FramesHold`, `AckIsProcessed`, `ImplementsInline`, `StopEnds` (simulation thread); `HonestAreSpared`, `DesyncIsFound` (`HashReferee`); `WaitsEnd` (`CobVm`) | each pool two threads and the caller, up to 3 items, 2 batches or loops, chunks of 2; 5 ticks, a hash every 2nd, the game decided at tick 3, a spectator's heartbeats; 2 players, a second connection, 3 worlds, reports of 1 tick kept, ring of 1, 2 ticks, the referee may err; 2 script threads, one axis moved over 2 units, one turned on a circle of 4, slices of 1 instruction | three threads drain at once and a second batch meets stragglers of the first; the worker can be two snapshots ahead of a frame, and the decision falls between pushing and simulating; retention drops what a laggard has yet to report, two wrong worlds that agree or not; a waiter and a thread that changes, stops or spins what it waits for; all safety but the scripts' proved for all sizes |
| `server` | `StreamIsPrefix` (`TickServer`); `RecordsHold`, `HostIsThere` (`Lobby`); `LimitsHold`, `WorkIsFronts` (`Production`) | a player that is new or has reported tick 2 of an earlier game, a second connection for it, a watcher, an AI slot, requested pauses (only this run watches and pauses), 3 ticks; 2 connections (symmetric), 3 slots of which 2 can be used, 2 rooms, no missions; 2 players with a factory and a charmer, 3 units each at most, 1 of a kind, 4 units in all, 2 commands | every order of drop, rejoin, forfeit, leave, spectate and pause, with ticks between history chunks and three streams at a time; host and joiner that take each other's place, slots retyped under either, a slot past the map's capacity, a second room to be in the wrong one and to be left alone by an edit in the first (a mission is only a room that may start with one slot used: run `retyped_slot` and the proofs have both kinds); a player at the limit captures, loses or places a unit in the tick in which a factory is done, and what stands second is of another kind; all proved for all sizes |
| `tick_live` | `OrdersKeptInOrder`, `NothingOutlivesTheDrop`, `PauseHasAnEnd`, `LeadIsBounded`, `EventsGetSequenced`, `ImplementsBundleStream` (`TickServer`); `ImplementsLink` (`FramedConn`) | 2 players, one of whom has reported tick 2 of an earlier game, a second connection for the other, input delay 1, 2 orders each with a cap of 1 a tick, lead 1, 3 ticks; 4 frames of 2 or 3 pieces, buffers of 3 and 4 | an order can wait in the queue, in a bucket and in a bundle at the moment of a drop; one player is lost during the pause of the other; the lead bites at each tick for the new player and never for the other, whose report is worth the whole game; frames cut in the middle by every buffer, both compactions, an end of stream behind frames; all safety, the frames' included, proved for all sizes |
| `connections` | `NothingLost`, `InFlightIsExact` (`CmdWindow`); `WorldFollowsItsGame` (`Session`); `AccountHasOneOwner`, `WhatWasCreatedStays`, `GuessesAreMetered` (`Accounts`); `GroundIsFreed`, `OneStructurePerSpot`, `FinishedStays`, `AssignedHolds`, `OrphanGoes` (`BuildOrders`) | 2 orders a tick, queue of 4, counters modulo 8, 4 ticks; one game that runs, one that waits and one of its own, of 2 ticks each, 4 actions in the lobby (the fewest in which a crossed LEAVE can do harm), a restart; 2 clients of one address and one name, 3 connections, 1 kill, a lockout; 2 builders with an order each, 1 spot, 2 sites in turn, 3 ticks of work, and either builders that may die (part "sites") or ones that may reclaim the one feature (part "wrecks") | the queue fills and drains, counters wrap, a rejoin in the window follows a rejoin; a client leaves before, while and after its game starts and goes on to play, watch or create another; two registrations of one name in every order with the server killed between any two file operations, the third attempt past both thresholds; both builders want the same spot, a stale id of the first site meets the second; safety proved for all sizes, of builders that reclaim and die as well |
| `units` | `SlotsAgree`, `StopIsStop`, `Served` (`PathOrders`); `HoldsAgree`, `LostWithAllHands` (`Transport`); `FogFollows` (`Fog`) | 3 units, 1 search slot, plans of 2, 3 being sent or 2 commands of any kind; 4 units, 2 carriers of which one can be carried, 1 place, 3 commands; 2 cells, 2 maps, one unit with sight and one with radar, a pass every 2nd tick, 2 masks kept | two wait while one is searched and any of the three is cancelled, killed or sent again; a wait is asked a route to, which replaces it; a loaded carrier aboard another, with passengers of lower and of higher ids; a pass spans ticks in which units move and die, the cache is emptied, the map changes while it is full; safety of routes and holds proved for all sizes |

The states of each run are between a hundred thousand and some two million, its time
one to two minutes on two cores. `tick_live` runs under the fairness of `FairSpec`; `HashPeriod` 1 and `MaxLead` 1 stand
for 30 and 120: what matters to liveness is that the lead is not below the period, and
1 and 1 is the tightest such pair.

Runs that end in a counterexample, each of a sentence the repository says of itself
(section 7): `host_pause`, `build_lost`, `captured_repeat`, `stale_route`, `defeated_holds`,
`stale_ack`, `retyped_slot`. The last two have a passing run beside them that says what is left
of the promise: `FlowControl` is refuted and `LeadIsBounded` holds, `RecordsAgree` is refuted and
`RecordsHold` holds, of the same module with the same steps.

What the passing runs say. The *stream* reaches everybody whole and in order, also
across the hand-over from the history feed to the broadcast while ticks close in
between, and below it the *frames* do, also those that arrive with the end of the
stream. *Orders* are neither lost nor reordered nor repeated as long as the player
stays connected, none given before a drop surfaces after the boundary that the
client was told, and nothing of a player follows the event that ends it. *The server
never blocks itself* but for the pauses of section 7: a pause on a lost player's
account ends, an elimination is always sequenced, both pools always return. *The flow
control* never miscounts, catch-up included, and is ahead of a client by the lead at most, counted
from what it has consumed or has brought along from an earlier game. *The client*
steps each bundle once, in order, on a world built for that game, whatever thread
does it, draws whole snapshots only, says of no tick that it is done before it is,
and can always be left. *Accounts* have one owner, and one that was confirmed survives a
crash. *The lobby* never strands a connection
but in a room where an edit has retyped a slot under its player, and nobody else suffers from that. *The
referee* accuses rightly unless it is wrong itself and nobody could tell, and finds a
diverged player in the end. *Builders* cannot take ground away for good, share it, or
destroy what is finished. *Factories* and builders make nothing past a player's limits, and
what was paid for one unit makes no other. *Units* told to stop stay, every search is served, and those
aboard share their carrier's fate. *The fog* shows what was in view on this map and
nothing else, and comes to rest at what is in view. *Scripts* wait for motions that end.

## 5. Fairness

Only what the program's own loops guarantee is assumed; it is weak everywhere but in
one place.

- `WorkerPool`, `ClientPool`: the operating system runs each thread that can run
  (`Drain` for all threads, `WorkerStep`, `CallerStep`; `OwnerStep`, `HelperStep`). No
  fairness for a new batch, the destructor, spurious wake-ups.
- `SimThread`: the worker runs (`Worker`), and the main thread goes on with what it has
  begun (`NotifyWorker`, `JoinWorker`). Nobody must draw, push or stop.
- `TickServer.FairSpec`: `Server::run` loops for ever, so a tick that can close
  closes, a deadline is noticed, an empty room torn down, a cursor fed
  (`server.cpp:1845-1962`); and a client that stays attached reads, loads, simulates
  and reports. That last part is the assumption about players' machines: the server
  drops a connection that falls silent (`server.cpp:1953-1959`), but one that keeps
  talking and never loads or reports would hold the game (section 7). No player has
  to order, leave, pause, unpause or return.
- `HashReferee`: ticks are closed and attached players report.
- `EndOfGame`: ticks close when they may, clients play what they have.
- `FramedConn`: a socket with room is written to and one with something to read is
  read (`Server::run`, `MpClient::poll`). Nobody has to send.
- `BuildOrders`, `Transport`, `CobVm`, `Fog`: `World::tick` is called for ever, and the
  fog's worker thread runs. Nobody must give
  orders or fire, no builder must arrive or be able to pay, nobody must die.
- `PathOrders`: the service is called in every tick (`PathStep`), and *strongly*: a search
  that may be given slices again and again is given enough of them to finish. Its cells
  are counted (`visitLimit`) and the slices of a round go to all who hold a slot, which
  the model does not count; so this holds as long as the others finish no more than
  once in the period after which a route is asked for again.
- `BundleStream`, `ParallelFor` and `FrameLink` state fairness of their own; the
  refinement runs show that the implementations' fairness implies it.
- `CmdWindow`, `Lobby`, `Session`, `Accounts`, `InlineSim` state safety only.

## 6. What is proved

For every value of the constants that satisfies the named assumption of the module.
Each proof is: a type invariant, a strengthened inductive invariant with a lemma for
every action, and the theorems as its consequences.

- **`ThreadsProofs`**, `WorkerPool` (`PoolAssumption`: a finite, non-empty set of workers).
  `Inv` = `TypeOK`, `PhaseInv` (which phases of caller and workers go together: who
  is in `drain()` has seen this generation and the caller is in `run()`), `CountInv`
  (`finished` counts the workers that have reported this generation), `ItemInv`
  (each index below the cursor is held by exactly one thread or its call is over),
  `ExhaustedInv` (a thread that has left the loop saw the cursor past the end).
  Nothing weaker is inductive: that a batch is over when all have reported needs to
  know that those who report have all seen the cursor past the end, and that every
  item below it is called or held by someone who has not reported. Theorems:
  `TypeCorrect`, `RunsEachItemOnce` (`ExactlyOnce`), `NoItemTwice`, `DrainsCurrentBatch`,
  `PoolRefines` (each step is a step of `ParallelFor` or stutters).
- **`ThreadsProofs`**, `SimThread` (`SimThreadAssumption`). `ThreadInv` = `Shapes`, `Leaving` (work
  is cancelled only when the game is being left), `InOrder` (world, job in hand and inbox
  are consecutive ticks up to `netTick`), `Answered` (outbox and sent are the reports of
  the ticks before), `Buffered` (the three buffers: the one written is neither the
  published nor the one being drawn). Theorems: `ThreadIsInline` (each step is
  `InlineTick` or stutters; the world moves for the observer when its snapshot is
  published), `FramesAlwaysHold`, `AcksAreProcessed`.
- **`ThreadsProofs`**, `ClientPool` (`ClientPoolAssumption`: finitely many helpers, one at
  least, a chunk of one item or more). `LoopInv` = `LoopTypes`, `Counted` (`active_` is the number of
  those who are `Late`: in the loop, or helpers that have not taken its generation yet),
  `Phased` (whoever is in a loop is in the one that runs; between loops nobody is late),
  `Chunked` (each item below the counter is in one thread's chunk, or has been visited
  once) and `Exhausted` (who is through found nothing more to claim). That a helper which
  slept through the work is still counted is what keeps it from entering the next loop
  with the function of this one. Theorems: `NobodyIsLate`, `NoItemIsVisitedTwice`,
  `LoopRefines`: the safety part of `LoopIsWhole`.
- **`TickServerProofs`** (`TickAssumption`). `IInv` = `TypeOK`, `Places`
  (`OnePlaceEach` without cardinalities, and that whoever sits in a slot is that
  slot's player), `PauseHasAnEnd`, `Cursors` (no replay cursor is past the end of
  the log), `StreamIsPrefix`. The stream needs the places: a connection that came
  back while it still had a seat would start a second stream, and one attached twice
  would be sent each tick twice. Theorems: `ServerTypes`, `StreamsHaveNoGaps`,
  `PausesEnd`, `PlacesAreUnique`, `ServerRefines` (safety part of `BundleStream`).
  Three invariants stand on `IInv`. `ReportsAreBehind` (the last report of a player in
  the game is of a tick it has consumed, or is not past the one its connection came with)
  gives `TicksAreMetered`, for connections of any past, those that watched before they
  took their seat included; of connections whose `brought` is 0 it is what
  `server.cpp:74-75` promises. `Clean` (queues and buckets hold
  orders of whoever sits in the slot now, so an empty slot has none; a closed slot has
  one elimination in the stream and no order after it) gives `DropsAreClean`. `Ordered`
  looks at the way of one player's commands as a row of stages, the bundles of its slot,
  the buckets, the queue: along it the numbers rise, none is above what the player has
  given, and all are there while the seat is kept and the queue cannot overflow. A tick
  splits the last stage in two (`SplitStage`), a command lengthens it (`GrowStage`), a
  drop empties the later ones (`StagesEmptied`), and a connection that may still take
  its seat has given nothing. It gives `OrdersStayInOrder`, with `Clean`: what is in
  the buckets of a slot came from the connection that sits there.
- **`ConnectionProofs`**, `CmdWindow` (`WindowAssumption`: the queue holds at least a tick's
  worth, the counters do not wrap within a game). The invariant adds `LogInv`
  (`taken` never falls, and neither the client's tick nor the announced end of the
  history is past the log) and `WireInv` (what is not connected has nothing on the
  wire) to the count and the quiet catch-up. Theorems: `OverflowUnreachable`,
  `CountIsExact`, `WindowTypes`, `CatchUpIsQuiet`.
- **`ConnectionProofs`**, `Session` (`SessionAssumption`: the three kinds of games are
  disjoint). `SessionInv` = `Kinds` (types of state and frames, and that only games that
  run have ticks or a held slot), `Gated` (whoever may give orders has played the
  announced history) and, unless `crossed`, one of three phases. `Away`: in no game that
  runs, the client knows of none, and nothing but lobby frames is on its way to it.
  `Called`: attached to a game that runs, which the client does not know yet; the one
  `GameStarting` on its way has lobby frames before it and only ticks of that game behind
  it. `Begun`: the client is in that game, and its buffer, its world and all that is on
  its way are of it. The hard step is a client that takes a fresh start for a player
  (`~MustReplay`): it builds the world without looking at the buffer, which is right
  because the server closes no tick before it has reported (`Waits`), so that nothing
  follows the `GameStarting`; and a start it may not treat so was asked for by `Rejoin` or
  `Spectate`, whose flags are still set. Theorems: `SessionInvariant`, `WorldIsItsGame`.
- **`ConnectionProofs`**, `FramedConn` (`FramedAssumption`: sizes and limits are positive, and
  the largest frame fits under the receiver's limit with one pass read behind it).
  `FramedInv` looks at unread, socket and unsent as one stream, `Wire`: flushing, reading
  and both compactions leave it as it is, a send lengthens it at the end and a poll
  takes from its front. It `Carries` the frames not yet delivered: they rise
  (`Rising`), each piece is there once (`OnceEach`) and has all the others of its frame
  around it, at the places its part number gives (`InPlace`). Only the front of the
  stream is ever looked at, but that the front is a frame's start is known after a poll
  only because it is said of every piece before: there is no induction over the frames.
  Theorems: `FramesStayWhole` and `LinkHolds`, the safety part of `ImplementsLink`: what the
  receiver hands out are the frames in order, and none whose last piece is still unsent.
- **`WorkProofs`**, `BuildOrders` (`BuildAssumption`). `IInv` = `TypeOK`, `Marked` (once a
  living builder has had its turn in the construction pass, the site it has, if any,
  is marked until the decay pass), `GroundIsFreed`, `OneStructurePerSpot`. Theorems:
  `BuildTypes`, `GroundComesBack`, `SpotsAreExclusive`, `FinishedIsSafe`,
  `AssignedIsKept`.
- **`WorkProofs`**, `Production` (`ProductionAssumption`). `ProductionInv` =
  `ProductionTypes` and `CountCovers` (`unitCount`, which is kept by hand, is never
  below the number of the living): that is why a producer that looks at the count keeps
  the limit although deaths of the same tick are not yet in it. Theorems:
  `LimitsAlwaysHold`, `WorkStaysWithItsKind`.
- **`LobbyProofs`** (`LobbyAssumption`). `LobbyInv` = `Shape`, `Agree` (point by point:
  whoever room `i` has, in slot `s` or watching, says so; and who says so room `i` has, unless
  it was retyped), `Sound` of every room (a held slot is empty and its game runs; before the
  start only a private game's host just watches it; and, unless it was retyped, what its
  slots are called and that the host of any other sits in it) and `Fresh` (no room has an id
  still to be given out, nor was retyped before). The host's seat and the watching host go
  together: that a room whose last player leaves can be erased needs that nobody watches it.
  A step changes one room and moves one connection at most (`OneRoomChanges`), so that each
  action needs only what it makes of a room; a step that moves nobody may mark its room
  (`StayingKeeps`), which `EditOther` does and nothing else. That a retyped room harms no
  other rests on the half of `Agree` which does not depend on `retyped`: a connection that
  such a room has lost is claimed by no other. Theorems: `RecordsAlwaysHold`,
  `HostIsAlwaysThere`, `CutOffIsNeverOut`, the last two of rooms that were not retyped.
- **`UnitsProofs`**, `Transport` (`TransportAssumption`). `HoldInv` takes `HoldsAgree` apart
  (`Mutual`, `Single`, `Fits`) and adds `Loaders` (only a unit that may be carried
  is told to board, only a carrier to put its passengers off). Boarding cannot enter a
  hold twice because a unit that is carried does not get to its orders. Theorem: `HoldsAlwaysAgree`.
- **`UnitsProofs`**, `PathOrders` (`PathAssumption`). `PathInv` = `Shapes`, `AtMostOne` (a unit has
  one search and one rescue at most), `SlotsAgree`, `Quiet` (a unit that was
  stopped has no search, no answer on its way and no second look at a goal it gave up;
  answers are on their way only while they are handed over). The last is what
  `cancelPath` is for; without it a late route would move a unit that was stopped. Theorems:
  `SlotsAlwaysAgree`, `StoppedStays`.
- **`UnitsProofs`**, `Fog` (`FogAssumption`). `FogInv` = `FogTypes`, `OneWorker` (which of the
  flags goes with which stage of the worker), `TrueMasks` (every mask in the cache is of
  the ground the map has now, but those the worker is yet to fill), `NoGrey` (without
  memory a cell is in view or dark, in both grids), `UnderWay` and `IsOver` (the buffer of a
  pass, with what was gathered for it, is what is to be shown, and then is what will be).
  Without `UnderWay` nothing could be said of the swap, which comes ticks after the
  gathering. Theorem: `FogIsTrue`, the first half of `FogFollows`; that the fog catches up
  with units that stand still (`Settles`) stays with TLC.
- **`RefereeProofs`** (`HashAssumption`: finitely many slots). `RefereeInv` = `Shapes`,
  `Truthful` (as long as the referee is right so is its ring; whatever a player that is
  right now has ever reported, and is still kept, was right), `Bounded` (no more than
  `MaxHashTicks` ticks of reports). Truth is said of who is right *now* because a report
  outlives the connection, and the rightness, of its sender. Theorems:
  `TheRightAreSpared`, `ReportsAreBounded`.
- **`RefereeProofs`**, `CobVm` (`CobAssumption`: rail and circle are not empty). `AxisInv` =
  `AxisTypes` (targets and positions stay on their rail or circle) and `MotionIsSeen` (a
  tick that skips the sweep skips nothing). `NearerBySweep` counts what an axis has to go,
  on the circle the shorter way: the sweep takes that way anew every tick, and a half turn,
  where both are as short, does not make it turn back. Theorems: `AxesHold`,
  `NoMotionIsHidden`, `SweepsBringNearer`. They are why a wait ends; that the thread which
  waits then gets on (`WaitsEnd`) is liveness. Nothing is proved of the threads, whose
  list a tick filters with `SelectSeq`, which is recursive.
- **`AccountsProofs`** (`AccountsAssumption`). Three invariants. `Metered`: a key that is
  not locked has failed at least as often as it was judged, and within its allowance.
  `SignInInv`: `AccTypes`; `Stages` (how far a client and its login on the server can be
  with each other: asking, rejected, being saved, signed in, each with what is on its
  way between them); `Down` (a server that is down has neither logins nor a save);
  `Alone` (nobody is signed in to an account that is still being created). Without
  `Alone` a save that fails could take the account back from someone who is in it; it
  holds because the save is the only thing the server does meanwhile. `DiskInv`, where
  `rename` replaces a file: but for the account being created the file is what the store
  is (`Matches`), and it has what every client was told or will be by a frame on its way
  (`Mail`). Theorems: `OneOwner`, `CreatedStays`, `GuessesMetered`, `SignInHolds`. Against
  a rename that does not replace a file nothing of the kind holds (section 7).

Only model-checked: everything under fairness (`CallsReturn`, `LoopIsWhole`, `StopEnds`,
`EventsGetSequenced`, `DesyncIsFound`, `WaitsEnd`, `OrphanGoes`, `Served`, `LostWithAllHands`, and
the fairness part of the refinements), which the prover does not treat;
`Settles` of `FogFollows`; all of `EndOfGame` and the threads of `CobVm`. The
proofs take nothing on trust but the arithmetic and set theory of the solvers and the
library's facts about sequences and cardinalities.

## 7. Where code and documentation part ways

Each of these has a run whose counterexample shows it; `PROJECT.json` (`findings`)
quotes the sentence.

1. `host_pause`: only the client whose id is `hostId` may lift a pause by request
   (`server.cpp:1368`), a rejoined host has another id, and the sweep only lifts
   pauses on a player's account. A host that pauses and is lost for good stops the
   game, its own forfeit included (README.md:412-414).
2. `build_lost`: a Build order without shift replaces the queue and leaves
   `buildSiteId`; when the old site ends, the new order is struck
   (`sim.cpp:3876-3889`; `sim.h:1170-1171`).
3. `stale_route`: `attack`, `orderWait` and `guard` replace the order list without
   `cancelPath`; the route that was being searched lands on the new order and turns
   the unit back to the old goal (`sim.cpp:2201-2217`, 1199-1227; 5012-5013).
4. `defeated_holds`: a client that has seen its own defeat stops simulating and so
   stops acknowledging (`gameview_net.cpp:312-354`); as long as it stays at the banner
   the server waits for it (`server.cpp:1586-1601`) and the game of the others stops
   (docs/multiplayer-design.md:385-393).
5. `captured_repeat`: `captureUnit` empties the queue and keeps `repeatType`
   (`sim.cpp:2920-2921`), so the captured factory returns to what its former owner had
   it repeat once the new owner's queue is empty (`sim.cpp:4573-4574`); the comments
   (2895-2896, 2920) say that it drops its old orders and is "not still producing for
   them". `MCRepeat` keeps a record of what was asked for.
6. `stale_ack`: `ackTick` belongs to the connection and is only ever raised
   (`server.cpp:1494`); no handler resets it, so that in a connection's next game the
   server runs ahead of it by what it reported in the last, on top of the lead
   (`server.cpp:1588-1591`; comment at 74-75). The counterexample is the shortest: a player
   that brings a 2 reads the start and loads, and three ticks close of which it has
   read none. `LeadIsBounded` is what holds instead.
7. `retyped_slot`: a `SlotUpdate` sent for an open row and read after a join retypes the
   occupied slot (`server.cpp:1334`). Called an AI's, it is not held when its player is
   lost (`server.cpp:1716`), and a room whose other players are gone is torn down with
   that player in it (`server.cpp:445-462`, 1870-1892), whose frames are dropped from then
   on; called open, it is given to a second player, and two connections have one slot
   (docs/multiplayer-design.md:228-229, comment at `server.cpp:166`). `RecordsHold` is what
   holds instead.

Met while modelling, present in the models as in the code, and without a run of
their own:

- Hash reports are counted by connection, those of connections that are gone included
  (`server.cpp:1533`), so a tick may be judged without a live player's report
  (`server.cpp:1529`).
- A room of a watching host does not pass its host on: `leaveRoom` returns at the
  spectator branch (`server.cpp:1092`) before that
  (docs/multiplayer-design.md:229-231). Only private and development games have such
  hosts, which is why `HostIsThere` speaks of listed rooms.
- One `pausePlayer` stands for all lost players: a second one lost during the pause
  of the first gets no pause when the first is back (`server.cpp:1718-1727`,
  998-1005, 1849-1869).
- `Rejoin` rotates the token before the client has read it (`server.cpp:982`); a
  connection lost in between leaves a token that is refused.
- `Rejoin` is refused while the old socket is still taken for alive
  (`server.cpp:977`; docs/multiplayer-design.md:268-269 lets the new one in).
- A slot's ready flag outlives its player (`server.cpp:1101`, 954; comment at 1135).
- No time-out for `Loaded` (docs/multiplayer-design.md:317 speaks of one): a client
  that is connected and never loads keeps the game at tick 0.
- When the pause budget is used up the slot is forfeited at once
  (docs/multiplayer-design.md:259-264: play goes on and the grace still runs).
- The host has no way to resume a game paused on another's account: `SetPause` lifts
  only a pause by request (docs/multiplayer-design.md:261 speaks of a host
  override).
- protocol.h:127-131 says commands over the cap of a tick are discarded; the server
  queues them, and discards what does not fit the queue.
- Accounts: where `rename` does not replace a file, a kill between the two renames of
  `save` leaves the accounts in `.bak`, and `load` takes the missing file for a new
  server: every name is free again (`accounts.cpp:213-228`; `accounts.h:40` calls the
  save atomic). `WhatWasCreatedStays` is of the other build.
- Sessions: a LEAVE that crosses the start of the game mixes two games. `leaveGame` puts
  the client into the lobby at once (`client.cpp:483-487`), the `GameStarting` still on
  its way takes it out again, and it reports a world loaded to whatever room it has
  joined since; `bundles_` is never emptied (`client.cpp:444` overwrites by tick) and
  `mpSetupDone_` stays set (`gameview_net.cpp:733`), so ticks of the next game are played
  in the world of the one before. START, LEAVE and JOIN before the answer to START are
  enough. `WorldFollowsItsGame` without `~crossed` shows it.
- Sessions: `spectate` sets `expectingSpectate_` and a refusal does not clear it, so the
  next game the client starts as a player is taken for one it watches: it sends no
  commands and no hashes (`client.cpp:522`, 403-411; `client.h:172`).
- Framed connections: closing tries one flush, and what the socket does not take is
  lost; a reset loses what the receiver has not read.
- Waits: a wait queued behind a move that is done is asked a route to, back to where the
  unit stood when it was told to, and the route replaces it (`sim.cpp:5268`, 2062-2071), so that
  a unit told to wait for a second or more may walk back instead. `PathOrders` has it. An order to put passengers off
  on the spot has no target either (`sim.cpp:1831-1870`) and would be asked the same.
- Builders: `reclaimId` survives a Build order without shift, and a reclaim queued
  later is never claimed (`sim.cpp:3691-3695` says that it is); a site killed before
  it began may be cancelled once more and frees its footprint again;
  `tickConstruction` gives hit points to a site that has none left, which
  `tickRepair` takes care not to do (`sim.cpp:3820-3823`); an assistant's or a dead
  builder's order removes another's site that has not begun; a builder told to
  assist its own site that has not begun removes it; orders queued behind an Assist
  are dropped one a tick by `dropLeg`; a route that arrives turns a build leg into a
  plain one, and the next queued build is taken for it.
- Production: capture is let in past the unit cap and past `totalallowed`
  (`sim.cpp:2898-2922`), where README.md:402 calls the cap a limit on live units and the
  comment at 2903-2907 speaks of not going past it; `LimitsHold` is of what is made. The
  new owner's first RepeatTrain of the type the former owner repeated turns the
  repetition off. A factory that cannot pay stands still (`spendBuild`,
  `sim.cpp:285-294`), where 4496-4497 says that it advances by what it can pay.
- Transport: boarding counts heads where the order checked sizes (`sim.cpp:1796`,
  1932); passengers that died stay in `cargo`, take a place and are put off; two ground
  transports that board each other wait for ever; a carrier captured meanwhile is
  boarded all the same.
- Scripts: SIGNAL does not reach threads started in the same tick (`pending_`); a TURN of
  an axis that spins may never settle, and a thread that turns an axis again in each
  tick starves a later one that waits for it. `WaitsEnd` leaves these out by saying that
  the axis is left alone.
- Scenarios: a rule fires when its conditions become true (`scenario.cpp:262-277`,
  docs/cartographer-port.md), where `scenario.h:11-14` says in every tick in which they
  hold; two players whose victory rules fire in the same step defeat each other, and
  nobody wins (`sim.cpp:6494`, 6523).
- Missions: an outcome that was decided can be overwritten by a later SET
  (`mission.cpp:355`); `TriggerHit` is told in every tick once the outcome is decided,
  because `sweepTriggers` returns before it notes who is inside (`mission.cpp:361-383`);
  `UnitCreated` is told of what factories finish and not of sites
  (`sim.cpp:4568`; docs/campaign-design.md:89); passengers lost with their carrier are
  not counted as losses (`sim.cpp:5534`, 5357).

## 8. Not modelled, and why

- *Within modelled components*: chat, names, colours, teams, maps and game options in
  the lobby and the session (they change no place); game speed, mission outcome and
  the AI's orders in `TickServer` (the AI's enter the bundle under player numbers of
  their own); repair, corpses and patrol in `BuildOrders`, where a unit
  under construction blocks no ground; patrols, guarding and rally plans in
  `PathOrders`, and the search over cells; sizes in `Transport`; exits, reach and prices in
  `Production`; connecting,
  listening and resets in `FramedConn`; arithmetic, calls and queries in `CobVm`; the
  threads a fog pass is split over (each marches masks or stamps units of its own, and
  two that light one cell store the same), grids of different sizes.
- *Not reached*: missions and scenarios, whose interpreters run rules in one sequence
  within the tick; match setup; the AI, whose orders enter like a client's.
- *Out of reach or out of interest*: movement and ballistics (arithmetic on
  coordinates; what matters, that every peer computes the same, is a matter of
  compilers and `detmath`, not of states); cryptographic primitives; formats and
  decoders, which are pure functions of a file; rendering and the interface, which keep
  nothing that the simulation depends on; the editor; campaign progress and utilities.
  Together these are most of the repository's lines.
- *Assumed of the environment*: sockets keep bytes in order; a connection that is lost
  takes what is in flight; a completed `rename` survives the server being killed;
  mutexes and condition variables are those of C++; relaxed atomics on one variable are
  totally ordered. No data race was met in what is modelled: `count_` and `fn_` are read
  without the lock, and `NoStraggler` is what makes that safe.

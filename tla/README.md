# PyMC in TLA+

PyMC (`src/`) is a Minecraft server in Python: about 52,000 lines of Python and 8,000 of
optional C++ engines. This directory holds TLA+ models of its stateful parts, TLC
configurations that check them on small instances, and TLAPS proofs of the properties
that matter most for every value of the constants.

- `PROJECT.json` lists components, runs, mutants, findings, hazards and theorems, and for
  every definition the source lines it models.
- Each module's header says which code it models; every property is preceded by a comment
  that says what it means for the program.
- A run: `tlc -config X.cfg M`. A proof: `tlapm M_proofs.tla`.

## 1. The system

### How it runs

One asyncio event loop runs everything a player sees: one read loop per connection
(`MinecraftServer._handle_client`), the game loop (`_game_loop`, 20 ticks a second), the
chunk streaming tasks, the flush loop of the network optimizer and the watchdog's tasks.
They interleave **only at awaits**. A write to a client suspends its task only when the
client does not read (`drain()` over a full buffer). Real threads exist at two places: the
executor threads that load and generate chunks (`run_in_executor(None,
generate_chunk_results, ...)`), which use the world storage at the same time as the event
loop, and the thread of the web console. Native engines are called synchronously.

So a step is the code between two awaits where only the event loop is concerned, the code
between two lock or file operations where an executor thread can get in (WorldStorage,
RegionFile, ChunkEdits), and single copies of bytes where two processes share memory
(ShmRing). Where only slow clients suspend a task (PlayerVisibility, EntityTracking,
Weather) a variable `runner` holds the task that goes on until it has written to one.

### Components

| Component (source) | State | Operations | What makes it correct |
|---|---|---|---|
| Region cache and storage (`world/storage.py`) | `LRUCache`: ordered keys, regions, dirty keys, memory counter, lock; region objects; region files | `load_chunk`, `save_chunk`, `flush`, `flush_region`, `unload_region`, `close`, eviction | it is a chunk map: no save is lost except by a crash, what is not on disk is marked, the cache stays coherent and bounded |
| Region files (`LinearRegion`) | `<path>`, `<path>.tmp`, page cache, device | `write`, `read` | a write is atomic: one whole image through errors and power loss |
| Anvil conversion (`world/storage.py`) | `.mca`, `.mca.bak`, `.linear` of every region | conversion of a world at start, backup, export | what is served is the newest, through a crash between any two steps |
| Player sessions (`network/server.py`, `handlers/login.py`, `handlers/play/join.py`) | connection state, position, health, inventory, the player's JSON file | login, join, play, autosave, leave, stop, restart | the file gives back what the player last had |
| Keep-alive (`server.py`, `handlers/play/movement.py`) | pending id, time of sending | `_send_keepalive`, `_handle_keepalive` | clients that answer stay |
| Network optimizer (`watchdog/network_optimizer.py`) | a queue of frames per player name | `queue_packet`, `flush_all`, `stop`, `queue_or_send` | each frame once, in order, to its player |
| Chunk streaming (`handlers/play/chunks.py`) | `chunk_center`, `loaded_chunks`, the two tasks | move, respawn, stream, unload, deferred send, failing jobs | the client ends up with what is in view, the server knows what it holds |
| Chunk generation and edits (`server.py`, `world/editing.py`, `handlers/play/blocks.py`) | stored chunks, jobs, results, pending broadcasts | `generate_chunk_results`, `set_world_block`, broadcast | no edit is lost, every client shows the world |
| Server scheduler (`network/managers/scheduler.py`) | the task list, ids, counters | `schedule`, `schedule_periodic`, `cancel`, `clear`, `tick` | a task runs in the tick it is due |
| Plugin scheduler (`plugins/scheduler.py`) | tasks, counters | `run_every`, `run_delayed`, `run_async`, `cancel`, `cancel_all_for_plugin`, `shutdown`, `tick` | the same, for callbacks that call it back |
| Visibility (`handlers/play/players.py`, `join.py`) | `tracked_players`; at the client: its list and the players it shows | player info, spawns, removals over joins and leaves | all see all others |
| Entity tracking (`world/entities.py`, `handlers/play/entities.py`) | entities, `removed_ids`, `tracked_entities` | create, expire, move, the pass of `_tick_entity_sync`, a join | clients show the entities around them |
| Time and weather (`managers/time.py`, `handlers/play/weather.py`) | two durations, `server.weather` | tick, `set_weather`, `/weather`, game rule, sync at join | clients agree with the server |
| Inventories, windows, item handlers (`world/inventory*.py`, `handlers/play/`) | slots, cursor, drag, open window, items on the ground | clicks, drags, drops, open, close, dig, place, pick up | items are conserved; a click is of what was shown |
| Containers, furnaces (`world/block_behavior.py`) | shared chests, ender chests, burn and cook times | open, click, `tick_furnaces` | items are conserved, what is made is paid for |
| Fluids (`world/fluids.py`) | blocks, `pending_flows` | schedule, tick, spread, dry up, react; players' edits | flowing ends, unfed fluid dries up, clients see it |
| Redstone (`world/redstone.py`) | component table, levels, scheduled updates | use, dig, place, tick, pistons | the table is the world's, wires carry the right level, no block vanishes |
| Watchdog (`watchdog/process_manager.py`) | ports, partner pid, missed heartbeats | heartbeat, monitor, `restart_partner` | a process that answers is not killed |
| Plugins and mods (`plugins/`, `mods/`) | descriptors, instances, `_load_order` | discover, order, load, enable, disable, unload | dependencies first |
| Shared memory (`native/core/ipc_shm.cpp`) | bytes, `write_pos`, `read_pos` | `write`, `read` | messages arrive whole, once, in order |
| Commands and permissions, web console, protocol codec and versioned handlers, terrain, launcher and configuration | mostly none, or tables | | not modelled, see section 7 |

### How they interact

- The **game loop** ticks the time and weather, the server scheduler, then the plugins'
  (`hook_server_tick`) and furnaces; every 200 ticks it sends keep-alives and flushes the
  storage if `has_dirty_regions()`; it autosaves players, ticks players and entities, has
  them picked up and shown, ticks redstone and fluids, sends the watchdog's heartbeat, and
  ends a tick with `flush_all` of the optimizer.
- A **join** reads the player's file from the storage, sends the nearest chunks itself and
  starts the deferred task, tells of the other players, of the entities and of the weather;
  **movement** starts the streaming task. Both ask an executor thread for the chunks, which
  loads them from the storage, or generates and saves them.
- A **block change** goes through `set_world_block` to the storage, schedules the fluids
  and the redstone beside it, and is told to the players near it, while chunk jobs and the
  ticks of the engines are under way.
- **Clicks** change the player's inventory and the shared container; what players throw
  becomes an item entity, which the game loop has them pick up.
- All of it writes frames through `queue_or_send`, and so through the optimizer's queues.

### What is hard

What is hard to test here is what happens around an await or beside an executor thread:
state that is read before and used after it (`flush_all`, `_send_deferred_chunks`,
`_unload_distant_chunks`, `generate_chunk_results`, the spawn rounds of a join, a pickup
whose handler awaits), lists that change while they are walked (`TickScheduler.tick`), a
player who is saved before having been loaded, two threads that miss the same region, a
write or a job that fails halfway, a crash between a write and its rename; and long
sequences of small rules: a torrent of water that has lost its source, a circuit with
delays, a row of clicks. `PROJECT.json` lists these under `hazards`, each at its line and
with the properties that cover it, or with the reason why none does.

## 2. Modules

A module models one component; `*_proofs` modules hold theorems, and `MC*` modules put
components that share nothing into one run. In such a suite a behaviour follows one of
them, chosen at the start (`part`), and leaves the others in an initial state: the suites
join runs, not components, and are as strong as one run for each part.

| Module | Models | Correspondence |
|---|---|---|
| `ChunkStore` | what the storage promises: a map of chunks with a durable copy, pending saves, crashes, failed reads and writes | abstract specification of `WorldStorage` |
| `WorldStorage` | `LRUCache` and `WorldStorage` | `order`/`cached`/`dirty`/`lock` are the fields of the cache, `heap` the region objects, `disk` the files; `pc`, `call`, `key`, `ref`, `todo`, `buf` are a thread's locals. One action per lock-protected or file step |
| `RegionMemory`, `Sums` | the memory accounting of the cache | `memory` is `current_memory`, `size` is `estimated_size` |
| `RegionFile` | `LinearRegion.write` over a POSIX file system | names, inodes, blocks in the kernel (`bytes`) and on the device (`synced`); the file system is external |
| `AnvilFiles`, `AnvilConversion` | the two formats as what they have for each chunk; the conversion at start, its backup and the export | `mca`, `bak`, `linear` are a region's three files, `todo` the listing, `renaming` the region between its conversion and its rename; a chunk is a version |
| `PlayerSession` | login, join, play, saves, stop, restart | `phase` is the connection's progress; `stats` and `items` count changes of what is saved |
| `KeepAlive` | the keep-alive of one connection | a keep-alive is known by its age; one unit of time is the 10 s of 200 ticks |
| `NetworkOptimizer` | `flush_all` run by three tasks | `pc[f]` says whether task `f` is in the loop or in `drain()`; frames are numbered in the order they are handed over |
| `ChunkStream` | the two streaming tasks of one connection and jobs that fail | `stream` and `late` are the await each task is at; `center`, `loaded` are `chunk_center`, `loaded_chunks` |
| `ChunkEdits` | chunk jobs against block changes | a chunk's content is the set of edits in it; `phase`, `coords`, `result` are a job's locals |
| `Timers` | what a tick scheduler promises: a task runs in the tick it is due, cancelled ones never; it sees every start of a task (`ran`) | abstract specification of both schedulers |
| `PluginScheduler`, `TickScheduler` | the two schedulers | `tick()` is cut at each callback, within which any operation may be called |
| `PlayerVisibility` | what joins and leaves tell of players | a task's `todo` is what its round is still to write; `tracked` is `tracked_players`; `listed` and `shown` are at the client |
| `EntityTracking` | what clients are told of entities | `entities`, `removed_ids`, `tracked` are the code's; `jobs` is what the game loop's pass, a join or a creation is still to do |
| `Weather` | the two durations, the two ways to set the weather and what clients are told | `tmWeather`, `duration`, `thunder` are `TimeManager`'s, `weather` is `server.weather`; `todo` are game events to send |
| `Inventories` | clicks, drags, drops, windows, chests, digging, placing, pickup of two players | `at` maps every place (slot, cursor, chest slot) to a stack; `shown` is what was sent under the current `inventory_state_id` |
| `Furnace` | `tick_furnaces` and players who reach in | `slot`, `burn`, `cook`, `total` are the block entity's fields |
| `Fluids` | `FluidManager` and players' edits | `block` is the world, `pending` is `pending_flows`, `telling` the broadcast of a tick, `edit` a handler that is at its own |
| `Redstone` | `RedstoneEngine` and players' use, dig and place | `comps`, `order`, `level`, `strong`, `sched`, `updates` are the engine's; a component is its kind, facing, state and setting |
| `Watchdog` | processes that watch and start each other | `run[p]` is how far `main.py` has got, `socket`, `partner`, `missed` are `WatchdogManager`'s, `waiting` who is inside `restart_partner` |
| `Extensions` | the life of plugins and mods | `phase` is the loop that runs over `todo`; `loadOrder`, `state` are the managers' |
| `Channel`, `RingMessages`, `ShmRing` | what the ring promises; its messages; the ring byte by byte | a byte is the message it belongs to and its place in it; the writer publishes `write_pos`, the reader `read_pos` |
| `MCFiles`, `MCPlayers`, `MCConnections`, `MCChunks`, `MCWorld`, `MCRuntime`, `MCItems` | suites: RegionFile + RegionMemory + AnvilConversion; PlayerSession + PlayerVisibility + EntityTracking + Weather; KeepAlive + NetworkOptimizer; ChunkStream + ChunkEdits; those and Fluids + Redstone; PluginScheduler + TickScheduler + ShmRing + Watchdog + Extensions; Inventories + Furnace | also the worlds, circuits, starts and symmetry sets of the runs |

**Refinements** tie modules together: `WorldStorage` implements `ChunkStore` (the live image
of a region is the cached object or else the file), both schedulers implement `Timers` (the
tick a task is due is the clock plus what its counter has left), and `ShmRing` implements
`Channel`. `RegionFile` justifies the one-step file writes of `WorldStorage` and
`AnvilConversion`; `RegionMemory` justifies that `WorldStorage` lets the memory limit evict
at any time.

**Histories and conditions.** Several guarantees hold only until a particular race or fault
has happened. Rather than leave it out of a model, the module keeps a history variable that
says whether it has happened, and the property is conditional on it: `apart` (RegionFile: no
two writes have overlapped; ChunkStream: the two tasks were never at work together),
`failed` (ChunkStream: a job has failed and no new centre came after it), `delayed`
(NetworkOptimizer: names for which `drain()` has had to wait), `shared` and `outrun`
(ChunkEdits), `spoilt` (PlayerSession, AnvilConversion, Inventories), `nested`
(TickScheduler), `missed` and `unlisted` (PlayerVisibility), `calm` and `late`
(EntityTracking), `mixed` (Weather), `crossed` (Fluids, Redstone) and `unnoticed` (Fluids).
The models go on after the race, and other properties are checked through it. No history
decides what the code does next; only Inventories ends a behaviour once it is `spoilt`: the
accounts are closed.

**Mutants.** Definitions marked `Mutant:` are plausible bugs in the definition after them
(a dropped guard, a missing reset, a mark left behind). Each property is violated under its
run's own configuration when the definition is replaced by its mutant; the pairs are in
`PROJECT.json`.

## 3. Runs

Twelve runs, one per question; nine pass, three show a violation.

| Run | Checks | Bounds |
|---|---|---|
| `storage_sequential` | `UnsavedIsDirty`, `ImplementsStore`, `DirtyIsFlushed` | one caller, 3 regions of one chunk, room for 2, one payload, one crash, two failing reads or writes |
| `storage_threads` | `CacheCoherent`, `CacheBounded` | 2 threads, 2 regions, room for 1, 3 region objects, one failure |
| `storage_race` (violation) | `UnsavedIsDirty` | 2 threads, no failure, no crash |
| `files` | `AtomicReplace`, `NeverOlder`, `MemoryDriftIsGrowth`, `ServesNewest` | 2 writers, 3 images, 3 inodes, one loss of power; 3 cached regions of size 1 to 3, room for 2 and memory 4; 2 Anvil regions of 2 chunks, 2 edits, one fault |
| `players` | `Remembered`, `SavesMoveForward`, `SeenAreOnline`, `ClientsInSync`, `SkyIsWeather` | 2 connections of one player, one change of each kind, one failing save, one crash; 3 peers, one slow and one kicked; 2 entities, one slow viewer, 2 moves; weather that lasts 0, 2 or 3 ticks, 2 orders |
| `player_session_join` (violation) | `ProgressIsKept` | one connection, one crash |
| `connections` | `HealthyStays`, `OnlyStallDrops`, `FramesFirstInOrder`, `FramesNothingLost`, `FramesQueuesEmpty` | timeout 3, answers within 3, stalls up to 5 (units of 10 s); 2 connections (one slow), 2 names, 3 frames, 2 logins |
| `chunks` | `NoMoveMissed`, `ViewIsLoaded`, `ClientInSync`, `SurroundingsArrive`, `ChunkEditsSurvive`, `ChunkViewIsCurrent` | a row of 5 chunks, view distance 1, 3 moves, one failing job; 2 players, 2 chunks, one edit, 2 jobs each |
| `runtime` | `ImplementsTimers`, `ServerOnTime`, `RingImplementsChannel`, `PromptStays`, `DependenciesKept` | 3 tasks, 2 plugins, intervals 1 and 2, server delays 0 and 2, 3 ticks; a ring of 16 bytes, payloads of 1, 4 and 6, a reader's buffer of 5; 3 process ids, one missed heartbeat allowed, one launch, one crash; 3 plugins with any dependencies |
| `world` | `UnfedFluidIsPending`, `WorldToldAsItIs`, `WorldBlocksStay`, `FluidFlowEnds`, `RedstoneTableInSync`, `RedstoneWireLevels` | nine cells and 4 worlds of water and lava, 2 edits; boards of 8 cells and 7 circuits, 2 actions |
| `redstone_lamps` (violation) | `RedstoneLampsGoOut` | one circuit: a lever and a lamp |
| `items` | `ItemsConserved`, `StacksLegal`, `ClicksInformed`, `FurnaceHeatIsPaid` | 2 players, stones (stack 2) and a helmet, a chest of 2 slots and an ender slot, 2 starts, 3 packets, 2 tosses; a blast furnace, cook time 8, fuel for 5, 4 touches, 3 items made |

Why these bounds are enough to be worth something:

- *Storage*: three regions with room for two make an eviction possible while another region
  stays, so that the choice of the victim matters; with room for one, two threads evict each
  other's region. Three objects let a region be loaded twice at once. Two failures are needed
  for a `close()` that drops two regions it could not write.
- *Files*: three images let two writers overlap and a third one follow; two names and two
  open files are at most three inodes at a time, as the writers share the temporary name.
  Two Anvil regions put a crash between the conversion of one and of the next.
- *Sessions*: the second connection is the reconnect under the same name while the first is
  still being saved. Players do not share a field, so one is enough for the run; the
  theorems are for any number. In the other parts one client that does not read is what
  suspends every task that writes to it; with three peers a task is suspended while two
  others join and leave.
- *Optimizer*: two logins move a name from one connection to the other; three frames are one
  that is written, one that is queued in `drain()` and one after it.
- *Streaming*: with five chunks in a row and a view of one to each side, the player can
  leave the spawn view completely and come back.
- *Schedulers*: three tasks are a callback, the task it schedules or cancels, and a
  bystander in the same list. A delay of 1 behaves as 0 does in the server's scheduler
  (`AtLeastOne`), so 0 and 2 cover both sides of the comparison.
- *Ring*: payloads of 1, 4 and 6 bytes with their lengths of 4 wrap around 16 bytes at every
  offset, in the length as in the payload, fill the ring, and one is too large for the reader.
- *Watchdog*: three process ids are a process, its partner and the one that replaces it. The
  module alone was also checked with two missed heartbeats and two launches. How long a
  process has been silent is counted up to `MaxMissed` only.
- *Extensions*: with three ids there are chains, diamonds without their top, and cycles of
  one, two and three; the directory listings have a missing package and one out of order.
- *Fluids*: nine cells hold a shaft, two sources with a gap, water against lava, and a ledge;
  two edits take a source away and put a stone into what is drying up.
- *Redstone*: the seven circuits hold every kind of component that is modelled, with delays
  one behind the other, a sticky piston with a block, an observer, a circuit that goes up a
  step, torches that switch each other and two pistons in a row. Times and limits are small:
  a torch burns out at the third change, a piston pushes two blocks.
- *Items*: a stack of two with a chest of two slots makes every fit possible: all, part and
  nothing; three packets are a first one, one of the other player while it waits and one
  that finds the result.

Deadlock is checked in the `storage`, `players`, `player_session_join` and `items` runs. The
parts of the others do stop when their bounds are used up, or because the code does, as the
optimizer after `stop()`; their configurations say so.

### Fairness

Five specifications state fairness, each where a liveness property needs it.

- `WorldStorage.FairSpec` (`DirtyIsFlushed`): weak fairness of a call that has begun
  (`Continue`), because threads run; strong fairness of `Flush`, because the game loop comes
  back to it every 200 ticks while anything is dirty, and another call may be under way each
  time the state is looked at. Nothing makes a write succeed: that failures are finitely many
  is the bound `MaxFaults`.
- `NetworkOptimizer.Fairness` (`FramesQueuesEmpty`): weak fairness of the flush loop, which
  comes back every 50 ms, and of the flush `stop()` runs to its end. `drain()` is assumed to
  end, as the client reads or the connection breaks. The game loop's own flush needs none.
- `ChunkStream.Fairness` (`SurroundingsArrive`): weak fairness of both tasks, which the event
  loop runs, and of the client's confirmation of a position the server has set.
- `Fluids.Fairness` (`FluidFlowEnds`) and `Redstone.Fairness` (`RedstoneLampsGoOut`): the game loop
  ticks the engine again and again (written out with its condition, as it takes an edit along
  unchanged), a tick's changes are told, and a handler that has begun ends.

## 4. What the violation runs show

- `storage_race`: `flush()` serialises a region, another thread saves a chunk into it and
  marks it, and `flush()` then discards that mark (`storage.py:1075`). The chunk is neither on
  disk nor marked, so nothing writes it until it is saved again. One caller at a time cannot
  do that (`storage_sequential`).
- `player_session_join`: the connection is in state PLAY before its file is loaded
  (`login.py:113`, `join.py:140`). An autosave, `stop()` or a failing join in between saves a
  new player's fields over the file.
- `redstone_lamps`: a component takes the stored level of any neighbour for its input
  (`redstone.py:1815`). A lamp that was lit and the lever beside it give each other their old
  level in every tick, so the lamp stays lit for ever after the lever is off.

## 5. Behaviour the properties make an exception for

The conditions of section 2 are there because the code does the following. Most were met as
a counterexample to the property without its condition; `PROJECT.json` has them as findings
where a comment or a document of the repository says otherwise.

- *Failed eviction* (`storage.py:905`): when the flush callback raises, the victim is
  dropped all the same and its changes are lost; `close()` drops every region it could not
  write (`ChunkStore.Forget`). `UnsavedIsDirty` holds through it because the region is then
  gone from the cache.
- *Unreadable file* (`storage.py:990`): a region that cannot be read is taken for an empty
  one, and the next flush writes that over the file (`ChunkStore.Forget`).
- *Memory limit* (`storage.py:892`): `set_chunk` does not update `current_memory`, so the
  cache may be over its limit when eviction ends. `DriftIsGrowth` says by how much, and that
  the error is never given back.
- *Overlapping writers* (`storage.py:365`): two writers of a region share `<path>.tmp`, so the
  second truncates what the first is about to rename.
- *Conversion* (`storage.py:674`): a rename to `.mca.bak` that fails is logged only; the next
  start converts the old file over what was saved since (`spoilt`).
- *Silent clients* (`server.py:1006`): every round of keep-alives restarts the 30 s, so a
  client that stops answering is dropped only after a stall of the game loop
  (`OnlyStallDrops`); a closed TCP connection is noticed by the read loop.
- *Optimizer* (`network_optimizer.py:142-148`): the queue is cleared after `drain()`. Frames
  queued meanwhile are lost, and a second task that flushes meanwhile writes the batch twice.
- *Streaming* (`chunks.py:348`, `:369`, `:406`): the deferred task adds to `loaded_chunks`
  what the streaming task may have taken back since; `_unload_distant_chunks` cuts
  `loaded_chunks` down to what it was told before its awaits; and after a job that failed
  nothing sends the rest until the player enters another chunk (`failed`).
- *Shared generation* (`server.py:550`): two jobs that find the same chunk missing both save
  it; the slower one overwrites what was built in it meanwhile.
- *Stale chunks* (`chunks.py:410`): a change made between the load of a chunk and its sending
  is told to a client that does not have the chunk yet.
- *Scheduling in a tick* (`scheduler.py:120`, `:149`): a task scheduled by a callback is met by
  the same loop, a tick too early; one that is scheduled after `clear()` in the same tick is
  dropped with the old list while its id stays listed.
- *Joins and leaves* (`players.py:116`, `:119`): a player who leaves during the spawn round of a
  join is spawned afterwards and never removed (`missed`); two joins at the same time spawn a
  player before it is in the client's list (`unlisted`; `PlayerVisibility.ListedFirst`, which
  no run checks, says it never is).
- *Entities* (`entities.py:170`): an entity that was removed while its spawn was being written
  is entered as tracked afterwards (`late`).
- *Weather* (`commands/vanilla/world.py:97`): `/weather` writes `server.weather`, which the next
  tick overwrites, and tells nobody (`mixed`; `Weather.CommandLasts`, which no run checks, says
  that the order lasts). `/time set` (`world.py:35`) and beds (`block_behavior.py:1204`) write
  `server.world_time` the same way.
- *Items*: a hand without a block places one for nothing (`blocks.py:209`); a toss that waits
  for its broadcast clears the slot whatever is in it by then; a chest that is dug while
  somebody changes it pours what it had when the digging began; a pickup whose player has left,
  and what is on the cursor of a player who leaves, are lost (`spoilt`). The other viewers of a
  chest are not told of changes at all, and the own window is shown in another order than the
  one clicks come in, so `ClicksInformed` is about slots 9 to 35 and the cursor.
- *Fluids*: a dried-up block schedules its four sides only, though the documentation says all
  neighbours (`fluids.py:17`, `:206`), so fluid that was fed from there may stay (`unnoticed`);
  neither is `pending_flows` saved, so what was drying up when the server stopped stays. Lava
  may in one tick turn a source to stone that two new ones have just come from: that is why
  `FluidSourcesStay` speaks of cells that are a source or have just become stone.
- *Redstone*: a tick or an interaction that falls between a handler's change and its end works
  with the component that was there, tells stale changes again (`blocks.py:475`) or puts the
  block back that was dug; a sticky piston that retracts overwrites what was built in place of
  its head (`crossed`). Wires pass no signal down a step, and two sources of unequal strength
  may leave a wire too low; `WireLevels` is stated for what the code does compute.
- *Plugins* (`plugins/__init__.py:497`): a dependency that has failed counts as there.

Seen while reading and in no model: the watchdog's child writes to a pipe nobody reads, and a
process that finds both ports taken listens on none; nobody cancels the scheduler tasks of a
plugin that is disabled; the movement throttle (`network_optimizer.py:194-212`) drops the last
move before a pause; `RestartHandler`, `GracefulShutdown` and `HealthCheckServer` have no
callers.

## 6. Proofs

The theorems are of the form `Spec => ...` for every value of the constants, under the
assumptions the modules name (sentinel values outside the data, bounds that are natural
numbers, finite sets of players, connections, regions and entities, a ring that is larger
than the length before a message). Each rests on an inductive invariant: one lemma for the
initial states, one per action or group of actions, one for `[Next]_vars`, and the temporal
step. A proof module extends the suite of a run, so that its theorems are about the very
definitions the run checks; the suites assume what the modules they instantiate ask of their
constants (`SkyAssumption`, `PeerAssumption` and so on), which TLC evaluates.

`DataTheorems` has the lemmas about data that the proofs share. Induction over data needs a
rule with an operator as its parameter, which the provers cannot instantiate; three
constructions go round it where the proofs need it. A sum over a finite set, and a list that
is put together of others, are each shown to be the one table (set of subsets, or of
prefixes) that satisfies the recursive equations (`TableExists`, `TablesAgree`,
`PrefixTableExists`): the induction is over cardinalities and lengths, each on a set rather
than a predicate. From that follow what an element adds to a sum (`SumAdd`, `SumRemove`,
`SumChange`), that `SetToSeq` is a list of the set (`SetAsList`), and what `FlattenSeq` lists
and where (`FlattenMadeOf`, `FlattenLists`, `RoundLists`), which is how the rounds of
broadcasts are built. The third construction is for a loop with no bound in its data, such as
a walk with a queue: a recursive function exists, and its value is that of the last of its
rounds, where a measure wanes in each of them (`LoopExists`, `LoopStops`).

| Module | Theorems | Inductive invariant |
|---|---|---|
| `WorldStorage_proofs`, any number of threads | `TypeCorrect`, `EvictionExclusive` (LockDiscipline), `TableCoherent` (CacheCoherent), `TableBounded` (CacheBounded) | `CacheInv`: the three properties with the types, plus `Hands`: a thread past its lookup has a region in its hands, and one that writes a victim has a victim. Without the lock discipline, coherence is not inductive: another thread could evict the victim under way. |
| the same, one caller (`OneCaller`) | `UnsavedMarked` (UnsavedIsDirty), `StoreRefinement` (ImplementsStore) | `DataInv`: unsaved regions are marked, marked ones are cached, no two keys share a region object, and for each step of a call what it has in its hands is (`Staying`), is not yet (`Arriving`) or is no more (`Leaving`) in the cache. The refinement then maps every step to a step of `ChunkStore` or to none: a save, one region or several written or dropped, a fault, a crash. |
| `Files_proofs`: RegionFile | `TypeCorrect`, `WriteIsAtomic` (AtomicReplace), `WriteNeverOlder` (NeverOlder) | `FileInv`: types, and while `apart`: at most one writer, the two names never share an inode, the temporary file holds what its writer has written so far, and both names hold whole, synced images. What the kernel has and what the device has must be related at every step, because power may go at any. |
| AnvilConversion | `NewestServed` (ServesNewest) | `ConversionInv`: for each region that is not `spoilt` the newest chunks are in its Anvil file as long as there is one to be read, and in the Linear file once it is converted (`Kept`); what is still to be converted is on the list (`OnList`). |
| RegionMemory | `MemoryDrifts` (MemoryDriftIsGrowth) | `MemoryInv`: the property is inductive with the types, but its steps are arithmetic of sums over sets: a key that enters, leaves or changes its size. |
| `Players_proofs`: PlayerSession | `TypeCorrect`, `FileRemembers` (Remembered), `ProgressMovesForward` (SavesMoveForward) | `SessionInv`: for every player that is not `spoilt`, only one session is there (`Alone`), a session that was joined has in memory what is remembered, and the file is at most behind (`Playing`), and while a session joins the file has everything that is remembered and stays what was loaded (`Joined`). |
| Weather | `SkyTold` (SkyIsWeather) | `SkyInv`: as long as no two tasks told at once, whatever a task is still to say is of the weather there is, and for each client and each of its three values either it shows that value or somebody is about to tell it (`SkyTrue`); who has not come was told nothing (`SkyFresh`). |
| PlayerVisibility | `PlayersSeen` (SeenAreOnline) | `PeerInv`: of two players one tracks the other or somebody is about to enter it, from the moment both are in their last round (`PeerMet`); who is tracked was spawned first, because the two packets stay together (`PeerPairs`, `PeerSeen`); nobody is going to show a player who leaves, and those who do have the removal still to come (`PeerLeft`); what a task has to write fits what it does (`PeerTodo`, `PeerLife`). |
| EntityTracking | `EntitiesInSync` (ClientsInSync) | `ThingInv`: while the pass is undisturbed only the game loop has jobs, and they are of the world as it is (`ThingCalm`); what is shown is tracked or about to be (`ThingShown`), what is tracked is shown or late (`ThingTracked`), and from its start the pass leaves behind clients that track what is near (`ThingPass`). |
| `World_proofs`: ChunkStream | `TypeCorrect`, `EveryMoveFollowed` (NoMoveMissed), `ViewLoaded` (ViewIsLoaded), `ClientHoldsView` (ClientInSync) | `StreamInv`: unless a job has failed, what is loaded, still to be sent by the one task or by the other covers the view (`Covered`); `Agrees` adds what the client holds while the tasks are apart. |
| ChunkEdits | `NoEditLost` (ChunkEditsSurvive), `ViewsCurrent` (ChunkViewIsCurrent) | `EditInv`: two jobs at work on one chunk are noticed (`Apart`), what a lone job has not found is still not there (`NotYet`), the chunk an edit has read is the one that is stored until it writes it (`EditsStored`), and a client lacks of a chunk exactly what it is still to be told (`Current`). |
| Fluids | `FlowIsAttended` (UnfedFluidIsPending), `FlowIsTold` (the half of WorldToldAsItIs), `SourcesAreKept` (of WorldBlocksStay) | `FlowInv`: types, the two properties, and what they need between the steps: an update being told shows the block that is there or the cell is `crossed`, what a client has not been told is being told or being edited. A tick is a fold of `Visit` over `pending_flows`; its steps keep a relation between the world at the start of the tick and the world so far (what is unfed was so before, is still to be visited, is scheduled again or was put down as unnoticed), proved once for each kind of change: a cell written, fluid that arrives, a reaction, drying up. |
| Redstone | `TableFollowsWorld` (RedstoneTableInSync), `RedstoneIsTold` (the half of WorldToldAsItIs), `PistonsKeepBlocks` (of WorldBlocksStay), `WiresCarrySignals` (RedstoneWireLevels) | `RedInv`: the table lists each component once and all power is a signal from 0 to 15 (`Shape`); outside `crossed` and away from a handler it is the world's (`InTable`), at a handler's cell it is the old block's (`Handling`); what a client has not been told is still to be told, and the last word about a cell is the block that is there (`Informed`). A tick is eleven passes, each a fold: every one of their steps keeps `InStep`, which relates the engine so far to the world at the start of the tick (the table fits, all changes are put down, each kind of block is as often there). A piston that pushes is a fold within the fold, with what it has still to push in its hypothesis (`PushedTo`); the pass over pistons works on components taken at its start, so it needs that one whose cell is not in `gone` is still of its kind (`Since`). The power of wires is a walk with a queue through any graph, loops included. It ends, for each round takes a wire off the queue, and puts wires on it only when it visits a wire for the first time (`WaveEnds`). From sources that give the same, the queue is always in descending order of power and its ends differ by at most one, and each wire on the way has what it is given or one less than a visited wire that passes on to it (`WaveRolls`); when the queue is empty that is what the property asks for (`WaveLevels`). |
| `Connections_proofs`: KeepAlive | `HealthyNeverDropped` (HealthyStays), `DropsNeedStall` (OnlyStallDrops) | `KeepAliveInv`: types, the answer to what a healthy client has still to answer is underway, hence younger than the timeout (`Underway`), and what is pending was sent in the last round (`SentLastRound`). |
| NetworkOptimizer | `FramesInOrder` (FramesFirstInOrder), `FramesAccounted` (FramesNothingLost) | `FramesInv`: a queue is in the order of its frames (`Queued`), what was sent is in order but for what was sent again (`Ordered`), and once a frame newer than one still queued was sent, the queued one was sent too (`Waits`): it is of the batch of a task still inside `drain()`, which empties the queue only afterwards. |
| `Runtime_proofs`: PluginScheduler | `TypeCorrect`, `NeverOverdue`, `Refinement` (ImplementsTimers) | `SchedulerInv`: the counter of a live task is 0 while it is in the batch or runs, and at least 1 otherwise (`Counters`); the running task is not in the batch. `Refinement` then maps every step to a step of `Timers` or a stutter. |
| TickScheduler | `ServerTasksOnTime` (ServerOnTime) | `ServerInv`: what the loop of `tick()` has still to come to, what it has kept and what runs are never the same task, whoever changes the list meanwhile; the tick in which a task is due is the clock plus what its delay has left, one more for what the loop has passed (`DueAt`). The conclusion stops where a task has been scheduled during a tick (`nested`). |
| ShmRing | `RingInvariant`, `RingDelivers` (RingImplementsChannel) | `RingInv`: the bytes between `read_pos` and `write_pos` are exactly the messages in flight, each at its place; what the writer has copied of the next lies beyond `write_pos` and before `read_pos`, what the reader has copied is the head of the first. Positions wrap around: the lemmas about distances (`RingOff`) do that arithmetic once. |
| Watchdog | `PromptSurvive` (PromptStays) | `DogInv`: no two processes share a port (`PortsApart`), so a heartbeat never comes back to its sender (`NotItself`) and of two processes with a port each hears the other; what a watchdog has counted, plus what it is about to count, is at most one more than the seconds its partner has been silent (`CountsFair`). |
| Extensions | `PackagesInOrder` (DependenciesKept) | `PackageInv`: the order of `load_all` lists every id once, after what it needs unless it is left over from Kahn's algorithm, and what is left over is on a cycle or depends on one (`OrderIsWell`); the loops of enabling and disabling have passed a dependency before, or after, what needs it (`Enabling`, `Disabling`); what was refused lacked something or was left over (`RefusalsMeant`). |
| `Items_proofs`: Inventories | `ItemsAreConserved` (ItemsConserved), `StacksAreLegal` (StacksLegal), `ClicksAreInformed` (ClicksInformed) | `ItemsInv`: no drop holds two objects (`OneHolder`); only a drop in flight holds one, and an empty object in a slot is held by the drop that found it there (`Holders`); a chest that is gone is empty (`GoneIsEmpty`); a client outside a drop was sent nothing but what it holds (`Informed`). The account is a sum over slots, drops and what handlers still owe: each handler changes one slot, or two against each other (`Filled`, `Exchanged`, `Moved`), and the loops over slots are reached through the table of their folds (`IsFold`). |
| Furnace | `HeatPaid` (FurnaceHeatIsPaid) | `OvenInv`: progress is less than an item needs and a whole number of steps, so that what was burnt is `Exact`ly what was made and what is under way. `SuiteKeepsAll` puts the two together: a behaviour of the suite is one of each. |

Proofs corrected the models too: `StoreRefinement` could not be proved until `Forget` allowed
several regions to be dropped at once, which `close()` does after several writes have failed;
`storage_sequential` has two faults since. `RegionMemory` takes a key off `access_order` at
its place now, where it filtered the list by the key: the same for lists without duplicates,
which is what the proof of the accounting has to show. `Extensions` writes Kahn's algorithm
and the loop after it as recursive functions and dependency as the least closed relation, so
that the order `load_all` computes can be reasoned about: that the functions exist is a
theorem by induction over sets of cardinalities (`KahnExists`, `CompletedExists`).
`Inventories` has its loops over slots as folds with a named step (`FillSlot`, `GiveTo`), for
which one step is what a lemma can be about.

A proof attempt found a property of `Fluids` to be false on larger instances than the run's:
that a source made by a tick has two sources beside it at its end. `SourcesStay` says since
what the code does. `Redstone` spreads power with a recursive function, and makes its first
queue with a fold.

Every safety property a passing run checks is a theorem too. Only model-checked are the
liveness properties (`DirtyIsFlushed`, `FramesQueuesEmpty`, `SurroundingsArrive`,
`FluidFlowEnds`): fairness and ENABLED are beyond the prover.

## 7. What is abstracted or not modelled

*In the models.*

- Region contents are chunk payloads as model values; encoding, compression, checksums and
  the scan of `LinearRegion.read` are reduced to a whole image or a torn one. Serialising a
  region is one step of WorldStorage. `convert_world` uses one worker, as every caller has it;
  the exports have no caller.
- Packets are frames without content. ChunkEdits tells a change to every player; the range of
  the broadcast is left out. A handshake, configuration phase and protocol version are only
  the order of PlayerSession's steps.
- A toss creates its task and starts it in one step; clicks come only from a window that is
  open. Crafting, tags and damage of items are left out.
- In the ring the bytes are copied in order, and the release and acquire of the positions are
  taken as sequentially consistent. `write_raw`, `read_raw` and `peek` have no caller.
- Heartbeats are handled as they are sent, process ids are not used again while a watchdog
  knows them, and the configured partner pid and control messages are left out.
- Plugins have one id each; their callbacks return or raise.

*Not modelled, with the reason.*

- The codec and the packet tables (`protocol/`, `handlers/versioned/`): byte formats without
  state. Terrain, biomes, noise, mobs' movement and the C++ engines: numeric functions. Metrics,
  configuration and the launcher: tables and counters. The web console runs its calls on the
  event loop.
- About a hundred independent commands (`commands/`): parsing, then one call of what is
  modelled elsewhere. Crafting (`crafting.py`): no window asks it for a result, only furnaces
  ask what an item smelts to.
- Within modelled components: time of day and lightning, the movement relay and its rate limit,
  fights and break times, `fill_box` and multi-block changes, descriptors and events of plugins,
  pressure plates, daylight sensors, targets, tripwires, dispensers and note blocks of redstone.
- Hazards without a property: a region that another thread changes while it is serialised
  (`storage.py:331`); containers and player files that are saved at different times
  (`block_behavior.py:746`), which have no common point to state consistency of; and a client
  that does not read, on which the game loop waits in `drain()` without bound
  (`server.py:888`): the models assume that a `drain()` ends.

## 8. Plan

Done, in this order: storage and its abstract store, region files, sessions, keep-alive,
optimizer, schedulers, streaming, edits and most of their proofs; then the conversion, the
ring, watchdog, plugins, fluids, redstone, items, visibility, entities and weather, failing
stream jobs, and the storage's refinement for one caller.

Left, most important first:

1. Serialisation of a region chunk by chunk in WorldStorage, with a second thread.
2. `containers.json` and the players' files over a crash, once the code says what should hold.
3. The relay of movements with its rate limit.
4. A composition of the game loop in the order of `_game_loop`.

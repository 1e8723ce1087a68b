# Wildforge: specifications, model checking and proofs

Wildforge is a voxel game whose server keeps an authoritative world, saves it as
chunk files and ledgers, and streams it to guests over QUIC. This directory holds
TLA+ modules translated from its Rust source (`src/src/...`), TLC configurations
that check them on small instances, and proofs checked by TLAPS. `PROJECT.json`
names, for every definition, the lines it models; for every property, the run that
checks it and a plausible bug ("mutant") that the run would catch.

Contents: 1 the system; 2 the modules and how they correspond to the code; 3 the
runs; 4 bounds; 5 fairness; 6 what is proved; 7 disagreements found between code and
documentation; 8 what is not modelled; 9 the plan.

## 1. The system

One **owner thread** (the windowed game loop or the dedicated server loop) owns the
world and does everything that changes it. Around it are worker pools that compute
from snapshots, a network runtime, and files. The hard behaviour is at those borders.

| component | state it keeps | operations | hard part | what makes it correct |
|---|---|---|---|---|
| Terrain worker pool (`terrain_jobs/`) | two FIFO queues (entry before ordinary), the set of pending positions, results, failures, pool generation | request, request_entry (may promote or displace), retry, cancel_queued, try_ready, reconfigure, take_failure, shutdown | condition variable, panics, a budget spanning queue, hands and results | exact budget, one home per position, no lost wake-up, one panic stops all, join returns |
| Snapshot worker pool (`background/snapshots.rs`) | FIFO queue, bare pending count, stop flag | request, cancel, try_ready, stop, shutdown | the count is not tied to the jobs; panics | the count neither drifts nor wraps; every request is answered |
| Saved terrain (`world/storage`, `world/chunks/adoption.rs`, `world/residency.rs`) | palette (name to stored id) in memory and on disk, region bytes, resident chunks, modified marks, revision tokens, loader context | edit, save, evict, prepare on a worker, adopt, hot reload, reopen | I/O errors before and after publication, crashes, results older than a save, content whose ids are renumbered | every stored id has a durable name, no stale result is adopted, an edit leaves memory only once it is on disk |
| Region files (`world/storage/region.rs`) | header of (offset, length) slots, payloads | write_chunk, read_chunk, compaction | interrupted in any write | a chunk reads as its old or new version or as unreadable, never as another's; dead weight stays bounded |
| Host streaming and client inbox (`multiplayer/host`, `client_session`, `game/remote`) | per guest: phase, sent chunks, stream; encoder jobs and payload cache; client inbox, replica, wants | join, entry, ring, RequestChunk, BlockSet broadcast, paced decode, eviction | five actors, budgets, revisions, ordering of snapshots and edits | the guest's ground is the host's ground, the ring fills, nobody plays over missing ground |
| Arcane Current ledger (`arcane.rs`, `planet_atlas/storage/arcane.rs`) | ledger checkpoint, journal, backups, manifest, pending and coordinator records, linked domain files | commit, commit_linked_files, save, load | death between any two of some twenty writes | acknowledged transactions survive exactly once, files and ledger agree, the world loads |
| Admission, roster, profiles, moderation (`multiplayer/{profiles,moderation,roster}.rs`, `multiplayer/host`) | phases of a connection, principals, profile files and their index, ban list, session kicks | join, enter, ready, leave, kick, ban, unban, quit, crash, start | two installations linked by an account, a save that fails on either side of the rename, a process that ends between two files | a player sits once, a principal reaches one player for ever, saved progress is never rolled back, a ban holds |
| Block edits | block, modified mark, journal | set block | must mark, journal and invalidate | in SavedTerrain, ChunkStreaming and MaterialOps |
| Finite materials (`materials.rs`, `world/material_transactions.rs`) | ledger, delta log, pending record, voxel journal; the chunk | mine, break, place, losses, adoption, checkpoint, load | death between any two of a dozen writes, in memory and on disk | every finite block is placed or reserved once, losses count once, the files always load |
| Workings and Fieldmend (`workings.rs`, `world/workings`) | workings file, the ledger's reservation, chunks or a profile; a guest's channel | begin, hold, release, cancel, interrupt, complete, replay | an effect over several files; edits, departures, deaths and crashes in between | Current is held, spent or returned once, what is paid for is delivered, no channel outlives its player, no ritual waits for ever |
| Alchemy, dross, implements, discovery | domain states saved in files linked to the ledger | commit, load | the same linked commit | the linked files of ArcaneLedger stand for their files; else not modelled |
| Inventories, containers, host request handlers (`inventory.rs`, `player_ops/container.rs`, `multiplayer/host`, `game/containers`, `game/remote`) | packs, cursors, craft grids, block entities, items owed, dropped and lying about; each guest's own view of them | click, open, close, break, place, die, respawn, deliver, pick up, echo | predictions and echoes cross, two guests share a chest, it is broken, they die or leave | no item is copied, none is lost unaccounted, the last echo is true, the view settles on the truth |
| Crafting, trade, stalls, machines, movement budget, sleep vote | offers, recipes, budgets, votes | one handler per message | two players | planned (section 9) |
| World creation, background operations | hidden directory, progress, cancellation | build, cancel, publish | cancellation racing completion | planned |
| Simulation (server step, mobs, fluids, fire, ecology, machines, rails, power) | numerical state | tick | event loop limits | not modelled (section 8) |
| Wire protocol, transport, identity, registry parsing, atlas and world generation, agent, presentation | | | | not modelled (section 8) |

How they interact:

- The owner **requests** positions from the terrain pool and **polls** completions.
  A worker reads a region under the store's lock, with a revision token, and builds
  the chunk from an immutable loader context; the owner checks the token and the
  context when it **adopts** the result.
- A host pump handles messages, broadcasts the edit journal to playing guests, ages
  the cached payloads of edited chunks, drains the encoder (a snapshot pool) and
  sends the nearest missing chunks at a pace. Edit broadcast and chunk payload share
  one ordered stream per guest; moves are datagrams.
- Saving writes the palette first, then chunks, then the modified mark is cleared.
- A block edit that involves a finite material announces itself in a journal, changes and
  saves the chunk, and then commits a delta to the material ledger.
- A working reserves Current when it begins, spends it in one linked commit when it
  completes, applies its effect to chunks or to a profile, saves those, and is removed.
- A ledger transaction that also changes domain files writes a coordinator, the
  files, a pending record, a journal frame, and removes pending and coordinator. A
  checkpoint backs up ledger and journal, replaces the ledger, empties the journal and
  updates the manifest. Load undoes and redoes what it finds.

`PROJECT.json` lists all components with their status, and forty hazards: the lines
where the code could go wrong in a way tests hardly reach, with the properties that
would notice, or the reason none does yet.

## 2. Modules

Each definition carries the source's name where it can. Definitions commented
"Fault:" are wrong variants used to test the properties; nothing in `Next` uses them.

**`Queues`** has what the pools and the streaming share: `Only`, the filter that a
cancellation (`retain`) and the ring apply to a sequence, as a recursive function.

**`TerrainJobs`** is `src/src/terrain_jobs`. `entry`, `ordinary` and `pending` are
`WorkQueue`, `ready` the channel, `worker[w]` says where a thread is (`awake`,
`asleep` on the condition variable, `busy`, `exited`), what it holds and of which
generation it is. A step is a critical section of the mutex: `Admit`, `Promote` and
`Preempt` are the three outcomes of a request, `CancelQueued`, `TryReady`,
`TakeFailureNotification`, `BeginShutdown`/`Close` and `Restart` the other owner calls,
`Take`, `Sleep`, `Exit`, `PublishResult`, `Panic` the worker loop, `SpuriousWake` the
condition variable's licence. Shutdown (and reconfiguration, which shuts down first) is
two actions because the join lets workers run in between. The specification is `PoolSpec`
(`PoolInit`, `PoolNext`), so that `SavedTerrainProofs` can extend it beside `SavedTerrain`.

**`SnapshotJobs`** is `src/src/background/snapshots.rs`, in the same style. The queue
does not know its jobs, so the module keeps the callers' convention that a job is asked
for only when it is nowhere in the pool (`Free`), and checks that the bare count
agrees with where the jobs are. Its proofs stand in `ChunkStreamingProofs`, because the
encoder of the host's chunks is such a pool.

**`JobBoard`** is what both pools promise: a board of jobs, each idle, queued, running or
ready, at most `Limit` not idle, moving only forwards or off the board. Both pools
implement it (`Board!Spec`, with `Stage` as the mapping): no job is run twice
for one request, none is handed over that was not finished, and after a stop the board
is empty until the pool is opened again. That is a theorem for both (section 6).

**`SavedTerrain`** composes the palette, the region store, chunk adoption and
eviction. A chunk is reduced to the name of one block, a stored chunk to its id in
the palette. `Bind` extends the palette as `ensure_registry` does, `Publish` writes the palette file,
`Write` writes a region; each may fail before or after the bytes are in place
(`Outcomes`), which is what `persist::atomic_write` really does when a directory sync
fails. `SaveModified`, `EvictModified`, `Insert`, `EnsureChunk`, `Adopt`, `Reconfigure`,
`Reload` and `Reopen` (crash or restart with any content) are the owner's operations,
`Prepare` a worker's. `watch[p]` is the set of readers whose revision token for `p` is
still current; `IsCurrent` is the test of `adoption.rs`.
`SavedTerrainProofs` holds the theorems, and those of `TerrainJobs`.

**`RegionFile`** is `write_chunk` step by step: header, payload append (any prefix),
slot offset, slot length, compaction, with `Interrupt` between any two and within
header and payload. A payload is a sequence of cells that name their slot, version and
place, so that reading any wrong range shows. **`SlotStore`** is its promise: a
slot reads as what it was, as the version being written, or as unreadable, and only an
attempted write of that slot may change it; an acknowledged write reads back. A file
without a whole header makes every slot unreadable, which is why `SlotStore` lets the
first write fail for all (`made`). A compaction copies one slot at a time (`CopySlot`)
into a new file that replaces the old one at once; `Lengths` is the running sum of the
slots' lengths, so that the last is the size of the live payloads. `RegionFileProofs` holds
the theorems.

**`ChunkStreaming`** composes host and guest: the host's world, `HostChunkJobs`
(`revision`, `encoding`, `encoded`, `cache`), the host's view of a guest (`phase`,
`hostPos`, `sent`), the stream each way, and the client (`client`, `pos`, `replica`,
`inbox`, `wants`). `Pump` is everything a pump does after messages, in order: age
payloads, broadcast, drain, cancel, adopt, manifest, ring. `HandleEntryReady`,
`HandleRequest`, `HearMove` are `on_msg`. `Frame` is one client frame: receive what
arrived, apply it at a pace, report readiness, ask for what is missing, evict what is
far. A frame may take any number of arrived messages, which covers latency. A chunk's
content is the number of edits made to it, so that lost, repeated and
reordered edits are all visible. `Polled` (what a client has once the
first messages are taken in) and `Applied` (a replica after the first mutations of the
inbox) are recursive functions, so that they can be reasoned about; `edits` counts
towards the bound `MaxEdits`. `ChunkStreamingProofs` holds the theorems, and those of `SnapshotJobs`.

**`ArcaneLedger`** has one action per write. `disk` is the set of files; `mem` the ledger
in memory; `phase` the write that comes next, in commit, in `save` or in `load`. The
accounts are abstracted to the sequence of transactions applied since genesis. All game
code commits under one origin, so that a transaction's id, its delta sequence and its
place in this sequence coincide. `Crash` may strike before every write (and inside the
journal append: `AppendPart`, `AppendRest`), also while `load` is recovering from an
earlier crash. `Fail` is an I/O error returned to the caller. Linked domain files are
those of workings, alchemy, dross, implements and discovery; what is in
them is the serial of the transaction that wrote them. `Rebuild` applies one journal frame
at a time. `ArcaneLedgerProofs` holds the theorems.

**`MaterialOps`** is a block that is broken or placed, write by write: `call` is the
handler, `step` its next write, `op` what it commits. `BeginBreak` and `BeginPlace` decide
the kind; `WriteJournal`, `SetVoxel`, `SaveChunk`, `Validate`, `WritePending`,
`AppendFrame`, `DropPending`, `Finish` are the writes in order; `WriteLedger`, `ClearLog`,
`Tidy` a checkpoint; `LinkLoss`, `Stage`, `Linked` a delta carried by an Arcane commit;
`Adopt`, `Evict`, `Edit`, `SaveWorld` the chunk and the world around it. `Crash` may strike
before any write and inside the append; the start that follows is as long a sequence of
writes and may be interrupted too. One chunk and one kind of finite block.
**`MaterialBook`** is its promise: blocks are natural and reserved, or placed and recorded,
with one exception the code makes (`Unmined`, section 7);
the mapping reads the files as a start would (`Replayed`, `RolledForward`). `Follow` is what
a load does with one record, and `Replay` the ledger after each of them, a recursive function.
`MaterialOpsProofs` holds the theorems.

**`Workings`** is the life of a working over its two durable halves: the custody of its
Current (workings file and ledger, replaced together) and its effect (cells in two chunks,
or two inventory slots). `Begin`, `Hold`, `Release`, `Cancel`, `OutOfReach` are the guest's
requests and the pump's reach test, `Due` and `Break` the clock, `Complete`, `GiveBack`,
`Apply`, `SaveEffect`, `Finish` the steps of a settlement a crash can separate, `Enter`,
`EndSession`, `InterruptActor`, `SaveLeaver`, `Kick` the session, `Start`,
`InterruptLoaded`, `Replay` a world load. The linked commit is one step with the outcomes
its callers can see (`Committed`, `CommitFails`, `CommitDies`): `ArcaneLedger` looks inside
it, and shows that files and ledger agree again after recovery.
**`WorkingCustody`** is the promise: reserved once, then returned or spent, delivered only
if spent; the mapping is `Shown`. `WorkingsProofs` holds the theorems.

**`GuestSession`** is who is seated at a host and what of a player outlives the
connection, the process and a failed write. The host handles one network event at a
time, so a handler is one step, with its writes' outcomes chosen inside (`Writes`): kept,
lost, or landed although an error was reported. `Join` is `on_join` with the opening of the
stores, `repair_index_from_profiles` and `open_or_create`; `Left`, `Kick`, `Ban`, `Unban`,
`Quit`, `Crash`, `Start` what can end a session. **`PlayerBook`** is its promise.
`GuestSessionProofs` holds the theorems.

**`Stacks`** is the arithmetic of item stacks: `Left`, `Right` and `Click` are
`click_stack`, `AddStack` is `Inventory::add_stack`: `Poured` over the slots, once to merge
and once to fill (`Pass`). A stack is a kind and a count; what never merges is a kind whose
limit is one. `Tally`, `Filled` and `Pass` are recursive functions.

**`ItemCustody`** is what guests do with items, on both sides of the wire. The host's half
is `body` (the seated guests), `profile`, the chest block and its block entity, and the
queues items pass through: `owed` (`pending_gives`), `fallen` (`pending_drops`), `loose`,
`buried` (settled in the material ledger). `OpenContainer`, `ContainerClick`,
`CloseContainer`, `InventoryClick`, `Break`, `Place`, `Respawn` and `Refuse` handle a
guest's next message; `Die`, `Mend`, `Deliver`, `Settle`, `Lose`, `Refresh`, `Tick`,
`Leave`, `Join` are what the host does by itself. The guest's half is `view`, the screen and
what it shows: `Use`, `UsePlace`, `OpenInventory`, `ClickChest`, `ClickPack`, `Close`,
`AskRespawn` send a request and predict its outcome, and `Frame` lets what has arrived
replace the prediction. `lost` is a history variable: the items that have ceased to be
anywhere, which only `Leave` (the craft grid) and `Given` (owed to nobody) may raise.
`ItemCustodyProofs` holds the theorems, and those of `Stacks`.

The `MC*` modules only give constants their values.

## 3. The runs

Eleven runs are expected to pass; one is expected to find a violation (section 7).
In every run that passes TLC explores the whole state space of the instance.

| run | configuration | distinct states | what it checks |
|---|---|---|---|
| `terrain_jobs` | `MCTerrainJobs` | 6,262 | `PoolInv`: types; every pending position of the current pool is in exactly one queue, hand or result, within the budget (`OneHome`); a failed position is not pending again while its failure stands (`FailureSuppressed`); nobody sleeps beside work nobody is awake for (`NoLostWakeup`). `EntryResolves`: entry terrain is not starved by ordinary requests, panics or preemption. `ShutdownCompletes`: join returns. `FailureStopsAll`: one worker's panic ends every worker, asleep or busy, before the owner knows of it. `ImplementsBoard`. |
| `snapshot_jobs` | `MCSnapshotJobs` | 389 | `PoolInv`: types, the bare count equals the jobs in queue, hands and results, nobody sleeps in a stopped pool, and no wake-up is lost. `Answered`: every request gets its result, its cancellation, or a stop. `ShutdownCompletes`, `ImplementsBoard`. |
| `saved_terrain` | `MCSavedTerrain` | 129,335 (up to symmetry) | `SavedInv`: types, and a stored id's name is in the palette file (`NamesBeforeIds`). `CurrentResultIsSaved`: a result that passes the revision test is what a fresh read gives. `CleanIsSaved`: dropping an unmodified chunk loses nothing. `MeaningKept`: only a write of the chunk changes what its stored id means. `EditsOutliveEviction`: an edited chunk leaves memory only when reading it back gives the edit. |
| `region_file` | `MCRegionFile` | 550,824 | `ImplementsStore`: through torn headers, payloads, slots and compactions the file implements `SlotStore`. `FileInv`: types, and after an acknowledged write the file weighs no more than the ratio and floor allow. |
| `stream_coherence` | `MCStreamCoherence` | 238,586 | `StreamInv`: types and budgets, and a payload of the current revision contains exactly the edits already broadcast. `RingTerrainCoherent`: what a playing guest will hold, once everything under way has arrived, is the host's ground. `NoRewind`: no edit is undone in view. `EntersOnGround`: nobody becomes an actor before its safety set is decoded. |
| `ring_fills` | `MCRingFills` | 69,529 | `EntryCompletes`: a connection that stays up is admitted. `RingFills`: unsent ground in view reaches a guest that stands still, with two chunks competing for one encoder slot and a pace of one, while an edit ages payloads. |
| `ledger_crash` | `MCArcaneLedger` | 1,325,080 | `AcknowledgedSurvives`: a transaction whose commit returned Applied is in the ledger once, whatever writes were interrupted. `LinkedTogether`: domain files and ledger agree on the last linked transaction unless a coordinator is pending. `LedgerInv`: types, no id is allocated twice, and no interruption produces files that load refuses. |
| `material_ops` | `MCMaterialOps` | 61,669 | `LedgerInv`: types, no crash leaves ledger files a load cannot read, and a start is refused only for a voxel that neither side of the journal names. `MemoryIsDurable`: between handlers, the ledger in memory is what a start would load. `ImplementsBook`: read as a start would read them, chunk and ledger go through the steps of `MaterialBook`, so no block or loss is counted twice or forgotten. |
| `workings` | `MCWorkings` | 191,241 | `CustodyInv`: types, and the two durable records of a working (the workings file and the ledger) agree: no Current is held for nobody. `PaidIsDelivered`: an effect is never seen before its Current is durably spent, and a spent working is forgotten only once its effect is on disk. `ChannelsAreHeld`: between handlers a wand working is open only while its player channels it, so a death, a departure, a cancellation, a broken path or a restart has given its Current back; kicked players are excepted (section 7). `RitualSettles`: no ritual stays reserved for ever. `ImplementsCustody`. |
| `guest_sessions` | `MCGuestSession` | 95,295 | `SessionInv`: types, and a player sits once. `StoreAlwaysLoads`: no profile write makes a later start refuse the store, and the open store resolves principals as that start would. `BanHolds`: a ban reported done is on disk and keeps its player out. `ImplementsBook`: principals keep their player, saved progress never goes back. |
| `item_custody` | `MCItemCustody` | 133,998 | `ItemsConserved`: through clicks, breaking and placing the chest, deaths, drops, pick-ups, full packs, departures and returns, every item of every kind is in exactly one place, or is one of those the two known ways lose. `CustodyInv`: types, the last state under way to a guest is what it carries (`LastWordIsTrue`), and a chest that is gone holds nothing. `ViewsSettle`: once the players rest, every guest's screen comes to show what it has and stays so. |
| `workings_replay` | `MCWorkingsReplay` | | expected violation, section 7 |

A type invariant is checked once per module, as a part of the invariant named above.

## 4. Bounds

Abstractions and bounds were chosen so that the cases worth checking happen; every
action of every module is taken in some passing run.

- `terrain_jobs`: 2 workers, 3 positions, budget 2 (so that requests contend, displace
  and are refused), 2 changes of content (a result may be two generations old).
- `snapshot_jobs`: 2 workers, 3 jobs, budget 2.
- `saved_terrain`: 2 chunks, 2 readers, 4 names (2 that all content defines, 2 that
  come and go), 3 stored ids, so that a palette can fill up and leave a registry
  unmappable. Chunks, readers, ids and the two optional names are symmetric; the
  properties checked with symmetry are invariants and action properties only. The
  proofs of section 6 remove these bounds.
- `region_file`: 2 slots, a version of one cell and one of three, at most 6 payload
  cells (`MaxCells`). A slot torn between offset and length must be able to overhang
  the file even after another append, which needs versions whose sizes differ by more than one.
  `Header`, `Ratio`, `Floor` are 1, so that compaction becomes due within six cells.
- `ChunkStreaming`: one guest, one or two chunks, two places, `Pace`, `FrameChunks`,
  `EncodeLimit` 1, at most 2 messages in a channel (`MaxFlight`), at most 2 edits
  (`MaxEdits`). One is the tightest budget; a larger one only removes waiting. The
  bound on edits matters for `RingFills`: a chunk edited at every pump is never
  current when its encoding returns (chunk_jobs.rs:212), so the property is that the
  ring fills once edits pause. A sender whose channel is full waits; the code's
  channel is bounded by memory.
- `ArcaneLedger`: 2 linked files, 4 transactions, ids up to 5. A crash may happen any
  number of times. `MayFail` lists the phases whose write may return an error; the
  passing run includes those after which the files still mean one thing. Excluded, and
  listed as a hazard (arcane.rs:1281), are a torn append that is not followed by a restart, and
  errors in the second half of a checkpoint. With `"manifest"` or `"journal"` in
  `MayFail` the game goes on with a ledger that the manifest does not name, so that
  transactions acknowledged afterwards are lost at the next start
  (`AcknowledgedSurvives`) and an interrupted second checkpoint is refused
  (`NeverRefused`); with `"appending"` the world ends up refused. That `save` ignores a
  failure to remove the pending record is left out as well.
  `RestoreInterrupted` is FALSE in the passing run (section 7).
- `material_ops`: 2 cells, one generated with the block and one without, so that the block
  mined, the block placed and the block put back are three different cases; 2 operations,
  1 loss, 1 plain edit, 1 save of the world, 2 crashes (one in the work, one in the
  recovery from it). `MayFail` has the journal and the checkpoint; `"chunk"` and
  `"delta"` are excluded because the code then keeps a journal that the next operation
  overwrites (section 7).
- `workings`: 2 workings of four kinds (one cell, two cells in two chunks, inventory slots,
  a ritual), so that two run side by side, one after the other on the same place, or compete
  for one; 1 edit, 1 I/O error, 2 crashes. `MaxWorkings` is a bound of the history and not of
  the code's list, which is capped far higher.
- `guest_sessions`: 3 connections of 2 installations that share one account, so that a
  player can be reached by two principals on two connections, and one installation
  can connect twice; 2 players, 2 steps of progress, 2 failing writes, any number of crashes and quits.
  Section 6 removes these bounds.
- `item_custody`: 2 guests and one chest; the pack, the craft grid and the chest have one
  slot each, a log stacks to two and a chest does not stack, so that every pouring meets a
  full row, a partly full one and an empty one. One guest has logs in its grid that its
  screen no longer shows, the other, who stands in a dungeon, a full pack; the chest is open
  to one or to both from the start. `MaxActs` 2: two acts of the players and the wild, which
  with all the host's reactions is enough for two clicks on one chest, a click against a
  break, a break and a place, a death between two clicks, a departure with items owed.
  `MaxInFlight` 1 bounds only the echoes sent on a timer: they wait for an idle line.
- Deadlock is checked, except in `material_ops` and `workings`, where a refused world really
  stops and a history that has used up its bounds has nothing more to do, and in
  `item_custody`, where players that have used up their acts may leave the host idle. Where a pool may
  stop for good a stuttering `Closed` step says so.

## 5. Fairness

- `TerrainJobs`, `SnapshotJobs`: weak fairness of each worker's own steps (threads are
  scheduled), of `TryReady` (the frame or server loop polls every iteration), and of the
  end of a join. No fairness of requests, cancellations, panics, read failures, spurious
  wake-ups or of the owner's asking for a failure.
- `ChunkStreaming`: weak fairness of `Pump`, `Load`, `Encode` and message handling (the
  host loop and its pools run), of `HearMove` (moves are repeated twenty times a second, so
  one eventually gets through), and of `Draw` (the client draws frames and takes
  messages in). None of edits, joins, departures or movement.
- `Workings`: weak fairness of `Steps` (the thread that runs a handler finishes it, and a
  process that died is started again), strong fairness of `Due`, because the fixed step asks
  for due rituals twenty times a second, whatever the player's requests do in between.
  None of requests, edits, departures, faults or crashes.
- `ItemCustody`: weak fairness of `Handle` and `Frame` (the host handles what has arrived at
  every pump, and every frame drains the network), strong fairness of `Refresh` and
  `Tick`, timers that run for ever: their guard `Quiet` is the bound on echoes under way
  and not a condition of the code, so weak fairness would let other messages hold them off.
  None of players' acts, deaths, deliveries, departures or returns.
- `SavedTerrain`, `RegionFile`, `ArcaneLedger`, `MaterialOps`, `GuestSession` and the abstract
  modules promise safety only and state no fairness.

## 6. What is proved

`SavedTerrainProofs` proves, for every set of chunks, readers, names and ids (finite or
not):

- `NamesAreDurable`, `RevisionsAreSound`, `CleanChunksAreSaved`:
  `Spec => []P` for `SavedInv` (the types and `NamesBeforeIds`), `CurrentResultIsSaved`,
  `CleanIsSaved`;
- `StoredMeaningKept`, `EvictionKeepsEdits`: the two action properties of the run.

The assumptions are those declared in `SavedTerrain`: `NamesAssumption` (all content
defines the placeholder and the generator's block; "absent" is no name) and
`SentinelAssumption` ("no id" and "no result" differ from every id and result). TLC
evaluates both.

The argument. Neither safety property is inductive alone. That stored ids have durable
names needs to know that the palette in memory extends the file and that a write
happens only after publication (`PaletteGrows`: injective, growing, equal to the file
when clean). That a current result equals a fresh read needs every unchanged revision
token to vouch for the bytes it was taken with, read through the readers' context
(`TokensHold`), and that this context is the world's while it is current. That clean
chunks are saved needs the block of a resident chunk to be registered
(`ResidentRegistered`), or the id it is stored with would decode to something else. `IInv` is
the conjunction; `Invariance` proves it by one lemma per action. The palette lemmas
(`ExtensionKeeps`, `BindKeeps`, `DecodeOwner`, `LoadRegistered`, `LoadAfterBind`) say
that binding new content renumbers nothing, gives each registered name an id of its own,
and that an id decodes to its owner, before and after.

`GuestSessionProofs` proves, for every set of connections, principals and players, every
assignment of proofs to connections and any number of failing writes:

- `Invariance`, `OneSeat`, `StoreLoads`, `BansHold`: `CleanProfiles => (Spec => []P)` for the
  inductive invariant and `SessionInv`, `StoreAlwaysLoads`, `BanHolds`;
- `BookKept`: `CleanProfiles => (Spec => ImplementsBook)`, the refinement of `PlayerBook`.

`CleanProfiles` says that no *profile* write lands and still reports an error; index and
ban writes may. It is needed: with `AnyMayFail` of `MCGuestSession` in place of
`MCMayFail`, TLC finds a second player that claims the same principal (section 7). `NoneAssumption`
("none" is no player, principal, record, store or list of bans) and `GuestAssumption` are
declared in `GuestSession` and evaluated by TLC.

The argument. `OneSeatEach` is about players, but `on_join` compares principals, so the
invariant must connect them: a seat's principals are exactly those its player's profile lists
and its progress is no older (`SeatsBacked`), profiles list disjoint, non-empty sets of
principals (`Apart`, `Listed`), an index entry names a profile that lists the principal
(`IndexBacked`), and an open store's links are those of the profiles (`LinksOwn`). Then a
join that reaches a player who is seated presents a principal of the seat, and `Seated`
turns it away. `BanHolds` needs that every sworn ban is in the file and in the open list
(`BansKept`) and that nobody seated is sworn banned (`SeatedAllowed`). The refinement maps each handler to one `Grant`, one `Keep` or a stutter.

`WorkingsProofs` proves, for any number of workings, places, edits, failed writes and crashes:

- `CustodyKept`, `PaymentDelivers`, `ChannelsKeptHeld`: `Spec => []P` for `CustodyInv`,
  `PaidIsDelivered`, `ChannelsAreHeld`;
- `PromiseKept`: `Spec => ImplementsCustody`, the refinement of `WorkingCustody`.

The argument. Nothing can be said of memory alone, because a start rebuilds it, nor of the
two files alone, because a linked commit may be half written. `Books` says of memory, of
the files, and of the files the half-written commit stands for that workings and
ledger agree (`Agree`): held exactly for what is open, spent for what is pending, and a
working that is spent and forgotten has landed. `Effects` ties the places to what was paid.
`Course` says what the settlement under way may rely on, in memory and on disk, between its
commit, its effect and the last of its saves; without it `Finish` could forget a working whose second
chunk is unsaved. `Channels` connects the player with the ledger: at every step an open wand
working is channelled by the player, or is the one whose cancellation is under way
(`GivenBack`), or the handler of a death, a departure or a start has its interruption still
to do (`Interrupting`). Nothing is said once the ledger has stopped or the player was kicked.

`ArcaneLedgerProofs` proves, for any linked files and any number of transactions and
crashes, `LedgerAlwaysLoads` (`LedgerInv`), `AcknowledgedNeverLost`
(`AcknowledgedSurvives`) and `FilesFollowTheLedger` (`LinkedTogether`), all under the two
hypotheses the run has: `~RestoreInterrupted`, and `MayFail \subseteq CleanFailures`, the
phases whose error leaves files that still mean one thing (section 4). Without either TLC
finds the property violated (section 7).

The argument. What is durable (`Durable`) is a function of five files: the checkpoint, the
journal's frames above it, and a pending record or a coordinator one ahead of both. `FilesInv`
says that this is a sequence in order of ids without repetition, that it has all that
was acknowledged, and that a pending record, a torn frame or a coordinator continues it.
`MemInv`, `CheckpointInv` and `CurInv` say phase by phase what memory, the two generations
of the checkpoint and the transaction under way have to do with it, in a commit, in a save and in a
load that itself was interrupted. Each write then either leaves `Durable` alone or appends `cur`.

`RegionFileProofs` proves, for any number of slots, versions of any sizes, and any header,
ratio and floor:

- `RegionInductive`: `IInv`, that between any two writes a slot is empty, whole, torn or overhanging,
  and when intact holds one whole version of its own chunk;
- `FileBounded`: `FileInv`;
- `RegionIsSlotStore`: `Spec => ImplementsStore`, the refinement of `SlotStore`.

The argument. A slot written in two halves may point at foreign cells, so that "an
offset with a length reads as that chunk" is false. What is inductive is `Fits`: a slot whose
length is that of a version and that lies within the file reads as this version, because every
stretch of the file is only ever appended to. `CopyInv` says that a compaction half way has copied
exactly what the slots before `copy.slots` yield and that its size is the sum of their lengths,
which `FileBounded` needs: an acknowledged write is due a compaction or leaves little dead
weight.

`MaterialOpsProofs` proves, for any finite set of cells and any number of operations,
losses, edits, saves and crashes:

- `MaterialInductive`: `IInv`, how chunk, ledger, log, pending record, journal, coordinator
  and memory agree between any two writes, recovery included;
- `LedgerLoads`, `MemoryDurable`: `Spec => []P` for `LedgerInv`, `MemoryIsDurable`;
- `FilesAreOneBook`: `Spec => ImplementsBook`, the refinement of `MaterialBook`.

The hypothesis is `MayFail \subseteq CleanFailures` (the journal's and the checkpoint's
writes, section 4); the cells that hold the kind by generation (`Natural`) may be any, or none.
In a chunk with none the book allows what the code does there (section 7): every block is
placed, none is ever mined as natural, and the reserved count is nought or one, where it
should be nought. `Miscounting` and the second half of `Balance` carry that case through the
invariant.

The argument. `FilesOK` says that the log continues the ledger, or that the ledger has it
already (a checkpoint cut before its log was emptied), that what is pending is one ahead or is the
last frame, and that the ledger they make (`Base`, `Whole`) is sane. `Accounts` relates that
ledger to the chunk on disk, with the journal's operation taken back as long as the ledger has
not seen it (`Unseen`): every block is in `placed` or is one of `reserved`. `Memory` says what the
resident chunk and ledger may be ahead by, `Progress` where the edit under way stands. In the
refinement the block and its account change in `SaveChunk` (`Edited`), a loss in the
append or the linked commit (`Wasted`), and all other steps, a start's included, leave
what a start would find (`Steady`).

`ChunkStreamingProofs` proves, for any finite numbers of guests and chunks, any places, views
and safety sets, any pace and budgets, and any bounds on edits and on messages under way:

- `StreamingInductive`: `IInv`, the inductive invariant;
- `StreamCurrent`, `RingIsCoherent`: `Spec => []P` for `StreamInv`, `RingTerrainCoherent`;
- `NothingRewinds`, `EntryOnGround`: the action properties `NoRewind`, `EntersOnGround`.

The hypotheses are those of `StreamingAssumption`: budgets are positive, what is in view is
kept there, and the safety set is kept at the spawn.

The argument. `WorldOK` and `EncoderOK` are about the host: a chunk's revision is the number
of its edits that were broadcast, the journal has all later ones in order, and a cached
payload has exactly the edits its revision counts. `Connected` is about one guest, and is stated
for a guest in the middle of a frame (`Midway`), with the first k messages under way taken in
and the first n of the inbox applied, so that a frame, which polls and applies
many messages, is an induction over single ones (`PolledKeeps`, `AppliedKeeps`):

- `Handshake`, `Grounded`, `Quiet`, `Reported`: at most one manifest and one readiness report are under
  way, the acceptance only follows the report, and who reported stands on decoded ground;
- `Confined`: until a guest plays it hears of its safety set only, so that an edit it was not
  told of cannot concern other ground;
- `Flow`: along replica, inbox and stream the values of a chunk never fall, nor exceed its revision;
- `Complete`: after each snapshot or edit of the ring, what follows has every later edit up to the revision.

`NoRewind` compares the replica at both ends of a frame, between which a manifest may have emptied
it; `Since` says, during the frame, that nothing applied or still to be applied is older
than what was in view before it. A pump extends
`Flow` and `Complete` from old revisions to new (`GroundContinues`), because the journal
is broadcast before the snapshots. `SettlesOn` then folds what is under way: the last of
it is the host's ground.

The constants of these modules have assumptions about the sentinels "none" and "idle"
(`WorkingsAssumption`, `LedgerAssumption`, `RegionAssumption`, `MaterialAssumption`,
`StreamingAssumption`: they differ from every value they stand beside) and about bounds
(natural numbers); TLC evaluates them.

Some facts would ordinarily be shown by induction along a sequence: that a replay depends only on
what it is given record by record (`Replay`), that the sum of the slots' lengths is at most
what was copied (`Lengths`), and what polling, applying and filtering come to (`Polled`, `Applied`,
`Only`; that these recursive functions exist at all is the lemma `Recursion`). The library's induction theorems cannot be used here, so the proofs take
the least counterexample: the naturals are well ordered (`NatLessThanWellFounded`,
`WFMin`), and a claim that is false somewhere is false at a least position, where
one step of the recursive function refutes it.

`ItemCustodyProofs` proves, for any finite set of guests, any kinds and stack limits, packs,
grids and chests of any size, and any traffic:

- `CustodyHolds`, `ItemsAreConserved`: `Spec => []P` for `CustodyInv` and `ItemsConserved`;
- `ClickConserves`, `PouringConserves`, `AddStackConserves`: a click, one slot of a pouring and
  the whole of `AddStack` keep every kind's number and every limit.

The assumptions are `StacksAssumption` (a limit is a positive number), `NoneIsNoStack`,
`CustodyAssumption` (sizes are positive, the guests' first belongings are stacks within the limits) and
`NoneIsNothing`; TLC evaluates them.

The argument. `IInv` is the conjunction of the two invariants, and needs both: what is added
up must have its type, and `AwayIsQuiet` is why a guest that returns is not echoed a state of its last
visit, and why an item owed to a guest that left is counted once. `ItemsConserved` is a sum over rows,
guests, queues and the ground. The lemmas on `Tally` say how a sum changes when one place does,
when something is appended or a queue advances; the guests are added up by a `Tally` too, so that
a handler of one guest changes one term. `Handled` is what one guest, the chest and the queues
hold between them, and each handler's lemma shows it unchanged, up to what `lost` and `buried` record.
`LastWordIsTrue` is then one lemma per way in which a handler ends: it says nothing and touches
nothing, or what it says last is the state it leaves.

`SavedTerrainProofs` proves of `TerrainJobs`, for any finite sets of workers and positions, any budget
and any number of content changes:

- `PoolIsSound`: `PoolSpec => []PoolInv`;
- `PoolIsABoard`: `PoolSpec => ImplementsBoard`, the refinement of `JobBoard`.

`ChunkStreamingProofs` proves the same of `SnapshotJobs`, for any finite sets of workers and jobs and any
budget: `EncodersAreSound` and `EncodersAreABoard`.

The argument. `OneHome` counts places, which no single step can be reasoned about with. The invariant
says instead that a queue holds nothing twice (`Single`), that no two workers hold one job, and
that queues, hands and results exclude each other (`OnePlace`); for terrain also that `pending` is
exactly what is somewhere (`Counted`), that every hand and result is of the current pool
(`OfThisPool`, which is why a late result can be trusted with the budget) and that a stopped
queue is empty with nobody asleep (`Halted`). The set is needed for the count: `RemoveAt`, `Front` and `Only`
shorten a queue by exactly what leaves the set (`Removed`, `Fronted`, `OnlyWanted`). No lost wake-up is
arithmetic: a request adds one to the backlog and `notify_one` one to those awake, or
nobody sleeps; a worker that takes work removes one of each; a worker sleeps only beside an
empty queue. `WorkInv` and `CrewInv` are the two inductive invariants. `JoinsStopped` completes `CrewInv`: an
owner that joins has stopped the queue, so that what `JoinAll` throws away was counted for nobody.
In the refinement each action moves one job one stage on (`Goes`), takes queued jobs back, or closes
the board; within the budget because the board holds no more than is pending (`BoardBound`).

Only model-checked: `ViewsSettle` and every other liveness property (`EntryResolves`,
`ShutdownCompletes`, `FailureStopsAll`, `Answered`, `EntryCompletes`, `RingFills`, `RitualSettles`).
Liveness under fairness stays with TLC for good: the proof system does not reason about ENABLED.
Every safety property of a passing run, invariant, action property or refinement, is a
theorem. Where the libraries' folds and `SelectSeq` would be natural (queues, sums, replays) the
modules have recursive functions of their own, since those operators are RECURSIVE or need induction with
an operator as parameter.

## 7. Code and documentation that disagree

One run shows such a disagreement:

1. **`workings_replay` (world/workings/lifecycle.rs:243).** A completed working is
   committed as PendingApply, changes all its cells in memory, and then saves the chunks one after
   the other. A Rootwake whose water lies over a chunk border has two such saves. If the
   process dies between them, the next start finds one cell after and the other before; the
   replay accepts only all before or all after, and the world is refused on every
   start. The comments (lifecycle.rs:217-220) and docs/magic-workings-plan.md:22-24 call the
   completion crash-safe and the replay idempotent.

The others were met while modelling. The module states the property that fails, or
has the step that breaks one, and the passing runs leave it out; no run is spent on them:

| where | what happens | in the model |
|---|---|---|
| multiplayer/host/pump_delivery.rs:13 | edits are broadcast to playing guests only: one made to a safety chunk after it was sent and before the guest is accepted never reaches it | `EntryTerrainCoherent` of `ChunkStreaming` fails |
| multiplayer/host/streaming.rs:299 | a `RequestChunk` whose payload is not cached starts an encoding and is forgotten; `sent_chunks` and the client's `wants` keep both sides from trying again | `HolesAreFilled` of `ChunkStreaming` fails |
| arcane.rs:1178 | load restores a backup with two writes, ledger then journal; dying between them leaves a ledger the manifest verifies beside an empty journal, and acknowledged transactions are gone | `AcknowledgedSurvives` fails with `RestoreInterrupted = TRUE` |
| arcane.rs:1462 | an id allocated for a transaction that is then refused leaves a gap that every later system transaction trips over, after a restart too (the comment at 3822 says it leaves none) | `NoPermanentGap` of `ArcaneLedger` fails |
| arcane.rs:1281 | a checkpoint whose manifest update reports an error goes on with a ledger the manifest does not name | `AcknowledgedSurvives` fails with `"manifest"` in `MayFail` |
| multiplayer/host/moderation_actions.rs:10 | a kicked guest is gone before its departure is handled, so nothing interrupts its working and its Current stays reserved until the next start | `NoneIsStranded` of `Workings` fails |
| multiplayer/host/moderation_actions.rs:40 | a ban whose write fails has already removed the guest, who is neither banned nor disconnected | the first disjunct of `Ban` |
| world/persistence.rs:266 | a plain edit that is only in memory becomes the before side of the next placement's journal; dying after the journal and before the chunk leaves a world no start accepts | `NeverRefused` of `MaterialOps` fails |
| materials.rs:1036 | a start replays a placement whose chunk was saved and whose delta was not: `ensure_chunk` (world/persistence.rs:249) adopts the saved chunk first, and the adoption, which does not know the block as placed, counts it as natural and reserves it; then the operation records it as placed. A chunk that had none of the kind now has one block more in the ledger than in the ground, although docs/finite-materials-plan.md:113 says that "materializing a chunk reserves the exact ore mass represented by its blocks" and :326 that the updates are crash-safe and idempotent | `Book!Accounted` of `MaterialOps` fails with `Natural = {}`; `Unmined` of `MaterialBook` is what holds instead |
| world/material_transactions.rs:34 | a failed chunk or delta write keeps its journal, which the next operation overwrites | `MemoryIsDurable` fails with `"chunk"` or `"delta"` in `MayFail` |
| multiplayer/profiles.rs:274 | a new player's profile that lands with an error is not in the store: the next join makes a second player who claims the same principal, and later starts refuse the store | `StoreAlwaysLoads` fails with `AnyMayFail` |
| game/session/departure.rs:36 | a host that saves and quits drops its session without saving the guests seated in it: what they did since they joined is gone, although the comment says "after durable save" and docs/multiplayer-identity-plan.md:48 that player state survives reconnects | `QuitKeepsProgress` of `GuestSession` fails |
| multiplayer/host/damage.rs:111 | a guest that dies in a dungeon scatters what it carries on the host, while its own client keeps it in view and requests_movement.rs:281-284 and the dungeon brief (capability e10, line 58) say nothing is scattered | `DungeonKeepsBelongings` of `ItemCustody` fails |
| multiplayer/host/pump_guest_state.rs:69 | regeneration does not ask whether the guest is alive: a dead guest is mended, and its `Respawn` is then refused, so that it wakes where it died | `Mend`, then `Respawn` |
| game/navigation.rs:202 | closing a screen returns cursor and craft grid to the pack in the guest's view only; no message says so. The next echo puts the cursor back; what is in the grid stays on the host, invisible, and vanishes when the guest leaves, because no profile holds the grid | `lost` in `Leave` |
| multiplayer/host/pump_delivery.rs:27 | what is owed to a guest that has just left is taken from the queue and given to nobody | `lost` in `Given` |
| game/remote/containers.rs:96 | contents still under way when a chest is closed open its screen again; the host, for whom it is closed, ignores the clicks (replies.rs:62) without the echo that exchange.rs:49 promises | `Seen`, `ContainerClick` |
| game/actions/block_use.rs:421 | a placed item leaves the view at once, and a refused placement is not answered (requests_terrain.rs:113): only the once-a-second state repairs the view, and a creative world sends none (pump_guest_state.rs:186) | `UsePlace`, `Refuse`; `ViewsSettle` needs `Tick` |

## 8. What is not modelled, and why

- Inside the modelled parts. `SavedTerrain` leaves out the structure, water, ecology and
  ledger steps of adoption (they either leave a chunk alone or mark it edited, which
  `Insert` allows) and the sidecar files of a save. `ChunkStreaming` leaves out entity
  snapshots, observations, changes of view distance, the 32 requests a second a guest may
  make and the chunks a pump may adopt (neither binds with two chunks), the host's own
  residency sweep, and the validation of moves. Snapshot pools start with all their threads.
  `ArcaneLedger` leaves out genesis, migrations, audits, mod origins and load's own I/O
  errors.
  `MaterialOps` leaves out deposits, provenance of items and the geography's own files.
  `Workings` leaves out discovery, mana amounts, dross, implements' wear and the preview;
  its Fieldmend has the two slots as one place and stands for its material delta by the
  linked commit. `ItemCustody` leaves out armour, crafting, eating, buckets, furnaces, stalls,
  machines and mob cargo (containers of other shapes with the same click), identities of
  items and their Current, wear, and where things lie: reach is a free choice between
  handling and `Refuse`, and anyone alive may be nearest to a drop. `GuestSession` leaves out names, content negotiation, terrain (it is in
  `ChunkStreaming`), link codes and the audit log.
- Simulation, machines, rails, power: numerical rules on random streams, with little
  control state to check.
- Planet atlas, world generation, registry parsing, meshing: deterministic pure
  functions over large data, out of reach of a model checker.
- Transport, wire format, identity: external protocols and cryptography. The models use
  a reliable ordered stream that may end at any time, and lossy datagrams.
- Presentation, capture tools, audio, the headless agent's tool surface: no protocol state.

## 9. Plan

The order follows what a player would lose: the world's bytes first (done: palette,
regions, adoption), the pools everything runs on (done), what guests see (done for one
guest), ledgers (done: Current, finite materials), transactions over several files (done:
workings, Fieldmend, profiles and bans), several players (done: items and one chest), then the rest.

1. **Proofs**: done for every safety property that a passing run checks. What is modelled
   next is to come with its invariant proved.
2. **Trade** (`player_ops/trade.rs`, stalls) and furnaces beside `ItemCustody`: two owners of
   one container, and outputs that are only taken, in the sum of `ItemsConserved`.
3. **Operation** and world creation (`background/operation.rs`, `world/creation.rs`):
   cancellation against completion, one rename. **SleepVote** (`pump_sleep.rs`).
4. Two guests in `ChunkStreaming`, sharing encoder and cache; the host's residency sweep.
5. The retrogen pass (`world/chunks/material_retrogen.rs`) beside `MaterialOps`, and alchemy and
   dross beside `Workings`: the same linked commit with effects of their own.

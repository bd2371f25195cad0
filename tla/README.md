# ShardVault: TLA+ models and proofs

ShardVault is an object store: a leader appends objects to segment files,
commits them through a write-ahead log (WAL), ships the log to followers, and
compacts segments; objects can also be striped over nodes with an erasure
code. This directory models it in TLA+, checks the models with TLC and proves
the central facts about the log and about the CRC tables with TLAPS.

Paths below are relative to the repository; `core/` is
`crates/shardvault-core/src/`, `node/` is `crates/shardvault-node/src/`, `ec/` is
`crates/shardvault-ec/src/`.

## 1. Inventory

| Part | State | Operations | Interacts with | What is hard about it |
|---|---|---|---|---|
| WAL, `core/wal.rs` | file, buffer, next LSN | append, append_at, sync, open (replay + truncate), scan | store, backfill | a crash inside sync, torn blocks, failed writes, restarts in a row |
| Segment store, owner side, `core/segment.rs` | index, put locations, aggregates, segments, allocator, snapshot | stage_put, sync_wal, commit, flush, drop, compact_stage, compact_commit, open/recover, get, value_at | WAL, files, client threads, readers | calls of several clients interleave; crash at every fsync; compaction swap; calls that fail half-way |
| Segment store, follower side, `core/segment.rs` | the same, plus pending swap and retired segments | apply_record, sync_all | WAL, leader | swaps rebuilt from the follower's own files; deletion only after a durable commit |
| Leader, `node/node.rs` | commit index, per-follower match index, committed-through, queue | process_put, process_compact, await_quorum, handle_backfill, dialer, writer, client handler | store, followers, clients | quorum counting, reconnects, lost frames, stale acknowledgements, reads racing commits |
| Follower, `node/node.rs` | store, current connection | connect, apply loop, sync barrier | leader | duplicates, restarts, records discarded by recovery |
| Wire protocol, `node/protocol.rs` | none | send_frame, recv_frame | nodes, clients | pure I/O |
| Prefix aggregates, `core/rollup.rs` | sizes, aggregates | record, deltas_for, get | store | overwrites, wrapping deltas, nested and empty path parts |
| Block format and CRC, `csrc/block.c`, `core/ffi.rs` | CRC tables | encode, decode, checksum | WAL, stripes | torn and damaged blocks; first use of the tables from several threads |
| Erasure code, `ec/` | none | GF(2^8) arithmetic, matrix inversion, encode, reconstruct | stripes | every erasure pattern |
| Stripes, `core/stripe.rs` | shard files | write, read | erasure code | writers that stop, readers that run meanwhile, damaged shards |
| Fault injection, `core/fault.rs` | fsync counter | maybe_fail | WAL, store | test scaffolding |
| `node/main.rs`, `node/bin/svctl.rs`, `harness/` | none | command line, test drivers | nodes | out of scope |

Properties the documentation promises (`DESIGN.md`): only committed records
survive (3), ACK implies durable (4), quorum safety (5), read-your-writes (6),
follower convergence (7), erasure-code exactness (8-11), aggregate exactness
(12), compaction crash-safety (13), unique segment ids (14), read isolation
(15). `PROJECT.json` lists, under `hazards`, the places where the code could
break them and the properties that would notice.

## 2. Modules

| Module | Models | Kind |
|---|---|---|
| `WalFormat` | the log file as a sequence of blocks; `Scan`, `Replay`, `HighWater`, `CutShort` | operators |
| `Wal` | `struct Wal` and its crashes | state machine |
| `Rollup` | `core/rollup.rs`: prefixes, deltas, counters | operators |
| `RecordSize` | the size of each record after `encode_record` | operators |
| `SegmentStore` | the owner side of `Store`, with the order in which the leader's client threads call it | state machine |
| `KVStore` | what a store promises: an atomic, durable key-value store | abstract specification |
| `FollowerStore` | the follower side of `Store` beside its leader's `SegmentStore` | composition |
| `Replication` | leader, links, followers, clients over stores reduced to their logs | state machine |
| `Bytes`, `Block` | block codec and CRC-32C of `csrc/block.c`; a block that is written and damaged | state machine |
| `CrcInit` | `sv_crc32c_ensure_tables` under several threads | state machine |
| `Gf`, `Matrix`, `ReedSolomon` | `ec/gf.rs`, `ec/matrix.rs`, `ec/rs.rs` | operators |
| `Stripe` | `core/stripe.rs` on top of the erasure code: writer, reader, lost and damaged files | state machine |
| `MCSegmentStore`, `MCFollowerStore`, `MCBlock`, `MCStripe` | keys, contents, objects, symmetry for TLC | model checking |
| `WalFormatProofs`, `WalProofs`, `CrcInitProofs` | theorems | proofs |

Operators named `X_Something` with the comment "Seeded fault" are mutated forms
of the definition `X` that follows them; no specification uses them. `PROJECT.json`
pairs each with the property that must notice it.

### WalFormat and Wal

A block is a record with its LSN, a tag (`data`, `commit`, `torn`) and, for a
Commit, the LSN it names. `torn` stands for any bytes that do not decode: a
short read, a CRC failure, an unknown record. `Wal.file`, `buf` and
`next_lsn` are the fields of `struct Wal`; `dirty` is `buf # <<>>`. `synced` is
the length covered by `sync_data`.

`SyncBegin`/`SyncEnd` split `Wal::sync` between `write_all` and `sync_data`,
because a crash there leaves any prefix of the buffer, possibly with a torn
block. `SyncError` is `write_all` or `sync_data` failing: the code returns
before `buf.clear()`, so the buffer stays. `Open` is `Wal::open`: replay,
truncate, continue past the high-water mark.

Two crashes are told apart. After a *process crash* the page cache survives,
so everything handed to `write()` is still there. After a *power loss* only
the fsynced prefix is sure to be there. `role` says whose log it is: a leader
calls `append`, a follower `append_at` with the LSNs it receives. `failed`,
`acked` and `issued` are history variables: whether a sync has failed since the
log was opened, the Commit blocks whose sync returned Ok while none had, and
the LSNs made durable.

### SegmentStore

`inner`, `snap`, `log` and `disk` are `struct Inner`, the published `Snap`,
the WAL and the segment files. Mutating methods hold the store lock, so each is
one action, except that `sync_wal` and `commit` are split where the WAL is
being written, since a crash there is observable; the lock is held in between.
`pc` and `batch` are the program counter and local variables of the client
threads in `process_put` and `process_compact`, whose store calls interleave.
`Abandon` is the quorum error of `await_quorum`: the batch's records stay in
the log.

A key is the sequence of the parts between its slashes, so that its prefixes
and, through `PartLen`, the sizes of its records follow from it. `RecordSize`
decides whether a `Put` or `AggDelta` fits a block; one that does not ends
`stage_put` part-way. `Chunks` is the loop of `compact_stage` that fills
`SegmentRemap` records up to `RemapBudget` bytes; an entry larger than the budget
keeps that loop from ending, with the store lock held (`pc = "spinning"`).

A value is a run of cells that carry the number of the put that wrote it.
`OpenWal` and `Recover` are the two halves of `open_with_options`; `Recover`
either repairs the segment files or ends in `status = "corrupt"`.

Assumptions about the environment: directory operations (create, rename,
unlink) and truncation are durable at once; a failed open is not retried;
segment I/O does not fail.

`KVStore` is the abstract specification: reads of a key only move on to newer
puts, an acknowledged put can be read, and neither a crash nor a reopening takes
a read back. `ImplementsKVStore` instantiates it with `kv` mapped to what `get`
returns from the published snapshot (for a closed store, what it last
returned). Its variables are not code and have no entry in `map`.

### FollowerStore

The leader is `SegmentStore` itself with one client, whose actions are taken as
they are, except that `sync_wal` is one step (the leader does not crash here);
the follower `fo` has the same `Inner`, log and files, plus
`pending_swap` and `retired_segments`. `apply_record` is a function from a store
and a record to a store and a success flag, with one operator per record kind;
an error leaves the follower `"stuck"`, because `apply_loop` then leaves the stream
while the connection stays open. `BarrierBegin` and `BarrierEnd` split `sync_all`
where the WAL is written. `Connect` is `NeedFrom` and the backfill it is answered
with; `conn.lost` is the last frame that was popped from the leader's queue for a
connection that has died, or 0 when it lies below the commit index, since every
backfill then sends it again.

With `Orderly = TRUE` two sequences are excluded that the code does not survive
(section 6): a follower reconnects while a batch it lost is still uncommitted on
the leader, and a compaction follows one that was given up. The `follower` run
shows that nothing else goes wrong; `follower_killed` drops the restriction.

### Replication

`store`, `commit_index` and `link` are the leader's `Store`, its atomic commit
index and its `FollowerLink`s together with their connections; `replica` is the
follower's store. `pc` walks through `process_put` and `process_compact`
one store call or atomic access at a time: stage, sync, send, wait, commit,
(swap,) store the index, reply. A GET loads the commit index in one step and
reads in another. `Dial` ends with the load of `commit_index` at the start of
`handle_backfill`, `Backfill` is the rest of it, so live frames may be queued in
between. `Deliver` is one turn of `writer_loop` and `apply_loop` together: what
is in flight is visible to the follower only, so a frame counts as queued until
the follower handles it, and `Broken` lets a failing connection lose any number
of frames from the head of the queue. Likewise the last acknowledgement on its
way is a register, lost with the connection.

`FollowerCrash` and `LeaderCrash` include the restart: recovery keeps the log
up to its last Commit, a restarted leader starts from `HighWater`. Fairness is
weak fairness of each running thread (client handler, dialer, reader, writer),
which an OS scheduler provides; failures and requests are not fair.

Abstractions: the records of a compaction are one record; segment files, and
with them the errors of `apply_record`, are left to `FollowerStore`; `send_batch` reaches all
queues in one step, which only two clients could tell from one queue at a time.

### Block and CrcInit

Integers stay bytes: a 32-bit word is its four bytes in little-endian order, so
shifts by eight and the masks of `block.c` are plain indexing, and the CRC is
computed with the same tables as in the code. `Block` has one block on disk which
is written, then damaged in one byte or torn at sector boundaries.

`CrcInit` walks each thread through `sv_crc32c_ensure_tables`. C11 release and
acquire are modelled by `visible[t]`, the rows whose writes happen before `t`'s
next step; a first load may miss a store that nothing has told the thread of.
`MCBlock` composes the two: blocks are coded once the tables are there.

### Erasure code and Stripe

`Gf` builds the code's `exp`/`log` tables, `Matrix` has the Gauss-Jordan
elimination column by column, `ReedSolomon` encodes and reconstructs. `Stripe`
writes the shard files block by block, and may stop anywhere; files are lost or
blocks fail their CRC; the reader takes the files one at a time while the writer
may still be at work. `MCStripe` adds single calls of the library for the two
properties about its arithmetic.

## 3. Runs

Bounds are named in the configurations; each is the smallest at which the
behaviour in question happens, and a seeded fault (see `mutants` in
`PROJECT.json`) confirms for every property that it does.

| Run | Bounds | Result |
|---|---|---|
| `wal` | a leader's log with LSNs up to 3, or a follower's with 3 records at LSNs 1..3, repeats and gaps; one crash of each kind, one failed sync | acknowledged commits stay, a leader's LSNs ascend, the durable log only grows, also over failed syncs |
| `store_process` | one client, keys `p` and `p//b`, 4 puts in segments of 3 cells, one compaction, one process crash | store properties and refinement of `KVStore` hold |
| `store_power` | one client, the same keys, 3 puts of 0 or 3 cells in segments of 2, one compaction, two power losses | opens, exact aggregates, refinement of `KVStore` |
| `store_threads` | two clients, 4 puts of one cell in segments of 2, a key that fills a remap record and one that no `Put` record holds, one compaction, one process crash | holds under interleaving |
| `store_deep_key` | one failing put, one crash | violated, see 6 |
| `repl_failures` | one client, 2 followers, 2 puts, a compaction, GETs, one failure: connection, follower or leader | acknowledged puts, reclaimed values and records stay consistent; requests are answered |
| `repl_quorum` | one put, one broken connection | violated, see 6 |
| `repl_reads` | two clients, one key, 2 puts, no failure | violated, see 6 |
| `follower` | leader with one client, 3 puts, 2 compactions, one crash of the follower (killed or power loss), `Orderly` | same log and layout as the leader's, readable, catches up |
| `follower_killed` | the same with one compaction, not `Orderly` | violated, see 6 |
| `stripe` | k = m = 2, objects of 0, 1 and 3 bytes, blocks of 2, up to 3 lost or damaged files; all bytes for `gf`; codes 1+1, 3+2, 4+3, 6+3 | exact up to m erasures, never wrong |
| `block` | payloads of 0, 3, 11 (full) and 12 (refused) bytes, every damaged byte, every set of lost 8-byte sectors, 3 threads | damage is detected; CRC-32C is right; tables are complete when used |

Why these bounds: four puts in segments of three cells are what it takes for a
sealed segment that holds a dead and two live values, so that a remap has two
entries and, with `PAYLOAD_MAX = 49`, may need two records. In `store_threads` four
puts are a dead and a live value of one key, a put that seals their segment, and
one that overwrites the live value between `compact_stage` and `compact_commit`.
In `store_power` every value that is not empty is larger than a segment. `U64 = 64` makes a shrinking object wrap. Two compactions on the leader are
what a backfill can carry without a barrier in between. The invariants
of `follower`, without `CatchesUp`, have also been checked with four puts to the
keys `p` and `q` (1.1 million states).

`CHECK_DEADLOCK FALSE` stands where the owner of a log or store may stop calling
it, a store that fails to open stays closed, or all bounded requests are done.

The store properties:

- `ImplementsKVStore`: every behaviour is one of `KVStore` (section 2); in particular an acknowledged put is read back, and a value once read is not replaced by an older one by a crash.
- `AckedReadable`: the part of it that also holds with two clients: an acknowledged put, or a later one to its key, is read back, and the store opens.
- `IndexReadable`: every index entry, staged or published, reads the complete value of its own put.
- `BackfillServable`: every committed put above the compaction horizons is still there for a backfill.
- `OpenSucceeds`, `SegmentIdsUnique`: as their names say.
- `AggregateExact`: for every prefix, the published counters equal a recount of the keys listed under it.
- `AggDeltasAddUp`: the `AggDelta` records of the log sum up to the counters.
- `RecordsFit`: the chunk loop agrees with `encode_record`.
- `RecoveryReproducesState`: with nothing staged and no compaction given up, replaying the log rebuilds the running state.
- `SegmentsAppendOnly`: no step changes cells an older snapshot may read.

The replication properties:

- `AckedOnLeader`: an acknowledged put survives every restart of the leader.
- `ReclaimedNotNeeded`: compaction never reclaims a value that a backfill can still ask for.
- `NoConflictingRecords`: no LSN names different records on two nodes.
- `RequestsAnswered` (liveness): with one failure, every request is answered.
- `CommittedOnMajority` (violated): what is committed is in the durable log of a majority.
- `ReadYourWrites` (violated): a GET returns the put acknowledged before it began, or a later one.

The follower properties:

- `FollowerLogMatches`: its log is a prefix of what the leader has sent.
- `FollowerGoesOn`: its store opens after every crash and `apply_record` accepts every record.
- `FollowerLayoutMatches`: between swaps its index, counters, segments and append position are those of the leader's log.
- `FollowerReadable`: its index reads complete values of the right puts from its own files, also during a swap.
- `BackfillAvailable`: whatever it would lose in a crash now, the leader still has the values to send again.
- `CatchesUp` (liveness): again and again it has everything the leader has sent in its durable log.

Stripes and blocks:

- `StripeTransparent`, `NeverWrong`: a read after a complete write gives the object back up to m erasures and `TooFewShards` beyond; a read at any other time gives the object or an error.
- `GfIsField`, `AnyKShardsSuffice`: multiplication is that of polynomials modulo 0x11D on all pairs of bytes; any k shards rebuild the others.
- `RoundTrip`, `DamagedByteDetected`, `TornWriteDetected`, `CrcIsCrc32c`: decode inverts encode, and a block that is not what was written does not decode to something else.
- `TablesCompleteWhenUsed`, `TablesFrozenWhenReady`, `SpinningEnds`: nobody computes with half-built tables, nobody writes them again, nobody spins for ever.

Fairness. `repl_failures`: weak fairness of each running thread (client handler,
dialer, reader, writer), which an OS scheduler provides; failures and requests are
not fair. `follower`: weak fairness of `Connect` (the dialer redials for ever) and
of the apply loop; the leader may stop. `block`: weak fairness of each thread.
The WAL and the store are passive, so no liveness is claimed for them.

`RequestsAnswered` needs the bound of one failure: with two, both followers may
be connected and never acknowledge, and `await_quorum` does not give up.
`NoConflictingRecords` is checked for one restart of the leader, since two in a
row reuse LSNs, and `ImplementsKVStore` for one client (section 6). `AckedDurable`
leaves out commits acknowledged between a failed sync and the next `Wal::open`, and
`LogOrdered` everything after a failed sync, since the code writes the buffer again. The type invariants `StoreTypeOK`, `ReplTypeOK`, `FollowerTypeOK`,
`StripeTypeOK` and `BlockTypeOK` say what the variables range over; they hold on
the same instances and are not part of the configurations.

## 4. Proofs

`WalProofs` proves, for every value of the constants:

- `TypeCorrect`: `Spec => []TypeOK`.
- `DurableLogIsAppendOnly`: `Spec => DurableLogAppendOnly`, with no condition. Every step but `Open` leaves the fsynced prefix in place (`DurableLogGrows`), so monotonicity of replay gives the result. `Open` truncates, but only behind what the replay of the fsynced prefix keeps (`OpenKeepsDurableLog`), by monotonicity and idempotence of replay.
- `AckImpliesDurable`: `Spec => []AckedDurable`. The strengthening `NoTornBlocks` says that a running log has no torn block before its append position until a sync fails; without it a new Commit could be out of a scan's reach, which is what happens after a failed sync (section 6).
- `LeaderLogOrdered`: `Spec => []LogOrdered`. The strengthening `OrderInv` adds that a stopped log has an empty buffer.

They rest on `WalFormatProofs`: `ReplayProperties` (replay keeps exactly the
blocks up to the last Commit a scan reaches), `ReplayMonotone` and
`ReplayIdempotent`. The `CHOOSE`s in `Scan` and `Keep` get their witnesses from
the least-element principle (`LeastNat`).

The constants are assumed to be natural numbers (`BoundsAssumption`) and
`ExplicitLsns` a set of positive ones.

`CrcInitProofs` proves, for any set of threads (assuming only that `NoThread` is not
one of them):

- `CrcTablesSafe`: `CrcInitSpec => [](TablesCompleteWhenUsed /\ OneTableBuilder)`.
- `CrcTablesFrozen`: `CrcInitSpec => TablesFrozenWhenReady`.

The inductive invariant `CrcInv` adds `TablesPublished`, which says what the flag
and the lock have released: before the flag is set only the lock holder sees any
row, afterwards every release carries all of them. `TablesCompleteWhenUsed` alone is
not inductive, since it says nothing of the rows a flag that reads 1 hands on.

Only model-checked: `SegmentStore`, `KVStore`'s refinement, `FollowerStore`,
`Replication`, `Block`, the erasure code and `Stripe`. Out of the prover's reach:
liveness and `ENABLED`, and induction over data, which the folds over logs,
the CRC and the matrix operations would need.

## 5. Plan

Every component whose behaviour is more than I/O now has a module. What would come
next:

1. A follower that reconnects without a restart, with the duplicates it receives, in `FollowerStore`.
2. Stripes that are written twice.
3. Proofs: segment allocator, append-only segments, replication safety.

## 6. Disagreements between code and documentation

Four are runs that end in a violation; `findings` in `PROJECT.json` quotes the
text.

- `store_deep_key`: a put that fails on its `AggDelta` leaves its `Put` record in the buffer; after the next commit the store does not reopen.
- `repl_quorum`: a frame popped by the writer is lost with the connection; the follower then acknowledges the batch without its Put.
- `repl_reads`: `commit` publishes a put before `process_put` stores the commit index, and `get_upto` answers `None` when the published put is above the index it was given. A GET that runs while its key is overwritten finds nothing, although an earlier put to the key was acknowledged. The same happens when two clients store their commit blocks in the opposite order and `commit_index` moves back.
- `follower_killed`: a follower that restarts with an uncommitted batch in its log discards it; the backfill ends at the commit index, and when the batch is committed only its Commit arrives. The logs differ from then on.

The others are reproduced by changing a configuration as indicated:

- LSNs are reused (`DESIGN.md:20`, `core/wal.rs:27`: "never reused"): the high-water mark survives one restart but not a second one without a commit in between. `wal` with `MaxProcessCrash = 2`, `MaxIoErrors = 0` and the invariant `LsnsNeverReused`.
- An acknowledged commit is lost after a failed write (`DESIGN.md:24`): the log is not cut back, and later commits stand behind a torn block until the next `Wal::open` cuts them off. `wal` with the conjunct `~failed` of `AckedBy` left out and the invariant `AckedDurable`.
- Aggregates are ahead of the listing with two clients (`DESIGN.md:69`): a commit publishes counters that include another client's uncommitted put. `store_threads` with the invariant `AggregateExact`.
- A reader sees a put that a crash takes back (`DESIGN.md:90`: readers "observe only committed, fully-written values"): `compact_commit` publishes another client's staged put. `store_threads` with the property `ImplementsKVStore`.
- A process crash followed by a power loss leaves a store that does not open (`DESIGN.md:77`): recovery deletes a replaced segment relying on a Commit that was written but not fsynced. `store_process` with `MaxPowerLoss = 1` and the invariant `AckedReadable`.
- Compaction never returns for a live key of 4040 to 4057 bytes (`core/segment.rs:598`): it fits its `Put` record and no `SegmentRemap` record, and the loop emits empty records with the lock held. `README.md:79-82` says that such a segment "is rewritten". `store_threads` with a `wide` part of `PAYLOAD_MAX - 32` and the invariant `CompactionReturns`.
- A key without a non-empty part (`""` or `"/"`) is counted in the root aggregate and never listed. `store_power` with `Keys = {<<"">>}` and `AggregateExact`.
- A compaction that was given up for lack of a quorum and is repeated stops the follower: it has already finalised the first swap, and the remap source no longer matches (`core/segment.rs:760`). `follower` with `Orderly = FALSE` and `FollowerGoesOn`.
- Half of an even cluster is taken for a majority (`node/node.rs:99`; `DESIGN.md:31`). `repl_quorum` with three followers and no failures.
- With two clients batches reach followers out of order, and `commit_index` may move back (`DESIGN.md:111`: "PUTs are processed one at a time on the leader", which no lock enforces). `repl_reads` with `CommittedOnMajority`.

One comment is inaccurate without effect: `core/ffi.rs:97` says that success
"guarantees a fully initialized struct", while `sv_block_decode` writes only the
payload bytes in use; the others are not read.

## 7. Not modelled

- Wire encoding (`node/protocol.rs`): framing without state.
- Command lines, `svctl`, the harness, error values: no protocol state.
- `SimulateFailure`, Status, List and Capacity requests: the first only marks a link dead, the others read.
- I/O errors of segment files, and directory operations that are not durable at once.
- A follower that reconnects without a restart while it holds uncommitted records: `FollowerStore` cuts the connection only by a restart. It would receive those records again.
- A stripe id that is written a second time: shard files are truncated in place, so a crash may leave shards of two objects that all pass their CRC. Nothing in the repository overwrites a stripe.
- `mul_tables` of `ec/rs.rs`, which is `gf::mul` tabulated, and NULL arguments in `csrc/block.c`.

Each component's status and reason are under `components` in `PROJECT.json`.

# A TLA+ model of the Dogecoin indexer

TLA+ modules, TLC configurations and TLAPS proofs for the services under
`src/services`. `PROJECT.json` maps every definition to the lines it models,
lists the components with their status, and the hazards the properties answer.

## The system

    dogecoind -P2P-> compressor -gRPC-> polyphony -> TiKV  <- mapi (REST)
                      (RocksDB)             \-> Redis <- tikv-gc -> PD

* **compressor-xdg** follows a node. `pull` asks for headers and blocks and
  queues events; `roll` applies them to a RocksDB database (`ChainDB`): the best
  chain, its outputs, dunes, inscriptions and DRC-20 tokens, an entry per block
  for undoing it, and a log of recent updates. `health` reports the height.
  Clients read pages of blocks, or a stream that replays the log.
* **polyphony-xdg** runs one indexer instance: a source (pages, then the stream),
  reducers (block to storage actions), and a storage worker that commits to TiKV.
  In bulk mode blocks are batched; in mutable mode each block commits with the
  inverse actions that undo it. A mutable commit publishes a cursor entry (block,
  timestamp) and registry scores in Redis.
* **tikv-gc** reads the entries, chooses an MVCC safepoint, prunes the entries
  below it and submits it to PD.
* **mapi-xdg** finds an instance per table through the registry, opens a snapshot
  and answers page by page.
* **daw** deletes what an instance stored; **timbre-xbt** defines keys and values.

## Modules

| Module | Models | State and actions |
|---|---|---|
| `BlockTree` | the network's block tree (external) | constants only |
| `ChainFollower` | what a follower of one branch promises | abstract: one position; `Forward` and `Backward` along a branch |
| `ChainDB` | `storage/mod.rs`, `storage/mutable`, `sync/roll.rs` | block table, log, in-memory hash and sequence number; one action per transaction (`RollForward`, `RollForwardFlushFails`, `RetryForward`, `RollBack`, `Restart`) |
| `WalStream` | `serve/grpc.rs`, `stream_mutable` | a stream's position, iterator and waiter; extends `ChainDB`, so the roll stage interleaves with each of its steps |
| `Sync` | `sync/pull.rs`, `peer.rs`, `sync/health.rs`, `sync/mod.rs` | node, connection, locator, queue, reports; each await of the pull stage is a program counter; extends `ChainDB` |
| `Tables`, `Dunes`, `Inscriptions` | `runes/updater.rs`, `inscriptions/updater.rs` | operators: what one transaction does to dunes, inscriptions and tokens |
| `Ledger` | `txos/mod.rs`, `apply_block_with_context`, `rollback` | the tables of one database and the output cache; `Apply`, `ApplyFails`, `RollBack`, `Restart` with blocks chosen from a library of transactions |
| `KvActions` | `polyphony-xdg/src/model.rs`, `storage/tikv.rs` | operators: storage actions, their merging, execution and inverses |
| `Reducers` | the 20 reducers and the conversions of `serve/grpc.rs` | operators: the storage actions of a block |
| `Polyphony` | `SyncBatcher`, `apply_actions`, rollback on values | key-value store, batch, inverses; composes `Ledger`, `Reducers` and `KvActions` |
| `Storage` | `storage/tikv.rs`, `rollback/buffer.rs` | one action per TiKV transaction or Redis write, the `work_unit_2pc` lock, worker and process restart |
| `Indexer` | source worker, queue, daemon | composes `Storage` with a compressor that extends and reorganises |
| `SafePoint` | `tikv-gc` | a run against instances that commit, publish and index, and requests that read |
| `Instances` | instances as readers see them: keyspace, registry | `Apply`, `Undo`, `Advertise`, `Retire` |
| `Daw` | `daw/src/commands.rs`, delete instance | one action per transaction of a deletion; extends `Instances` |
| `Reads` | `key_resolver.rs`, `polyphony.rs`, `util.rs`, `utxos_by_address.rs`, `inscriptions_by_address.rs` of mapi | a request's look-ups, snapshot, scan and answer, and a client that asks for page after page; extends `Daw` |
| `BlockTreeProofs` | | induction and recursion over the tree, `Chain` |
| `ChainDBProofs`, `StorageProofs`, `IndexerProofs`, `ReadsProofs` | | theorems about the module they are named after |
| `CompressorProofs` | | theorems about `WalStream` and `Sync` |
| `InstancesProofs` | | scans of ordered keys in batches, keyspaces, deletions (`Instances`, `Daw`) |
| `TikvProofs` | | theorems about `KvActions` and `SafePoint` |
| `MC*` | | instances for TLC |

**Abstractions.** In the modules about order and crashes (`ChainDB`, `Sync`,
`Storage`, `Indexer`) a block stands for its height and hash, and in `Storage` a
value is the sequence of blocks applied to its key, so that "once and in order"
is visible in the data. In the modules about contents (`Ledger`, `Polyphony`)
transactions are records of what the code decodes from them, and delivery is
immediate. `Instances` takes from the others that each commit leaves the tables
of the cursor's block; its keys are numbers in the order of timbre-xbt's
encoding. Integers keep their width where the code wraps, saturates or truncates
(`MaxU`, `MaxAmount`, `MaxOffset`). Definitions marked `(variant)` are plausible
bugs; each property fails under one of them.

## Runs that pass

| Run | States | Shows |
|---|---|---|
| `walstream` | 115,326 | The table stays one branch, the in-memory hash is never stale, the log is a gap-free walk over the tree, and the database implements `ChainFollower` (`FollowsOneBranch`). A stream delivers only what its client can apply (`DeliveriesApply`) and, once woken, all that was logged (`WokenCatchesUp`). |
| `sync` | 229,250 | A page always continues a point of the locator, an empty table starts at genesis, `/health` tells the tip, and the database converges to the node's chain. |
| `dunes` | 16,787 | After any applies and rollbacks of etchings, mints, edicts and burns the tables are those of a replay of the chain (`TablesMatchChain`); the cache agrees with the tables; no dune has more units than its etching allotted and its counted mints issued; what polyphony indexes, in bulk or at the tip, is what the chain holds (`OutputsIndexed`, `DunesIndexed`). |
| `drc20` | 14,409 | The same for inscriptions in one or several transactions and for DRC-20; supply, balances and unused transfers add up; an inscription lies in no more places than it was revealed in, and numbers follow the order of reveals, without gaps between blocks and with a repetition only behind a reveal that goes to the coinbase (`InscriptionsWellPlaced`). |
| `indexer_tip` | 248,736 | At the tip data matches the cursor, entries are truthful, metadata is of one branch, reorgs within the buffer are found, the cursor implements `ChainFollower`, and the instance catches up. |
| `backfill` | 7,442 | Counted keys never run ahead of the cursor; no advertisement without an entry; the backfill completes. |
| `safepoint` | 2,271,850 | Each indexed instance keeps a published entry at or above the safepoint (`LatestReadable`). A request, which may take any time, loses its snapshot only once that is older than the safe zone and every indexed instance has published something newer (`ReadersSafe`). |
| `reads` | 328,059 | Every page is a page of the block it names (`PageOfItsBlock`); a listing over several requests and instances neither repeats nor loses an entry (`ListingExact`); a deletion that ends is complete; every request is answered. |

**Conditions.** Each is a result under stated conditions, and they matter:

* `indexer_tip` has two kinds of trials: a crash and a failed storage call while
  abandoned blocks stay abandoned, or failing source and storage calls while the
  chain may return to an abandoned block, without a crash. With a crash *and* a
  return `DataMatchesCursor` fails (`crash_mid_rollback`). It starts from an
  instance with persisted metadata, and its buffer is one larger than the deepest
  reorg: the buffer holds the rollback target too.
* `NeverOutOfRange` speaks of chains that do not return to abandoned blocks, and in
  the trials that have such chains the source does not fail. Were it to fail twice
  before the rollback of its first restart is consumed, the second could name a
  block that is already undone; the stage would end and the process start again.
* `backfill` has no reorg and no source restart, and `advertise_immediately` is
  off.
* `InscriptionsIndexed` leaves out DRC-20 messages spread over several
  transactions, which the reducers overlook, inscriptions spent as a fee and
  inscriptions that were completed twice in one table, and offsets beyond 32 bits.
* `Drc20Conserved` adds up unless a transfer inscription in several transactions was
  completed twice: both copies lock an amount under one id, and a transaction that
  spends both returns one.
* In `dunes` every claim that is recorded as a mint is counted too, since the terms
  name an amount and the claiming edicts an existing output. Otherwise undoing the
  claim lowers a count that was not raised (`mint_undo`), and neither
  `TablesMatchChain` nor `DunesWithinTerms` holds after it.
* `LatestReadable` takes that a cursor entry is published within `Deadline` of its
  commit and that a run reads Redis within `Deadline`. No bound is put on requests.
* `PageOfItsBlock` speaks of answers that depend on several instances
  (`exclude_metaprotocols`, an address) only when those stand at the same block.
* `reads` starts a destruction (`--destroy-mode`) only when no request reads the
  range: it removes old versions too, so snapshots do not protect from it.

## Runs that show a disagreement

Each violates one statement of the repository; `findings` quotes it.

| Run | What happens |
|---|---|
| `lost_wakeup` | A commit between the end of a stream's iterator and `notified()` is not delivered until the next commit. |
| `crash_mid_rollback` | A crash after the undo transactions and before the metadata is trimmed; the chain returns to the undone block, which is then skipped. |
| `mint_undo` | A mint of a dune whose terms name no amount is recorded but not counted; undoing it underflows the count. |
| `dry_run` | `--destroy-mode` without `--force` removes the keys. |

They were found by model checking and read back against the source; they were
not reproduced on running services.

**Observations without a run.** Some have a statement in a module (named) that
TLC refutes with the constants given:

* An intersect behind an abandoned block of its height is not found in the log
  (`FindAsDocumented`, `WalStream`).
* Before the first mutable commit a restarted source resumes at the cursor while
  its blocks are still queued; they are applied twice. With
  `advertise_immediately` a Redis failure after a bulk flush drops a block and
  applies the batch again (`BulkDataMatches` with `Advertise = TRUE`).
* The point below the first mutable block need not be its parent
  (`InitPointIsParent`, `BatchSize = 2`).
* `daemon` never polls the pipeline that `sync` blocks on: a stage that ends leaves
  a server whose database stands still (`DaemonConverges`, `Commands = {"daemon"}`).
  A pull stage whose handler died before the handshake waits for ever.
* The premine does not bound what an etching issues. The new issue's balance is
  `u128::MAX`, and edicts with the id 0 take from it like the premine's own
  (`runes/updater.rs:81`, `:142`); the comment at `info_by_dune.rs:116` of mapi reckons
  "max supply = premine + (max mint txs + amount per mint)".
* Two inscriptions of one block may have the same number: a reveal without value in
  its outputs goes to the coinbase, and the counter goes up when it is placed there,
  at the end of the block (`inscriptions/updater.rs:230`, `:616`).
* A partial inscription is looked up by the txid that the first input spends, so
  that spending two outputs of one part completes the same inscription twice
  (`inscriptions/updater.rs:137`).
* The list of inscriptions of a miner's script may lack one that was spent as a
  fee by the same script: the coinbase is reduced first (`InscriptionsHeld`).
* A rollback to genesis cannot succeed; the locator asks for it only when fewer
  points than the reorg is deep are kept. A configured intersect comes after
  genesis in the options and never takes effect.
* Bulk commits publish no cursor entry. A reorg exactly `buffer_size` deep is out
  of range. Counters of zero are stored at the tip and not in bulk; readers see
  no difference (`BulkAndLiveAgree`).
* With a dunes or inscriptions instance behind the outputs' instance,
  `exclude_metaprotocols` lists outputs it should not; with a scripts instance
  behind, a new address has an empty page. The deletion of a dunes or inscriptions
  instance is not noticed by requests, as only the cursor of the listed table is
  read.
* `list_dunes`, `holders_by_dune` and `list_drc20s` accept `order` for the cursor
  and do not pass it to the scan. Confirmations are counted with and without the
  tip's own block. `utxos_by_dune` resolves etchings through the encoder of
  another table of the same group, which is harmless.

## Bounds

* **Trees** have four to eight blocks with forks of depth one and two, so that a
  reorg replaces one or several blocks and two branches share heights. `MaxSeq`
  leaves room for a rollback and new blocks; `Confs` is small enough for pruning.
* **Sync**: pages and queue of two, so that a page is sent in parts and the
  database lags; one fault of any kind, which may strike between any two steps.
  `Dense` covers the tree, as ten points do the reorgs Dogecoin sees.
* **Ledger**: libraries of five and eight transactions made so that they compete (two
  etchings of one name, one of which issues more than its premine, two mints for one
  place under a cap, a mint cut at the maximum, an inscription completed twice, a
  transfer that is moved or spent as a fee beside a new inscription); up to three blocks of up to
  three, in any valid choice and order, and one rollback to any height. Numbers
  are four or five bits wide, so they wrap.
* **Indexer**: `Trials` bounds blocks and rollbacks (`events`) and each kind of
  fault. Three or four events allow a rollback, its replacement and one more.
* **SafePoint**: the clock starts one safe zone after its origin (the real one is
  decades from it) and has room for two runs; two timestamps share a millisecond,
  which is what pruning rounds to; `Skew` is 0, and positive skew is covered by the
  proof.
* **Reads**: two instances, the second of which lags, serves all groups and may
  replace the first; two commits or undo steps, one retirement, three requests.
  Pages of one and two entries, batches of four, messages of three rows, so that
  every scan is filtered, halved or continued. Steps of a request that read only
  its snapshot are not interleaved with others, with which they commute.

Deadlock checking is off where the system really may come to rest: an instance
that has caught up after the last event, a node whose chain ends, a library that
is used up, a client that has its list.

## Fairness

Weak fairness, always of tasks that a runtime polls, never of the environment:

* `StreamSpec`: the stream's own steps. tonic polls an open stream.
* `SyncSpec`: handler, pull, roll and health stages, and the exit of the process
  when a stage has ended, which `sync` waits for and its container restarts.
* `Indexer!Spec`: source, storage worker and the restart after a panic. gasket
  runs each stage in a loop, and `daemon.rs` exits when one ends.
* `Reads!Spec`: the steps of a request. axum polls its handler.

Nothing is assumed of the node, of new blocks, of clients or of the operator, and
faults are finite.

## Refinement

`ChainFollower` is the abstract promise of everything here that follows a chain:
a position that moves up to a descendant or down to an ancestor, never across.
`ChainDB` implements it with its tip (`FollowsOneBranch`, checked and proved) and
`Indexer` with the cursor in TiKV (`CursorFollows`, checked, and proved under the
hypothesis below). `WalStream` and `Sync` implement `ChainDB` (proved). For contents the
reference is `Replay` in `Ledger`, the tables of the chain applied once to an
empty database, and for the index the tables of the compressor themselves.

## Proofs

They hold for every value of the constants that meets the named assumptions.

* `ChainDBProofs` (`TreeAssumption`, `ChainDBAssumption`): `TypeOK`, `ChainLinked`,
  `LastHashIsTip`, `WalContiguous`, `WalLinked` and the refinement
  `FollowsOneBranch`. None of the invariants is inductive alone. The prev-hash test reads the in-memory hash, so
  `ChainLinked` needs `LastHashIsTip`; a new log entry continues the one below it,
  so `WalLinked` needs `WalContiguous`. The inductive invariant is the conjunction
  of the five; the refinement follows from it, one lemma per action.
* `BlockTreeProofs` (`TreeAssumption`): what the others need of the tree. `Chain` and
  `Touching` are recursive functions over the tree; that such a function exists
  (`TreeRecursion`), and what it computes, are inductions over heights, written as
  arguments about a least counterexample.
* `CompressorProofs`, on `WalStream`: `StreamsOnlyRead` (a database beside a stream still implements
  `ChainDB`) and `DeliveriesApply`. The roll stage may have pruned or undone the entry
  that the client consumed last, so the invariant keeps that entry: what is left of
  the log, and of the iterator's snapshot of it, continue the entry, and the two
  agree where they overlap (`SInv`).
* `CompressorProofs`, on `Sync` (`SyncAssumption`): the pipeline implements `ChainDB`
  (`PipelineImplementsChainDB`), so the theorems about the database hold under every
  loss of connection and restart; `HealthReportsTip`, `IntersectKnown` and
  `EmptyTableStartsAtGenesis`. `SyncInv` adds that the last report under way is the
  tip, that a locator ends in the genesis block and a page continues it, and what an
  empty table is still to get.
* `StorageProofs` and `IndexerProofs` (`StorageAssumption`, `IndexerAssumption`): one
  lemma per step of the storage stage, then of the source; `AdvertisedHasEntry` when
  `advertise_immediately` is off, and, for an instance that follows the tip,
  `DataMatchesCursor`, `EntriesRead`, `MetadataOfOneBranch` and `CursorFollows`; see
  below.
* `ReadsProofs` and `InstancesProofs` (`InstancesAssumption`, `DawAssumption`,
  `ReadsAssumption`): `WipeComplete`, `PageOfItsBlock` and `ListingExact`; see below.
* `TikvProofs`, on `KvActions`: for any actions on any table, executing the inverses that
  were kept gives back the table (`UndoRestores`). Keys whose action kept none were not
  changed (`NothingToRevert`), and keys restored by an attempt before are set to the
  same value again; counters may saturate at both ends. One merged action has the
  effect of the two it merges (for counters where nothing overflows or underflows),
  and bulk and live execution read the same.
* `TikvProofs`, on `SafePoint` (`SafePointAssumption`): `LatestReadable` and
  `ReadersSafe`. The inductive invariant adds that what is in progress is within
  its deadline (`Times`), that a run's reads are still published and what it
  missed is recent (`FetchInv`), that a candidate is at or below an entry of every
  indexed instance and the chain tips not yet pruned (`PruneInv`), and that
  candidate and safepoint stay out of the safe zone (`Bounded`). The proof
  **assumes** that `2 * Deadline + Skew <= Zone`, where `Deadline` bounds how long
  an entry takes to be published and how long a run reads Redis. The code enforces
  neither: they are conditions on the deployment. How long a request reads is not
  bounded, neither by the code nor here: `ReadersSafe` says when it loses its
  snapshot.

**An instance that follows the tip.** The four theorems have two hypotheses.
`Resumed`: the instance starts with persisted metadata of an earlier run.
`NeverStoppedRollingBack`: the process is not stopped while a rollback is under way,
from the start of its unit to the end of trimming; `crash_mid_rollback` shows
that without it the result is false. Everything else is free: any number of
crashes, failed storage calls at any step of any unit, source faults, reorgs of any
depth (one below the buffer ends the stage, and the process starts again), returns
to abandoned blocks, and any tree, buffer and page size. The inductive invariant
`FollowInv` says that

* the in-memory buffer is the top of one branch, each block but the lowest with the
  inverse that restores its parent's data (`Buffered`), and the persisted metadata
  covers the same branch from below the buffer to its top, or down to where
  trimming stands (`Persisted`);
* data and cursor are those of the top; during a rollback to p, every key that no
  block still to be undone touches has p's value (`Data`). This is why a rollback
  that failed half-way may run again from the top: the oldest block that touched a
  key is undone last and restores the same value each time;
* what is queued continues what the worker will stand at, and the source stands
  where the queue ends (`Queued`, `Sourced`); a new process receives a rollback
  first, so the worker is in mutable mode before any block;
* the log that streams replay continues itself (`Logged`).

One lemma per action shows that it is preserved, on top of lemmas about
`AddBlock`, `RollbackToPoint`, `LoadedBuffer`, `PutMeta`, `DropMeta` and `Expected`.

**Readers and deletions.** A page is built from scans that are limited, filtered,
continued and halved, over keyspaces that instances write and `daw` deletes; a
listing is built from pages of different instances at different blocks. The theorems
hold for any tree, number of instances, batch and message size, page size, order,
filter and cursor. `ReadsAssumption` says what the handlers enforce (no count of
zero; inscriptions are listed upwards and unfiltered) and what the encoding
gives (numbers below `Span`); `InstancesAssumption` says what the tables of a block
are, among it that outputs of an address exist only once the address is known.
The argument has three layers:

* `InstancesProofs` has the scan alone, as lemmas about sets of numbers: `Sorted` is
  the only sequence that lists a set in order; what a limited scan returns leads the
  range (`Leading`), and the rows collected with those still ahead are all that is
  wanted (`Collected`, kept by `RowsFetched`); a page and the pages before it are in
  order, and reach as far as the cursor says (`PageAdded`).
* The keyspaces (`Keyspaces`, `Wiped`, `Scored`, `Whole`): a keyspace that has a
  cursor is the whole of its block. It is invariant because `daw` scans from the
  lowest key, the cursor's, and only once the instance has stopped. `Wiped` also says
  what a forced run has removed at each of its stages, hence `WipeComplete`.
* The request and the client (`ReadInv`): instances were found for the tables
  they serve and the snapshot is whole where it has a cursor (`Looked`); the scan has
  collected what it passed (`Scanning`, `Scanned`); the answer is its first entries
  (`Paged`); the pages so far have all that stayed, up to the cursor (`Listed`).

**Only model-checked.** All liveness is out of the prover's reach. `Ledger` and
`Polyphony` compare tables with a replay of the chain, which folds each
transaction's effects over blocks of any length; what such a fold gives for every
input is an induction over data that the prover cannot do
(`TablesMatchChain`, `MemoryAgrees`, `MemorySizeCovers`, `DunesWithinTerms`,
`Drc20Conserved`, `InscriptionsWellPlaced`, `OutputsIndexed`, `DunesIndexed`,
`InscriptionsIndexed`). Of `Indexer`, bulk mode (`BulkDataMatches`) and `StoreTypeOK`
are left to TLC, and so is `NeverOutOfRange`, which depends on how deep the reorgs of
the whole behaviour were and on how many source faults fall between two of them.
`indexer_tip` also lets the process crash while it rolls back, which the theorems
exclude.

## Not modelled

The mapped definitions stand for about 38% of the Rust lines. The rest is:

* **Bytes**: protobuf, P2P framing, JSON, the layout of dunestones, signature
  scripts, keys, values and base64 cursors. The models start from decoded fields.
* **Stateless handlers** of mapi that read single keys or scan in the way of the
  two that are modelled, its OpenAPI text, the proxy to the node's RPC, and
  `execute_keys_only`.
* **daw**: dataplane and range deletions (the same loop over other ranges), and
  the two commands that apply a file of keys in one transaction.
* **An undetermined TiKV commit**: a reported failure is assumed to have had no
  effect. Lock clean-up is left to the client library.
* Configured intersects other than the origin; byte limits of batches (a flush may
  happen at any block instead); metrics, logging and consoles.

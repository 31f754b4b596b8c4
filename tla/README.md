# TLA+ models of dex-ingest-sol

The repository holds two services around a Lindorm database of Solana DEX data:

* **ingest** (`cmd/ingest`) consumes a Kafka topic (events or balances) and writes its rows,
* **query** (`cmd/query`) answers gRPC requests from the tables, through in-process caches,

and some tools (`cmd/rpc` migrates pools, `cli` holds scripts).  This directory models the
parts whose correctness depends on interleavings, crashes, redelivery, order and limits.

## 1. Inventory

| Part | State it keeps | Operations | Talks to | What is hard | What makes it correct |
|---|---|---|---|---|---|
| Kafka consumer (`pkg/mq/kafka_consumer.go`, `ingest/consumer.go`) | position, `Done`, ctx | Start (read loop), CommitMessage, Close | broker; calls `Dispatch` for each message | manual commit, `auto.offset.reset=latest`, stop during a read | every message is handed on once, in order; the commit never covers what is not written |
| Partition router (`ingest/router.go`) | map partition -> channel, ctx, WaitGroup | Dispatch, Stop | starts one worker per partition, sends on its channel | Dispatch sends outside the mutex, Stop closes channels | no send after a close, the stop ends |
| Partition worker (`ingest/worker.go`) | BatchQueue, lastSlot, lastFlushTime | Run (receive, drain, tick), flushIfNeeded, commitLastMessage | channel; writers; broker for commits | partial flushes, failed commits and writers, crash between write and commit | at-least-once delivery into the tables; bounded queue; tail flushed by the ticker |
| Retry (`pkg/db/db_retry.go`) | attempt | RetryWithBackoff | every writer | gives up on a cancelled ctx or after maxRetries | what is not written is reported, and nothing else is missing |
| Balance writer (`handler/balance_model_writer.go`) | table `balance` | InsertBalances: dedup, upsert, delete, filter by last_event_id | worker, database | realtime writes are blind, historical ones read first; redelivery; zero balances delete the row | the row of an account is that of its last update |
| Pool ingest (`handler/pool_cache.go`, `pool_model_*.go`) | LRU of seen pools, table `pool` | CheckAndInsert, InsertPools | worker, database | a pool is marked as seen before it is written | every pool is written, `create_at` once known is kept |
| Event, transfer writers (`handler/chain_event_*.go`, `transfer_event_*.go`) | their tables | InsertChainEvents, InsertTransferEvents | worker, database | parallel batches, partial failure | every row of the flush is in exactly one batch |
| LockCache (`pkg/db/db_lockcache.go`) | shards of entries with a lock, `validAt`, `inUse` | Do, DoRead, cleanupExpired | all query services | lock-free `inUse`, cleanup against use, expiry between two checks | an answer is not older than the TTL; one fill per key |
| Pool and account queries (`query/pool`, `query/balance/query_by_accounts.go`) | LockCaches | gRPC methods for many keys | database | partial cache hits, put back with a new TTL | answers are complete and not staler than the TTL |
| Holder queries (`query/balance`) | LockCaches | balances of an owner, top holders, number of holders | database | a list cut before it is added up, TTLs that depend on the result | an answer was true at one moment of its TTL |
| Event queries (`query/chainevent`) | LockCache for pools | by user, by pool, transfers (two sides merged), by ids | database; clients page by `event_id` | rows written between two pages or two reads, failed reads | paging misses nothing and repeats nothing |
| Row and address codecs (`handler/*_builder.go`, `utils/token_mapper.go`, `utils/signer.go`) | - | Build..., EncodeBase58Strict, DecodeTokenAddress | ingest and queries | written by one side, read by the other | an answer tells what was produced |
| Pool migration (`cmd/rpc`) | cursor, map of decimals | load a page, write it; load decimals; ask a node for decimals | two databases, a node | pages of equal keys, a page that fails, a source that grows | nothing that was passed is missing |
| ParallelMap (`pkg/utils/parallel.go`) | index channel | ParallelMap | nobody | - | not modelled: nothing calls it |
| Query service, Nacos registration (`query/service.go`, `internal/svc`) | registration | gRPC dispatch; Register, Deregister | Nacos | - | calls reach their service |
| Config, logging, monitoring, generated code, scripts | - | - | - | - | not modelled: input, output and wiring |

The interactions of ingest: the consumer goroutine calls `Dispatch` for each message, which
sends it on the channel (capacity 1000) of the partition's worker goroutine.  The worker
decodes messages into its queue and flushes the oldest of them, by one goroutine per table;
then it commits the offset of the last one, on the consumer's Kafka client.  The processes of a group may
pass a partition to each other, and no callback tells the worker that had it.  A stop cancels
the context of all workers and writers and closes the channels, while another goroutine
closes the consumer.  The query service reads what ingest writes, and shares nothing else with it.  The hazards, each with its line and the properties about it, are listed
in `PROJECT.json`.

## 2. Modules

| Module | Models | Source |
|---|---|---|
| `AtLeastOnce` | the promise of a partition's pipeline: nothing is written but rows of messages, and the offset moves only over rows that are written or excused | abstract; implemented by `PartitionWorker` and `EventWriters` |
| `PartitionWorker` | broker, consumer, router, worker, commit, stop, crash, restart of one partition | `worker.go`, `router.go`, `consumer.go`, `kafka_consumer.go`, `db_retry.go`, `cmd/ingest/main.go` |
| `PartitionWorkerProofs` | theorems about it | |
| `BalanceIngest` | flushes of balance blocks into the table, with redelivery and backfill | `worker.go`, `balance_model_writer.go` |
| `BalanceIngestProofs` | theorems about it | |
| `PoolIngest` | pools from the events of a partition to the table: seen-pools cache, deduplication, batches, upserts | `worker.go`, `pool_cache.go`, `pool_model_builder.go`, `pool_model_writer.go` |
| `PoolIngestProofs` | theorems about it | |
| `EventWriters` | a partition that members of a group pass to each other; batches, goroutines, statements and retries of a flush | `worker.go`, `kafka_consumer.go`, `chain_event_writer.go`, `transfer_event_writer.go`, `db_retry.go` |
| `EventWritersProofs` | theorems about it | |
| `LockCache` | one shard of the query service's cache, its cleanup, and the requests that go through it | `db_lockcache.go`, `query/balance`, `query/pool`, `query/chainevent` |
| `LockCacheProofs` | theorems about it | |
| `EventQueries` | events from the message to the answer: row builders, address codecs, the four event queries, paging | `chain_event_builder.go`, `transfer_event_builder.go`, `token_mapper.go`, `query/chainevent` |
| `HolderQueries` | balances of an owner, top holders, number of holders, with their caches | `query/balance` |
| `HolderQueriesProofs` | theorems about it | |
| `QueryService` | both, behind one service: composes `EventQueries` and `HolderQueries` | `query/service.go` |
| `QueryServiceProofs` | theorems about it and about `EventQueries` | |
| `PoolMigration` | the copy of the pool table and the two loaders of decimals | `cmd/rpc` |
| `PoolMigrationProofs` | theorems about it | |
| `MC...` | small instances for TLC | |

The detailed modules contain, before some definitions, a *faulty variant* of the definition
(`HandleAtFront`, `LastOfQueue`, ...): the mistake each property is there to catch.

### PartitionWorker

One partition is enough: partitions share only the mutex of the router, which no goroutine
holds while it waits.  A message is reduced to whether `buildBlockBatch` makes a batch of it
and to the tables the batch has rows for; the rows of message `o` in table `t` are the pair
`<<t, o>>`.  The variables are

* `log`, `committed` - the broker; `reset` remembers what a join without a commit skipped;
* `stored` - the tables; `lost` remembers rows whose writer returned an error;
* `reader`, `pos` - the consumer goroutine, its position in `KafkaConsumer.Start` and `Dispatch`;
* `channel`, `closed` - the worker's channel;
* `worker`, `queue`, `space`, `todo` - the worker goroutine: where it is in `Run`, its
  BatchQueue, the turns left in `drainMessages`, the row sets left to write;
* `routerStop`, `consumerStop` - the two Stops, which the service group runs concurrently;
* `proc`, `lives` - the process, which may exit, panic, crash and be started again.

Grain: a step of a goroutine that other goroutines can observe is an action: the lookup and
the send of `Dispatch`, a receive, the read of `len(MsgCh)`, each turn of a drain, each table
written, the commit.  The `select` of `Run` chooses freely among what is ready, as Go's does.
Time is abstracted: the ticker may fire whenever the queue is not empty.  A failed
`CommitMessage` leaves the offset; a commit on a closed client never succeeds.  A writer fails
only when the stop has cancelled its context: otherwise RetryWithBackoff repeats the statement
100000 times, eleven days, which the model takes for ever.  The `recover` of the writers is left
out, for nothing in them panics on decoded rows.

### BalanceIngest

Here a message is a block: slot and source.  The chain, chosen at the start, says which
updates a slot has; an update has an account, an event id (unique and in slot order, as
`event.proto` says) and whether the new balance is zero.  A row is its `last_event_id`.
A flush is the code's: blocks split by `isRealtime`, deduplicated per account, realtime rows
upserted or deleted without looking, then historical rows filtered by what the table holds,
row by row, then the commit, which may fail.  The two goroutines of `InsertBalances` are
interleaved.  A crash loses the memory; the worker resumes after the committed offset with
`lastSlot = 0`.  The gRPC stream delivers blocks newer than all before them (that is what
realtime means); backfilled blocks may be of any slot, also one delivered before.
The channel and the stop are left to PartitionWorker; `MaxQueue` is the bound proved there.
So is a group that has never committed: here, as in PoolIngest, `committed` starts at an offset.

### PoolIngest

A message is the sequence of its trade and liquidity events, each the row it would make: the pool's
primary key, its token accounts, what a conflict is about (dex and tokens), and the block time of a
CREATE_POOL or 0.  A row of the table is its `create_at`.  The variables are

* `log`, `committed`, `table`, `lives`, `received` - as before;
* `phase`, `built`, `rows` - what the worker does, and how far `buildBlockBatch` is in a message;
* `place` - the LRU: the place of each pool, 0 when it is not cached;
* `queue` - BatchQueue; `writing` - for each goroutine of `InsertPools` the rows it has not written.

`Build` is one event: the lookup, the mark, the row.  A message that is not *sound* panics after any of its
events (a bad address, or one of the other builders) and is dropped; its offset is committed with the
next batch.  A flush joins the rows of its messages in order, keeps the first row of each key with the
earliest time of those that agree with it, splits by `create_at`, allots workers and batch sizes as
`allocateBatchSize` does, and cuts the rows, in any order for a Go map has none, into batches.  The
batches are written concurrently, row by row, which covers the statements of 1000 rows.  Left out: `update_at`
(always now), the other tables, and the fallback for fewer than two workers (the code passes four).

### LockCache

One shard is enough: shards are chosen by a hash of the key and share nothing.  The variables are

* `slot`, `entry` - the map of the shard, and the Entry objects with `Result`, `validAt`, `inUse`;
  an object stays as it is while a goroutine holds it, even when it has left the map;
* `client` - the goroutines that serve requests: where each is in `Do` or `DoRead`, the keys of its
  request, those still to do, the entry it holds, what it has read so far, and (`since`) what time and
  table were when the request began;
* `expired` - `expiredKeys` of a goroutine in `cleanupExpired`, the background one or one that missed;
* `now`, `table` - the clock in seconds, and the version of each key's rows (0: no rows);
* `newest`, `orphaned` - history: the newest version a request has been answered with, and the keys
  whose entry the cleanup has taken while a goroutine held it.

`api` is the kind of query the cache serves, for each service has caches of its own: "query" wraps
one database read in `Do` (`Lookup` ... `Store`); "accounts" and "pools" call `DoRead` for each key
(`Peek` ... `Copy`), read what is missing by one statement (`Select`, which may fail after some rows), and put
rows into the cache by `Do` with `skipRead` (`Lookup`, `Enter` or `Create`, `Put`).  "accounts" puts only the rows
that it has just read; "pools" puts everything the answer has, cached or not.

Grain: what a goroutine does under one lock, or between two, is an action; the increment of `inUse` on
the hit path is one of its own, and so are the two steps of the cleanup, the scan under the read lock and the
deletion under the write lock.  The entry's lock is derived from where the goroutines are
(`Reading`, `Locking`).  The scan of the map is one step: it holds the read lock, and the few
increments that may slip in between two keys are covered by the step before or after.  Results are
versions; the rows behind them, limits, paging and aggregation are left out, and so are the panics that
`safeRun` recovers.  The fairness of `RWMutex` is not modelled, and no liveness is claimed.

### EventWriters

The other half of PartitionWorker: several processes (`Members`), each with its position, queue and running
flush, and the rows of a flush one by one.  `StartFlush` joins the rows of the messages and cuts them
into batches as the writers do (`BatchSize`, `Starts`); each batch is a *job*, a goroutine that writes its rows
statement by statement.  A statement succeeds, or fails after any of its rows and is repeated, or is given up: after
`MaxRetries` attempts, or at once when the context is cancelled.  What is given up is `lost`; the error is only
logged, and the flush commits.  The broker gives the partition to any member at any time (`Assign`), the one that
has it included; the old owner goes on with what it has received, and its commit may take the offset of the group
back.  Channel, drains and the order of a stop are those of PartitionWorker, the delays of
the retries are left out, and chain events and transfers are written alike.

### EventQueries, HolderQueries, QueryService

`EventQueries` begins with the messages: an event has the fields of its kind in `event.proto`, a row the columns
of the model, and `Build...Event` is the way from one to the other.  `Answered` is the row loop of the queries.
`EncodeBase58Strict`, `DecodeTokenAddress` and their table of known tokens are `Encode` and `Decode`; bytes and strings of an
address are not told apart, for `Base58Cache` returns what the library does.  One client pages through one request: it
sends the last `event_id` it has got as its cursor, until a page is empty.  Rows appear in any order meanwhile,
other clients fill the cache of pool events, reads fail (the client asks again), and a page of all
transfers is merged from two reads of different moments.  The record of a request has the fields of its protobuf message,
but for the cursor, which is the client's.  Amounts, prices, times and hashes are left out.

`HolderQueries` has one request at a time against a table that changes, with the caches by key; what
concurrent requests do to a cache is LockCache's.  A balance is a small number, sums are taken modulo `Wrap` as the
code's are modulo 2^64, and rows of equal balance come in any order.  `past` remembers the tables since the start.

`QueryService` instantiates both; they share the clock only, so each is run with the other at rest.

### PoolMigration

The source is a set of rows that ingest may add to; the target has a row per address, for the query of a page leaves
`account_key` out and every row is written under key 0.  Pages come ordered by address and, within an address, in any order; a read
may fail after some rows, which have moved the cursor already; a batch may be given up; the tool may be started
again.  The loaders of decimals page by token in the same way, or ask a node in batches.  They have no caller, so they are modelled as
what they would promise to one.  A panic in a page (it is recovered, and the migration begins again from the first
page) is left out.

## 3. Runs

| Run | Question | Expected |
|---|---|---|
| `event` | one partition with two tables, drains and partial flushes, stops at any moment, a group without a commit, failed commits, a crash: order, bounds, at-least-once, monotone offset, nothing forgotten | holds |
| `live` | with fair goroutines and a fair broker and database, everything is written, and a stop ends | holds |
| `stop_loses` | does a stop during a flush commit rows that are in no table? | violated: yes |
| `stop_panics` | can a stop make `Dispatch` send on a closed channel? | violated: yes |
| `upsert` | backfill in any order within a life, redelivery of realtime blocks after a crash: the table never falls behind the committed offset, and converges | holds |
| `resurrect` | is the update with the largest id the one that is kept, also for emptied accounts? | violated: no |
| `pools` | an evicting cache, partial flushes in parallel batches, messages that panic, a crash: pools skipped as seen are stored or on their way, committed pools are stored, creation times are recorded and stay | holds |
| `writers` | two members and the partition between them, statements that fail and are repeated, a stop or a crash: no commit of either covers a row that was not dealt with, and together they deliver at least once, and in the end all rows are dealt with | holds |
| `cache` | requests for one key or two, in a full shard, against expiry, cleanup and updates: one fill per key, answers as fresh as the TTL says, answers that do not go back, errors only on expiry | holds |
| `cache_race` | does losing an entry to the cleanup cost one more request and nothing else? | violated: answers go back |
| `queries` | paging against inserts, caches and failed reads; answers against what was produced; balances, top holders and counts against the tables of their TTL | holds |
| `migrate` | pages, failures, a growing source, a restart: what was passed is in the target, creation times come along, decimals are learnt, the tool ends | holds |

Bounds.  `event`: 3 messages, channel of 2, hold 3, flush 2, two lives: a drain, a queue longer than a flush,
a channel full behind a running flush, and a stop or a crash at any step of all of these fit.  `live`: 2 messages,
two lives, with stop.  `upsert`: chains of 3 slots, 4 blocks (so a
slot may come twice), flushes of 2 of a queue of 3, two lives; one slot updates an account twice,
accounts are emptied, refilled and emptied for good, and a row may come back that is older than a committed one.  `pools`: three pools for a cache of two, so that
a pool comes back after its eviction; a creation at two times, before and after other events of its pool, a pool with
its sides swapped and one with other tokens, a message that panics; 3 messages, flushes of 2, two workers and batches
of one row, so that rows are shared out to the last one; two lives.  `writers`: two members, messages of one row and of
two, two goroutines and a batch of one, so that three rows make batches of two (the ceiling) and of one; two attempts; the partition may
change hands once more after it is first given, and one member may stop or crash.  `cache`: two goroutines, two keys and a shard for one, so
that every miss after the first cleans up; four objects, one for each key in the map and one held by each goroutine after
its removal; two seconds and a TTL of 0, which ends with the second, so that an entry may expire between any two steps;
one update per key.  `queries`: events of all five kinds, by and at one wallet, one of them to itself, with native SOL
on either side and a signer that is not the wallet; pages of one and two; a second of TTL and two of time; three accounts of two owners and two tokens, of which one is
known, balances whose sum may wrap, two changes.  `migrate`: pages of two; an address with three rows that a page splits, two rows under one key that
contradict each other, a row without decimals; two lives.  The violations need fewer steps than the bounds allow.

`CHECK_DEADLOCK FALSE` stands where messages, lives and requests are bounded: the model ends when they are used up.

Fairness (`FairSpec`).  A goroutine that can run is run (Go's scheduler): weak fairness of each step.
In PartitionWorker `ReadMessage` may time out again and again, so it takes strong fairness to say that the broker
delivers; a write succeeds in the end while the database is reachable; a stop that has begun is
carried out, as both services run in their own goroutine; the supervisor restarts a process
that has ended.  In EventWriters a member goes on while any of its goroutines can: this is weaker, and enough, for no
goroutine has more than finitely many steps.  Nothing says that its statements succeed (they may fail to the last
attempt), and the group does not leave the partition without a member.  In PoolMigration the tool goes on and the databases
answer in the end: page and write are fair, their failures are not.  No fairness is assumed of stops, crashes, producers,
rebalances and failures.

## 4. What the violations show, and the exceptions

* A writer whose context is cancelled returns an error that is only logged; the flush commits
  all the same (`worker.go:343`, `395`), so a graceful stop during a flush loses rows (`stop_loses`).  Without a
  stop nothing is lost: theorem `StoredBeforeCommit`.
* `Stop` closes channels (`router.go:59`) that `Dispatch` is about to send on (`stop_panics`).
* An account that was emptied is inserted again by an older, backfilled update, for a missing
  row is taken for an old one (`balance_model_writer.go:291`); the two may even be in the same flush (`resurrect`).
  The row that comes back may be older than what the deleted one held when its block was committed.
* The comment on the hit path of `Do` (`db_lockcache.go:124`) says that an entry deleted by mistake costs one more
  request.  It also splits the lock: the goroutine that holds the old object and the one that has made a
  new one read the database at the same time, so a request may be answered with older rows than one that
  ended before it began (`cache_race`).

The properties that hold say exactly how far they reach: each exception is a named definition, or a disjunct with the line it
comes from.

| Exception | In | Why |
|---|---|---|
| `Resurrected` | `CommittedReflected`, `Converged` | the third point above |
| `Sheltered` | the same, and `BackOnlyOnRedelivery` | after a restart `lastSlot` is 0; if the worker then reads backfill, its first flush sets a low `lastSlot`, and all later backfill above it is written blindly (`worker.go:415`), over newer rows |
| `orphaned` | `OneReadPerKey`, `AnswersMonotone` | the last point above |
| `api = "pools"` | `AnswersFresh` | the pools query puts cached answers back with a whole new TTL whenever another pool of the request was missing (`query_by_addresses.go:107`): an answer may be kept for ever by such requests, and only the time of the last put counts |
| `Poisoned` | `SeenIsCovered`, `PoolsStored` | a pool is marked as seen before its message is complete (`pool_cache.go:44`), so when the message panics the pool is skipped until it is evicted or the process restarts |
| `First` | `CreationRecorded` | a CREATE_POOL that follows another event of its pool is skipped as seen, and its time never reaches the table |
| `lost` | `Accounted` (EventWriters) | a batch that was given up by a stop or after the last attempt; the offset is committed over it |
| `Mapped` | `NothingMissed`, `AnswersFaithful` | `EncodeBase58Strict` shortens the address of a known token also where it is a wallet, a pool or a signer; the queries do not shorten what they are asked for, nor lengthen those columns |
| `Skipped`, contradicting rows | `Migrated`, `CreationMigrated` | rows scanned before a page failed are passed over, for the cursor has moved (`load_pool.go:68`); a batch given up is only logged; rows under one key that disagree are dropped (`cmd/rpc/db/pool_model_writer.go:217`) |
| no row without decimals | `Finishes` | NULL decimals fail the scan, and the page is repeated without an end (`load_pool.go:50`) |

Met while modelling, and in no property: across a rebalance the committed offset may go back (`CommitMonotone` is a property of one
member), but what it covers is accounted for, which is how `Implements` reads a rebalance (`Alone` is `FALSE`).  Top holders reads a tenth more accounts than holders are asked for, for the list's accuracy
(`query_top_holders.go:37`); below ten that is none, and no surplus makes the list right, so `TopHoldersSound` says what
is true of any.  `BURN` is among the default types of the pool query, though the rows of burns have no pool.  `SelectSigner` panics on a message without signers.  The
delays of `db_retry.go` differ from those its comment names.

## 5. What is proved

`PartitionWorkerProofs`, for all tables, message kinds, capacities, limits and bounds:

* `TypeCorrect`, `Order`, `Forgotten`, `Accountable`, `Bounded`, `NeverNil`: the invariants of the runs; and `Monotone`: the
  offset and the tables only grow (`CommitMonotone`, which the runs check as part of `Implements`);
* `StoredBeforeCommit`: with `AllowStop = FALSE`, nothing is committed that is not stored;
* `Refinement`: the pipeline implements `AtLeastOnce`, alone in its group.  To say that the tables get nothing that no
  message holds, `IInv` is joined by `NothingInvented`: what is stored, lost or still to be written are row sets of the log.

The argument is one inductive invariant, `IInv`.  `CommittedAccounted` is not inductive, for a commit
is right only because every batch of the flush has been written and everything before the
flush had been; so `IInv` adds that the channel and the queue hold the offsets between the
worker and the reader in order (`DeliveredInOrder`), that what a life has received is written or
queued (`NothingForgotten`), that the row sets a running flush no longer has in `todo` are
written (`FlushCovered`), and that the commit is behind the queue (`CommitBehind`), with the
relations between the worker's place and its variables (`WorkerShape`) and the bounds of the
queue.  Each action preserves each conjunct; the theorems follow.

`BalanceIngestProofs`, for all accounts, chains and bounds: the five properties of the run, `TypeCorrect`, `Disjoint`
(`WritersDisjoint`), `CommittedIsReflected`, `TableConverges` and `BackOnly`.  They rest on event ids being unique and ordered by
slot, and on a block having finitely many updates, so that the ones of an account have a last (`LatestExists`).  `CommittedReflected`
speaks of the last committed update, and a flush writes the table row by row, realtime blocks before older ones: so `IInv` says of
each row which updates it has been given (`Given`: what is done, the realtime half of the flush when that is written, and what is
being brought in once the account has nothing pending), that its id is one of them or of an earlier life, and that it is not older than
any of them, unless the account was emptied since and its row is gone or came back (`FitsRow`, `Reflected`).  What a write, a
delete and a dropped update make of a fitting row are lemmas about ids alone (`FitsNewest`, `FitsUpsert`, `FitsDelete`,
`FitsDropped`).  They need that realtime blocks are newer than all that is done (`RealtimeNewer`, from `LastSlotSeen` and
`GrpcIsNew`), that historical ones are backfill (`HistoricalBackfilled`), and that what has passed the filter still
passes it when it is written (`Selected`).

`PoolIngestProofs`, for all pools, messages, sizes of cache, queue, flush and batches, numbers of workers, and all bounds: the five
properties of the run, `TypeCorrect`, `Covered` (`SeenIsCovered`), `Stored` (`PoolsStored`), `Recorded` (`CreationRecorded`) and `Kept`
(`CreationKept`).  First the flush: the times that deduplication takes the least of have one (`LeastExists`), each kind of row has at least one goroutine and each batch a
size (`WorkersPositive`, `SizePositive`), every row is in a batch (`BatchesCover`), every pool of the flush keeps a row
(`PoolStays`, by the least position of its key), and a creation that is first keeps its time (`FirstStays`).  No property is
inductive by itself, for a pool is marked as seen long before it is stored: `IInv` follows it, from the event (`BuildCovered`) to
the queue, by a row that is no later than its message (`Handled`), to the goroutines (`FlushCovered`) and the table.  For the time of a
creation its row must also be the first of its pool (`CreationBuilt`, `CreationHandled`), which rests on nothing having been seen that was not
read (`SeenNamed`), on rows being events of their messages (`Named`), and on the order of the queue (`Ordered`).

`EventWritersProofs`, for all members, sizes of messages, flushes, batches and statements, and all bounds: `TypeCorrect`, which
includes that a flush never starts more goroutines than `maxWorkers`; `Accountable` (`Accounted`), across any number of
rebalances, stops, crashes and failures; and `SettledIsFinal`.  The batches come first: positions are counted, the ceiling division is
enough for all rows (`SizeSuffices`), every row is in a batch (`BatchesCover`), and there are at most `maxWorkers` of them
(`BatchesBounded`).  `Accounted` is not inductive, for a late commit of a former owner covers offsets it has not
received: so `IInv` adds that whatever lies below a message of any queue is settled, by whatever member, or waits before it in
that queue (`QueueReaches`), that the same holds of what a member has received (`ReceivedReaches`: a member begins at the committed
offset, and up to it everything is settled), and that every row of a running flush is written, given up, or with a job
(`FlushCovered`, `JobsOfFlush`).  The ends of a statement are one effect (`JobStep`).  `Refinement`: the members together implement
`AtLeastOnce`.  What one sees of the other is the log, the offset and the tables, and three things happen to those
(`PromiseSteps`): a message arrives, rows of the log are written or given up (a goroutine's rows are rows of a message, `RowAtInLog`), or a
flush commits, and then `Accounted` says that all below is settled.  The promise is weaker than PartitionWorker's in one point,
`Alone = FALSE`: a late commit of a former owner may take the offset back, but never over what is not settled.

`LockCacheProofs`, for all keys, goroutines, requests, sizes and times: `TypeCorrect`, `Counted`
(`UseCounted`), `OneRead` (`OneReadPerKey`), `OnExpiry` (`FailsOnlyOnExpiry`), and `Freshness` (`AnswersFresh`).  The inductive invariant
has two layers.  `Static` says what a goroutine knows at each place of its request (`RequestOK`: the shape of its
record, that what it stores has been read since it began, that every answer it holds is fresh), and that every
valid entry carries the time of its result (`EntryOK`).  Above it, `IInv` relates goroutines to each other and to
the map: one that reads an entry found a result in it that is valid at least since the request began (`Readers`),
`inUse` counts the users (`UseCounted`), one in the write lock is alone (`Exclusive`), and an entry that is held is
the one in the map unless its key is orphaned (`Attached`).  For the second layer the seventeen actions are first
reduced to six effects on entries (lemma `Effects`); `Create`, the cleanup and the environment come apart.

On top of it, for `Monotone` (`AnswersMonotone`): for a key that is not orphaned, the versions that may
still be answered (`Source`: of the table, of the key's entry, of a read about to be stored) are no older than those
that have been answered (`Answers`), and no newer than the table.  Two steps answer something: a hit under the write lock, where
nobody else can be about to store an older read (`FillHitInOrder`), and a store, whose goroutine was alone with the entry since
it read the table (`StoreInOrder`); both need that an entry has one key, in the map and in the goroutines' hands (`Apart`).

`PoolMigrationProofs`, for all tables, sizes of pages and allotments of batches: `TypeCorrect`, `NothingLeftBehind` (`Migrated`),
`CreationComesAlong` (`CreationMigrated`) and `DecimalsKnown` (`DecimalsLearnt`).  `IInv` adds to these what the tool has in
hand: no batch while it rests (`Resting`), batches of rows of the source (`WritingNamed`), and tokens to ask the node for that the source
names (`Asked`).  A page first: it is in order and past the cursor (`PageTyped`), and no row of another column lies between what was
passed and what has been scanned (`NothingBetween`), also if the scan stopped early.  Then its batches: of the rows under one key
that agree one stays, with the earliest time (`DedupKeeps`), and every row that stays is in a batch (`DispatchedCovers`,
`PageWritten`).  So an address is passed only as it is put into a batch, and a batch puts it into the target (`RowWritten`).

`HolderQueriesProofs`, for all accounts, supplies, limits and TTLs that are `WellFormed`: `TypeCorrect`, `AnswersTrue` and `HoldersSound`.
A sum over accounts is a recursive function, which the provers do not unfold by themselves: that one exists (`AdderExists`), that it does not depend on the
set it starts from (`AddersAgree`) nor on the order (`SumRemove`), and that more accounts hold no less (`SumMonotone`) is proved by
taking the smallest set without the property (`MinimalSet`), instead of by induction.  `TopHoldersRight` is what the list says of
the table it was read from, although it was cut to `FetchLimit` accounts before they were added up.  A cached result is right for another request with the
same key, since the key tells all that it depends on (`KeysAgree`); for top holders the key has the number of accounts read, and
different limits read different numbers (`FetchSeparates`).  `IInv` then says that every entry, and the answer, is right about a table that
was there within its TTL (`EntriesBacked`, `AnswerBacked`, over what `History` keeps of the tables).

`QueryServiceProofs`, for all events, requests, limits and TTLs, about the service as a whole: `TypeCorrect`, `PagingComplete` (`NothingMissed`), `PagingDown`
(`PagesDescend`), `EventsTold` (`AnswersFaithful`), `BalancesTrue` and `HoldersSound`.  The last two come from `HolderQueriesProofs`,
instantiated with the clock of the service.  The others rest on `EventsInv`: the client began with what was in the table
(`Opened`), has delivered all of it down to its cursor, once and in order (`PagedDown`), has been told the truth by id (`LookedUp`), each side that was read
for the page in progress has a page of it (`SideKnown`), and so has every cache entry that the next page may come from (`CacheKnown`).
Two things had to be shown about data.  The merge of two sides is a loop; it is proved through what is left to see from each of its
states (`LoopExists`, `LoopRests`), and gives the newest of both, once, down to the limit (`MergeFacts`), so that
two pages make a page (`MergeKeeps`).  And the rows that the builders make, read by the query with its own
codec, tell what was produced where no address is `Mapped` (`AnswerTells`, `FoundIsWanted`).

The assumptions are those declared with the constants.  They say that limits and TTLs are positive or natural numbers, event ids
unique, nil no value; and in `CodecAssumption` that short addresses are one to one, as `token_mapper.go` has them.

Only model-checked: liveness (`EventuallyStored`, `StopTerminates`, `EventuallySettled`, `Finishes`), for TLAPS does not do
fairness, and of course the violations.  Every invariant, action property and refinement of the passing runs is proved.

## 6. What is not modelled

* Token ingest (`handler/token_model_*.go`): the worker does not call it.  ParallelMap: nothing calls it.  `db.Query` of `cmd/rpc`: likewise.
* The life cycle of the services and Nacos: flags, wiring and registration are calls in sequence to libraries whose behaviour is not in
  the repository.  (Deregistration leaves out the group name that registration may have used, `internal/svc`.)
* The Redis helper passes each call on to a library; the factory opens a database.
* Configuration, logging, monitoring, scripts and the test client: input, output and wiring.  Generated code
  is used as the source of the records of messages and requests only.
* Balances across a rebalance: BalanceIngest has one worker; two owners of a balance partition that both write blindly would put old rows over new ones until
  redelivery, and no property says for how long.
* An address with several pools of which the pools query has read only some when its iteration fails: they are cached as if they
  were all (`query_by_addresses.go:106`, before `rows.Err`).  In LockCache a key has been read or not.
* Time: delays of retries, tickers and timeouts are nondeterministic choices; only the TTLs count seconds.
* LockCache has no bound to prove: `maxSize` only starts a cleanup, and a miss makes an entry all the same.

Next, if the project goes on: the rebalance of a balance partition.

# TLA+ models of the catapult ingestion core

This directory holds TLA+ models of the parts of this repository that a model
checker can say something about. The main subject is the batch signature
consumers (`src/src/catapult/consumers/BatchSignatureConsumer.cpp`), which
verify the signatures of a batch in parallel on a thread pool. The second
subject is the reversible account activity ledger that block commit and
rollback update (spec 4.4). The third is the account state codec (spec
4.5), checked against the reference layout its test writes by hand. The
fourth is the mosaic transfer validator, which gates balance transfers.
The ledger and the codec are also composed: a restart saves and reloads
the ledger's buckets through the codec between commits and rollbacks.
Smaller modules cover the SDK's secret lock builder and the hash lock
info serializer.

## 1. Inventory

### Components, their state and operations

| Component | Source | State | Operations |
|---|---|---|---|
| VerificationInput extractor | `BatchSignatureConsumer.cpp:34-93` | `m_entityIndex`, `m_inputs`, `m_notificationToEntityIndexMap` | `notify` (callback per notification), `next` (per entity), `add` (buffers with or without the generation hash) |
| Partitioned verifier | `BatchSignatureConsumer.cpp:107-112, 128-142`; `thread::ParallelForPartition` (not in repo) | partitions, outstanding count, promise | post one task per partition, run the callback on a pool thread, count completions, set the promise |
| Block consumer | `BatchSignatureConsumer.cpp:96-115` | `std::atomic` aggregate result | extract, run the partitions, `AggregateValidationResult` on failure, `.get()`, return the aggregate |
| Transaction consumer | `BatchSignatureConsumer.cpp:117-145` | `std::vector<ValidationResult> results` shared by the partitions | extract, run the partitions, `VerifyMulti`, store failures by entity index, `.get()`, return the vector |
| Notification publisher (multisig plugin) | `MultisigAccountModificationTransactionPlugin.cpp:33-60` | none | `Publish`: new-cosignatory, cosignatories, address-interaction, settings notifications in order |
| Account activity ledger | `UpdateActivity` and `AccountActivityBuckets` are not in the repo; tests at `ActivityObserverUtilsTests.cpp` | per account: a ring of activity buckets, newest first | `UpdateActivity(commit/rollback)`: eligibility bypass, update or create, try-update and pop a zero head |
| Historical codec | `AccountStateSerializerTests.cpp` (the test's reference layout; the serializer is not in the repo) | a byte stream | save and load in four layouts (regular or high-value, non-historical or historical); truncation and format errors |
| Mosaic transfer validator | `MosaicTransferValidator.cpp`, `MosaicDefinition.h` | reads the mosaic and account caches at the context height | validate one balance transfer: xem whitelist, active lookup, owner participation |
| Secret lock builder | `SecretLockBuilder.cpp:25-86` | five fixed fields, value-initialised | five setters, `size`, `build`, `buildEmbedded` (through `buildImpl`/`sizeImpl`) |
| Hash lock info serializer | `HashLockInfoSerializer.cpp:25-31` | a stream | `Save` writes the hash after the shared lock fields, `Load` reads it |
| Harvesting service, restriction cache types, crypto test | see PROJECT.json | wiring and type aliases | nothing this repository defines |

### How they interact

The consumer thread publishes each entity of a batch through the external
notification publisher. The capturing subscriber keeps only signature
notifications and records the batch index of the entity each one came from.
The consumer then calls `ParallelForPartition` with one partition per worker
thread and blocks on the returned future. Each partition runs on a pool
thread and verifies its contiguous chunk. The block path folds a failure
into a `std::atomic`. The transaction path stores failures into the shared
results vector, at the slot of the owning entity. The last partition to
complete sets the promise, and `.get()` returns.

Independently, a single thread applies block effects: a commit runs the
observers over a block's notifications in order, and a rollback runs them
in reverse order. `UpdateActivity` reads the account's harvesting balance,
which other observers (transfers) change, to decide whether the account may
accumulate activity at all.

The ledger's buckets are part of the account state that the codec writes.
When a node restarts, every account is saved and loaded in one scope, and
block commits and rollbacks then go on from what was loaded.

### What is hard

- Interleaving of the pool threads. The block path shares only an atomic.
  The transaction path shares a plain vector whose slots are chosen by
  entity, not by partition.
- The join. Results must not be read before every partition completed.
- Index bookkeeping. Entity indexes advance once per entity, whatever
  number of signatures it raised. Input indexes are absolute across
  partitions.
- Commit/rollback symmetry of the ledger across any sequence of forks. It
  is limited by the ring's capacity, by the rollback depth, by zero-valued
  deltas, and by the order of observers within a block.

### What makes each component correct

- Consumers: the verdict is a function of the batch alone, whatever the
  partitioning and the thread order (`BatchVerdict`). The consumer always
  returns.
- Ledger: after any sequence of commits and bounded rollbacks, the
  non-historical buckets equal those a plain replay of the current chain
  produces. Buckets stay ordered and no bucket sits above the chain head.
- Codec: the serializer agrees with the test's reference layout in all
  four layouts, both in what it writes and in what it reads back.
  Truncated input and unknown format tags fail.
- Mosaic transfers: a non-transferable mosaic moves only to or from its
  owner.
- Ledger across restarts: a historical reload is invisible to later
  rollbacks, in either tier.
- Ring discipline (spec 3, 4.4): across historical restarts the ledger's
  ring implements `BucketRing`. A bucket is only
  pushed above the head, evicting only the oldest. It is only changed in
  place under its own start height, and only the head is popped.
- Secret lock builder: each built transaction holds the last value set
  for each field before it was built, and its own type's size.
- Hash lock serializer: `Load` consumes exactly what `Save` wrote.

## 2. Modules

| Module | Models | Kind |
|---|---|---|
| `SignatureExtraction` | the capturing subscriber and the extraction loop; `Verify` abstracts the signature check | component (EXTENDed by the consumers) |
| `ParallelForPartition` | partition arithmetic (spec 4.2) | operators |
| `BatchVerdict` | what a consumer promises: one step from pending to the verdict the batch deserves | abstract specification |
| `BlockBatchSignatureConsumer` | block path | composes extraction, partitions, pool threads; refines `BatchVerdict` |
| `TransactionBatchSignatureConsumer` | transaction path, each store split into begin and end steps | composes extraction, partitions, pool threads; refines `BatchVerdict` |
| `MultisigAccountModificationPlugin` | `Publish` of the multisig plugin, one operator per notification group | operators |
| `BucketRing` | the ring discipline every account's activity history follows: push above the head with eviction, update in place, pop the head | abstract specification, implemented by `ActivityLedger` across restarts |
| `BatchSignatureFixtures` | entities and batches for the MC modules | fixtures |
| `ActivityLedger` | bucket ring, `UpdateActivity`, block commit/rollback, and a `RECURSIVE` replay of the chain as reference | component |
| `AccountStateCodec` | one account changed by the test's operations; `Save`/`Load` (spec) and the test's reference encoder, decoder and per-layout expectations | component with codec operators |
| `MosaicTransfer` | `MosaicTransferValidator` gating transfers over blocks; `MosaicDefinition` (constructor, getters, activity) | component |
| `LedgerRestart` | `ActivityLedger` plus restarts that save and load every account through `AccountStateCodec` (an `INSTANCE`), and importance changes that move accounts between tiers | composition |
| `SecretLockBuilder` | the builder's fields, setters and builds, with a history of setter calls | component |
| `HashLockInfoCodec` | extended-data `Save`/`Load` in a stream shared by a writer and a reader | component with codec operators |
| `MC_*` | constants for TLC | model-checking modules |

### State and action correspondence

- `SignatureExtraction`: `entityIndex` is `m_entityIndex`. `inputs` and
  `notificationToEntityIndexMap` are the two captured lists. `cursor` is
  the publisher's position in the current entity. `Notify` is one `notify`
  callback. `NextEntity` is `next()` after `publish` returns. Signatures
  are records `[by, over]`, and `Verify` accepts an input iff it was signed
  by its signer over exactly its buffers. A signature for another network,
  a forged one and a legacy unprotected one are therefore distinct values.
- Block consumer: `StartPartitions` is the `ParallelForPartition` call at
  line 112. `RunPartition(p)` is the callback at lines 107-110 plus the
  completion of the partition. `Join` is `.get()` returning, then the
  load of the aggregate.
- Transaction consumer: `VerifyPartition` covers lines 129-133.
  `ScanResult` is one loop iteration. A failed signature begins the store
  at line 136, and `EndStore` ends it and does `++index`.
  `CompletePartition` is the end of the loop and the completion. `writers`
  records the threads in the middle of a store, for every slot, as the
  `RingBuffer` example of the TLA+ examples does for its slots.
- Ledger: `CommitBlock` and `RollbackBlock` each process a whole block, in
  order or in reverse order, through `UpdateActivity` or the transfer
  observer. `maxLength` records the longest chain reached. A rollback is
  allowed only while the top block is less than `MaxRollbackBlocks` below
  it.
- Codec: the variables are the fields of one `AccountState`: the
  snapshot ring, the bucket ring (fixed size, empty entries zero), the
  balances, the optimized mosaic id, and `iterationOrder`, the order in
  which the balances enumerate their ids. That order is unspecified, so
  every change of the balances may pick any order. The actions are the
  test's mutations. `SetImportance` is `PushSnapshot` at the next
  importance height (`CoerceToDesiredFormat` with a zero importance).
  `UpdateActivityBucket` is `PushBucket` at or above the newest bucket.
  `CreditMosaic` and `OptimizeMosaic` are the balance calls of
  `CreateRandomAccountState` and `ProcessMosaicHeader`. A stream is a
  sequence of fields: header, tag, snapshot, buckets, optimized id,
  count, (id, amount) pairs, historical tail. Cutting one byte leaves the
  last field unreadable, so a truncated stream is the stream without its
  last field. `CopyToBuffer`, `DeserializeFromBuffer` and `Expected` (the
  traits' `AssertEqual` preprocessing) translate the test. `Save` and
  `Load` follow spec 4.5, because the serializer is not in the repository.
- Mosaic transfers: `Transfer` applies a balance transfer when
  `MosaicTransferValidator` (lines 25-46) succeeds and the sender has the
  amount. `NextBlock` advances the height, so definitions start and
  expire. `ownerFlow` is a history variable: each non-owner's net
  receipts of a non-transferable mosaic from its owner. A definition is
  the record `MosaicDefinition(startHeight, ownerPublicKey, revision,
  properties)`. Of the properties, only the duration and the Transferable
  flag are kept.
- Ledger across restarts: `Restart(scope)` maps each ledger ring to an
  account state. The account gets a current snapshot with its current
  importance, and its ring is padded with zero buckets to the codec's
  fixed size. `importance` is a variable. `Recalculate` stands for the
  importance recalculation, which is not in the repository: it may give
  any account any importance at any time. `Restart` then runs `Codec!Save` and `Codec!Load` and drops
  the zero-height entries again. Balances and the chain persist unchanged.
- Secret lock builder: `builder` holds the five members, and each setter
  is an action. `calls` is a history of setter calls. `BuildAs(type)`
  appends `buildImpl<type>()`: a zeroed transaction of `sizeImpl<type>()`
  bytes with the five fields copied into it. It also records how many
  setter calls preceded the build.
- Ring refinement: `ActivityLedger` instantiates `BucketRing` with
  `rings <- buckets`, and the `ledger_restart_historical` run checks
  `BucketRing!Spec` as a temporal property. A restart in `LedgerRestart` must be a stutter step
  of the abstract ring.
- Hash lock serializer: `SaveLockInfo` appends the shared field (the
  lock_shared serializer, not in the repository) and then `ExtendedSave`.
  `LoadLockInfo` reads the shared field and then `ExtendedLoad`, which
  reads the next field into `Hash` and advances the input.

## 3. Runs

| Run | Checks | Result |
|---|---|---|
| `block_consumer` | `TypeOK`, `ImplementsBatchVerdict` (refinement of `BatchVerdict`, block path), `ConsumerReturns` | pass, about 34,000 states |
| `transaction_consumer` | `TypeOK`, `ImplementsBatchVerdict` (transaction path), `ConsumerReturns` | pass, about 189,000 states in about 30 s |
| `transaction_result_write_race` | `NoConcurrentResultWrites` | **violation**: two threads store into one entity's slot |
| `activity_ledger` | `TypeOK`, `LedgerWindowMatchesReplay`, `BucketsOrderedBelowHead` | pass, about 18,000 states |
| `activity_ledger_bit_exact` | `LedgerMatchesReplay` | **violation**: eviction from a full ring is not undone |
| `activity_ledger_zero_fee` | `LedgerWindowMatchesReplay` with zero-fee harvests | **violation**: rollback pops a bucket an earlier block created |
| `account_state_codec` | `TypeOK`, `SaveMatchesReferenceLayout`, `LoadMatchesReferenceLayout`, `CorruptStreamsRejected` | pass, about 98,000 states |
| `mosaic_transfer` | `TypeOK`, `NonTransferableOnlyViaOwner` | pass, about 570 states |
| `ledger_restart_historical` | `LedgerWindowMatchesReplay`, `BucketsOrderedBelowHead`, `ImplementsBucketRing` with up to two historical restarts and importance changes | pass, about 217,000 states in about 90 s |
| `ledger_restart_non_historical` | `LedgerWindowMatchesReplay` with one non-historical restart and rollback depth 1 | **violation**: a one-block rollback after the reload loses a window bucket |
| `secret_lock_builder` | `TypeOK`, `BuiltTransactionsMatchSetters` | pass, about 52,000 states |
| `hash_lock_info_codec` | `TypeOK`, `LoadsMatchSaves` | pass, 313 states |

Spec 4.5 says the historical scope is "needed to support rollback beyond
one block", which suggests a non-historical reload supports a rollback of
one block. `ledger_restart_non_historical` shows that it does not. After 4
blocks, account A's ring is [4, 2, 1], and the reload keeps [4, 2].
Rolling back the top block, which created bucket 4, leaves [2], while
replaying the chain gives [2, 1]. PROJECT.json records this as a spec gap.

Bounds:

- Consumers: batches of 1 to 4 entities, drawn from six entity shapes,
  with 3 worker threads (the race run keeps 2, which is enough for its
  counterexample). The shapes are a good signature, a signature for
  another network, a legacy signature, an aggregate with a good and a
  forged cosignature, an aggregate replayed from another network (two bad
  signatures), and an aggregate with two good signatures that embeds a
  multisig modification (only non-signature notifications). Every
  partition split of up to 8 inputs over 3 threads is reached. That
  includes fewer inputs than threads, uneven partitions, and an aggregate
  cut by a partition boundary.
- Ledger: 2 accounts, grouping 2, a ring of 4 with a rollback buffer of 2
  (the serializer layout uses 7 and 2), and up to 8 blocks. That covers 5
  importance heights, one more than the ring holds. `MaxRollbackBlocks` is
  3. With 4 or more, `LedgerWindowMatchesReplay` fails: rolling back 2
  groupings of blocks eats into the window. So the bound is the one the
  property needs, and the check shows where it stops holding.
- Codec: three snapshots (one current, two in the rollback buffer, as in
  the test's layout) and four buckets (two non-historical, two in the
  buffer; the test has five and two). Importance heights go up to 5, so
  both rings fill and evict. Two bucket values differ in every field, so
  an in-place update is visible and a dropped field would be noticed.
  There are two mosaic ids with balance 1, in either enumeration order.
  The tests only round-trip rings filled with random data. The model
  also covers young accounts with zero-height entries, which the decoder
  rebuilds by pushes. The uint16 mosaic count is written as `% 2^16` but
  never wraps: that needs 65,536 mosaics.
- Mosaic transfers: an owner, two other accounts, xem, a non-transferable
  mosaic active at heights 2-3 only, and an eternal transferable one
  owned by another account. Heights 1-4 cover before, during and after
  the active window.
- Ledger restarts: the `activity_ledger` instance, with importances 0
  and 1 from the start and changing at any step, so both tiers are saved
  and loaded. The violation run keeps both accounts high-value
  (`Importances = {1}`). A regular-tier account has no buckets in
  non-historical scope at all, which spec 4.5 intends. Up to two restarts, at any point of the chain, with either
  partially filled or full rings. The violation run needs only one
  restart and a rollback depth of 1. Its shortest trace is 4 blocks, a
  restart and one rollback.
- Secret lock builder: field values 0 and 1, up to three setter calls and
  two builds. That covers a build before any setter, a setter overwritten
  before a build, and a setter after a build, for both types.
- Hash lock serializer: two shared values and two hashes, up to three lock
  infos. The reader may be at any point behind the writer.

## 4. Fairness

The consumer and pool threads keep running while they have work. The
io_context threads run every posted task, so each partition step, each
extraction step and the join are weakly fair. The runs set
`CHECK_DEADLOCK FALSE` because a consumer handles one batch and then stops.
`ConsumerReturns` checks that it gets there. The ledger has no liveness
property: block arrival is up to the network. The codec and transfer
models, the restart composition, the builder and the hash lock
serializer have safety properties only. Their steps are caller choices, not
obligations.

## 5. Not modelled, and why

- `MakeBlockValidationConsumer` (the requires-validation predicate) and
  `MakeTransactionValidationConsumer` (the failed-transaction sink) are not
  in the repository.
- The cryptography is abstracted to "signed by whom, over which buffers".
- The ledger does not model `RawScore` or the importance snapshots. The
  importance recalculation that writes them is not in the repository.
  The codec carries both as data.
- `isActive` of `MosaicDefinition` is declared but not defined in the
  repository, and `ActiveMosaicView` is absent. The model reads a
  definition as active from its start height for its duration, with 0
  meaning eternal. Whether the implementation, which is not in the
  repository, agrees is outside any check, and no property is stated
  about that reading.
- Counter widths: the uint32 wrap of `BeneficiaryCount` needs 2^32 updates
  and is listed as a hazard.
- The harvesting service (`HarvestingService.cpp`) is not modelled.
  Every state change it makes is delegated to collaborators that are not
  in the repository: `UnlockedAccounts::modifier().add`,
  `UnlockedAccountsUpdater::load/update`, `ScheduledHarvesterTask::harvest`
  and the service locator. A model would have to invent what they do. Its
  one hazard, the unlock result of the configured harvester being only
  logged, is listed in PROJECT.json.
- `AccountRestrictionBaseSets.h` declares type aliases for the cache
  adapters and nothing else, so there is no behaviour to model.
- `MosaicDefinition::isExpired` is declared but unused by any modelled
  code.
- The restart composition changes importances nondeterministically. The
  importance recalculation that computes them is not in the repository.
- The order of the multisig notifications matters to the multisig loop
  detection (the comment at line 38 of the plugin). That validator is not
  in the repository, so nothing checks the order. The consumers only rely
  on `Publish` raising no signature notification.
- `Only_Embeddable` (the multisig plugin factory) is not modelled:
  nothing modelled submits a top-level transaction.

## 6. Plan

1. Done: the extraction, the block and transaction consumers, and their
   refinement of `BatchVerdict`.
2. Done: the activity ledger with replay reference.
3. Done: `AccountStateCodec`: four layouts, the reference layout, round
   trip, ordering, truncation and format errors.
4. Done: `MosaicTransfer`.
5. Done: `LedgerRestart` composes the ledger and the codec. A historical
   reload is transparent. A non-historical reload loses a bucket on the
   first rollback that pops a head bucket.
6. Done: `BucketRing`, refined by the ledger's ring across historical
   restarts.
7. Then: the operation restriction validator, from
   `OperationRestrictionValidatorTests.cpp`, with the allow/block
   restriction sets of `AccountRestrictionBaseSets.h`.
8. Done: `SecretLockBuilder`, `HashLockInfoCodec`, and `MosaicDefinition`'s
   constructor and `isActive`, used by the validator.

# A TLA+ model of the Hermes cache

Hermes is a normalizing GraphQL cache. It keeps a graph of entities, serves
queries from it, merges payloads into immutable new versions of it, overlays
optimistic updates that can be rolled back, and tells observers when what they
watch has changed. This directory models that core, model-checks it with TLC
and proves with TLAPS, for every value of the constants, what matters most about
optimistic updates, about the atomicity of transactions, about the node ids that
they report as edited, about observers, about the editor that merges payloads and
the graphs it makes, and about the memos of parsed operations. Paths below are
relative to the repository.

## 1. Inventory

| Component | State | Operations | Model |
|---|---|---|---|
| Transactions: `Cache.ts`, `CacheTransaction.ts` | the live snapshot; per transaction its snapshot, parent, edited ids and deltas | `transaction`, `write`, `rollback`, `commit`, `restore`, `reset`, entity updaters | `CacheTransactions`; as atomic steps in `AtomicCache`; its edited ids in `ReportedEdits` |
| Snapshots and queue: `CacheSnapshot.ts`, `OptimisticUpdateQueue.ts` | baseline, optimistic graph, queue | `enqueue`, `remove`, `apply` | `OptimisticUpdateQueue`, `CacheTransactions` |
| Graph: `GraphSnapshot.ts`, `nodes/` | nodes by id, read cache | lookups | `EntityGraph`, `Broadcast` |
| Editor: `operations/SnapshotEditor.ts`, `operations/write.ts`, `util/references.ts`, `util/collection.ts` | new nodes, edited ids | `mergePayload`, `commit` | `SnapshotEditor`, with its invariants in `EditorInvariants`; as one step in `EntityGraph` |
| Observers: `Cache.ts`, `operations/QueryObserver.ts` | the array of observers, what each last read | `watch`, unwatch, `_setSnapshot` | `Broadcast` |
| Reading: `operations/read.ts`, `util/tree.ts` | the read cache | `read` | `Reading` (the overlay, node ids, completeness), `Broadcast` (the read cache) |
| Saving: `operations/extract.ts`, `restore.ts`, `migrate.ts`, `prune.ts` | none | `extract`, `restore`, pure but for the snapshot they replace | `Serialization`, `Restoring`, and `Restore` in `CacheTransactions` |
| Context: `context/CacheContext.ts`, `QueryInfo.ts` | memos of documents and operations | `parseOperation` | `OperationMemo`; with what parsing gives in `ParsedOperations` |
| Parsed queries: `ParsedQueryNode.ts`, `util/ast.ts` | none | pure | `ParsedQuery` |
| Adapters `apollo/`, tracers, `util/store.ts`, types, errors | none | delegation, logging | not modelled |

How they interact. `Cache.transaction` makes a `CacheTransaction` from the live
snapshot and runs the application's callback. A write runs a `SnapshotEditor`
on the baseline or the optimistic graph; after a baseline write, or a rollback,
the queue is replayed over the baseline with one editor for all of it. Commit
runs the entity updaters, appends the deltas to the queue and hands the new
`CacheSnapshot` and the edited node ids to `Cache._setSnapshot`, which carries
cached reads over and goes through the observers, calling back those whose
query may have changed. Every operation is first parsed by the context, whose
answer serves as the identity that reads are cached under; a read then takes the
data of the root as it is, or lays parameterized fields and aliases over copies
of it.

What is hard. There are no threads, but every callback (a transaction's, an
entity updater, an observer, `onChange`) is application code that may call the
cache again, throw, or catch, in the middle of another operation. State that is
captured before such a call is stale after it. A rollback mutates a snapshot
that others share. Replays can fail on a graph they were not made on. The
editor keeps references at both of their ends, in the data as pointers, and as
copies of data in the objects that hold them; garbage collection and the edited
ids depend on their agreement. Nothing is persisted and nothing times out.

What makes each part correct:

* Transactions: the optimistic graph is the baseline with updates replayed in their
  order, everything that is queued among them; a transaction happens at once or
  not at all; the edited ids cover whatever a reader could see change; an update
  that is shown still merges.
* Editor: the two ends of references and the data agree; pointers are current;
  orphans are collected; edited ids cover changed values; nothing changes that
  no payload wrote; identities change only with values. Payloads begin at the root
  of a query or at an entity, which a fragment may be the first to write.
* Observers: cached reads are what a fresh read gives; when nothing runs, every
  observer has been told what is live; in the end each is.
* Parsing: an operation has the fields that its document selects, or is refused;
  one operation has one identity.
* Reading: what was written is read back, whatever path, alias or arguments it
  was written under; a result changes only if one of its nodes is edited; it is
  complete only if the cache has everything.
* Saving: what the cache could answer, it answers the same after it was saved,
  pruned, restored and migrated.

## 2. Modules

* `CacheTransactions`: the state is `live` (`Cache._snapshot`), `snap` (the
  heap of `CacheSnapshot` objects, since rollback assigns to one) and `stack`
  (running transactions, innermost last). One action per operation: `Begin`,
  `WriteBaseline`, `WriteBaselineRejected`, `WriteBaselineNotReplayed`,
  `WriteOptimistic`, `Rollback`, `CallbackReturns`, `UpdaterReturns`, `Commit`,
  `Abort` (the callback threw: `transaction` returns false), `Escape` (an updater
  threw: the exception leaves `transaction`), `Restore`, `Reset`. `Catch` and
  `Throw` are the application's. What merging a payload does is a parameter.
  It EXTENDS `OptimisticUpdateQueue`: `Enqueue`, `Remove`, `Replay`, and where a
  replay throws.
  `shown` and `lagging` are auxiliary: the updates an optimistic graph was made
  with, and whether these differed from the queue of the live snapshot when a
  transaction began. They differ where a rollback changed a queue in place and
  then failed. So the properties of what readers see are about `shown`
  (`OptimisticIsReplay`, `ShownMerges`); `QueueIsShown` says what holds of `queue`
  all the same, that it is part of `shown` and in the same order; and
  `QueueIsReplayed`, the statement of `docs/Architecture.md:121` about the queue
  itself, is violated (`txn_unqueued`).
* `AtomicCache`: what the above promises to transactions that do not nest. Its
  state is what the live snapshot holds, and a transaction is one step. One
  step of it is a concession to the code: `RollbackBegins`, by which a rollback
  takes its update out of the queue even if the transaction it is part of, or
  the replay, then fails (section 4).
* `AtomicTransactions`: the refinement mapping (`Atomic == INSTANCE AtomicCache
  WITH ...`), `IsAtomic`, which is the specification of `AtomicCache` under it, and
  `AtomicInv`, the invariant that makes every step of `CacheTransactions` one of
  `AtomicCache` or none.
* `ReportedEdits`: what transactions promise to observers. A graph is seen as
  cells, the values of the fields of nodes, and merging as what it does to each
  (`MergesByCells`). `EditsCoverCells` says that the edited ids have every node that
  loses or changes a field, `EditsCoverReads` that they have a node of every read
  that changes, and `EditsInv` is the invariant behind both.
* `EntityGraph`: what merging one payload does to a graph of entities with one
  scalar and one reference each, in one step, garbage collection included;
  what reading `{ leaf ref { leaf } }` from the root gives; and the cells. A
  `SoundGraph` is one where no reference dangles.
* `SnapshotEditor`: how the editor gets there. `graph` is the parent snapshot,
  `editor` the editor at work. `MergePayload` is the whole of `mergePayload`:
  the walk, the reference edits, the collection of orphans. `Commit` repoints the
  inbound references. A payload is the sequence of things its walk comes upon. A
  pointer records whether it leads to the object the editor made or to the
  parent's, which is what the stale-copy hazards are about. The payload of a
  fragment on an entity begins with the instruction `fragment` (`WalkFragment`):
  an entity that is not there yet gets a reference from itself to itself, or, if
  the payload has no id, none at all. A payload may also begin at the value
  of a parameterized field.
* `EditorInvariants`: what payloads are like (`PayloadsAreWalks`, section 5), what
  every graph is like between two merges (`GraphInv`), what the edited ids tell
  (`EditsTell`), and together the inductive invariant `EditorInv`. `UnwrittenKept`
  says of an editor half way through its payloads what `OnlyWrittenChanges` says
  of commits.
* `Serialization`: `Extract`, which is `extract` and the round through JSON, and
  `Restore`, on the graphs of `SnapshotEditor`. Pointers are cut out of the data
  and put back from the references, so this is where a graph whose references
  and data disagree is lost for good. So is the data of an entity that refers
  to itself alone (`Forgotten`); `RestoresWhatWasExtracted` says that nothing else is.
* `ParsedQuery`: documents flattened into maps of nodes, merging and its
  conflicts, variables, defaults, and what `util/ast.ts` says of a document.
* `OperationMemo` has the two memos of `CacheContext` as its state, and what parsing
  gives as a parameter. A call of `parseOperation` is `Recall` or `Instantiate`,
  which may throw after it has filled the first memo.
* `ParsedOperations` composes the two. What parsing is to give is stated apart from
  how it is done, by the selections that are reached (`Reached`, `Refused`,
  `Expected`).
* `Reading`: `Result`, what `read` makes of a graph of `SnapshotEditor`: the walk
  that is static or overlaid field by field (`Step`), redirects, lists, the ids of
  entities and overlaid nodes, and completeness. `Cached` says apart from it what
  the cache has for a query.
* `Restoring`: `Prune`, a result written back through the editor; `Migrate`; and
  `Reload`, one step that prunes, extracts, restores and migrates, next to the
  writes of `SnapshotEditor`.
* `Broadcast`: `live`, the heap `snap` of `GraphSnapshot` objects with their read
  caches, the array `observers`, and `frames`, the calls that wait for a
  callback. A transaction is the pair of graphs it makes and the edited ids.
  These are assumed to cover what changes (`Covers`). That is no condition in the
  code, and not everything the cache does meets it (section 6).
* `MC_*`: instances. `MC_Reading` is one of `Reading` and `Restoring`.
  `MC_SnapshotEditor` has those of `Serialization` too, and
  also states that the editor implements `EntityGraph` (`Abs == INSTANCE EntityGraph`).
* `FoldTheorems`, `CacheTransactions_proofs`, `AtomicTransactions_proofs`,
  `ReportedEdits_proofs`, `EntityGraph_proofs`, `Broadcast_proofs`,
  `SnapshotEditor_proofs`, `OperationMemo_proofs`: proofs (section 5).

The layers compose: `edit_merges` shows that the editor's merge is
`EntityGraph!Merged`, its edited ids are `EntityGraph!EditedIds`, and that it
fails exactly where `Collected` and `Mentions` say; `CacheTransactions` is
checked over those operators (`Merge <- Merged`, `Rejects <- Clashes`, ...), and
`EntityGraph_proofs` shows that they are what its theorems suppose; and its
edited ids cover reads, which is what `Broadcast` assumes of its writes and
`EditsAlwaysCoverReads` proves of commits that do not nest. `EditsCoverDynamicReads` shows the same of the editor itself and of queries with an overlay.

The definitions marked "Mutant" state plausible bugs. No action uses one. They are
there to check that a property notices when its definition is replaced.

## 3. Runs

| Run | Question |
|---|---|
| `txn_core` | one transaction at a time, with writes that are rejected, callbacks and updaters that throw, rollbacks, restores and resets: is the optimistic graph the replay of what readers are shown, is the queue a part of that, do the edited ids cover reads, is each transaction one step of `AtomicCache`, and do the inductive invariants hold that say why (`ReplayInv`, `AtomicInv`) |
| `txn_catch` | applications that catch errors and mix rollbacks with writes, in and after replays that fail, with resets: do the edited ids still cover every field that changes, and does the inductive invariant that says why hold |
| `obs_core` | strict mode; callbacks do everything that is not in `Careless`, two deep: are cached reads fresh and observers current, and do the inductive invariants hold that say why |
| `obs_told` | without strict mode, where completeness is carried over; `onChange` writes and the callbacks of observers watch, two deep: the same, and is every observer told in the end |
| `edit_core` | lists, references, parameterized fields and fragments, two payloads in one editor: do references, data, garbage collection, edited ids and identities agree; does every graph that the editor makes survive being saved, but for what `Forgotten` names; do the inductive invariants hold that say why (`EditorInv`, `UnwrittenKept`) |
| `edit_merges` | does the editor do what `EntityGraph` says, and fail where `CacheTransactions` says a replay throws |
| `query_parse` | documents of up to three levels with aliases, arguments, `@static`, directives and fragments, and calls that repeat: does the parsed operation have what is selected, is it refused where it should be, is it an identity, are the memos as if they were not there (`AnswersAreFresh`, with the inductive `MemoInv`), do the parser and `selectionSetIsStatic` agree |
| `read_core` | eight queries over a root, two entities, lists, a plain object and parameterized fields of each: is what was written read back, do edited ids cover dynamic reads, do reads survive pruning, saving, restoring and migrating |

Four runs expect a violation, each of a statement that the documentation or a
comment makes (`PROJECT.json` quotes it):

| Run | What happens |
|---|---|
| `txn_recreated` | of two updates accepted one by one, the first collects an entity that the second writes; together they no longer replay, and every later baseline write is refused |
| `txn_unqueued` | a rollback takes its update out of the queue of the live snapshot and then its callback throws: readers go on to see the update, and the optimistic graph is not the replay of the queue |
| `obs_reentrant` | an observer writes in its callback, and the observers after it are told of the older snapshot last |
| `read_complete` | the cache has an empty list and nothing else, and `{ r: ref { l: leaf } }` is complete. A query with an alias or a parameterized field anywhere is laid over: the overlay makes `{}` of an object that the cache does not have (`operations/read.ts:259`) and assigns `undefined` to its fields (`:187`), and completeness asks only whether the properties are there (`:310`) |

### Bounds

* `MaxDepth`: transactions or callbacks at once. Two is the first depth at which
  something is stale, and that of the runs on observers. The runs on transactions
  have one: nesting loses updates (section 4), and what holds in spite of that,
  `ReplayInv` and what follows from it, is proved at every depth.
* `MaxQueue`: queued deltas together with those of the transaction. Two updates
  are what ordering, removing the older one and `txn_recreated` need; the
  theorems hold for any length.
* `MaxMerges`: payloads in one editor. Two, since a replay differs from a write
  only by what the first leaves in the editor for the second.
  `edit_core` has fragments on one of the two entities, with and without an id, that
  write a leaf or a reference, before and after other payloads and in the same
  editor. `read_core` has one payload in an editor, and writes and reloads in any order.
* `MaxAsked`: operations that are asked for, any number of times each. Two are
  what it takes for one to be given in place of the other. The documents have up
  to two selections on a level and two fragments, of which one spreads the other:
  every pair of selections of one field meets, at two depths, in both orders.
* `WriteCount` and `PayloadLists` of `AtomicCache`: the number of payloads that a
  baseline transaction writes, and what an optimistic one writes. `MaxQueue`
  bounds the second; no baseline transaction makes a graph that four payloads do
  not make.
* The instance of `read_core` has parameterized fields of the root, of an entity,
  of an element of a list, of a plain object, and one that only migrations make;
  one that holds a scalar, ones that hold entities; one that is redirected. A
  type of entity has a migrated field, another a parameterized field to add.
* Two entities and a root: chains, shared targets, self references and cycles of
  two. Lists have up to two places, so that they shrink to one and to none.
* Two observers: one before and one after the one that misbehaves. The other runs
  on observers have two queries, of which one reads a subset of the other's nodes;
  `obs_told` has the larger one, two observers of it, and the graphs where it
  follows a reference or finds nothing, since liveness with nested calls is slow to
  check.
* `SnapId` bounds the snapshots referred to at once; those that nothing refers to
  are dropped, as a garbage collector does. Identities are interchangeable, hence
  the symmetry (not in `obs_told`: symmetry is unsound with liveness).

### Fairness

Only `obs_told` needs it. The broadcast loop is synchronous code that cannot be
left (`WF` of its three steps). A callback is application code: it may call the
cache again as often as it likes, but it returns in the end (`SF` of returning,
at each depth, since the return is disabled while inner calls run). Outside of
callbacks nothing is required to happen.

Deadlock is checked in all runs; the application can always start something.

## 4. Where the code falls short

The runs above that pass restrict the application or the payloads. Apart from
what the three violation runs show, these are the reasons, found with the same
modules under wider constants:

* A transaction replaces what is live by what it made of the snapshot it began
  with (`Cache.ts:126`, `:141`). An optimistic one undoes the baseline writes
  that its callback makes through the cache, so `IsAtomic` is checked without
  nesting.
* A rollback assigns the shorter queue to the snapshot it began with, which is the
  live one (`CacheTransaction.ts:82`), before the replay that may throw. When it
  throws, or the callback does later, the cache goes on to show an update that is
  no longer queued (`txn_unqueued`), until something replays the queue. `AtomicCache`
  has it as `RollbackBegins`, and `CacheTransactions` as `shown`. What is left in the
  queue need not merge without the update either.
* A restore reports the ids it brings (`operations/restore.ts:28`). Observers of
  nodes that are gone are not called, and reads of them stay cached.
  `EditsCoverCells` and `EditsCoverReads` are about commits and resets.
* A reset reports the nodes of the optimistic graph (`Cache.ts:164`). An entity of the
  baseline that a queued update collected is not among them, and in strict mode
  a cached read that is rooted at it is carried over to the empty baseline. What
  `EditsCoverCells` says of a reset is about the optimistic graph.
* Where a rollback, or its transaction after it, has failed, what readers see lags
  behind the queue. A baseline write then takes the update away without reporting
  the nodes it was seen in: the replay that reports them no longer has it.
  Transactions that run in such a state are marked `lagging`, and the two properties
  leave them out.
* A rollback after a write in one optimistic transaction drops the write from the
  graph and not from the queue (`CacheTransaction.ts:83`); so does a failed write
  that the callback catches (`CacheTransaction.ts:198`). Hence `"mix"` and
  `"catch"`.
* A rollback that brings an entity back does not report it as edited, so its
  entity updater does not hear of it (`CacheTransaction.ts:87`). Observers do,
  since what refers to it is reported (`EditsCoverReads`).
* An observer's callback that unwatches makes the loop skip the next observer
  (`Cache.ts:182`), one that throws ends the loop (`Cache.ts:208`), and what the
  first callback of `watch` writes is not told to its own observer
  (`Cache.ts:87`). Hence `Careless`, the pairs of a caller and an operation that
  `ObserversCurrent` is checked and proved without; `ReadCacheIsFresh` holds with
  them.
* `null` over a list leaves the references of its elements
  (`SnapshotEditor.ts:337`). The next edit of an entity among them writes the list
  again at its old place, and a graph that is extracted before comes back with
  it (`operations/extract.ts:96`). The payloads of the instances have no `null`
  over a list with references.
* A payload that is rooted at an entity which the cache does not have, as a
  fragment's may be (`operations/SnapshotEditor.ts:103`), makes a reference from the entity
  to all of itself (`:186`). Such an entity is never collected (`:525`), even when
  nothing else refers to it any longer. If it refers to no other entity, `extract`
  leaves `null` of its data (`operations/extract.ts:96`): it, and whatever points to it, is
  null in the cache that is restored. `Forgotten` are these entities. If the payload
  has no id, the entity has no references at all, and stays until something refers
  to it and stops to. `OrphansCollected` and `ReferencesMatchData` name both exceptions.
* `null` over an object leaves the parameterized fields of the object, and a
  payload that writes only such fields does not replace the null
  (`SnapshotEditor.ts:199`), which then hides what was written.
* A migration replaces only the baseline of the restored snapshot
  (`operations/migrate.ts:128`): optimistic reads, which are what observers make,
  do not find the nodes it adds until a baseline write replays the queue.
  `Restoring` follows the baseline, and `Restore` in `CacheTransactions` is a restore
  without migrations.
* `copyFrom` copies the data of a node and no references (`operations/migrate.ts:86`).
  Where that is an entity, the copy keeps the data the entity had. The instance
  copies a scalar.
* Pruning by a query that the cache does not satisfy makes a cache in which every
  field of it is null (`operations/prune.ts:18`), and `Cache.extract` does not say so.
* A field that a redirect answered (`operations/read.ts:153`) is read under the id
  it was redirected to, and no longer when the field itself is written, of which
  its observers are not told. A parameterized field that is not cached is passed
  over (`:163`), and a static one of the same name is served in its place. Where a
  response name is the schema name of another field, as in `{ a: b, b: a }`, the
  overlay reads back what it wrote (`:171`). The instances have one redirected
  field that is never written, and no such names.
* A variable that only the arguments of an `@static` field use is refused as unused
  (`ParsedQueryNode.ts:133`), and the default of a variable that is not null is ignored
  (`util/ast.ts:61`). `ParsedQuery` has both as they are. The memo keeps the
  caller's variables (`context/CacheContext.ts:260`); a caller that changes the
  object afterwards changes what the memo recalls.
* Cycles that no root leads to, an entity that refers to itself among them, are not
  collected (`SnapshotEditor.ts:525`), and a
  plain object that is nulled and then written in one replay gets its old
  fields back from the parent snapshot (`util/collection.ts:54`).

## 5. Proofs

All theorems hold for every value of the constants: any graphs, payloads and merge
function, any queries and results, any depth of calls and length of queue.
Those of `EntityGraph_proofs` are of its operators, for any number of entities;
those of `SnapshotEditor_proofs` are for any number of nodes, paths and payloads
in one editor.

| Theorem | States | Supposes |
|---|---|---|
| `CacheTransactions_proofs!TypeCorrect` | `TypeOK` | |
| `ReplayInvariant` | `ReplayInv` | `Disciplined` |
| `OptimisticAlwaysReplay` | `OptimisticIsReplay` | `Disciplined` |
| `ShownAlwaysMerges` | `ShownMerges` | `Disciplined` |
| `QueueAlwaysShown` | `QueueIsShown` | |
| `AlwaysCommittable` | `AtomicInv` | `Disciplined`, `Sequential`, `Unbounded` |
| `TransactionsAreAtomic` | `IsAtomic`, the refinement of `AtomicCache` | `Disciplined`, `Sequential`, `Unbounded` |
| `EditsInvariant` | `EditsInv` | `Sequential` |
| `EditsAlwaysCoverCells` | `EditsCoverCells` | `Sequential` |
| `EditsAlwaysCoverReads` | `EditsCoverReads` | `Sequential`, `ReadersFollowCells` |
| `EntitiesMergeByCells` | `MergesByCells` of `EntityGraph` | |
| `EntityReadsFollowCells` | `ReadersFollowCells` of `EntityGraph` | |
| `MergeKeepsReferences` | merging a sound graph gives a sound graph | |
| `Broadcast_proofs!TypeCorrect` | `TypeOK` | |
| `ReadCacheInvariant` | `ReadCacheInv` | |
| `ReadCacheAlwaysFresh` | `ReadCacheIsFresh` | |
| `ObserversInvariant` | `ObserversInv` | `Considerate` |
| `ObserversAlwaysCurrent` | `ObserversCurrent` | `Considerate` |
| `SnapshotEditor_proofs!EditorInvariant` | `EditorInv` | |
| `TypeCorrect` | `TypeOK` | |
| `SymmetricReferences` | `ReferencesSymmetric` | |
| `ReferencesAreData` | `ReferencesMatchData` | |
| `NoStalePointers` | `PointersCurrent` | |
| `NoOrphans` | `OrphansCollected` | |
| `EditsAreCovered` | `EditsCoverValues` | |
| `UnwrittenAlwaysKept` | `UnwrittenKept` | |
| `OnlyWhatIsWritten` | `OnlyWrittenChanges` | |
| `SavedGraphsComeBack` | `RestoresWhatWasExtracted` | |
| `OperationMemo_proofs!MemoInvariant` | `MemoInv` | |
| `AnswersAlwaysFresh` | `AnswersAreFresh` | |
| `OperationsAreIdentities` | `SameOperationSameIdentity` | |

### What is assumed

The constants satisfy the ASSUMEs of their modules: merging a payload into a graph
gives a graph, edited ids and the ids of a graph are node ids, no update has the id
`NoChange`; for `ReportedEdits` (`CellAssumption`) that only the nodes of a graph have
cells in it, and that a merge drops what it collects, sets what the payload
has, leaves the rest, and edits what changes; for `EntityGraph` that the marks for
what is absent, missing or not selected are no values; and for `Broadcast` that
results, completeness and node ids have their types, and that the marks for no
result and no ids are neither; for `OperationMemo` that an exception is no index;
for `SnapshotEditor` that there are finitely many nodes and paths, that roots,
entities and parameterized fields have different ids and that the marks for what is
absent, missing or null are no values; for `Serialization` that the paths of elements of
lists are paths (`ElementAssumption`).

Of payloads the editor's theorems assume that they are walks of results of one
schema (`PayloadsAreWalks`). TLC evaluates it on the payloads of the instances. The
first two parts are what `_mergeSubgraph` does, the others what a server answers:

* `NodesAfterFields`: the walk begins at the root of the payload, which is a root, an
  entity (`fragment`) or the value of a parameterized field
  (`SnapshotEditor.ts:103`); it comes to any other entity through a reference to it, and
  to any other parameterized field through its owner (`:207`, `:288`). An entity at
  which a payload begins without its id gets no leaf, since its id is the leaf.
* `ListsAreWhole`: a list is resized before its elements are walked, and each of them
  is (`SnapshotEditor.ts:323`). That elements are entities or null is an abstraction
  (section 6).
* `FieldsHaveOneKind`: what is at a path is a list in all payloads or an entity in
  all, as GraphQL types say. Where a payload breaks this, the code throws.
* `OneResult`: a payload has one value for a field, since GraphQL merges selections
  of one field, and of every entity in it at least the id, which is what makes it
  an entity for the code; but for the entity of a fragment without one.

`EditorInv` keeps apart what a fragment may do to a graph: `Self(n)` is the one reference
that is not a pointer in the data (`Referred`, `ReferencesLed`), and an entity in
`Unnamed`, that some payload begins at without its id, may be there without a reference
to it as long as it has no leaf (`OrphansGone`).

Of the graphs of `EntityGraph`, what the modules on transactions assume of
merging is proved: `MergeKeepsReferences` and `EntitiesMergeByCells`. TLC
evaluates it too, on the instances.

The suppositions `Disciplined`, `Sequential` and `Considerate` are about
applications, and leave out what section 4 describes and what makes the statement false;
the other two are about what the module is instantiated with:

* `Disciplined`: no application code catches what a write throws, or rolls back in
  an optimistic transaction that has written.
* `Sequential`: no transaction begins inside another.
* `ReadersFollowCells(Graph)`: a complete result depends on nothing but the cells
  of the nodes whose ids it has. It says of queries what `CellAssumption`
  says of merging, and `EntityReadsFollowCells` proves it of `EntityGraph`.
* `Unbounded`: `AtomicCache` is not given the bounds that TLC needs (`WriteCount` is
  `Nat`, `PayloadLists` is `Seq(Payload)`).
* `Considerate`: callbacks do nothing in `Careless`.

### The queue (`CacheTransactions_proofs`)

The substance of `TypeOK` is that the snapshots that the cache and the running
transactions refer to are there, whatever is dropped.

`OptimisticIsReplay` and `ShownMerges` speak of the live snapshot and are not
inductive: a commit makes another snapshot live. `ReplayInv` adds what every
running transaction's snapshot shows: the updates it started with and then the
transaction's deltas (`ShowsDeltas`), all of which merge, unless an error is under
way, in which case that snapshot is never committed. Enqueueing then gives what is
already shown (`EnqueueAppend`, `EnqueueNothing`, `ExpressedAppend`). A rollback that
assigns to a shared snapshot touches its `queue` and none of the three fields the
invariant is about, so every other frame is undisturbed. Each action has a lemma
for types and one for replay.

These two are about what readers see, and say nothing of the queue, which that rollback
takes away from what they see. `QueueAlwaysShown` is about how far: of every
snapshot, the live one and those of running transactions, the queue is what is shown
without some of it. It needs no supposition about applications. Taking out an id leaves
a subsequence, and committing puts the same deltas behind both. That the queue
is all of what is shown is false (`txn_unqueued`).

`Replay` and `Remove` are recursive functions. That they have the values their
equations say is proved from `FoldExists` and `FoldUnique` in `FoldTheorems`,
which get induction from the least element of a set of naturals (`LeastElement`),
since the library's induction rules take operators as parameters.

### The refinement (`AtomicTransactions_proofs`)

The live snapshot is the state of `AtomicCache`, so only `Commit`, `Restore`, `Reset`
and the rollback that assigns to the live queue are steps of it; all others must be
shown to stutter. What a commit is a step *of* is settled long before it, write by
write. `AtomicInv` is that memory: of the one transaction that runs, the queue is that
of the live snapshot without some ids, the baseline is one that some number of
payloads makes of the live one, and what it shows is remade from these or, for an
optimistic transaction that has not rolled back, is the live one's (`Committable`).
It rests on `ReplayInv`, which relates the optimistic graph to both. The algebra that
it needs is of the two folds of `AtomicCache`: leaving out ids twice is leaving out
their union (`WithoutBoth`), `Remove` is leaving out one (`RemoveIsWithout`), and one
more payload takes `After(n, g)` to `After(n + 1, g)` (`AfterWrite`). Where a rollback's
replay throws, the queue of the live snapshot has changed and the step is
`RollbackBegins`.

### The edited ids (`ReportedEdits_proofs`, `EntityGraph_proofs`)

Observers are told nothing but the edited ids of a transaction, so an id that is
missing there is an observer that is wrong for ever. That they are enough is not
obvious. A baseline write reports what it changes in the baseline and what the
replay of the queue changes over that, which is not what changes in the
optimistic graph: neither graph is compared with the one that readers have.
`EditsInv` says why nothing is missed:

* `Sourced`: each cell that readers see is the baseline's or was set by an update
  they are shown.
* `Reported`: what the transaction has made agrees with the live snapshot outside
  of its edited ids.
* `Grounded`: once a baseline transaction has replayed the queue, or rolled back,
  its edited ids have every node in which readers saw something that was not
  the baseline's. For the replay sets every cell that an update of the queue
  sets, and what it sets is reported unless the baseline has it already
  (`ReplayUnedited`, `BaselineReported`); a rollback reports what its update and all others set.

What leaves the optimistic graph is then reported, either as an edit of the
baseline or by having been something beside it. The induction over the queue is
in lemmas on the prefixes of a replay. Only `Sequential` is supposed: writes that
throw and are caught, rollbacks after writes and replays that fail are covered. A
cell that a graph does not have need not be reported (`Preserves`): an incomplete
read is read again anyway.

`EntityGraph_proofs` discharges `CellAssumption`, `MergeAssumption` and
`ReadersFollowCells` by instantiating `ReportedEdits` with `EntityGraph`, for any
number of entities. `MergeKeepsReferences` needs that an entity is
collected only with everything that refers to it: if some node outside of the
least closed set referred to an entity in it, the set without this entity would
be closed as well (`CollectedReferrers`). `TypeCorrect` with `SoundGraph` for `Graph`
then says that no snapshot a transaction makes or serves has a dangling reference.

### Observers (`Broadcast_proofs`)

`ReadCacheIsFresh` is not inductive: whether a cached result is carried over to the
next graph is decided by its completeness and its ids, of which it says nothing.
`ReadCacheInv` gives the possible entries of a cache (`Entries`): they have the ids and
the completeness of the result, or none. `Covers`, the assumption on what a
transaction may hand to `Write`, which `EditsAlwaysCoverReads` proves of
transactions that do not nest and section 6 says where it fails, then says that what is carried over is still a result
of the new graph (`UnaffectedEntry`, `CarriedCaches`). No supposition about callbacks
is needed.

`ObserversCurrent` says something only when no call is in progress; a state in the
middle of the loop has observers that are current and others that are not.
`ObserversInv` says which: at most one loop is telling, and above it are only new
observers that have read and wait for their first callback; those behind
the loop's index and those that it will pass over are informed. It says *informed*
and not current, since an observer's completeness and ids decide whether a later
loop passes it over: they must be those of the result too. Per action, first the
calls in progress (`LoopSettles`, `PushSettles`, `PopSettles`), then the observers.

### The editor (`SnapshotEditor_proofs`)

What is served is a committed graph, and the properties are about those. `EditorInv`
says the same of the graph that an editor has half way, between two payloads
(`GraphInv`), and more. That references have two ends (`EndsMatch`) and are the pointers
of the data (`DataMatches`) is preserved only together with where they can be at all
(`ReferencesLed`, `KindsKept`): a list that is cut drops exactly the references beyond
its end because nothing else is at such paths. `ListsWhole` is needed since the code
counts a list by its length and the model by its elements. `FreshAreFresh` and
`EditsTell` are what commit rests on.

Within a payload none of this holds. The proof follows the phases of `mergePayload`,
each a fold, and each with an invariant of its own:

* The walk (`WalkInv`) changes leaves, lists and null, and collects edits. The edits
  collected are pending: what the data will point to is the data with them applied, and
  each location has at most one (`InstructionWalked`, `PayloadWalked`). A list
  that is cut leaves references that no data has until its edits are applied
  (`ListCutInWalk`), and the elements it makes room for are missing until the walk
  comes to them, which `ListsAreWhole` says it does.
* The reference edits (`EditState`) are applied one after the other. Both ends of a
  reference change together; the nodes whose last inbound reference goes are the orphans,
  unless an edit refers to them again (`EditRound`, `RoundOrphans`, `PayloadEdited`).
* The collection (`CollectState`): everything without a reference to it is in the queue or
  is a root. A node is collected once and queued at most once more, so twice the
  number of nodes is enough rounds for the queue to run out (`OrphanCollected`,
  `CollectDone`, `OrphansRemoved`). That it takes no node that something refers to
  makes the pointers to what was collected go with the nodes that hold them.
* Commit: the nodes that `_rebuildInboundReferences` follows are closed under
  referrers (`AllReached`), so each pointer to new data is made to the new object and
  every other is to an object that did not change (`NoneStale`, `GraphCommitted`).

Every phase may throw, and the editor is then dropped; once it has failed each round
leaves it as it is (`FailedWalk`, `FailedEdit`).

The folds are those of the community modules, whose recursion the provers do not see.
`IsFold` describes the values of a fold as a function of the prefix, or of the set, it
has gone over, which `FoldTheorems` shows to exist and to be unique; `WalkSteps`,
`EditSteps`, `CollectSteps`, `ReachSteps`, `UnlinkSteps` and `RebuildSteps` say of each
fold of the editor that it has these values.

`SavedGraphsComeBack` then needs no more about the editor than `GraphInv`: cutting at
the outbound references cuts all pointers and nothing else (`AllCut`), since references
to entities are the pointers, or are to all of the entity itself, and those to parameterized fields are at paths that hold
nothing or are within what is cut; putting them back restores them (`AllPut`).

`OnlyWrittenChanges` compares two commits, and `UnwrittenKept` is what carries it across
the payloads between them. It is proved by the same phases, with `EditorInv` for
what each may suppose. `Spared` is `UnwrittenKept` with the writes of the payload that is
being merged counted already, and `Keeps` is a step that preserves it: it leaves each
value that is not written, or makes it what the parent has. The second is what
`lazyImmutableDeepSet` does, which copies from the parent what it does not set
(`DeepSetKeeps`); it is right only as long as a path that nobody wrote still has the
parent's value, which is what the invariant says. The edits of a payload write where
their instructions do, or cut a list that one of them resized (`EditOrigin`,
`RoundSpares`). The collection is the phase where the conjuncts on nodes that are gone
matter: a node that was collected must not be made anew, without its data, and a
parameterized field is collected only after what it hangs on, since until then that refers
to it (`Held`, `TakenSpares`). As for what counts as written: an instruction writes what is
around its path and what is below it, and `null` over a list is not among the payloads
(section 4).

### The memos (`OperationMemo_proofs`)

An operation is the identity that reads are cached under, so two calls must get
the same object exactly if they ask for the same. `MemoInv` says that what is filed
under a key is what parsing the key's document gives (`InfosAreFresh`,
`InstancesAreFresh`) and that no two instances under a key are of the same
operation. A call that throws half way leaves the first memo filled and the
second with an entry for its key that has nothing new, which both
preserve. What parsing gives is a parameter: the theorems are of any parser.

### Only model-checked

* `EventuallyTold`: the prover does not reach liveness under fairness.
* That the editor makes the graphs of `EntityGraph` (`MergesLikeEntityGraph`), which is
  what ties the theorems about those to the code of `SnapshotEditor`, and where it
  fails (`FailsOnCollected`).
* Of the editor, that identities change only with values (`IdentityChangesWithValue`,
  whose closure is along outbound references).
* Parsing, reading, pruning and migrating (`ParsedAsSelected`, `StaticAgrees`,
  `ReadsWhatWasWritten`, `EditsCoverDynamicReads`, `SavedReadsTheSame`), whose definitions
  are RECURSIVE operators, in whose modules the provers do not work.

## 6. What is abstracted

* A payload's GraphQL is reduced to what its walk comes upon. `EntityGraph` has one
  scalar and one reference per node, `SnapshotEditor` one scalar and any paths.
  Kinds that clash (entity and plain object) are in `EntityGraph` only.
  Payloads that contradict themselves about one entity are left out.
* The arguments of a field are one value, a constant or a variable, in
  `ParsedQuery`, and one set of arguments per field in `Reading`. Fragments do not
  spread themselves. `addTypename` and its rewriting of documents are not modelled.
* The verification query of `restore` is a read that can only refuse the restore.
* Lists have no holes: an element is an entity or null.
* Entities refer to entities; nothing refers to a root node.
* `entityTransformer`, `freezeSnapshots`, warnings and tracing change nothing that
  a property is about.
* Ids of updates are not empty: `''` is treated by the code as no id.
* A new graph's read cache starts empty; reads that a transaction makes of its own
  snapshot before commit are not carried into it. `onChange` is taken to be
  configured; one that does nothing is the one that returns.
* `Broadcast` assumes `Covers` of what is handed to `_setSnapshot`: a complete read none of
  whose ids is edited gives the same on the new graph. The code does not check it
  (`Cache.ts:185`), and it is false of a restore, of the baseline of a
  reset, and of commits of transactions that ran inside another or after a rollback that
  failed (section 4). What `Broadcast` says of observers and cached reads is not said of
  those. Otherwise `Broadcast` allows more edited ids and more new graphs than the
  transactions produce.
* Payloads that begin elsewhere than at a root are in `SnapshotEditor`, `Serialization`
  and `EditorInvariants`, and so in `edit_core` and the theorems of `SnapshotEditor_proofs`.
  The payloads of `edit_merges`, `EntityGraph`, `CacheTransactions` and `Reading` begin at the
  root. Left out are fragments whose payload is null, or has another id than the
  entity they are written to, or goes through the parameterized field they begin at
  while that is not cached.

## 7. Plan

Done: transactions with their abstract cache, the broadcast, the editor with its
composition with `EntityGraph`, saving with pruning and migrations, parsing,
reading; and the theorems of section 5.

Left to model:

1. Lists with holes, in `SnapshotEditor` and `Serialization`
   (`tryRestoreSparseArray`), and entities that one payload has twice.
2. `updateParameterizedReferences` (`apollo/Transaction.ts`), which goes over the
   outbound references of a snapshot while it writes.

Not modelled: the rest of `apollo/`, which hands arguments on and keeps no state;
tracers, which log; types, error messages, `util/store.ts` and freezing.

Left to prove:

1. `IdentityChangesWithValue`: that what `_rebuildInboundReferences` follows backwards
   from the new data is what `LeadsTo` reaches forwards.
2. That the editor implements `EntityGraph`, for which the walk of `SnapshotEditor` has to
   be related to the one step of `EntityGraph!Merged`.

# Verification of the artifact system

TLA+ specifications of the ID allocator and of the artifact layer, the TLC
configurations that check them on small instances, and TLAPS proofs for instances
of any size. Paths below are relative to the repository root; `AL/` stands for
`artifact-layer/src/`, `IDS/` for `id-allocator/id-allocator-service/src/` and
`IDC/` for `id-allocator/id-allocator-client-cpp/src/id_allocator_client/`.

## 1. The system and its parts

| component | state it keeps | operations | talks to |
|---|---|---|---|
| super block allocator (`IDS/allocator`) | per partition: active and background super block, one prefetch future | `allocate_block`, asynchronous prefetch, bucket selection | block store |
| partitions (`IDS/partition`, `IDS/service`) | table of loaded partitions | create, delete, get, list, load at start | allocator, block store |
| block stores (`IDS/store`) | partition entities, one counter per bucket | `allocate`, counts, save, delete, list | Google Datastore, or process memory |
| ID client, C++ and JavaScript (`IDC/`, `id-allocator/id-allocator-client`) | front and back block, prefetch worker | `initialize`, `allocate_id`, `close`, retrying fetch | the service, over gRPC |
| versioned storage (`AL/storage`) | commits, branches, staging areas | branch, object, commit and merge calls | LakeFS, or process memory |
| index merge (`AL/index`, `AL/transaction/conflict_resolver.cpp`) | none (index objects in storage) | three-way merge, resolution of index conflicts, retry decision | storage |
| transactions (`AL/transaction`) | cache of transaction records, one mutex per process | snapshots, create, write, commit, rollback, implicit transactions | storage, index merge |
| artifact store (`AL/artifact`) | none of its own | create, update, delete, get; validation; referential integrity | transactions, storage, ID client |
| type registry, genesis (`AL/registry`, `AL/bootstrap`) | index definition IDs, types as artifacts | register types and versions, bootstrap | transactions, storage |
| services, server (`AL/service`) | none | gRPC requests | all of the above |
| artifact client (`artifact-client-js`) | state of a transaction object | transactions, reads, retries, type registry | services |

What is hard here, and what makes each part correct:

* **ID allocator.** Replicas share only the store's counters. Prefetches finish
  between any two calls; answers of the Datastore get lost after the commit was
  applied; processes die with reserved IDs in memory. Correct means: an ID is
  returned at most once, over all replicas and restarts.
* **ID client.** Application threads, a prefetch worker and `close()` share two
  blocks. Correct means: no ID used twice, no block dropped by mistake, every
  wait ends.
* **Storage.** Merges in both directions make commit graphs with several common
  ancestors. Correct means: branches are isolated, and a merge does not undo what
  its target did. Behind LakeFS a call is several HTTP requests, any of which may
  fail, lose its answer or be served late. Correct means: its answers are still
  those of one moment.
* **Transactions.** The mutex of one process does not stop another process, and
  is released while a commit sleeps between two attempts. Writes do not take it.
  The record of a transaction is an object on its branch which is deleted before
  the merge and put back if the merge fails. Correct means: acknowledged writes
  are not lost, nothing uncommitted is visible, indexes match the artifacts.
* **Artifacts and references.** A write is checked by one read after the other of a
  branch that moves meanwhile, forked from what it has become, and merged into what
  it is by then. Correct means: no reference dangles, covering indexes show the
  references there are, a delete takes along all that depends on it, an update
  overwrites only what it has seen.
* **Type registry and genesis.** A registration is a long series of reads of a
  moving branch before its transaction is opened; instances bootstrap an empty
  store at the same time, on the canonical branch itself, and may die on the way.
  Correct means: one definition per name, one list of versions per type, data of
  earlier versions stays readable, every instance gets up with everything there.

`PROJECT.json` lists the hazards line by line, with the properties that cover
each, or why none does.

## 2. Modules

```
BlockServer          what the ID service promises (abstract)
  SuperBlockAllocator   implements it; MCSuperBlockAllocator,
                        SuperBlockAllocatorProofs
  BlockDoubleBuffer     the client, built on it; MCBlockDoubleBuffer,
                        BlockDoubleBufferProofs
MemoryStorage        the versioned store as pure operators; MemoryStorageProofs
  Storage               as a state machine; MCStorage, StorageProofs
  LakeFSStorage         over HTTP, a call as a program of requests; MCLakeFSStorage,
                        LakeFSProofs
IndexObject          index objects and their merge as pure operators
  IndexMerge            the retry loop around it; IndexMergeProofs
ConflictResolver     resolution of merge conflicts, over MemoryStorage and IndexObject
TransactionManager   composes these three; MCTransactionManager,
                        TransactionProofs
ReferentialIntegrity references and what a delete entails, as pure operators
  ArtifactStore         composes it with store and resolver; MCArtifactStore,
                        ArtifactStoreProofs
SchemaCompatibility  may one version follow another, as pure operators
Genesis              the bootstrap of an instance (actions, without a Next)
  TypeRegistry          composes both with store and resolver; MCTypeRegistry
```

Operators marked "Mutant" state a plausible mistake in the operator that follows
them; they show that a property can fail. No specification uses them.

### SuperBlockAllocator

One partition, a set of replicas, one store. A super block is the range it can
still carve. `fetch[r]` is the state of `pending_fetch_` (`running`, `ready`,
`failed`), or `sync` while a caller waits inside `allocate_block()` with the mutex
held. The actions are the ways through `allocate_block()`: `CarveActive` (its
step 2), `PromoteBackground` (steps 3 and 4), `AwaitFailedPrefetch` (4),
`StartSyncFetch` and `FinishSyncFetch` (5), with `try_complete_prefetch()` as
`Harvested` and `maybe_start_prefetch()` under its own name; `FinishPrefetch` is
the asynchronous task. A caller that waits for a running prefetch is the caller
that comes after `FinishPrefetch`: nothing else can enter while it holds the
mutex. `CreatePartition`, `DeletePartition` and `ErasePartition` are the
administrator's calls; deletion takes two steps because the destructor of the
future waits for the prefetch. `Restart` kills a process at any point.

The store is atomic (a Datastore transaction, or a mutex). With
`StoreKind = "datastore"` every call may fail before or after it took effect.
IDs are numbers composed as in `id_format.h`; widths do not matter below 2^53,
which is `IdLimit`.

`granted`, `grants` and `lost` are history: what was returned and what nobody can
return any more.

### BlockDoubleBuffer

Several clients over `BlockServer`. `allocate_id()` holds the mutex and is one
action. `worker` says who is inside `fetch_block()`: one action per RPC attempt
(`FetchOk`, `FetchFails`), since an attempt can fail after the server granted the
block. `close()` is two actions, before and after the join of the worker; the
reset of the gRPC stub and the reset of the buffers, which follow each other
without waiting, are the first. A retry during `close()` goes through the stub
that was reset: the client is then `crashed`.

### MemoryStorage and Storage

A repository is a record of the commits, the branch heads and the staging areas.
Commits are numbered; `IdOrder` keeps the order of their names as strings, by
which `FindMergeBase()` breaks ties. Failing calls change nothing and are left
out. `BasesAreLatest` says that no merge had a base older than another common
ancestor of the two branches.

### LakeFSStorage

`call[c]` is the call client `c` works on. `pc` names the HTTP request it makes
next; `XGoesOn` is what method `X` of `lakefs_storage.cpp` does with the reply.
`DoRequest` is one request: served, or failed before the server got it, after it
was served (the answer is lost), or before it is served (`adrift`, to be served
any time later by `ServeLate`). `AddIndexRow()` and `RemoveIndexRow()` are calls
too: a read, then an upload.

The server is external. It is taken to serve one request atomically as
`MemoryStorage` serves a call, to refuse a merge into a branch with staged
changes, to merge the source's head commit, and to answer 404 without effect when
an object to be deleted is absent. An object that is put with the value it had
counts as a change; the real server may be more lenient. Pages have one entry.

### IndexObject and IndexMerge

An index object maps artifact IDs to order values. `MergeIndexObjects` is the
three-way merge. `IndexMerge` is the loop of `WriteExecutor::ExecuteWrite` and
`CommitTransactionImpl` for one index path: attempt, resolve on the source
branch, attempt again, while other writers change the target.

`ConflictResolver` decides on a retry and applies the merge to the conflicting
paths. The code finds the message that declares an index among the built-in types
only (`CandidateIndexedDescriptors`), and gives up on any other index as on a
unique one. So its constant `Indexes` stands for the non-unique indexes of
built-in types (`Resolvable` in `TransactionManager`, `BuiltIn` fields in
`ArtifactStore`). An instance of the module brings the operators of
`MemoryStorage` with it. `ResolveSinglePath` is one object, merged as it is in the
commits that the report on the conflicts names; `ResolveConflicts` is the resolver
as one step, used where nobody else works on the source branch.

### TransactionManager

Threads of one or more instances over one repository. One action is one storage
call others can see, with the calls before it that only read or touch a branch
nobody else knows (the child branch of a write, the branch of an implicit
transaction; they carry the thread's name). `lock` is the instance's `mutex_`.

| code | actions |
|---|---|
| `CreateSnapshot`, `CreateTransaction`, `RollbackTransaction` | same names |
| `WriteExecutor::ExecuteWrite` through `ArtifactStore::ExecuteWrite` | `BeginWrite`, `MergeWrite` (one attempt), `AckWrite` |
| `CommitTransactionImpl` | `BeginCommit`, `CleanStage`, `CleanCommit`, `MergeTransaction` (one attempt), `Wake`, `RestoreStage`, `RestoreCommit`, `FinishCommit` |
| the resolver it calls (`BuildDeterministicIndexRetryConflictResolver`) | `ResolvePut` (one object), `ResolveCommit` |
| `RunImplicitTransaction` | `ImplicitWrite`, `ImplicitCommit`, the commit actions, `ImplicitRollback` |
| an instance dies | `Crash` |

The branch of a transaction is one that others see: writes of the same transaction
are merged into it without taking the mutex, also between the failed merge, the
resolver's `PutObject` calls and its commit. A `PutObject` then puts an object made
of older ones over a newer one; `lostRows` records the rows this takes away.

A payload is the name of the transaction that wrote it, so a property can tell
whose value is where; every write also puts the artifact's row into every index
object. The commit record is left out: only tests configure one. `NoDirtyMain` has
two parts: no transaction's record on the canonical branch (`NoRecords`), and only
payloads of committed transactions (`OnlyCommitted`).

### ReferentialIntegrity and ArtifactStore

A stored artifact is its type, the IDs in its reference fields, and one value for
everything else; with none of them its payload is empty, which is a tombstone.
The covering index of field `f` has one object per target. Reference definitions
and types do not change here. The branch a request reads is named, not its commit
(`ResolveWriteRef`), so every read is an action of its own and sees the branch as it
is by then; others work between any two:

| code | action |
|---|---|
| `CreateArtifact`, `UpdateArtifact`, `DeleteArtifact`: the first read | `CheckCreate`, `CheckUpdate`, `CheckDelete` |
| `ValidateReferences`: one target | `ValidateReference` |
| `EnforceDeleteIntegrity`: the covering index of one reference definition; an artifact to cascade to, and the call on it; the return of a call | `FindReferrers`, `Recurse`, `Return` |
| `RunImplicitTransaction`: fork, stage (`StageCreate`, ...), commit | `Stage` |
| `CommitTransactionImpl`, one attempt | `MergeWrite` |
| a process restarts | `Restart` |
| an index is queried (`TypeRegistry::ResolveIndexDefId`) | `ResolveIndexDefId` |

`known[i]` is the part of `index_def_ids_by_key_type` that matters to deletes; a process
starts with the fields in `BuiltIn`. The calls of the recursive `EnforceDeleteIntegrity`
that have not returned are a stack in the request; each has the definitions and the
referrers it is still to look at, the deletes scheduled as it was told (`given`) and as
they are for its last definition (`scheduled`), and what it has `found`. The rows of an
index are visited in the order of their IDs. A violation of RESTRICT ends the request at
once, while the code collects all violations first; either way nothing is written.
Cascades and SET_NULLs are folds over the effects, in any order. `stale`, `loose`,
`emptied`, `outdated` and `misbased` are history: why a reference or an index row may be
out of date. An operation enters `op` with the commit of its first read and what its
instance knew (`read`, `informed`), gathers what it reads from (`seen`) and the
`effects`, and takes the commit it was forked from (`fork`) and the index objects the
resolver has rewritten (`resolved`) along.

### SchemaCompatibility, Genesis and TypeRegistry

A descriptor set maps message names to messages, these map field numbers to
fields. `CompareMessages` is the code's traversal with its `visited` set; `CanRead`
is the reference it is checked against, on the versions that get registered.

`Genesis` has one action per storage call that matters of `RunGenesis()`, by each
instance. `TypeRegistry` follows `RegisterTypeVersion()`: `ReadType` (step 1),
`ReadTail` (2), `CheckDefinitions` (3 and 4), `ForkTransaction`, `WriteVersion`
(the creation steps; nobody else writes to that transaction), `CommitVersion` (one
attempt of step 7). `BeginTransaction` and `EndTransaction` are those of a client
within whose transaction types are registered. A source is given as what the
compiler makes of it: its messages, indexes, references and flags.

## 3. Runs

| run | instance | checks |
|---|---|---|
| `allocator_datastore` | 2 replicas, 2 buckets of 4 IDs, two configurations with one layout, 2 creations, any crashes | `NoSharedIds`, `Conservation`, `IdsFit`, `NoReissue` (refinement of `BlockServer`) |
| `allocator_memory` | 1 process, in-memory store, 1 or 2 buckets of 8 IDs, 1 creation | `Coherent` |
| `buffer` | 2 clients, 4 blocks of 2 IDs, 1 retry | `NoSharedIds`, `Accounted`, `Settles`, `Retriggers` |
| `storage` | 2 branches, 2 values, 1 path, 5 commits | `NoLostUpdate`, `BranchesIsolated` |
| `index_merge` | 2 artifacts, 2 order values, 3 attempts | `MergeIsStable`, `KeepsBothSides`, `MergedHasOwnRows` |
| `transactions_index` | 1 instance, 2 threads, 1 transaction and implicit ones, 3 artifacts, 1 index, 2 attempts | `StaysUsable`, `MergesAllWrites`, `KeepsRows` |
| `transactions_nested` | 1 instance, 2 threads, 2 transactions (nested, from snapshots, or apart), 1 artifact | `NoOrphans`, `NoDirtyMain`, `MergedOnce` |
| `transactions_instances` | 2 instances, both may crash, 2 transactions, 1 artifact | `KeepsEarlierWrites`, `ReadYourWrites` |
| `artifacts` | 2 clients, 2 instances, 3 artifacts, 4 reference fields (CASCADE list, RESTRICT, SET_NULL, SET_NULL in a sub-message), up to 3 requests, restarts of one instance | `ReferencesHold`, `IndexCovers`, `CascadesToAllDependents`, `StaysDeleted`, `OverwritesWhatItForked` |
| `registry` | 2 instances, 1 client each, 2 types with 5 sources, 1 index, 1 reference, 1 client transaction; an empty store with at most 1 crash and 1 registration, or a bootstrapped one with 3 | `NamesAreUnique`, `VersionsAreOneList`, `LaterVersionsRead`, `DeclaredIsDefined`, `CacheAgrees`, `UpIsComplete`, `OnlyTightened`, `GetsUp` |
| `lakefs` | 2 clients, 2 branches, 1 object and 1 index object, 3 or 4 calls, 1 or 2 failures, five starts | `AnswersAsPromised`, `AnswersTell`, `ReportIsUsable`, `ListsWhatIsThere`, `RowsOnlyRemoved` |
| `artifacts_restart` | 1 client, 1 instance, 1 restart, 1 delete | `NoDangling`, **violated** |

**Why the bounds are enough.** Two replicas and two buckets give every race for a
counter, and four IDs in a bucket let it roll over within a run; two
configurations make super blocks of two and of one block. Four blocks are an
initial one for each client, a prefetched one and a lost one. Five commits are
what criss-cross merges need: without its premise `NoLostUpdate` fails with five
and not with four (800,000 states; six commits with one value and four with three
branches were explored as well). Two artifacts
are one per writer; the merge treats artifacts independently, and two order
values suffice since it only compares them. `MaxCommits` of the transaction runs
lets a commit meet an index conflict, retry, fail and restore its record (11), a
child be merged and its parent after it (9), and a transaction be written,
its commit cut short by a crash while the deletion of its record is staged, and
finished by the other instance, or two transactions be opened and one of them
committed without writes (6). A seventh commit, which lets a written child be
merged and lets the crash come after the record's deletion is committed, was
explored as well with either one instance or both crashing (1.7 and 2.0 million
states, no violation); it is not among the runs because it takes minutes. Twelve
commits and three artifacts let one of `transactions_index`'s writes come between the
resolver's reads and its put; without `lostRows`, `KeepsRows` is violated in 19 steps.

The artifact runs start from populations of three artifacts with every shape of
references among them: chains, cycles, diamonds, lists of two. One request on each
of those exercises the recursion, two at the same time on a smaller set every
write skew and every merge between two reads of a check, three, where the third
artifact is a deleted one, an index conflict whose resolution is out of date when it
is merged (172,000 states; one of the four fields has an index of a built-in type,
whose conflicts are resolved). Three registrations are two that race and a third that
sees the result; the five sources add fields, a message that becomes two, one that
holds itself, flags set and taken back, an index both types declare differently,
and a reference (51,000 states). Each of the five starts of `lakefs` has the
calls that get in each other's way: on branches, on objects and listings, on index
rows with merges, on conflicts with and without deletion of a branch (313,000
states). All bounds are constants named in the modules.

Deadlock is not checked: every instance ends when its bounds are used up. Symmetry is
used for interchangeable replicas, values, transactions, threads and instances (with
their threads), and only where no liveness property is checked.

**Fairness.** `BlockDoubleBuffer`: an RPC attempt ends, by answer or by
error; the thread in `close()` goes on when the worker has ended; the application
keeps calling `allocate_id()`. The first is what gRPC gives for a broken
connection, the second is the join, the third is the premise of the comment that
`Retriggers` is about. A client that crashed in `close()` counts as having ended.
`TypeRegistry`: the start of an instance goes on (`Boot`), and an instance that
gave up or died is started again, which is what its supervisor does. Nothing is
assumed of registrations, nor of LakeFS requests, and no liveness is claimed there.

**What the violated property shows.** `NoDangling`: a delete looks the covering
index up in the process's map of index IDs and takes one that is not there for an
index without rows. A process that has just started knows the built-in indexes
only, so until somebody queries the index through it, its deletes see no referrers:
RESTRICT lets them pass, CASCADE and SET_NULL do nothing.

**What the premises of the properties exclude.** Several properties hold up to
causes which the models record in history variables, so that they say exactly how
far the code goes; each is a limit of the code.

* `NoLostUpdate` needs `BasesAreLatest`: `FindMergeBase()` takes the nearest common
  ancestor by depth, which may be older than another one. The merge then takes an
  old value that the source merely inherited for a change of the source, and puts
  it back.
* `StaysUsable` needs the same (`StaleBase`), on account of five threads: three writes
  fork while a transaction's record is there; a commit deletes the record, meets an
  index conflict, resolves it and sleeps; a write forks during the sleep; the commit
  fails and restores the record; the three writes are merged; the merge of the last
  one finds an older base, at which the record was there, takes its absence for the
  write's doing and deletes it. The runs have fewer threads.
* `KeepsEarlierWrites` is about transactions merged once: a second merge by another
  instance may come after writes of others and does not show the first one's again.
* `Retriggers` needs IDs in the front block: once it is used up `allocate_id()`
  throws before it would start a prefetch, now and for ever.
* Resolving an index conflict commits on the source branch; the merge base does not
  move. Unless the result equals the target the next attempt finds the same
  conflict, and after the last attempt the client gets it (`MergedHasOwnRows` is
  about the merges that do go through). The test of this case uses a mock that
  answers success.
* A conflict on an index that a client's type declares is never resolved: the
  resolver does not find its message, and the client gets the conflict at the first
  attempt.
* `KeepsRows`: a row that comes to a transaction's branch after the failed merge of a
  commit and before the resolver puts the merged object there, without that row
  (`lostRows`). The next attempt takes the artifact to the canonical branch without
  it: the write was acknowledged, and no index query finds the artifact.
* `ReferencesHold`: a delete or a reference that was checked before the other one
  was merged, or by an instance that did not know the index (`loose`); a SET_NULL
  that left an empty payload (`emptied`); a field in a sub-message, which SET_NULL
  does not find; an index object that was resolved against a target which had moved
  on when the result replaced it (`outdated`), or an artifact whose delete took rows
  away that were not the ones it had (`stale`): there a delete does not see all that
  refers to its artifact.
* `IndexCovers`: an artifact updated between the check and the fork of its delete
  (`stale`), and `outdated` as above. `StaysDeleted`: an update checked before the
  delete and forked after it.
* All properties of the artifact store need the fork to be the base of the merges
  (`misbased`, in `OverwritesWhatItForked` only of the merge at hand), for the reason
  `NoLostUpdate` gives. Seven requests of three clients get elsewhere: one is forked
  and left to wait; another artifact is updated; a second request is forked and left
  to wait; that artifact is updated back; three more updates follow; then the first of
  the waiting ones is merged, and then the second, whose search for a base ranks the
  fork of the first one before its own. It takes the first of the two updates, which
  it was forked with, for its own doing, and undoes the second. `artifacts` has up to
  three requests, where the base is always the fork.
* `VersionsAreOneList`, `OnlyTightened`: a type registered between the reads and the
  fork of another registration (`raced`). `DeclaredIsDefined`: an index defined by
  someone else between comparison and write (`late`). `CacheAgrees`: an ID cached
  within a client's transaction (`premature`). `LaterVersionsRead`: a message that
  became two different ones (`Split`), of which the traversal compares one.
* `UpIsComplete`: two instances staged the bootstrap at once (`crowded`). `GetsUp`: an
  instance died with index rows staged (`torn`); the next one is refused by its own
  rows, for ever, although the comment at `AL/bootstrap/genesis.cpp:57` has this
  case in mind.
* `ReportIsUsable`: a branch deleted and created again under its name (`deleted`).
  `RowsOnlyRemoved`: an index object put by a client that failed to read it, or had
  read it before another's update on the same branch (`careless`).

Further limits seen while modelling: with two instances a write between the merge
and the deletion of a transaction branch is acknowledged and lost
(`MergesAllWrites`), the same transaction can be merged twice (`MergedOnce`) and a
rollback be acknowledged after the merge (`NoDirtyMain`); a transaction created
from a snapshot of an open transaction merges that one's record into the canonical
branch (`NoDirtyMain` with `SnapshotSources` containing a transaction); a
registration that ends in a conflict leaves its transaction open, so the client's
own transaction above it can no longer be ended through that instance (`stuck`); a
partition re-created in memory, or with other `bucket_size_bits`, returns IDs
again (`NoReissue` without `OneLayout`).

## 4. Proofs

Each theorem holds for every value of the constants that satisfies the named
assumptions; the bounds of the runs play no part. All but the two type theorems and
`NoDirtyReads` state a property that a run checks as well; `NoDirtyReads` states one
half of one.

| module | theorem | states | assumes |
|---|---|---|---|
| `SuperBlockAllocatorProofs` | `Coherence` | `Spec => []Coherent` | |
| | `IdsAreSafeIntegers` | `Spec => []IdsFit` | |
| | `UniqueIds` | `Spec => []NoSharedIds` | Datastore, one layout, some configuration |
| | `ImplementsBlockServer` | `Spec => NoReissue` | the same |
| | `NothingIsDropped` | `Spec => []Conservation` | the same |
| `BlockDoubleBufferProofs` | `Types` | `Spec => []TypeOK` | |
| | `IdsHaveOneHolder` | `Spec => []NoSharedIds` | |
| | `IdsAreAccounted` | `Spec => []Accounted` | |
| `StorageProofs` | `IsolationOfBranches` | `Spec => BranchesIsolated` | |
| | `MergesLoseNoUpdate` | `Spec => NoLostUpdate` | |
| `LakeFSProofs` | `CallsLookAtomic` | `Spec => []AnswersAsPromised` | |
| | `AnswersTellEffects` | `Spec => []AnswersTell` | |
| | `ReportsAreUsable` | `Spec => []ReportIsUsable` | |
| | `ListingsAreSound` | `Spec => []ListsWhatIsThere` | |
| | `MainLosesNoRows` | `Spec => RowsOnlyRemoved` | |
| `IndexMergeProofs` | `MergesAreStable` | `Spec => []MergeIsStable` | |
| | `BothSidesAreKept` | `Spec => []KeepsBothSides` | |
| | `OwnRowsAreMerged` | `Spec => []MergedHasOwnRows` | |
| `TransactionProofs` | `MergedAtMostOnce` | `Spec => []MergedOnce` | `OneInstance` |
| | `ParentsOutliveChildren` | `Spec => []NoOrphans` | `OneInstance` |
| | `NoDirtyReads` | `Spec => []OnlyCommitted` | `OneInstance`, `MainSnapshots` |
| | `WritesStayReadable` | `Spec => []ReadYourWrites` | |
| | `CommitsKeepWrites` | `Spec => []KeepsEarlierWrites` | `MainSnapshots` |
| | `RowsAreKept` | `Spec => []KeepsRows` | |
| | `CommitsMergeAllWrites` | `Spec => []MergesAllWrites` | `OneInstance`, `MainSnapshots` |
| `ArtifactStoreProofs` | `RequestsAreTyped` | `Spec => []TypeOK` | |
| | `ReferencesAreKept` | `Spec => []ReferencesHold` | |
| | `IndexesAreKept` | `Spec => []IndexCovers` | |
| | `CascadesAreExact` | `Spec => []CascadesToAllDependents` | |
| | `DeletesLast` | `Spec => StaysDeleted` | |
| | `WritesLoseNothing` | `Spec => OverwritesWhatItForked` | |

Assumptions on constants are those of the modules: `ConfigAssumption` (what
`validate()` checks), `StoreAssumption` (a memory store has one process),
`StorageAssumption`, `LakeFSAssumption` (paths are numbered and finite, an index
object is a value, the repositories the scenarios start from are repositories),
`MissingAssumption`, `NameAssumption` (names and markers are different things),
`TransactionAssumption`, `ReferenceAssumption` (artifacts and reference fields are
finitely many, a field is not called "artifact"), `ArtifactStoreAssumption` and
`ScenariosAssumption` (what the requests start from has no dangling references and
its artifacts refer to artifacts of the right type). `OneInstance` is one service process
that does not die, `MainSnapshots` that clients take snapshots of the canonical
branch; the limits listed in section 3 show that neither can be dropped.

**ID allocator.** `Coherent` is inductive: types, and that a prefetch is in flight
only while the background slot is free, so that harvesting it overwrites nothing.
`IdsFit` needs that no super block reaches beyond the limit (`RangesFit`), which
follows from the stores' rollover check. `NoSharedIds` alone is not inductive: a
reservation might take IDs somebody holds. `BelowCounters` adds that all IDs
held, returned or lost lie below the store's counters; a reservation starts at a
counter, so it is fresh (`ReservationFresh`, which needs one layout: otherwise
buckets overlap). Every step then only moves IDs between the places of one
replica, or takes fresh ones (`Moves`, `StepMoves`), which keeps them apart
(`MovesKeep`), and what it returns is a step of `BlockServer`. `Conservation`
needs one thing more, `WholeBlocks`: a super block always holds a whole number of
blocks, so one that can serve no further block is empty, and promoting the
background over it drops nothing.

**ID client.** Every step of a client takes IDs from its own places or fresh ones
from the server (`Moves`). Inductive are the types, `NoSharedIds`, that every ID
is placed, and `BackIsFree`: the back block is empty while a prefetch is in
flight, so the arriving block does not replace another one.

**Storage.** Each call touches the head and the staging area of one branch and at
most appends a commit (`OnlyTouches`, `StepTouches`); heads point at commits
(`RepoOK`), so what other branches show is read from commits that do not change.

What rests on the merge base is proved from `MemoryStorageProofs`. The ancestors of
a commit are a recursive function of the number of steps (`Within`); parents have
smaller numbers (`GraphOK`), so the set of ancestors is closed under parents and
the least such set (`AncestorsClosed`, `AncestorsLeast`), old commits keep their
ancestors when others are added (`AncestorsKept`), and `FindMergeBase()` returns a
common ancestor (`MergeBaseIsCommon`). `NoLostUpdate` then needs a fact about all
commits, not about one step (`ChangeIsFound`): where a commit differs from an
ancestor of it, something changed the path in a commit which the ancestor does not
have. It follows by induction on the number of the commit from `HistoryOK`, that
every commit is a commit on one parent or the three-way merge of two.

**LakeFS.** `LakeFSOK` says of every call where it stands: `Run` gives, for each
request `pc` may name, what the replies so far still mean (the answer that is due
was right at some moment in `seen`; a writing call has had no effect yet; the pages
so far have all that was `always` there up to the last entry, and nothing that was
not `ever`; the base noted for a report is an ancestor of both heads), and `Done`
what the properties say of a call that answered. A step is split where the model
splits it: what the server does to the repository (which the notes of other calls
survive: `RunKept`, `DoneKept`) and how the call goes on with the reply, one lemma
per method of the client (`GoesOnFine`). `RowsOnlyRemoved` has an invariant of its
own, `RowsOK`: unless a client was `careless`, no commit has fewer rows than its
ancestors, except for rows someone removes, and no staged index object fewer than
its branch; so a merge, whatever its base, loses none either.

**Index merge.** The merge is described row by row: membership and order value of
an artifact in the result depend on that artifact's rows alone. Commutativity,
idempotence and `KeepsBothSides` follow by cases. `MergedHasOwnRows` needs
`OwnRowsStay`: between attempts the source keeps the rows it added, with the same
order value or a smaller one, although each resolution rewrites them.

**Transactions.** The invariant `Inv` says who holds the mutex (`LockHeld`), that a
transaction with a branch is cached with its parent (`Cached`), that one merged
and not yet deleted is in the hands of a thread that holds the mutex (`Merged`),
that the cached record of an open child's parent lists it (`Children`), and that a
commit past its checks has no open children (`OpsSound`). `MergedOnce` fails to be
inductive without `Merged`: what keeps the second merge away is that the branch
goes before the mutex does. Most steps leave branches, records and outcomes alone
(`Quiet`, `QuietMove`); creation, merge, rollback and deletion are proved one by
one. Storage calls enter through lemmas on their effect (`CommitShape`,
`MergeShape`, `ResolveShape`, ...).

`OnlyCommitted` needs to know where a payload can be before it is committed
(`Visible`): on the branch of its transaction, of that one's descendants
(`Under`, the least set closed under children), and of their writes. A merge moves
a payload to the parent, and whoever descends from `u` is `u` or has a parent that
does (`UnderParent`): the merged transaction's own payloads are committed by that
very step, the others belong above. The resolver changes index objects only.

**What transactions write.** The second half of `TransactionProofs` has an invariant
about commits and branches, `Hist`, that needs neither the mutex nor a single instance.
The difficulty is that `FindMergeBase()` may return an old base, so one cannot say
what changed since. The way out is to say what never changes. In every commit
(`Commits`, `Sound`) an artifact that an ancestor has is still there, so is its row in
every index where no row of it was lost (`Safe`), and whatever artifact is there has
these rows. On every branch below a transaction (`KinStays`) a payload from below that
transaction is, in all later commits of the branch, replaced only by such payloads
(`Persistent`): `Kin(t)` is the set of those below `t`. A merge takes the
target's value only where the source has the base's (`Blend`); if the base had a
payload from `Kin(t)`, so has the target, whose history contains the base. So
whatever the base is, a merge loses nothing of the kind, and an acknowledged write
stays on its transaction's branch (`OnBranch`), which is `ReadYourWrites`.

If snapshots are taken of the canonical branch, then in addition (`Secluded`) no
other branch shows a payload of an unmerged transaction or of those below it
(`KinHidden`, whose `Private` is about all ancestors of the head): the base of a
transaction's merge has none, so the merge takes them all (`ShownOnce`, which is
`KeepsEarlierWrites`). `Acyclic` keeps
a transaction from being below itself.

`KeepsRows` is `Sound` at the heads of the branches. It needs no latest base
either: if the artifact is in the source, in the target or in both, so is its row
where it is safe, and a row the base has is in both. What the resolver stages is
made of the commits of the report (`ResolvesFine`), while the branch may have gone on:
a put either keeps a row of the branch's head, or the row is entered in `lostRows` in
that step; and as nobody can merge into a branch with staged changes, what is
staged keeps the head's rows until it is committed (`RowsStaged`).

`MergesAllWrites` takes `Hist` and `Inv`
together: with one process nobody's write is acknowledged between the merge and
the deletion of the branch (`Settled`).

Most steps leave all but a few branches alone; `Steady(B)` says that only those in
`B` are touched, and one lemma (`StepHist`) has the invariant from what happens to
them. Commit, resolution and merge enter as a new commit at the head of one branch
(`Grows`).

**Artifact store.** The operators come first. A fold over a finite set never leaves a
set its steps do not leave, and gets into one that a step enters and none leaves
(`FoldReaches`), whatever the order; so the effects of a delete can be described
artifact by artifact (`EffectsShape`), and so can staging (`StagedShape`): which
artifacts change, and that an index object which showed an artifact rightly does so
afterwards.

The search of a delete is proved about step by step, since every step reads other
objects (`SearchOK`; `Seen` are the objects of the commits it has read). At any time
every artifact that is to go (`Goes`) is either still to be looked at by a call that
has not returned (`Pending`), or each row onto it that was there at all reads is
accounted for by a cascade or a SET_NULL (`Handled`; both in `Complete`),
although what one reference definition schedules is not seen by the next. And nothing
is scheduled outside a set that holds the artifact and is closed under the CASCADE rows
seen at any read (`Justified`). When the stack is empty nothing is pending
(`SearchEnds`). Where the indexes are exact, the least fixed points that `DependsOn`
computes (`DependsIsLeast`) lie on either side: `CascadesToAllDependents`. A reference
that was checked was valid at one of the reads (`Validated`). Merges by others only add
commits, so that what was read stays what it was, and the known indexes stay known as
long as the process lives (`KnownOK`).

The invariant has two parts. `GraphInv` holds always: types, that every request was
checked against commits which are still there, in the order of its reads (`SeenOK`),
that its search has got as far as `SearchOK` says, and that its branch shows the
artifacts which staging gave it. A request whose first read is of the canonical branch's
present head has made all its reads there, so what it found still holds (`Fresh`).
`OverwritesWhatItForked` follows from `GraphInv` alone, since a merge changes a path
only where the target has the base's value or the source's. `ContentInv` is about the
time before a merge took another base than the fork. The properties alone are not
inductive; what is missing is what a request in flight may rely on (`ClientOK`).
Artifacts come, never go, and keep their type between the commit a request was checked
against, the one it was forked from and the canonical branch (`Older`), so references to
a type stay references to that type (`RefsTyped`, without which a delete would not look
at the right indexes). An ID that is being created is on no branch but that one. And the
branch carries its rows (`Carries`): an index object is as it was staged, or the
resolver has left the rows in it that staging changed. A merge then takes an artifact
and its rows from the same side, or from sides that agree (`MergeCovers`), except in an
index object that the resolver has rewritten and whose result differs from the target,
which is how `outdated` is defined. A delete that is merged into what it was checked
against removes or trims whatever refers to its artifacts (`TightRefs`); any other
delete, and any reference that was checked against an older commit, is `loose`. The
actions are first brought into the form of eight kinds of steps (`NextSteps`), each of
which preserves both parts.

**Only model-checked.** Liveness (`Settles`, `Retriggers`, `GetsUp`), which is out
of the prover's reach, as is `ENABLED`. `StaysUsable` and `NoRecords`: a record is
deleted and put back, so it is not among the things that never change, and these
need to know which base a merge takes. The safety properties of the type registry
(`NamesAreUnique`, `VersionsAreOneList`, `LaterVersionsRead`, `DeclaredIsDefined`,
`CacheAgrees`, `UpIsComplete`, `OnlyTightened`): that a later version can read the
earlier ones rests on what a traversal of nested messages computes for every input,
an induction over data, and the others on an invariant about the seven steps of a
registration that has not been written yet. `NoDangling` does not hold.

## 5. Not modelled

Data races inside `MemoryStorage` and the map of index IDs, which have no lock
(storage calls are atomic in the models above `LakeFSStorage`); deletes within a
transaction (the writes of `TransactionManager` create or update, so `KeepsRows`
says nothing of rows that should go); reads that fail inside the check of a delete,
where the code skips the artifact; changes of types and reference definitions while
artifacts are written; unique indexes of
clients, whose conflicts are never merged; backoff times; compilation of sources,
parsing of payloads, key encoding and protobuf reflection (data formats); reads of
artifacts, indexes and types, which change nothing; the commit record; error codes
and wiring of the gRPC services; the JavaScript clients; deployment scripts.

Some simplifications remain inside the modules. `TypeRegistry.ReadTail` reads an
index object and the payloads of the versions in it at once, where the code reads them
one by one from the moving branch (`AL/registry/type_registry.cpp:456`-`476`); what
comes between is a registration that is `raced` anyway. `EndTransaction` commits a
client's transaction only without conflict, and leaves the resolver's retries
(`AL/transaction/transaction_manager.cpp:374`-`403`) to `TransactionManager`.
`SuperBlockAllocator.FinishPrefetch` picks the bucket of the next prefetch by the
counters before its own reservation, while the code asks the store for the counts
afterwards (`IDS/allocator/super_block_allocator.cpp:61`-`68`, `120`); which bucket a
prefetch takes is not what the properties there are about. `Promised`, by which
`AnswersAsPromised` judges, admits both success and a conflict for a merge whose source
has staged changes.

## 6. Plan

Done: the ID allocator, the ID client, the storage in memory and over HTTP, the
index merge, the transactions, the artifact store with referential integrity, the
type registry with genesis; proofs about all but the last as far as section 4 says.
Next, in this order:

1. Proofs: `StaysUsable` (with a non-stale base a branch differs from the one above
   it only by what was done since it forked) and `NoRecords`; `NamesAreUnique` and
   `CacheAgrees` of the type registry.
2. The transactions over a store whose calls fail (leaked branches and cache
   entries).
3. Index derivation and the order-preserving key encoder as operators.
4. The commit record, and the JavaScript clients.

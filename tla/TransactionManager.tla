------------------------- MODULE TransactionManager -------------------------
(***************************************************************************)
(* The transactions of the artifact layer: TransactionManager, the         *)
(* sub-branch-per-write WriteExecutor and the implicit transactions of     *)
(* ArtifactStore, run by the threads of one or more service instances over *)
(* one versioned store.                                                    *)
(*                                                                         *)
(* A transaction is a branch of the store; its record is kept as an object *)
(* on that branch and cached by the instances that met it.  An instance's  *)
(* mutex_ is held over several storage calls; writes do not take it, and   *)
(* other instances have their own.  One action is one storage call that    *)
(* others can see, together with the calls before it that only read or     *)
(* only touch a branch nobody else knows.                                  *)
(*                                                                         *)
(* A write of transaction t to artifact a stores the payload t at path a   *)
(* and adds a's row to every index object.  The branch of a write and that *)
(* of an implicit transaction have fresh names which no one else learns:   *)
(* here they carry the name of the thread that works on them.  The commit  *)
(* record of CommitTransaction() is left out, no service configures one.   *)
(***************************************************************************)
EXTENDS Naturals, Sequences, FiniteSets

CONSTANTS
    Instances,        \* the service processes
    Threads,          \* their request threads
    Home,             \* the instance of each thread
    Txns,             \* bound: the transactions that are ever created
    Main,             \* the canonical branch
    Payloads,         \* the artifacts' paths
    Indexes,          \* the paths of (non-unique) index objects
    Resolvable,       \* those of indexes which a built-in type declares
    Absent, Unstaged, \* see MemoryStorage
    None,
    SnapshotSources,  \* bound: the branches clients take snapshots of
    Implicit,         \* bound: the threads that make implicit transactions
    Crashing,         \* bound: the instances that may crash and start again
    MaxCommits,       \* bound on the commits in the store
    max_attempts

TxnIds   == Txns \cup Threads
Branches == {Main} \cup TxnIds
Paths    == TxnIds \cup Payloads \cup Indexes

(* A transaction's record is stored at a path made from its name.          *)
TxnMetaPath(t) == t

INSTANCE IndexObject WITH Artifacts <- Payloads, OrderValues <- {0}, Missing <- Absent

StoredRecords == [parent : Txns \cup {None}]
StoredValues == TxnIds \cup StoredRecords \cup IndexObjects

(* The store (MemoryStorage) comes with the resolver.                      *)
INSTANCE ConflictResolver WITH
    Values <- StoredValues, Artifacts <- Payloads, OrderValues <- {0},
    Indexes <- Resolvable

ASSUME TransactionAssumption ==
    /\ Home \in [Threads -> Instances]
    /\ SnapshotSources \subseteq {Main} \cup Txns
    /\ Resolvable \subseteq Indexes
    /\ Implicit \subseteq Threads /\ Crashing \subseteq Instances
    /\ max_attempts \in Nat \ {0}

(* What transactions_ keeps of a transaction.                              *)
CachedRecords == [parent : Txns \cup {None}, children : SUBSET TxnIds]

(* Names are told apart: IDs are generated, paths have prefixes.           *)
ASSUME NameAssumption ==
    /\ Main \notin TxnIds
    /\ Txns \cap Threads = {}
    /\ TxnIds \cap Payloads = {} /\ TxnIds \cap Indexes = {} /\ Payloads \cap Indexes = {}
    /\ None \notin Txns \cup Threads \cup CachedRecords
    /\ Absent \notin StoredValues /\ Unstaged \notin StoredValues \cup {Absent}

VARIABLES
    repo,      \* the store
    cache,     \* per instance: transactions_
    lock,      \* per instance: the thread that holds mutex_
    op,        \* per thread: the request it works on
    snaps,     \* the snapshots clients hold: commits
    \* what clients were told, and other history:
    outcome,   \* per transaction: unborn, open, committed or rolledback
    parent,    \* per transaction: the parent it was created with, or None
    acked,     \* <<t, a>>: a write of t to a was acknowledged
    before,    \* per transaction: the writes acknowledged before the commit
               \*   call that merged it last
    merges,    \* per transaction: how often it was merged into its parent
    result,    \* per transaction: the last such merge commit
    lostRows   \* <<x, a>>: the resolver staged, on a transaction's branch, an
               \*   index x without a row of a that came there meanwhile

history == <<outcome, parent, acked, before, merges, result, lostRows>>
vars == <<repo, cache, lock, op, snaps, history>>

Idle == [pc |-> "idle"]

Init ==
    /\ repo = InitRepo
    /\ cache = [i \in Instances |-> [t \in TxnIds |-> None]]
    /\ lock = [i \in Instances |-> None]
    /\ op = [th \in Threads |-> Idle]
    /\ snaps = {}
    /\ outcome = [t \in Txns |-> "unborn"]
    /\ parent = [t \in Txns |-> None]
    /\ acked = {}
    /\ before = [t \in Txns |-> {}]
    /\ merges = [t \in Txns |-> 0]
    /\ result = [t \in Txns |-> NoBranch]
    /\ lostRows = {}

HasRoom(n) == Len(repo.commits) + n <= MaxCommits

(* A thread that is not at work may take a request; lock_guard needs the   *)
(* instance's mutex.                                                       *)
CanCall(th) == op[th] = Idle /\ lock[Home[th]] = None

Unlock(th) == lock' = [lock EXCEPT ![Home[th]] = None]
Goto(th, pc) == op' = [op EXCEPT ![th].pc = pc]
Return(th) == op' = [op EXCEPT ![th] = Idle]

-----------------------------------------------------------------------------
(* Records of transactions.                                                *)

(* WriteTxnMeta() on a branch nobody else knows.                           *)
WithTxnMeta(r, t, rec) ==
    Commit(PutObject(r, t, TxnMetaPath(t), [parent |-> rec.parent]), t)

(* ResolveTransaction() finds a record, in the cache or on the branch, and *)
(* then has it in the cache; a record from the branch knows no children.   *)
HasTxnMeta(t) ==
    BranchExists(repo, t) /\ ResolveState(repo, t)[TxnMetaPath(t)] # Absent

CanResolve(i, t) == cache[i][t] # None \/ HasTxnMeta(t)

Resolved(i, t) ==
    IF cache[i][t] # None THEN cache[i][t]
    ELSE [parent |-> ResolveState(repo, t)[TxnMetaPath(t)].parent, children |-> {}]

(* RemoveTransactionLocked().                                              *)
Removed(table, t) ==
    LET p == IF table[t] = None THEN None ELSE table[t].parent
    IN  [u \in TxnIds |->
            IF u = t THEN None
            ELSE IF u = p /\ table[u] # None
                 THEN [table[u] EXCEPT !.children = @ \ {t}]
            ELSE table[u]]

-----------------------------------------------------------------------------
(* Snapshots and transactions.                                             *)

CreateSnapshot(th, b) ==
    /\ CanCall(th)
    /\ b \in SnapshotSources
    /\ BranchExists(repo, b)
    /\ snaps' = snaps \cup {GetBranchHead(repo, b)}
    /\ UNCHANGED <<repo, cache, lock, op, history>>

(* Mutant: the parent's record does not learn of its child.                *)
EnteredAlone(table, t, p) ==
    [table EXCEPT ![t] = [parent |-> p, children |-> {}]]

(* The record of a new transaction t with parent p; table is the cache.    *)
Entered(table, t, p) ==
    [u \in TxnIds |->
        IF u = t THEN [parent |-> p, children |-> {}]
        ELSE IF u = p THEN [table[p] EXCEPT !.children = @ \cup {t}]
        ELSE table[u]]

(* CreateTransaction(): from the canonical branch, a snapshot, or as child *)
(* of another transaction.                                                 *)
CreateTransaction(th, t) ==
    LET i == Home[th]
        create(base, p, table) ==
            /\ repo' = WithTxnMeta(CreateBranch(repo, t, base), t, [parent |-> p])
            /\ cache' = [cache EXCEPT ![i] = Entered(table, t, p)]
            /\ parent' = [parent EXCEPT ![t] = p]
    IN  /\ CanCall(th)
        /\ outcome[t] = "unborn"
        /\ HasRoom(1)
        /\ \/ create(GetBranchHead(repo, Main), None, cache[i])
           \/ \E c \in snaps : CommitExists(repo, c) /\ create(c, None, cache[i])
           \/ \E p \in Txns :
                /\ BranchExists(repo, p)
                /\ CanResolve(i, p)
                /\ create(GetBranchHead(repo, p), p,
                          [cache[i] EXCEPT ![p] = Resolved(i, p)])
        /\ outcome' = [outcome EXCEPT ![t] = "open"]
        /\ UNCHANGED <<lock, op, snaps, acked, before, merges, result, lostRows>>

(* RollbackTransaction().                                                  *)
RollbackTransaction(th, t) ==
    LET i == Home[th]
    IN  /\ CanCall(th)
        /\ BranchExists(repo, t)
        /\ cache[i][t] # None => cache[i][t].children = {}
        /\ repo' = DeleteBranch(repo, t)
        /\ cache' = [cache EXCEPT ![i] = Removed(@, t)]
        /\ outcome' = [outcome EXCEPT ![t] = "rolledback"]
        /\ UNCHANGED <<lock, op, snaps, parent, acked, before, merges, result, lostRows>>

-----------------------------------------------------------------------------
(* Writes (WriteExecutor::ExecuteWrite through ArtifactStore).             *)

(* The staging callback: artifact a gets payload w, and its index row.     *)
Staged(r, b, w, a) ==
    LET objects == ResolveState(r, b)
    IN  [r EXCEPT !.staging[b] = [p \in Paths |->
            IF p = a THEN w
            ELSE IF p \in Indexes THEN WithRow(WithoutRow(objects[p], a), a, 0)
            ELSE @[p]]]

(* Resolve the transaction, fork a branch from its head, stage, commit.    *)
BeginWrite(th, t, a) ==
    /\ CanCall(th)
    /\ CanResolve(Home[th], t)
    /\ BranchExists(repo, t)
    /\ HasRoom(1)
    /\ LET forked == CreateBranch(repo, th, GetBranchHead(repo, t))
       IN  repo' = Commit(Staged(forked, th, t, a), th)
    /\ op' = [op EXCEPT ![th] = [pc |-> "write", txn |-> t, artifact |-> a,
                                 attempts |-> 1]]
    /\ UNCHANGED <<cache, lock, snaps, history>>

(* Mutant: the write's branch is deleted instead of merged.                *)
DropWrite(th) ==
    /\ op[th].pc = "write"
    /\ repo' = DeleteBranch(repo, th)
    /\ Goto(th, "written")
    /\ UNCHANGED <<cache, lock, snaps, history>>

(* One merge attempt, with the clean-up of the write's branch; an error    *)
(* (the transaction is gone, or someone has staged changes on it) and a    *)
(* conflict that cannot be retried end the write.                          *)
MergeWrite(th) ==
    LET t == op[th].txn
        conflicts == MergeConflicts(repo, th, t)
    IN  /\ op[th].pc = "write"
        /\ \/ /\ ~CanMerge(repo, th, t)
              /\ repo' = DeleteBranch(repo, th)
              /\ Return(th)
           \/ /\ CanMerge(repo, th, t) /\ conflicts = {} /\ HasRoom(1)
              /\ repo' = DeleteBranch(Merge(repo, th, t), th)
              /\ Goto(th, "written")
           \/ /\ CanMerge(repo, th, t) /\ conflicts # {}
              /\ Retryable(conflicts, op[th].attempts) /\ HasRoom(1)
              /\ repo' = ResolveConflicts(repo, th, t, conflicts)
              /\ op' = [op EXCEPT ![th].attempts = @ + 1]
           \/ /\ CanMerge(repo, th, t) /\ conflicts # {}
              /\ ~Retryable(conflicts, op[th].attempts)
              /\ repo' = DeleteBranch(repo, th)
              /\ Return(th)
        /\ UNCHANGED <<cache, lock, snaps, history>>

(* Snapshots a client gets to know as part of another answer.              *)
Learn(b, c) == snaps' = IF b \in SnapshotSources THEN snaps \cup {c} ELSE snaps

(* Mutant: the answer does not wait for the mutex.                         *)
AckUnlocked(th) ==
    LET t == op[th].txn
    IN  /\ op[th].pc = "written"
        /\ BranchExists(repo, t)
        /\ acked' = acked \cup {<<t, op[th].artifact>>}
        /\ Learn(t, GetBranchHead(repo, t))
        /\ Return(th)
        /\ UNCHANGED <<repo, cache, lock, outcome, parent, before, merges, result, lostRows>>

(* The snapshot of the transaction's branch that is returned to the        *)
(* client: an error if the branch is gone.                                 *)
AckWrite(th) ==
    LET t == op[th].txn
    IN  /\ op[th].pc = "written"
        /\ lock[Home[th]] = None
        /\ \/ /\ BranchExists(repo, t)
              /\ acked' = acked \cup {<<t, op[th].artifact>>}
              /\ Learn(t, GetBranchHead(repo, t))
           \/ /\ ~BranchExists(repo, t)
              /\ UNCHANGED <<acked, snaps>>
        /\ Return(th)
        /\ UNCHANGED <<repo, cache, lock, outcome, parent, before, merges, result, lostRows>>

-----------------------------------------------------------------------------
(* CommitTransactionImpl(), one action per storage call others can see.    *)

CommitOf(t, rec) ==
    [pc |-> "clean", txn |-> t, rec |-> rec, attempts |-> 1,
     seen |-> {a \in Payloads : <<t, a>> \in acked},
     ours |-> NoBranch, theirs |-> NoBranch, conflicts |-> {}]

(* The checks: no children that this instance knows of, and the parent is  *)
(* still there.  The record is in the cache from then on.                  *)
BeginCommit(th, t) ==
    LET i   == Home[th]
        rec == Resolved(i, t)
    IN  /\ CanCall(th)
        /\ CanResolve(i, t)
        /\ cache' = [cache EXCEPT ![i][t] = rec]
        /\ \/ /\ rec.children = {}
              /\ rec.parent # None => BranchExists(repo, rec.parent)
              /\ lock' = [lock EXCEPT ![i] = th]
              /\ op' = [op EXCEPT ![th] = CommitOf(t, rec)]
           \/ /\ rec.parent # None /\ ~BranchExists(repo, rec.parent)
              /\ UNCHANGED <<lock, op>>
        /\ UNCHANGED <<repo, snaps, history>>

(* RunImplicitTransaction(): create the transaction, stage the write on    *)
(* its branch and commit it there; then CommitTransactionImpl().           *)
ImplicitWrite(th, a) ==
    LET i == Home[th]
        created == WithTxnMeta(CreateBranch(repo, th, GetBranchHead(repo, Main)),
                               th, [parent |-> None])
    IN  /\ th \in Implicit
        /\ CanCall(th)
        /\ HasRoom(2)
        /\ repo' = Commit(Staged(created, th, th, a), th)
        /\ cache' = [cache EXCEPT ![i] = Entered(@, th, None)]
        /\ op' = [op EXCEPT ![th] =
                    [CommitOf(th, [parent |-> None, children |-> {}])
                        EXCEPT !.pc = "commit"]]
        /\ UNCHANGED <<lock, snaps, history>>

ImplicitCommit(th) ==
    /\ op[th].pc = "commit"
    /\ lock[Home[th]] = None
    /\ lock' = [lock EXCEPT ![Home[th]] = th]
    /\ Goto(th, "clean")
    /\ UNCHANGED <<repo, cache, snaps, history>>

(* The commit failed: the caller gets the error or the conflict, an        *)
(* implicit transaction is rolled back first.                              *)
FailCommit(th) ==
    /\ Unlock(th)
    /\ IF op[th].txn = th THEN Goto(th, "rollback") ELSE Return(th)

(* Mutant: the record is left where it is.                                 *)
CleanNothing(th) ==
    /\ op[th].pc = "clean"
    /\ Goto(th, "cleaning")
    /\ UNCHANGED <<repo, cache, lock, snaps, history>>

(* CleanupTxnMeta(): stage the deletion of the record, then commit it.     *)
CleanStage(th) ==
    LET t == op[th].txn
    IN  /\ op[th].pc = "clean"
        /\ \/ /\ BranchExists(repo, t)
              /\ repo' = DeleteObject(repo, t, TxnMetaPath(t))
              /\ Goto(th, "cleaning")
              /\ UNCHANGED lock
           \/ /\ ~BranchExists(repo, t)
              /\ FailCommit(th)
              /\ UNCHANGED repo
        /\ UNCHANGED <<cache, snaps, history>>

CleanCommit(th) ==
    LET t == op[th].txn
    IN  /\ op[th].pc = "cleaning"
        /\ \/ /\ BranchExists(repo, t) /\ HasRoom(1)
              /\ repo' = Commit(repo, t)
              /\ Goto(th, "merge")
              /\ UNCHANGED lock
           \/ /\ ~BranchExists(repo, t)
              /\ FailCommit(th)
              /\ UNCHANGED repo
        /\ UNCHANGED <<cache, snaps, history>>

Target(rec) == IF rec.parent = None THEN Main ELSE rec.parent

(* The merge went through: a fact about t, if it is not an implicit one.   *)
RecordMerge(t, seen, c) ==
    IF t \in Txns
    THEN /\ outcome' = [outcome EXCEPT ![t] = "committed"]
         /\ merges' = [merges EXCEPT ![t] = @ + 1]
         /\ before' = [before EXCEPT ![t] = seen]
         /\ result' = [result EXCEPT ![t] = c]
    ELSE UNCHANGED <<outcome, merges, before, result>>

(* What the report on a failed merge gives the resolver.                   *)
Resolving(o, conflicts, ours, theirs) ==
    [o EXCEPT !.pc = "resolve", !.conflicts = conflicts, !.ours = ours, !.theirs = theirs]

(* One attempt to merge the transaction into its parent: merged; or there  *)
(* are conflicts to resolve; or failed, and the record has to be restored. *)
MergeTransaction(th) ==
    LET t == op[th].txn
        target == Target(op[th].rec)
        conflicts == MergeConflicts(repo, t, target)
    IN  /\ op[th].pc = "merge"
        /\ \/ /\ CanMerge(repo, t, target) /\ conflicts = {} /\ HasRoom(1)
              /\ repo' = Merge(repo, t, target)
              /\ Goto(th, "merged")
              /\ RecordMerge(t, op[th].seen, GetBranchHead(repo', target))
              /\ Learn(target, GetBranchHead(repo', target))
              /\ UNCHANGED lock
           \/ /\ CanMerge(repo, t, target) /\ conflicts # {}
              /\ Retryable(conflicts, op[th].attempts)
              /\ op' = [op EXCEPT ![th] =
                    Resolving(@, conflicts, GetBranchHead(repo, t), GetBranchHead(repo, target))]
              /\ UNCHANGED <<repo, lock, snaps, outcome, merges, before, result>>
           \/ /\ \/ ~CanMerge(repo, t, target)
                 \/ /\ CanMerge(repo, t, target) /\ conflicts # {}
                    /\ ~Retryable(conflicts, op[th].attempts)
              /\ Goto(th, "restore")
              /\ UNCHANGED <<repo, lock, snaps, outcome, merges, before, result>>
        /\ UNCHANGED <<cache, parent, acked, lostRows>>

(* The resolver merges each conflicting index object as it was when the    *)
(* merge failed, stages it on the transaction's branch, whatever has come  *)
(* there since, ...                                                        *)
ResolvePut(th) ==
    LET t == op[th].txn
        ours == op[th].ours
        rows(objects, p) == DOMAIN Rows(objects[p])
    IN  /\ op[th].pc = "resolve"
        /\ BranchExists(repo, t)
        /\ \E p \in op[th].conflicts :
            LET merged == ResolveSinglePath(repo, ours, op[th].theirs, p)
                new == rows(ResolveState(repo, t), p) \ rows(AtCommit(repo, ours), p)
            IN  /\ repo' = PutObject(repo, t, p, merged)
                /\ op' = [op EXCEPT ![th].conflicts = @ \ {p}]
                /\ lostRows' = lostRows \cup
                        {<<p, a>> : a \in new \ DOMAIN Rows(merged)}
        /\ UNCHANGED <<cache, lock, snaps, outcome, parent, acked, before, merges, result>>

(* ... and commits; the commit loop then sleeps, with the mutex released.  *)
(* Each of this fails if the branch is gone.                               *)
ResolveCommit(th) ==
    LET t == op[th].txn
    IN  /\ op[th].pc = "resolve"
        /\ \/ /\ BranchExists(repo, t) /\ op[th].conflicts = {} /\ HasRoom(1)
              /\ repo' = Commit(repo, t)
              /\ Goto(th, "sleep")
              /\ Unlock(th)
           \/ /\ ~BranchExists(repo, t)
              /\ Goto(th, "restore")
              /\ UNCHANGED <<repo, lock>>
        /\ UNCHANGED <<cache, snaps, history>>

(* After the sleep: the branch and the children are checked again.         *)
Wake(th) ==
    LET i == Home[th]
        t == op[th].txn
        ok == /\ BranchExists(repo, t)
              /\ cache[i][t] # None => cache[i][t].children = {}
    IN  /\ op[th].pc = "sleep"
        /\ lock[i] = None
        /\ lock' = [lock EXCEPT ![i] = th]
        /\ op' = [op EXCEPT ![th].pc = IF ok THEN "merge" ELSE "restore",
                            ![th].attempts = @ + 1]
        /\ UNCHANGED <<repo, cache, snaps, history>>

(* Mutant: a commit that failed does not restore the record.               *)
RestoreNothing(th) ==
    /\ op[th].pc = "restore"
    /\ FailCommit(th)
    /\ UNCHANGED <<repo, cache, snaps, history>>

(* restore_meta(): WriteTxnMeta() again, so that the transaction remains   *)
(* usable; errors are ignored.                                             *)
RestoreStage(th) ==
    LET t == op[th].txn
    IN  /\ op[th].pc = "restore"
        /\ \/ /\ BranchExists(repo, t)
              /\ repo' = PutObject(repo, t, TxnMetaPath(t),
                                   [parent |-> op[th].rec.parent])
              /\ Goto(th, "restoring")
              /\ UNCHANGED lock
           \/ /\ ~BranchExists(repo, t)
              /\ FailCommit(th)
              /\ UNCHANGED repo
        /\ UNCHANGED <<cache, snaps, history>>

RestoreCommit(th) ==
    LET t == op[th].txn
    IN  /\ op[th].pc = "restoring"
        /\ BranchExists(repo, t) => HasRoom(1)
        /\ repo' = IF BranchExists(repo, t) THEN Commit(repo, t) ELSE repo
        /\ FailCommit(th)
        /\ UNCHANGED <<cache, snaps, history>>

ImplicitRollback(th) ==
    /\ op[th].pc = "rollback"
    /\ lock[Home[th]] = None
    /\ repo' = DeleteBranch(repo, th)
    /\ cache' = [cache EXCEPT ![Home[th]] = Removed(@, th)]
    /\ Return(th)
    /\ UNCHANGED <<lock, snaps, history>>

(* Mutant: nothing is forgotten or deleted after the merge.                *)
FinishForgetful(th) ==
    /\ op[th].pc = "merged"
    /\ Unlock(th)
    /\ Return(th)
    /\ UNCHANGED <<repo, cache, snaps, history>>

(* After the merge: forget the transaction and delete its branch.          *)
FinishCommit(th) ==
    LET t == op[th].txn
    IN  /\ op[th].pc = "merged"
        /\ repo' = DeleteBranch(repo, t)
        /\ cache' = [cache EXCEPT ![Home[th]] = Removed(@, t)]
        /\ Unlock(th)
        /\ Return(th)
        /\ UNCHANGED <<snaps, history>>

-----------------------------------------------------------------------------
(* An instance dies and starts again; the private branches its threads     *)
(* leave behind are known to no one.                                       *)
Crash(i) ==
    LET its == {th \in Threads : Home[th] = i}
    IN  /\ i \in Crashing
        /\ repo' = [repo EXCEPT
              !.head    = [b \in Branches |-> IF b \in its THEN NoBranch ELSE @[b]],
              !.staging = [b \in Branches |-> IF b \in its THEN NoStaging ELSE @[b]]]
        /\ cache' = [cache EXCEPT ![i] = [t \in TxnIds |-> None]]
        /\ lock' = [lock EXCEPT ![i] = None]
        /\ op' = [th \in Threads |-> IF th \in its THEN Idle ELSE op[th]]
        /\ UNCHANGED <<snaps, history>>

Work(th) ==
    \/ MergeWrite(th)
    \/ AckWrite(th)
    \/ ImplicitCommit(th)
    \/ CleanStage(th)
    \/ CleanCommit(th)
    \/ MergeTransaction(th)
    \/ ResolvePut(th)
    \/ ResolveCommit(th)
    \/ Wake(th)
    \/ RestoreStage(th)
    \/ RestoreCommit(th)
    \/ ImplicitRollback(th)
    \/ FinishCommit(th)

Next ==
    \/ \E th \in Threads :
        \/ Work(th)
        \/ \E b \in SnapshotSources : CreateSnapshot(th, b)
        \/ \E t \in Txns :
            \/ CreateTransaction(th, t)
            \/ RollbackTransaction(th, t)
            \/ BeginCommit(th, t)
            \/ \E a \in Payloads : BeginWrite(th, t, a)
        \/ \E a \in Payloads : ImplicitWrite(th, a)
    \/ \E i \in Instances : Crash(i)

Spec == Init /\ [][Next]_vars

-----------------------------------------------------------------------------
(* Correctness.                                                            *)

(* A transaction is never closed over the head of its children: as long as *)
(* a child is open, so is its parent, and the child can be committed.      *)
NoOrphans ==
    \A t \in Txns :
        outcome[t] = "open" /\ parent[t] # None => BranchExists(repo, parent[t])

(* "If the merge fails, metadata is restored so the transaction remains    *)
(* usable" (transaction_manager.cpp:364): an open transaction nobody is    *)
(* about to commit has its record and no staged leftovers.  Only a merge   *)
(* whose base is not its latest, the nearest common ancestor being an      *)
(* older one, may take a restored record away again: five threads get      *)
(* there.                                                                  *)
StaleBase(r) ==
    \E c \in CommitIds(r) : \E x, y \in r.commits[c].parents :
        ~(CommonAncestors(r, x, y) \subseteq Ancestors(r, FindMergeBase(r, x, y)))

StaysUsable ==
    \A t \in Txns :
        /\ outcome[t] = "open"
        /\ \A th \in Threads :
             op[th].pc \in {"idle", "write", "written"} \/ op[th].txn # t
        => (HasTxnMeta(t) /\ IsClean(repo, t)) \/ StaleBase(repo)

(* "Clean up transaction metadata before merge to avoid polluting the      *)
(* target branch" (transaction_manager.cpp:363): the canonical branch      *)
(* shows only what was committed, no transaction's record, no payload of   *)
(* an open transaction, and none of one whose rollback was acknowledged.   *)
NoRecords ==
    \A t \in TxnIds : AtCommit(repo, GetBranchHead(repo, Main))[TxnMetaPath(t)] = Absent

OnlyCommitted ==
    \A a \in Payloads, t \in Txns :
        AtCommit(repo, GetBranchHead(repo, Main))[a] = t => outcome[t] = "committed"

NoDirtyMain == NoRecords /\ OnlyCommitted

(* The writes acknowledged before CommitTransaction was called are in the  *)
(* commit that it produced, whatever else went on meanwhile: the artifact  *)
(* has a payload of the transaction or of one created under it (Kin).  A   *)
(* second merge of the same transaction, by another instance, may come     *)
(* after writes of others and does not show them again.                    *)
Kin(t) ==
    {u \in Txns : \A S \in SUBSET Txns :
        t \in S /\ (\A c \in Txns : parent[c] \in S => c \in S) => u \in S}

Shows(t, a) == AtCommit(repo, result[t])[a] \in Kin(t)

KeepsEarlierWrites ==
    \A t \in Txns :
        outcome[t] = "committed" /\ merges[t] = 1 => \A a \in before[t] : Shows(t, a)

(* "reads within a transaction see the transaction's own writes"           *)
(* (artifact_system_prd.md:573): as long as it is open, every acknowledged *)
(* write is on its branch, over failed commits and crashes.                *)
ReadYourWrites ==
    \A t \in Txns, a \in Payloads :
        outcome[t] = "open" /\ <<t, a>> \in acked
            => AtCommit(repo, GetBranchHead(repo, t))[a] \in Kin(t)

(* "All writes in a transaction are merged atomically on Artifact Layer    *)
(* transaction commit" (artifact_system_prd.md:583): also those that were  *)
(* acknowledged while the commit was going on.                             *)
MergesAllWrites ==
    \A t \in Txns :
        outcome[t] = "committed" => \A a \in Payloads : <<t, a>> \in acked => Shows(t, a)

(* "each logical write is atomic (artifact + indexes are committed         *)
(* together)" (artifact_system_prd.md:535): a branch that shows an         *)
(* artifact has its row in every index, the resolver's merged objects      *)
(* included; unless the resolver overwrote the index with what it had read *)
(* before the row came there.  (No write here deletes an artifact.)        *)
KeepsRows ==
    \A b \in {Main} \cup Txns, x \in Indexes, a \in Payloads :
        LET objects == AtCommit(repo, GetBranchHead(repo, b))
        IN  BranchExists(repo, b) /\ objects[a] # Absent
                => a \in DOMAIN Rows(objects[x]) \/ <<x, a>> \in lostRows

(* "CommitTransaction returns success without performing another merge"    *)
(* (artifact_system_prd.md:635): a transaction is merged at most once.     *)
MergedOnce == \A t \in Txns : merges[t] <= 1
=============================================================================

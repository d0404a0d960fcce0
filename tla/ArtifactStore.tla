--------------------------- MODULE ArtifactStore ---------------------------
(***************************************************************************)
(* Creating, updating and deleting artifacts without an explicit           *)
(* transaction (artifact_store.cpp, validation.cpp), by the clients of one *)
(* or more service instances over one versioned store.                     *)
(*                                                                         *)
(* A request is checked with one read after the other of the canonical     *)
(* branch, each of the branch as it is then; later an implicit transaction *)
(* is forked from what the branch has become, the write is staged and      *)
(* committed on it, and it is merged.  Others work in between.  A request  *)
(* that the first read refuses has no effect and is left out.  So is the   *)
(* transaction's own record (TransactionManager has it), but not the       *)
(* commits it costs.                                                       *)
(***************************************************************************)
EXTENDS ReferentialIntegrity, Sequences

CONSTANTS
    Instances,     \* the service processes
    Clients,       \* who has a request going; also the name of its branch
    Home,          \* the instance each client talks to
    Main, Unstaged,
    BuiltIn,       \* the reference fields of the service's own types
    Deny,          \* per type: the requests its mutation flags forbid
    Inputs,        \* bound: the artifacts clients create, and update to
    Scenarios,     \* bound: initial populations and the number of requests
    Restarting,    \* bound: the instances that may be restarted
    Queried,       \* bound: the covering indexes someone may query
    max_attempts

StoredValues == StoredArtifacts \cup IndexObjects
StoreBranches == {Main} \cup Clients

(* The store (MemoryStorage) comes with the resolver, which resolves       *)
(* conflicts on indexes of the built-in types only.                        *)
INSTANCE ConflictResolver WITH
    Branches <- StoreBranches, Paths <- ObjectPaths, Values <- StoredValues,
    Artifacts <- Ids, OrderValues <- {0}, Indexes <- BuiltIn \X Ids

Populations == [Ids -> StoredArtifacts \cup {Absent}]

ASSUME ArtifactStoreAssumption ==
    /\ Home \in [Clients -> Instances] /\ Restarting \subseteq Instances
    /\ Main \notin Clients
    /\ Absent \notin StoredValues /\ Unstaged \notin StoredValues \cup {Absent}
    /\ Queried \subseteq Fields /\ BuiltIn \subseteq Fields
    /\ Deny \in [Types -> SUBSET {"create", "update", "delete"}]
    /\ \A s \in Inputs : \A f \in Fields : s.refs[f] # {} => From[f] = s.type
    /\ Inputs \subseteq StoredArtifacts
    /\ \A f \in Fields \ Repeated : \A s \in Inputs : Cardinality(s.refs[f]) <= 1
    /\ max_attempts \in Nat \ {0}

(* The requests start from what others may leave: references that hold.    *)
ASSUME ScenariosAssumption ==
    \A sc \in Scenarios :
        /\ sc.population \in Populations /\ sc.requests \in Nat
        /\ \A a \in Ids, f \in Fields :
            sc.population[a] # Absent => \A x \in sc.population[a].refs[f] :
                /\ sc.population[x] # Absent /\ ~EmptyPayload(sc.population[x])
                /\ sc.population[x].type = To[f]

VARIABLES
    repo,     \* the store
    known,    \* per instance: the covering indexes in index_def_ids_by_key_type
    op,       \* per client: the request it works on
    used,     \* the IDs that were allocated
    left,     \* bound: the requests and restarts still to come
    \* history: why a reference or an index row may be out of date
    stale,    \* artifacts deleted as they were at a commit before the fork
    loose,    \* artifacts that a request deleted or referred to without all
              \*   it needed to know: it was checked against an older commit
              \*   than it was merged into, or its instance lacks an index
    emptied,  \* artifacts a SET_NULL left without any field
    outdated, \* index objects whose conflicts were resolved with a target that
              \*   had moved on by the time the result was merged over it
    misbased  \* a merge or a resolution has taken another base than the fork

history == <<stale, loose, emptied, outdated, misbased>>
vars == <<repo, known, op, used, left, history>>

Idle == [pc |-> "idle"]
MainHead == GetBranchHead(repo, Main)

(* A population with its index objects: what creating it has left.         *)
Objects0(population) ==
    [p \in ObjectPaths |->
        IF p \in ArtifactPaths THEN population[p[2]]
        ELSE LET rows == {a \in Ids : population[a] # Absent
                              /\ p \in DeriveIndexEntries(population[a])}
             IN  IF rows = {} THEN Absent ELSE [a \in rows |-> 0]]

Init ==
    \E sc \in Scenarios :
        /\ repo = [InitRepo EXCEPT !.commits[Genesis].objects =
                                        Objects0(sc.population)]
        /\ left = sc.requests
        /\ used = {a \in Ids : sc.population[a] # Absent}
        /\ known = [i \in Instances |-> Fields]
        /\ op = [c \in Clients |-> Idle]
        /\ stale = {} /\ loose = {} /\ emptied = {} /\ outdated = {}
        /\ misbased = FALSE

-----------------------------------------------------------------------------
(* Checking.                                                               *)

(* A request starts with the client's first read.  What it is still to do  *)
(* is the references whose target is not yet validated, and the calls of   *)
(* EnforceDeleteIntegrity() that have not returned, the innermost one      *)
(* last.  seen is history: the commits it has read from.                   *)
Check(c, kind, a, s, todo, stack) ==
    /\ op[c] = Idle /\ left > 0
    /\ op' = [op EXCEPT ![c] =
                [pc |-> "check", kind |-> kind, id |-> a, artifact |-> s,
                 effects |-> NoEffects, todo |-> todo, stack |-> stack,
                 read |-> MainHead, seen |-> {MainHead},
                 informed |-> known[Home[c]] = Fields]]
    /\ left' = left - 1
    /\ UNCHANGED <<repo, known, history>>

Passed(r) == r.pc = "check" /\ r.todo = {} /\ r.stack = <<>>

(* ValidateCreateOrUpdate(): the mutation flags and the empty payload; the *)
(* type resolves, and the payload parses.                                  *)
ValidateCreateOrUpdate(kind, s) == kind \notin Deny[s.type] /\ ~EmptyPayload(s)

CheckCreate(c, a, s) ==
    /\ a \notin used
    /\ ValidateCreateOrUpdate("create", s)
    /\ Check(c, "create", a, s, References(s), <<>>)
    /\ used' = used \cup {a}

(* The type is read on its own, but an artifact never has another one.     *)
CheckUpdate(c, a, s) ==
    /\ Live(AtCommit(repo, MainHead), a)
    /\ ReadStoredArtifact(AtCommit(repo, MainHead), a).type = s.type
    /\ ValidateCreateOrUpdate("update", s)
    /\ Check(c, "update", a, s, References(s), <<>>)
    /\ UNCHANGED used

(* The artifact as it was read goes along.  The mutation flags of the ones *)
(* the side effects concern are not looked at.                             *)
CheckDelete(c, a) ==
    LET s == ReadStoredArtifact(AtCommit(repo, MainHead), a)
    IN  /\ Live(AtCommit(repo, MainHead), a)
        /\ "delete" \notin Deny[s.type]
        /\ Check(c, "delete", a, s, {}, <<Call(a, s.type, {a})>>)
        /\ UNCHANGED used

Answer(c) == op' = [op EXCEPT ![c] = Idle]
Proceed(c, q) == op' = [op EXCEPT ![c] = [q EXCEPT !.seen = @ \cup {MainHead}]]

(* One target of a reference is read.                                      *)
ValidateReference(c, n) ==
    /\ op[c].pc = "check" /\ n \in op[c].todo
    /\ IF ValidateSingleReference(AtCommit(repo, MainHead), n[1], n[2])
       THEN Proceed(c, [op[c] EXCEPT !.todo = @ \ {n}])
       ELSE Answer(c)
    /\ UNCHANGED <<repo, known, used, left, history>>

(* The innermost call.                                                     *)
Enforcing(c) == op[c].pc = "check" /\ op[c].stack # <<>>
Depth(c) == Len(op[c].stack)
Top(c) == op[c].stack[Depth(c)]

(* It reads the covering index of its next reference definition.           *)
FindReferrers(c, f) ==
    LET k == Top(c)
        referrers == FindActiveReferencingArtifacts(
                        AtCommit(repo, MainHead), known[Home[c]], f, k.id, k.given)
    IN  /\ Enforcing(c) /\ k.queue = {} /\ NextDef(k, f)
        /\ IF OnDelete[f] = "RESTRICT" /\ referrers # {} THEN Answer(c)
           ELSE Proceed(c, [op[c] EXCEPT
                    !.stack[Depth(c)] = Found(k, f, referrers),
                    !.effects = Entail(@, f, k.id, referrers)])
        /\ UNCHANGED <<repo, known, used, left, history>>

(* It reads the next artifact it cascades to, in the order of the index    *)
(* rows, and calls itself, unless the artifact is gone.                    *)
Recurse(c) ==
    LET k == Top(c)
        b == Min(k.queue)
        s == ReadStoredArtifact(AtCommit(repo, MainHead), b)
        taken == [k EXCEPT !.queue = @ \ {b}]
        rest == [op[c].stack EXCEPT ![Depth(c)] = taken]
    IN  /\ Enforcing(c) /\ k.queue # {}
        /\ Proceed(c, [op[c] EXCEPT !.stack =
                IF Live(AtCommit(repo, MainHead), b)
                THEN Append(rest, Call(b, s.type, k.scheduled)) ELSE rest])
        /\ UNCHANGED <<repo, known, used, left, history>>

Return(c) ==
    LET below == SubSeq(op[c].stack, 1, Depth(c) - 1)
    IN  /\ Enforcing(c) /\ Top(c).queue = {} /\ Top(c).defs = {}
        /\ op' = [op EXCEPT ![c].stack =
                IF below = <<>> THEN <<>>
                ELSE [below EXCEPT ![Depth(c) - 1] = Returned(@, Top(c).found)]]
        /\ UNCHANGED <<repo, known, used, left, history>>

-----------------------------------------------------------------------------
(* Staging: the objects of the transaction's branch afterwards.            *)

(* AddIndexRow(); a second row of the artifact makes it fail.              *)
CanAddRows(objects, a, entries) ==
    \A p \in entries : a \notin DOMAIN Rows(objects[p])

AddRows(objects, a, entries) ==
    [p \in ObjectPaths |-> IF p \in entries THEN WithRow(objects[p], a, 0)
                           ELSE objects[p]]

RemoveRows(objects, a, entries) ==
    [p \in ObjectPaths |-> IF p \in entries /\ objects[p] # Absent
                           THEN WithoutRow(objects[p], a) ELSE objects[p]]

Put(objects, a, s) == [objects EXCEPT ![ArtifactPath(a)] = s]

StageCreate(objects, a, s) ==
    AddRows(Put(objects, a, s), a, DeriveIndexEntries(s))

(* The rows to remove come from the artifact as it is on the branch.       *)
OldRowsRemoved(objects, a) ==
    LET old == ReadStoredArtifact(objects, a)
    IN  RemoveRows(objects, a, DeriveIndexEntries(old))

(* Mutant: the old rows stay.                                              *)
StageUpdateAddsOnly(objects, a, s) == StageCreate(objects, a, s)

StageUpdate(objects, a, s) ==
    AddRows(Put(OldRowsRemoved(objects, a), a, s), a, DeriveIndexEntries(s))

(* The rows to remove come from the artifact as the caller has read it.    *)
StageDelete(objects, a, existing) ==
    RemoveRows(Put(objects, a, Tombstone(existing)), a, DeriveIndexEntries(existing))

ApplyCascadeEffect(objects, b) ==
    IF Live(objects, b)
    THEN StageDelete(objects, b, ReadStoredArtifact(objects, b))
    ELSE objects

(* Mutant: the field keeps its value.                                      *)
ApplySetNullNever(objects, n) == objects

(* A field inside a sub-message has a dotted name, which FindFieldByName() *)
(* does not find: it keeps its value.                                      *)
ApplySetNullEffect(objects, n) ==
    LET b == n[1]
        f == n[2]
        s == ReadStoredArtifact(objects, b)
    IN  IF Live(objects, b) /\ f \notin Nested
        THEN StageUpdate(objects, b,
                [s EXCEPT !.refs[f] = IF f \in Repeated THEN @ \ {n[3]} ELSE {}])
        ELSE objects

(* The effects can be applied in any order: all they have in common is     *)
(* that nothing is done to an artifact without payload.                    *)
ApplyCascades(objects, cascades) ==
    FoldSet(LAMBDA b, o : ApplyCascadeEffect(o, b), objects, cascades)

ApplySetNulls(objects, nulls) ==
    FoldSet(LAMBDA n, o : ApplySetNullEffect(o, n), objects, nulls)

StageEffects(objects, effects) ==
    ApplySetNulls(ApplyCascades(objects, effects.cascades), effects.nulls)

CanStage(objects, r) ==
    LET entries == DeriveIndexEntries(r.artifact)
    IN  CASE r.kind = "create" -> CanAddRows(objects, r.id, entries)
          [] r.kind = "update" ->
                CanAddRows(OldRowsRemoved(objects, r.id), r.id, entries)
          [] r.kind = "delete" -> TRUE

Staged(objects, r) ==
    CASE r.kind = "create" -> StageCreate(objects, r.id, r.artifact)
      [] r.kind = "update" -> StageUpdate(objects, r.id, r.artifact)
      [] r.kind = "delete" ->
            StageEffects(StageDelete(objects, r.id, r.artifact), r.effects)

(* RunImplicitTransaction(): fork, with a commit for the record; stage and *)
(* commit; and a commit that takes the record away.  Or staging fails, and *)
(* the transaction is rolled back.                                         *)
Stage(c) ==
    LET objects == AtCommit(repo, MainHead)
        begun == Commit(CreateBranch(repo, c, MainHead), c)
        written == Advance(begun, c, {GetBranchHead(begun, c)}, Staged(objects, op[c]))
    IN  /\ Passed(op[c])
        /\ \/ /\ CanStage(objects, op[c])
              /\ repo' = Commit(written, c)
              /\ op' = [op EXCEPT ![c] = [pc |-> "merge", fork |-> MainHead,
                            attempts |-> 1, resolved |-> {},
                            kind |-> @.kind, id |-> @.id, artifact |-> @.artifact, effects |-> @.effects,
                            read |-> @.read, informed |-> @.informed]]
           \/ /\ ~CanStage(objects, op[c])
              /\ op' = [op EXCEPT ![c] = Idle]
              /\ UNCHANGED repo
        /\ UNCHANGED <<known, used, left, history>>

(* The artifacts a request deletes, or the ones it refers to.              *)
Concerned(r) ==
    IF r.kind = "delete" THEN {r.id} \cup r.effects.cascades
    ELSE UNION {r.artifact.refs[f] : f \in Fields}

(* The base of the merge need not be the fork: in a long history the search *)
(* may rank an older common ancestor first.                                *)
TakesOtherBase(c) == MergeBase(repo, c, Main) # op[c].fork

(* Mutant: what is in conflict is resolved by force.                       *)
MergeByForce(c) ==
    /\ op[c].pc = "merge"
    /\ repo' = DeleteBranch(Advance(repo, Main, {MainHead, GetBranchHead(repo, c)},
                    Staged(AtCommit(repo, MainHead), op[c])), c)
    /\ op' = [op EXCEPT ![c] = Idle]
    /\ UNCHANGED <<known, used, left, history>>

(* One attempt of CommitTransactionImpl(): merged; index conflicts         *)
(* resolved, to try again; or given up, and rolled back.                   *)
MergeWrite(c) ==
    LET r == op[c]
        conflicts == MergeConflicts(repo, c, Main)
        merged == Merge(repo, c, Main)
        after == AtCommit(merged, GetBranchHead(merged, Main))
    IN  /\ r.pc = "merge"
        /\ \/ /\ conflicts = {}
              /\ repo' = DeleteBranch(merged, c)
              /\ op' = [op EXCEPT ![c] = Idle]
              /\ stale' = IF r.kind = "delete" /\ r.read # r.fork
                          THEN stale \cup {r.id} ELSE stale
              /\ loose' = IF r.read # MainHead \/ (r.kind = "delete" /\ ~r.informed)
                          THEN loose \cup Concerned(r) ELSE loose
              /\ emptied' = emptied \cup
                    {b \in {n[1] : n \in r.effects.nulls} : Tombstoned(after, b)}
              /\ outdated' = outdated \cup
                    {p \in r.resolved : after[p] # AtCommit(repo, MainHead)[p]}
              /\ misbased' = (misbased \/ TakesOtherBase(c))
           \/ /\ conflicts # {} /\ Retryable(conflicts, r.attempts)
              /\ repo' = ResolveConflicts(repo, c, Main, conflicts)
              /\ op' = [op EXCEPT ![c].attempts = @ + 1, ![c].resolved = @ \cup conflicts]
              /\ misbased' = (misbased \/ TakesOtherBase(c))
              /\ UNCHANGED <<stale, loose, emptied, outdated>>
           \/ /\ conflicts # {} /\ ~Retryable(conflicts, r.attempts)
              /\ repo' = DeleteBranch(repo, c)
              /\ op' = [op EXCEPT ![c] = Idle]
              /\ UNCHANGED history
        /\ UNCHANGED <<known, used, left>>

-----------------------------------------------------------------------------
(* An instance that starts, or starts again, has the built-in indexes in   *)
(* its map.  It learns of another one when someone queries that index      *)
(* through it or registers a version of its type.                          *)
Restart(i) ==
    LET its == {c \in Clients : Home[c] = i}
    IN  /\ i \in Restarting /\ left > 0
        /\ known' = [known EXCEPT ![i] = BuiltIn]
        /\ op' = [c \in Clients |-> IF c \in its THEN Idle ELSE op[c]]
        /\ repo' = [repo EXCEPT !.head =
                [b \in StoreBranches |-> IF b \in its THEN NoBranch ELSE @[b]]]
        /\ left' = left - 1
        /\ UNCHANGED <<used, history>>

ResolveIndexDefId(i, f) ==
    /\ f \in Queried \ known[i] /\ left > 0
    /\ known' = [known EXCEPT ![i] = @ \cup {f}]
    /\ UNCHANGED <<repo, op, used, left, history>>

Next ==
    \/ \E c \in Clients :
        \/ \E a \in Ids :
            \/ CheckDelete(c, a)
            \/ \E s \in Inputs : CheckCreate(c, a, s) \/ CheckUpdate(c, a, s)
        \/ \E n \in Fields \X Ids : ValidateReference(c, n)
        \/ \E f \in Fields : FindReferrers(c, f)
        \/ Recurse(c)
        \/ Return(c)
        \/ Stage(c)
        \/ MergeWrite(c)
    \/ \E i \in Instances :
        \/ Restart(i)
        \/ \E f \in Fields : ResolveIndexDefId(i, f)

Spec == Init /\ [][Next]_vars

-----------------------------------------------------------------------------
(* Correctness.                                                            *)

Now == AtCommit(repo, MainHead)

(* A reference from artifact a to artifact x that is not there.            *)
Dangling(a, f, x) ==
    Live(Now, a) /\ x \in ReadStoredArtifact(Now, a).refs[f] /\ ~Live(Now, x)

(* "Referential integrity: deletes may be rejected [...], cascade, or      *)
(* nullify" (artifact_system_prd.md:485): no live artifact refers to one   *)
(* that is deleted.                                                        *)
NoDangling == \A a, x \in Ids, f \in Fields : ~Dangling(a, f, x)

(* What the delete and write checks do achieve: references dangle only     *)
(* where the delete or the reference was checked without seeing the other  *)
(* one, where SET_NULL left an empty payload, which nobody told the ones   *)
(* that refer to it, where the index was out of date, and in fields of     *)
(* sub-messages.                                                           *)
ReferencesHold ==
    \A a, x \in Ids, f \in Fields :
        Dangling(a, f, x) =>
            \/ misbased \/ a \in stale
            \/ x \in loose \cup emptied \/ <<f, x>> \in outdated
            \/ OnDelete[f] = "SET_NULL" /\ f \in Nested

(* The covering indexes show exactly the references there are, whatever    *)
(* merges into each other, except for artifacts that were deleted as they  *)
(* were before the transaction's fork (StageDelete() takes the artifact    *)
(* that was read for the checks), and for index objects that the resolver  *)
(* merged with a target which has changed again since: the result is a     *)
(* change of the source from then on, and may put back a row the target    *)
(* has removed.                                                            *)
IndexCovers ==
    ~misbased => \A a \in Ids \ stale, p \in IndexPaths \ outdated :
        a \in DOMAIN Rows(Now[p]) <=>
            /\ Exists(Now, a)
            /\ p \in DeriveIndexEntries(ReadStoredArtifact(Now, a))

(* A deleted artifact comes back only by an update that was checked before *)
(* the delete was merged, and forked after it.                             *)
StaysDeleted ==
    [][\A a \in Ids :
        Tombstoned(Now, a) /\ ~Tombstoned(Now, a)' => misbased' \/
            \E c \in Clients :
                /\ op[c].pc = "merge" /\ op[c].kind = "update" /\ op[c].id = a
                /\ op[c].read # op[c].fork]_vars

(* "snapshot isolation to prevent lost updates" (artifact_system_prd.md:   *)
(* 123): a write is merged over an artifact only if the artifact is what   *)
(* the write's branch was forked with, or they agree.                      *)
OverwritesWhatItForked ==
    [][\A a \in Ids :
        ReadStoredArtifact(Now, a)' # ReadStoredArtifact(Now, a) =>
            \E c \in Clients :
                /\ op[c].pc = "merge"
                /\ \/ TakesOtherBase(c)
                   \/ ReadStoredArtifact(AtCommit(repo, op[c].fork), a)
                        = ReadStoredArtifact(Now, a)]_vars

(* The artifacts that depend on artifact id by references among these: the *)
(* least set that holds id and is closed under being referred to.          *)
DependsOn(references, id) ==
    LET grow[k \in Nat] ==
            IF k = 0 THEN {id}
            ELSE grow[k - 1] \cup {e[1] : e \in {e \in references : e[2] \in grow[k - 1]}}
    IN  grow[Cardinality(Ids)]

CascadeReference(objects, b, f, x) ==
    /\ OnDelete[f] = "CASCADE"
    /\ Live(objects, b) /\ x \in ReadStoredArtifact(objects, b).refs[f]

(* The CASCADE references that are in all of the commits; in one of them.  *)
ReferencesThroughout(commits) ==
    {e \in Ids \X Ids : \E f \in Fields : \A h \in commits :
        CascadeReference(AtCommit(repo, h), e[1], f, e[2])}
ReferencesSometime(commits) ==
    {e \in Ids \X Ids : \E f \in Fields : \E h \in commits :
        CascadeReference(AtCommit(repo, h), e[1], f, e[2])}

(* The recursion over scheduled deletes, cycles or not, finds all that     *)
(* depends on the artifact by references that are there as long as it      *)
(* reads, and nothing that does not depend on it by references that were   *)
(* there at one read or the other.  Who reads from one commit only finds   *)
(* exactly what depends on the artifact in it.                             *)
CascadesToAllDependents ==
    \A c \in Clients :
        LET r == op[c]
            goes == {r.id} \cup r.effects.cascades
        IN  /\ r.pc = "check" /\ r.kind = "delete" /\ Passed(r)
            /\ r.informed /\ stale = {} /\ outdated = {} /\ ~misbased
            => /\ DependsOn(ReferencesThroughout(r.seen), r.id) \subseteq goes
               /\ goes \subseteq DependsOn(ReferencesSometime(r.seen), r.id)
=============================================================================

---------------------------- MODULE TypeRegistry ----------------------------
(***************************************************************************)
(* Registering versions of artifact types (type_registry.cpp), by the      *)
(* clients of one or more service instances over one versioned store.      *)
(*                                                                         *)
(* A type is a TypeDefinition, with its mutation flags and its current     *)
(* version, and a chain of TypeVersionDefinitions; the indexes and         *)
(* references a version declares have definitions of their own.  All are   *)
(* artifacts, found through the built-in indexes.                          *)
(*                                                                         *)
(* RegisterTypeVersion() reads the canonical branch, or the branch of the  *)
(* caller's transaction, by name: each read finds the branch as it is      *)
(* then.  After the checks it opens a transaction, writes, and commits.    *)
(* A source is given as what the compiler makes of it; one that does not   *)
(* compile, or declares something malformed, has no effect.                *)
(***************************************************************************)
EXTENDS SchemaCompatibility, Sequences

LOCAL INSTANCE SequencesExt
LOCAL INSTANCE FiniteSetsExt

CONSTANTS
    Instances,         \* the service processes
    Clients,           \* who has a registration going; also its transaction
    Home,              \* the instance each client talks to
    Txns,              \* bound: the transactions clients register within
    Types, MetaTypes,  \* the names of the clients' types and the built-in ones
    Keys,              \* the key types of indexes
    Fields,            \* the reference fields
    Definitions,       \* what a definition of an index or a reference says
    Flags,             \* the mutation flags: deny_create, ...
    Block,             \* per instance: the artifact IDs it allocates, numbers
    MetaIds,           \* per built-in type: the ID of its definition
    MaxNew,            \* bound: the artifacts a registration may create
    Sources,           \* bound: what clients register
    Scenarios,         \* bound: the starts and the number of registrations
    Main, Absent, Unstaged, None,
    max_attempts

ASSUME RegistryAssumption ==
    /\ Home \in [Clients -> Instances]
    /\ \A i, j \in Instances : i # j => Block[i] \cap Block[j] = {}
    /\ \A i \in Instances, m \in MetaTypes :
        Block[i] \subseteq Nat \ {0} /\ MetaIds[m] \in Nat \ Block[i]
    /\ \A s \in Sources :
        /\ s.type \in Types /\ s.type \in DOMAIN s.schema
        /\ DOMAIN s.indexes \subseteq Keys /\ DOMAIN s.references \subseteq Fields
        /\ s.deny \cap s.allow = {} /\ s.deny \cup s.allow \subseteq Flags
    /\ max_attempts \in Nat \ {0}

NoId == 0
Ids == UNION {Block[i] : i \in Instances} \cup {MetaIds[m] : m \in MetaTypes}
AllTypeNames == Types \cup MetaTypes

(* The index objects: the unique ones by type name, by index key type and  *)
(* by reference key type, the others by type, by target type and by kind.  *)
TypeNameUnique(t)       == <<"type_name_unique", t>>
IndexKeyTypeUnique(k)   == <<"index_key_type_unique", k>>
ReferenceUnique(f)      == <<"reference_key_type_unique", f>>
VersionsByType(id)      == <<"type_versions_by_type", id>>
ReferencesByTarget(t)   == <<"references_by_target_type", t>>
AllOf(kind)             == <<"all", kind>>

UniqueIndexes == {TypeNameUnique(t) : t \in AllTypeNames}
                    \cup {IndexKeyTypeUnique(k) : k \in Keys}
                    \cup {ReferenceUnique(f) : f \in Fields}
SharedIndexes == {VersionsByType(id) : id \in Ids}
                    \cup {ReferencesByTarget(t) : t \in AllTypeNames}
                    \cup {AllOf(kind) : kind \in {"type", "index", "reference"}}
Paths == {<<"artifact", id>> : id \in Ids} \cup UniqueIndexes \cup SharedIndexes

(* The artifacts and the rows they have.                                   *)
TypeDefinition(t, deny, current) ==
    [kind |-> "type", name |-> t, deny |-> deny, current |-> current]
TypeVersion(td, source, previous, next) ==
    [kind |-> "version", type |-> td, source |-> source,
     previous |-> previous, next |-> next]
IndexDefinition(k, definition) ==
    [kind |-> "index", key |-> k, definition |-> definition]
ReferenceDefinition(f, definition) ==
    [kind |-> "reference", field |-> f, definition |-> definition]

Entries(s) ==
    CASE s.kind = "type"      -> {TypeNameUnique(s.name), AllOf("type")}
      [] s.kind = "version"   -> {VersionsByType(s.type)}
      [] s.kind = "index"     -> {IndexKeyTypeUnique(s.key), AllOf("index")}
      [] s.kind = "reference" -> {ReferenceUnique(s.field), AllOf("reference"),
                                  ReferencesByTarget(s.definition.target)}

(* Two definitions stand for all the built-in artifacts.                   *)
BuiltIns ==
    LET ms == SetToSeq(MetaTypes)
    IN  [n \in DOMAIN ms |->
            LET td == TypeDefinition(ms[n], {}, NoId)
            IN  [id |-> MetaIds[ms[n]], value |-> td, entries |-> SetToSeq(Entries(td))]]

StoreBranches == {Main} \cup Clients \cup Txns

(* What an object may be; TLC never enumerates it.                         *)
StoredArtifacts ==
    [kind : {"type"}, name : AllTypeNames, deny : SUBSET Flags, current : Ids \cup {NoId}]
        \cup [kind : {"version"}, type : Ids, source : Sources,
              previous : Ids \cup {NoId}, next : Ids \cup {NoId}]
        \cup [kind : {"index"}, key : Keys, definition : Definitions]
        \cup [kind : {"reference"}, field : Fields, definition : Definitions]

VARIABLES
    repo, boot, crashes, torn, crowded,   \* see Genesis
    cache,      \* per instance: index_def_ids_by_key_type_, by key type
    op,         \* per client: the registration it works on
    stuck,      \* <<i, t>>: instance i knows of a child of t no one will end
    used,       \* the IDs that were allocated
    left,       \* bound: the registrations and transactions still to come
    \* history: why a definition may not be what it should
    raced,      \* types with a version registered upon a definition that had
                \*   changed before its transaction was opened
    late,       \* index and reference keys that were taken as defined, but
                \*   had not been when their definitions were compared
    premature   \* <<i, k>>: instance i has cached k in a client's transaction

INSTANCE Genesis WITH Branches <- StoreBranches, Values <- StoredArtifacts
Resolver == INSTANCE ConflictResolver WITH
    Branches <- StoreBranches, Values <- StoredArtifacts,
    Artifacts <- Ids, OrderValues <- {0}, Indexes <- SharedIndexes

bootVars == <<boot, crashes, torn, crowded>>
history == <<raced, late, premature>>
vars == <<repo, bootVars, cache, op, stuck, used, left, history>>

Idle == [pc |-> "idle"]

(* A store with the built-in artifacts, and nothing else.                  *)
WithArtifact(objects, id, s) ==
    [p \in Paths |-> IF p = ArtifactPath(id) THEN s
                     ELSE IF p \in Entries(s) THEN WithRow(objects[p], id, 0)
                     ELSE objects[p]]

Bootstrapped ==
    FoldLeft(LAMBDA objects, b : WithArtifact(objects, b.id, b.value),
             [p \in Paths |-> Absent], BuiltIns)

Init ==
    \E sc \in Scenarios :
        /\ repo = IF sc.fresh THEN InitRepo
                  ELSE [InitRepo EXCEPT !.commits[1].objects = Bootstrapped]
        /\ boot = [i \in Instances |-> IF sc.fresh THEN Down ELSE Up]
        /\ crashes = sc.crashes /\ torn = FALSE /\ crowded = FALSE
        /\ left = sc.registrations
        /\ cache = [i \in Instances |-> [k \in Keys |-> NoId]]
        /\ op = [c \in Clients |-> Idle]
        /\ stuck = {} /\ used = {}
        /\ raced = {} /\ late = {} /\ premature = {}

-----------------------------------------------------------------------------
(* Reading, in the objects of some branch.                                 *)

(* ReadIndexArtifactIds().                                                 *)
ReadIndexArtifactIds(objects, p) == DOMAIN Rows(objects[p])

FrontOr(ids) == IF ids = {} THEN NoId ELSE Min(ids)

LookupTypeDefinition(objects, t) ==
    FrontOr(ReadIndexArtifactIds(objects, TypeNameUnique(t)))
LookupIndexDefinition(objects, k) ==
    FrontOr(ReadIndexArtifactIds(objects, IndexKeyTypeUnique(k)))
LookupReferenceDefinition(objects, f) ==
    FrontOr(ReadIndexArtifactIds(objects, ReferenceUnique(f)))

Payload(objects, id) == objects[ArtifactPath(id)]

(* FindTailVersion(): of the versions without a next one the one with the  *)
(* greatest ID.                                                            *)
Tails(objects, td) ==
    {v \in ReadIndexArtifactIds(objects, VersionsByType(td)) :
        Payload(objects, v).next = NoId}
FindTailVersion(objects, td) ==
    IF Tails(objects, td) = {} THEN NoId ELSE Max(Tails(objects, td))

-----------------------------------------------------------------------------
(* RegisterTypeVersion().                                                  *)

Ref(c) == IF op[c].txn = None THEN Main ELSE op[c].txn
Seen(c) == ResolveState(repo, Ref(c))

Return(c) == op' = [op EXCEPT ![c] = Idle]

(* Mutant: flags may be taken back.                                        *)
ReadTypeLoosened(c, source, t) ==
    LET ref == IF t = None THEN Main ELSE t
        objects == ResolveState(repo, ref)
        td == LookupTypeDefinition(objects, source.type)
    IN  /\ op[c] = Idle /\ left > 0
        /\ IsUp(Home[c])
        /\ BranchExists(repo, ref)
        /\ op' = [op EXCEPT ![c] =
                [pc |-> "tail", source |-> source, txn |-> t, td |-> td,
                 type |-> IF td = NoId THEN Absent ELSE Payload(objects, td)]]
        /\ left' = left - 1
        /\ UNCHANGED <<repo, bootVars, cache, stuck, used, history>>

(* Step 1, with the rule that flags are only tightened.  A request that    *)
(* fails it has no effect.                                                 *)
ReadType(c, source, t) ==
    LET ref == IF t = None THEN Main ELSE t
        objects == ResolveState(repo, ref)
        td == LookupTypeDefinition(objects, source.type)
    IN  /\ op[c] = Idle /\ left > 0
        /\ IsUp(Home[c])
        /\ BranchExists(repo, ref)
        /\ td # NoId => source.allow \cap Payload(objects, td).deny = {}
        /\ op' = [op EXCEPT ![c] =
                [pc |-> "tail", source |-> source, txn |-> t, td |-> td,
                 type |-> IF td = NoId THEN Absent ELSE Payload(objects, td)]]
        /\ left' = left - 1
        /\ UNCHANGED <<repo, bootVars, cache, stuck, used, history>>

(* Step 2: the version to follow, and whether the new one can.             *)
ReadTail(c) ==
    LET r == op[c]
        tail == IF r.td = NoId THEN NoId ELSE FindTailVersion(Seen(c), r.td)
        version == IF tail = NoId THEN Absent ELSE Payload(Seen(c), tail)
        compatible == tail # NoId =>
            CheckSchemaCompatibility(version.source.schema, r.source.schema,
                                     r.source.type)
    IN  /\ r.pc = "tail"
        /\ \/ /\ BranchExists(repo, Ref(c)) /\ compatible
              /\ op' = [op EXCEPT ![c] =
                    [pc |-> "definitions", source |-> r.source, txn |-> r.txn,
                     td |-> r.td, type |-> r.type, tail |-> tail, version |-> version]]
           \/ /\ BranchExists(repo, Ref(c)) => ~compatible
              /\ Return(c)
        /\ UNCHANGED <<repo, bootVars, cache, stuck, used, left, history>>

(* Mutant: an index that has a definition is not compared with it.         *)
AnyIndexCompatible(objects, source) == TRUE

(* Steps 3 and 4: what is declared and has a definition must agree with    *)
(* it; a new reference must have a target and exactly one covering index,  *)
(* and nothing the tail declares may be missing.                           *)
CheckIndexCompatibility(objects, source) ==
    \A k \in DOMAIN source.indexes :
        LET id == LookupIndexDefinition(objects, k)
        IN  id # NoId => Payload(objects, id).definition = source.indexes[k]

CheckReferenceCompatibility(objects, source) ==
    \A f \in DOMAIN source.references :
        LET id == LookupReferenceDefinition(objects, f)
            declared == source.references[f]
        IN  IF id # NoId THEN Payload(objects, id).definition = declared
            ELSE /\ LookupTypeDefinition(objects, declared.target) # NoId
                 /\ declared.index \in DOMAIN source.indexes

(* The declared keys that have a definition.                               *)
Defined(objects, source) ==
    {k \in DOMAIN source.indexes : LookupIndexDefinition(objects, k) # NoId}
        \cup {f \in DOMAIN source.references :
                LookupReferenceDefinition(objects, f) # NoId}

CheckForRemovals(old, source) ==
    /\ DOMAIN old.indexes \subseteq DOMAIN source.indexes
    /\ DOMAIN old.references \subseteq DOMAIN source.references

CheckDefinitions(c) ==
    LET r == op[c]
        valid == /\ CheckIndexCompatibility(Seen(c), r.source)
                 /\ CheckReferenceCompatibility(Seen(c), r.source)
                 /\ r.tail # NoId => CheckForRemovals(r.version.source, r.source)
    IN  /\ r.pc = "definitions"
        /\ \/ /\ BranchExists(repo, Ref(c)) /\ valid
              /\ op' = [op EXCEPT ![c] =
                    [pc |-> "fork", source |-> r.source, txn |-> r.txn, td |-> r.td,
                     type |-> r.type, tail |-> r.tail, version |-> r.version,
                     compared |-> Defined(Seen(c), r.source)]]
           \/ /\ BranchExists(repo, Ref(c)) => ~valid
              /\ Return(c)
        /\ UNCHANGED <<repo, bootVars, cache, stuck, used, left, history>>

(* CreateTransaction(), from what the branch has become by now.            *)
ForkTransaction(c) ==
    /\ op[c].pc = "fork"
    /\ \/ /\ BranchExists(repo, Ref(c))
          /\ repo' = CreateBranch(repo, c, GetBranchHead(repo, Ref(c)))
          /\ op' = [op EXCEPT ![c].pc = "write"]
       \/ /\ ~BranchExists(repo, Ref(c))
          /\ Return(c)
          /\ UNCHANGED repo
    /\ UNCHANGED <<bootVars, cache, stuck, used, left, history>>

(* The IDs an instance allocates next.                                     *)
FreeIds(i) ==
    LET free == Block[i] \ used
    IN  [n \in 1 .. Cardinality(free) |->
            CHOOSE x \in free : Cardinality({y \in free : y <= x}) = n]

(* The new artifacts, in the order they are created: definitions of what   *)
(* is declared and not found, the type if it was not found, the version.   *)
NewArtifacts(c) ==
    LET r == op[c]
        ids == FreeIds(Home[c])
        new(S) == SetToSeq(S \ Defined(Seen(c), r.source))
        definitions ==
            [n \in DOMAIN new(DOMAIN r.source.indexes) |->
                LET k == new(DOMAIN r.source.indexes)[n]
                IN  IndexDefinition(k, r.source.indexes[k])]
            \o [n \in DOMAIN new(DOMAIN r.source.references) |->
                LET f == new(DOMAIN r.source.references)[n]
                IN  ReferenceDefinition(f, r.source.references[f])]
        types == IF r.td # NoId THEN <<>>
                 ELSE <<TypeDefinition(r.source.type, r.source.deny, NoId)>>
        n == Len(definitions) + Len(types)
        td == IF r.td # NoId THEN r.td ELSE ids[n]
        values == definitions \o types
                    \o <<TypeVersion(td, r.source, r.tail, NoId)>>
    IN  [ids |-> SubSeq(ids, 1, n + 1), values |-> values, td |-> td,
         version |-> ids[n + 1]]

(* Mutant: a unique index takes any row.                                   *)
CanCreateTwice(objects, new) == TRUE

(* AddIndexRow() accepts the rows of the new artifacts.                    *)
CanCreate(objects, new) ==
    \A n \in DOMAIN new.values : \A p \in Entries(new.values[n]) :
        p \in UniqueIndexes => ReadIndexArtifactIds(objects, p) = {}

(* Mutant: the tail does not learn of its successor.                       *)
LinkedOneWay(objects, r, new) ==
    LET type == IF r.td # NoId THEN r.type
                ELSE TypeDefinition(r.source.type, r.source.deny, NoId)
    IN  [objects EXCEPT ![ArtifactPath(new.td)] =
            [type EXCEPT !.current = new.version,
                         !.deny = (@ \cup r.source.deny) \ r.source.allow]]

(* The tail and the type are updated as they were read.                    *)
Linked(objects, r, new) ==
    LET type == IF r.td # NoId THEN r.type
                ELSE TypeDefinition(r.source.type, r.source.deny, NoId)
    IN  [p \in Paths |->
            IF p = ArtifactPath(new.td)
            THEN [type EXCEPT !.current = new.version,
                              !.deny = (@ \cup r.source.deny) \ r.source.allow]
            ELSE IF r.tail # NoId /\ p = ArtifactPath(r.tail)
            THEN [r.version EXCEPT !.next = new.version]
            ELSE objects[p]]

(* Everything is written within the transaction, or it is rolled back.     *)
(* What is already defined is looked up again where the checks looked, and *)
(* not in the transaction.                                                 *)
WriteVersion(c) ==
    LET r == op[c]
        objects == AtCommit(repo, GetBranchHead(repo, c))
        new == NewArtifacts(c)
        created ==
            FoldLeft(LAMBDA o, n : WithArtifact(o, new.ids[n], new.values[n]),
                     objects, [n \in DOMAIN new.ids |-> n])
    IN  /\ r.pc = "write"
        /\ Len(FreeIds(Home[c])) >= MaxNew
        /\ \/ /\ BranchExists(repo, Ref(c)) /\ CanCreate(objects, new)
              /\ repo' = Advance(repo, c, {GetBranchHead(repo, c)},
                                 Linked(created, r, new))
              /\ used' = used \cup {new.ids[n] : n \in DOMAIN new.ids}
              /\ op' = [op EXCEPT ![c] =
                    [pc |-> "commit", attempts |-> 1, txn |-> r.txn,
                     type |-> r.source.type, keys |-> DOMAIN r.source.indexes,
                     ids |-> [k \in DOMAIN r.source.indexes |->
                        IF k \in Defined(Seen(c), r.source)
                        THEN LookupIndexDefinition(Seen(c), k)
                        ELSE LookupIndexDefinition(created, k)],
                     raced |-> r.td # NoId /\ Payload(objects, r.td) # r.type,
                     late |-> Defined(Seen(c), r.source) \ r.compared]]
           \/ /\ BranchExists(repo, Ref(c)) => ~CanCreate(objects, new)
              /\ repo' = DeleteBranch(repo, c)
              /\ Return(c)
              /\ UNCHANGED used
        /\ UNCHANGED <<bootVars, cache, stuck, left, history>>

(* Mutant: the map is updated whether or not the version was committed.    *)
Cached(c, merged) ==
    [cache EXCEPT ![Home[c]] =
        [k \in Keys |-> IF k \in op[c].keys THEN op[c].ids[k] ELSE @[k]]]

(* The index IDs go into the instance's map after the commit.              *)
CachedAfter(c, merged) ==
    IF merged
    THEN [cache EXCEPT ![Home[c]] =
            [k \in Keys |-> IF k \in op[c].keys THEN op[c].ids[k] ELSE @[k]]]
    ELSE cache

(* One attempt of CommitTransaction(), which fails when the target has     *)
(* staged changes.  After a conflict nobody rolls the transaction back: it *)
(* is forgotten, except by the instance that has it on record as a child.  *)
CommitVersion(c) ==
    LET r == op[c]
        target == Ref(c)
        mergeable == BranchExists(repo, target) /\ IsClean(repo, target)
        conflicts == MergeConflicts(repo, c, target)
        its == {<<Home[c], k>> : k \in r.keys}
    IN  /\ r.pc = "commit"
        /\ \/ /\ mergeable /\ conflicts = {}
              /\ repo' = DeleteBranch(Merge(repo, c, target), c)
              /\ cache' = CachedAfter(c, TRUE)
              /\ raced' = IF r.raced THEN raced \cup {r.type} ELSE raced
              /\ late' = late \cup r.late
              /\ premature' = IF r.txn # None THEN premature \cup its
                              ELSE premature \ its
              /\ Return(c)
              /\ UNCHANGED stuck
           \/ /\ mergeable /\ conflicts # {}
              /\ Resolver!Retryable(conflicts, r.attempts)
              /\ repo' = Resolver!ResolveConflicts(repo, c, target, conflicts)
              /\ op' = [op EXCEPT ![c].attempts = @ + 1]
              /\ UNCHANGED <<cache, stuck, history>>
           \/ /\ mergeable => conflicts # {} /\ ~Resolver!Retryable(conflicts, r.attempts)
              /\ repo' = DeleteBranch(repo, c)
              /\ cache' = CachedAfter(c, FALSE)
              /\ stuck' = IF mergeable THEN stuck \cup {<<Home[c], target>>} ELSE stuck
              /\ Return(c)
              /\ UNCHANGED history
        /\ UNCHANGED <<bootVars, used, left>>

(* ResolveIndexDefId() for a query: a miss is looked up in the canonical   *)
(* branch.                                                                 *)
ResolveIndexDefId(i, k) ==
    /\ IsUp(i)
    /\ cache[i][k] = NoId
    /\ LookupIndexDefinition(ResolveState(repo, Main), k) # NoId
    /\ cache' = [cache EXCEPT ![i][k] =
                    LookupIndexDefinition(ResolveState(repo, Main), k)]
    /\ UNCHANGED <<repo, bootVars, op, stuck, used, left, history>>

-----------------------------------------------------------------------------
(* The transactions of clients (see TransactionManager).                   *)

BeginTransaction(t) ==
    /\ ~BranchExists(repo, t) /\ left > 0
    /\ \E i \in Instances : IsUp(i)
    /\ repo' = CreateBranch(repo, t, GetBranchHead(repo, Main))
    /\ left' = left - 1
    /\ UNCHANGED <<bootVars, cache, op, stuck, used, history>>

(* Committed, if nothing is in conflict, or rolled back, by an instance    *)
(* that knows of no open children.                                         *)
EndTransaction(i, t) ==
    /\ IsUp(i) /\ BranchExists(repo, t)
    /\ <<i, t>> \notin stuck
    /\ \A c \in Clients :
        Home[c] = i /\ op[c].pc \in {"write", "commit"} => op[c].txn # t
    /\ \/ /\ CanMerge(repo, t, Main) /\ MergeConflicts(repo, t, Main) = {}
          /\ repo' = DeleteBranch(Merge(repo, t, Main), t)
       \/ repo' = DeleteBranch(repo, t)
    /\ UNCHANGED <<bootVars, cache, op, stuck, used, left, history>>

Register(c) ==
    \/ ReadTail(c)
    \/ CheckDefinitions(c)
    \/ ForkTransaction(c)
    \/ WriteVersion(c)
    \/ CommitVersion(c)

Start(i) == (Boot(i) \/ CrashAtBoot(i))
                /\ UNCHANGED <<cache, op, stuck, used, left, history>>

Next ==
    \/ \E i \in Instances : Start(i) \/ \E k \in Keys : ResolveIndexDefId(i, k)
    \/ \E c \in Clients :
        \/ Register(c)
        \/ \E source \in Sources, t \in Txns \cup {None} : ReadType(c, source, t)
    \/ \E t \in Txns :
        BeginTransaction(t) \/ \E i \in Instances : EndTransaction(i, t)

(* An instance that starts keeps at it; whoever runs it starts it again.   *)
Spec ==
    /\ Init /\ [][Next]_vars
    /\ \A i \in Instances :
        WF_vars(Boot(i) /\ UNCHANGED <<cache, op, stuck, used, left, history>>)

-----------------------------------------------------------------------------
(* Correctness.                                                            *)

Now == AtCommit(repo, GetBranchHead(repo, Main))
Versions(td) == ReadIndexArtifactIds(Now, VersionsByType(td))

(* A name has one definition: the unique indexes have at most one row,     *)
(* whoever registers at the same time, within transactions or not.         *)
NamesAreUnique ==
    \A p \in UniqueIndexes : Cardinality(ReadIndexArtifactIds(Now, p)) <= 1

(* "preventing ambiguous version ordering" (artifact_system_prd.md:1089):  *)
(* the versions of a type are one list, doubly linked, and its last one is *)
(* the current version.  It holds unless the type has been registered      *)
(* again between the reads and the fork of a registration, which finds no  *)
(* conflict then.                                                          *)
VersionsAreOneList ==
    \A t \in Types \ raced :
        LET td == LookupTypeDefinition(Now, t)
            next(v) == Payload(Now, v).next
            previous(v) == Payload(Now, v).previous
        IN  td # NoId =>
            /\ Tails(Now, td) = {Payload(Now, td).current}
            /\ \A v \in Versions(td) :
                /\ next(v) # NoId => next(v) \in Versions(td) /\ previous(next(v)) = v
                /\ previous(v) # NoId =>
                    previous(v) \in Versions(td) /\ next(previous(v)) = v
            /\ Cardinality({v \in Versions(td) : previous(v) = NoId}) = 1

(* What was written with one version of a type can be read with every      *)
(* later one, although each was compared only with the one before it.      *)
(* CompareMessages() looks at a message once, so it misses a message that  *)
(* has become two.                                                         *)
Earlier(v) ==
    LET back[k \in Nat] ==
            IF k = 0 THEN {v}
            ELSE LET later == back[k - 1]
                 IN  later \cup ({Payload(Now, u).previous : u \in later} \ {NoId})
    IN  back[Cardinality(Ids)]

Split(v) ==
    LET u == Payload(Now, v).previous
        new == Payload(Now, v).source
    IN  u # NoId /\ ~MessagesKeepApart(Payload(Now, u).source.schema, new.schema, new.type)

LaterVersionsRead ==
    \A t \in Types :
        LET td == LookupTypeDefinition(Now, t)
        IN  td # NoId => \A v \in Versions(td) :
            (\A u \in Earlier(v) : ~Split(u)) =>
                \A u \in Earlier(v) :
                    CanRead(Payload(Now, u).source.schema,
                            Payload(Now, v).source.schema, t)

(* "Existing index definitions must not be removed or modified", and so    *)
(* for references (artifact_system_prd.md:1653-1657): what any version     *)
(* declares has a definition that says the same, unless it was defined by  *)
(* someone else between the comparison and the write.                      *)
DeclaredIsDefined ==
    \A t \in Types :
        LET td == LookupTypeDefinition(Now, t)
        IN  td # NoId => \A v \in Versions(td) :
            LET source == Payload(Now, v).source
            IN  /\ \A k \in DOMAIN source.indexes \ late :
                    LET id == LookupIndexDefinition(Now, k)
                    IN  id # NoId /\ Payload(Now, id).definition = source.indexes[k]
                /\ \A f \in DOMAIN source.references \ late :
                    LET id == LookupReferenceDefinition(Now, f)
                        definition == source.references[f]
                    IN  /\ id # NoId /\ Payload(Now, id).definition = definition
                        /\ LookupTypeDefinition(Now, definition.target) # NoId

(* An instance's map agrees with the store.  Only within a transaction of  *)
(* the client, which may yet fail, are index IDs cached before they are    *)
(* committed.                                                              *)
CacheAgrees ==
    \A i \in Instances, k \in Keys :
        cache[i][k] # NoId /\ <<i, k>> \notin premature
            => cache[i][k] = LookupIndexDefinition(Now, k)

(* "each flag may be changed from false to true but never from true to     *)
(* false" (artifact_system_prd.md:1616), unless by a registration that had *)
(* read the type before the flag was set.                                  *)
OnlyTightened ==
    [][\A t \in Types :
        LET td == LookupTypeDefinition(Now, t)
        IN  td # NoId /\ t \notin raced' =>
                Payload(Now, td).deny \subseteq Payload(Now, td)'.deny]_vars

(* An instance that is up has all the built-in artifacts and index rows to *)
(* work with, however often others died before, unless two of them staged  *)
(* at the same time: one may put back an index object it has read before.  *)
UpIsComplete ==
    ~crowded => \A i \in Instances :
        IsUp(i) => \A n \in DOMAIN BuiltIns :
            LET b == BuiltIns[n]
            IN  /\ Payload(Now, b.id) = b.value
                /\ \A m \in DOMAIN b.entries :
                        b.id \in ReadIndexArtifactIds(Now, b.entries[m])

(* Every instance gets up, also next to others that start; unless one has  *)
(* died with index rows staged and not committed.                          *)
GetsUp == \A i \in Instances : <>(IsUp(i) \/ torn)
=============================================================================

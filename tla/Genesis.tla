------------------------------ MODULE Genesis ------------------------------
(***************************************************************************)
(* Starting the service (genesis.cpp, server.cpp): every instance makes    *)
(* sure that the built-in artifacts and their index rows are there, and    *)
(* stages them on the canonical branch itself when they are not.           *)
(*                                                                         *)
(* The objects are those of the type registry, which also says what the    *)
(* built-in artifacts are.  The canonical branch, its staging area         *)
(* included, outlives the instances (LakeFSStorage): an instance that dies *)
(* leaves what it had staged.                                              *)
(***************************************************************************)
EXTENDS Naturals, Sequences, FiniteSets

CONSTANTS
    Instances,        \* the service processes
    Ids,              \* artifact IDs, numbers
    BuiltIns,         \* sequence of built-in artifacts: [id, value, entries],
                      \*   entries is the sequence of index paths it has rows in
    Paths, Values,    \* the objects
    UniqueIndexes,    \* the paths of objects of unique indexes
    Branches, Main, Absent, Unstaged

INSTANCE IndexObject WITH Artifacts <- Ids, OrderValues <- {0}, Missing <- Absent
INSTANCE MemoryStorage

ArtifactPath(id) == <<"artifact", id>>

VARIABLES
    repo,     \* the store
    boot,     \* per instance: where it is in its start
    crashes,  \* bound: the crashes still to come
    \* history:
    torn,     \* an instance died while it staged the built-in artifacts
    crowded   \* two instances staged them at the same time

Down == [pc |-> "down"]
Up == [pc |-> "up"]
IsUp(i) == boot[i] = Up
IsStaging(i) == boot[i].pc \in {"artifacts", "rows", "put", "commit"}

(* The index rows in the order they are written.                           *)
RowsToAdd ==
    LET rows[k \in 0 .. Len(BuiltIns)] ==
            IF k = 0 THEN <<>>
            ELSE rows[k - 1] \o [j \in 1 .. Len(BuiltIns[k].entries) |->
                    [id |-> BuiltIns[k].id, path |-> BuiltIns[k].entries[j]]]
    IN  rows[Len(BuiltIns)]

Enter(i, b) == boot' = [boot EXCEPT ![i] = b]

(* Mutants: what is staged counts; it is not looked.                       *)
CheckGenesisStaged(i) ==
    /\ boot[i].pc = "down"
    /\ Enter(i, IF ResolveState(repo, Main)[ArtifactPath(BuiltIns[1].id)] # Absent
                THEN Up ELSE [pc |-> "artifacts"])
    /\ UNCHANGED <<repo, crashes, torn, crowded>>

StageAlways(i) ==
    /\ boot[i].pc = "down"
    /\ Enter(i, [pc |-> "artifacts"])
    /\ UNCHANGED <<repo, crashes, torn, crowded>>

(* The check looks at the head commit, not at what is staged.              *)
CheckGenesis(i) ==
    /\ boot[i].pc = "down"
    /\ Enter(i, IF AtCommit(repo, GetBranchHead(repo, Main))
                        [ArtifactPath(BuiltIns[1].id)] # Absent
                THEN Up ELSE [pc |-> "artifacts"])
    /\ UNCHANGED <<repo, crashes, torn, crowded>>

(* WriteStoredArtifact() for all of them: everyone writes the same.        *)
StageArtifacts(i) ==
    /\ boot[i].pc = "artifacts"
    /\ repo' = [repo EXCEPT !.staging[Main] =
                [p \in Paths |->
                    IF \E k \in DOMAIN BuiltIns : p = ArtifactPath(BuiltIns[k].id)
                    THEN (CHOOSE b \in {BuiltIns[k] : k \in DOMAIN BuiltIns} :
                            p = ArtifactPath(b.id)).value
                    ELSE @[p]]]
    /\ Enter(i, [pc |-> "rows", k |-> 1])
    /\ crowded' = (crowded \/ \E j \in Instances \ {i} : IsStaging(j))
    /\ UNCHANGED <<crashes, torn>>

(* AddIndexRow(), in two storage calls: read the index object; a unique    *)
(* one must have no row, and any must have none of this artifact.          *)
ReadIndex(i) ==
    LET row == RowsToAdd[boot[i].k]
        obj == ResolveState(repo, Main)[row.path]
        refused == \/ row.path \in UniqueIndexes /\ DOMAIN Rows(obj) # {}
                   \/ row.id \in DOMAIN Rows(obj)
    IN  /\ boot[i].pc = "rows"
        /\ Enter(i, IF refused THEN Down
                    ELSE [pc |-> "put", k |-> boot[i].k, obj |-> obj])
        /\ UNCHANGED <<repo, crashes, torn, crowded>>

PutIndex(i) ==
    LET k == boot[i].k
        row == RowsToAdd[k]
    IN  /\ boot[i].pc = "put"
        /\ repo' = PutObject(repo, Main, row.path, WithRow(boot[i].obj, row.id, 0))
        /\ Enter(i, IF k = Len(RowsToAdd) THEN [pc |-> "commit"]
                    ELSE [pc |-> "rows", k |-> k + 1])
        /\ UNCHANGED <<crashes, torn, crowded>>

CommitGenesis(i) ==
    /\ boot[i].pc = "commit"
    /\ repo' = Commit(repo, Main)
    /\ Enter(i, Up)
    /\ UNCHANGED <<crashes, torn, crowded>>

Boot(i) ==
    \/ CheckGenesis(i)
    \/ StageArtifacts(i)
    \/ ReadIndex(i)
    \/ PutIndex(i)
    \/ CommitGenesis(i)

(* The process dies before it is up; someone starts it again.              *)
CrashAtBoot(i) ==
    /\ crashes > 0
    /\ IsStaging(i)
    /\ Enter(i, Down)
    /\ crashes' = crashes - 1
    /\ torn' = (torn \/ boot[i].pc # "artifacts")
    /\ UNCHANGED <<repo, crowded>>
=============================================================================

------------------------------ MODULE Storage ------------------------------
(***************************************************************************)
(* The versioned store as a state machine: any sequence of calls its       *)
(* interface allows, one action per call.                                  *)
(***************************************************************************)
EXTENDS MemoryStorage

CONSTANT MaxCommits  \* bound on the commits, the genesis commit included

VARIABLE repo

Init == repo = InitRepo

HasRoom == Len(repo.commits) < MaxCommits

(* Fork a new branch from any commit.                                      *)
DoCreateBranch(b) ==
    /\ ~BranchExists(repo, b)
    /\ \E base \in CommitIds(repo) : repo' = CreateBranch(repo, b, base)

DoDeleteBranch(b) ==
    /\ b # Main
    /\ BranchExists(repo, b)
    /\ repo' = DeleteBranch(repo, b)

DoPutObject(b, p, v) ==
    /\ BranchExists(repo, b)
    /\ repo' = PutObject(repo, b, p, v)

DoDeleteObject(b, p) ==
    /\ BranchExists(repo, b)
    /\ repo' = DeleteObject(repo, b, p)

DoCommit(b) ==
    /\ BranchExists(repo, b)
    /\ HasRoom
    /\ repo' = Commit(repo, b)

(* A merge that reports conflicts changes nothing.                         *)
DoMerge(source, target) ==
    /\ CanMerge(repo, source, target)
    /\ HasRoom
    /\ MergeConflicts(repo, source, target) = {}
    /\ repo' = Merge(repo, source, target)

Next ==
    \E b \in Branches :
        \/ DoCreateBranch(b)
        \/ DoDeleteBranch(b)
        \/ \E p \in Paths, v \in Values : DoPutObject(b, p, v)
        \/ \E p \in Paths : DoDeleteObject(b, p)
        \/ DoCommit(b)
        \/ \E t \in Branches : DoMerge(b, t)

Spec == Init /\ [][Next]_repo

-----------------------------------------------------------------------------
(* Correctness.                                                            *)

(* Staged changes are seen on their own branch only, a merge changes its  *)
(* target only, and a branch that is created shows the commit it starts    *)
(* at and nothing a branch of that name had staged before: one step        *)
(* changes what at most one existing branch shows.                         *)
BranchesIsolated ==
    [][/\ \A a, b \in Branches :
            /\ a # b
            /\ BranchExists(repo, a) /\ BranchExists(repo', a)
            /\ BranchExists(repo, b) /\ BranchExists(repo', b)
            => \/ ResolveState(repo', a) = ResolveState(repo, a)
               \/ ResolveState(repo', b) = ResolveState(repo, b)
       /\ \A b \in Branches :
            ~BranchExists(repo, b) /\ BranchExists(repo', b) =>
                ResolveState(repo', b) = AtCommit(repo, GetBranchHead(repo', b))]_repo

(* "snapshot isolation to prevent lost updates"                            *)
(* (artifact_system_prd.md:123): a merge never undoes a change of its      *)
(* target.  Where the merged objects differ from the target's, the source  *)
(* side changed that path in a commit the target did not have.  It holds   *)
(* as long as every merge had the latest common ancestor as its base, the  *)
(* one that descends from all others; FindMergeBase() takes the nearest by *)
(* depth, which may be an older one.                                       *)
Changed(c, p) ==
    \A x \in repo.commits[c].parents : AtCommit(repo, c)[p] # AtCommit(repo, x)[p]

BasesAreLatest(r) ==
    \A c \in CommitIds(r) : \A x, y \in r.commits[c].parents :
        CommonAncestors(r, x, y) \subseteq Ancestors(r, FindMergeBase(r, x, y))

NoLostUpdate ==
    [][\A s, t \in Branches, p \in Paths :
         /\ DoMerge(s, t)
         /\ AtCommit(repo', repo'.head[t])[p] # AtCommit(repo, repo.head[t])[p]
         /\ BasesAreLatest(repo')
         => \E c \in Ancestors(repo, repo.head[s]) \ Ancestors(repo, repo.head[t]) :
                Changed(c, p)]_repo
=============================================================================

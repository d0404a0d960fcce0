--------------------------- MODULE MemoryStorage ---------------------------
(***************************************************************************)
(* The versioned object store behind the artifact layer (StorageInterface, *)
(* as MemoryStorage implements it): a graph of immutable commits, branches *)
(* that point into it, a staging area per branch, and a three-way merge.   *)
(*                                                                         *)
(* Everything is a pure operator on a repository value, so that a layer    *)
(* above can make several storage calls in one step; Storage.tla puts the  *)
(* operators into a state machine.  A commit is identified by its place in *)
(* the sequence of commits, an object store maps every path to a value or  *)
(* Absent, and a branch that does not exist has head NoBranch.             *)
(***************************************************************************)
EXTENDS Naturals, Sequences, FiniteSets

CONSTANTS
    Branches,   \* the branch names
    Main,       \* the canonical branch
    Paths,      \* the object paths
    Values,     \* the object payloads
    Absent,     \* no object at a path; as a staged change: a tombstone
    Unstaged    \* a path without staged change

ASSUME StorageAssumption ==
    /\ Main \in Branches
    /\ Absent \notin Values
    /\ Unstaged \notin Values \cup {Absent}

NoBranch == 0   \* commits are numbered from Genesis on
Genesis  == 1

Objects     == [Paths -> Values \cup {Absent}]
Staging     == [Paths -> Values \cup {Absent, Unstaged}]
NoObjects   == [p \in Paths |-> Absent]
NoStaging   == [p \in Paths |-> Unstaged]
CommitData  == [parents : SUBSET Nat, objects : Objects]
Repository  == [commits : Seq(CommitData),
                head    : [Branches -> Nat],
                staging : [Branches -> Staging]]

(* A new store: the genesis commit, and the canonical branch at it.        *)
InitRepo ==
    [commits |-> <<[parents |-> {}, objects |-> NoObjects]>>,
     head    |-> [b \in Branches |-> IF b = Main THEN Genesis ELSE NoBranch],
     staging |-> [b \in Branches |-> NoStaging]]

-----------------------------------------------------------------------------
(* Reading.                                                                *)

CommitIds(repo)       == DOMAIN repo.commits
CommitExists(repo, c) == c \in CommitIds(repo)
BranchExists(repo, b) == repo.head[b] # NoBranch
GetBranchHead(repo, b) == repo.head[b]

(* The objects of a commit: what a snapshot shows.                         *)
AtCommit(repo, c) == repo.commits[c].objects

(* The objects of a branch: its head overlaid with its staged changes.     *)
ResolveState(repo, b) ==
    [p \in Paths |-> IF repo.staging[b][p] = Unstaged
                     THEN AtCommit(repo, repo.head[b])[p]
                     ELSE repo.staging[b][p]]

IsClean(repo, b) == repo.staging[b] = NoStaging

-----------------------------------------------------------------------------
(* Writing.  Each operator is the repository after a call that succeeds.   *)

CreateBranch(repo, b, base) ==
    [repo EXCEPT !.head[b] = base, !.staging[b] = NoStaging]

DeleteBranch(repo, b) ==
    [repo EXCEPT !.head[b] = NoBranch, !.staging[b] = NoStaging]

(* Mutant: changes are staged per head commit instead of per branch.       *)
PutAtHead(repo, b, p, v) ==
    [repo EXCEPT !.staging =
        [x \in Branches |-> IF repo.head[x] = repo.head[b]
                            THEN [@[x] EXCEPT ![p] = v] ELSE @[x]]]

PutObject(repo, b, p, v) == [repo EXCEPT !.staging[b][p] = v]

DeleteObject(repo, b, p) == [repo EXCEPT !.staging[b][p] = Absent]

(* Append a commit and move branch b to it.                                *)
Advance(repo, b, parents, objects) ==
    [repo EXCEPT
        !.commits = Append(@, [parents |-> parents, objects |-> objects]),
        !.head[b] = Len(repo.commits) + 1,
        !.staging[b] = NoStaging]

Commit(repo, b) == Advance(repo, b, {repo.head[b]}, ResolveState(repo, b))

-----------------------------------------------------------------------------
(* Merging.                                                                *)

(* The commits within k parent links of commit c, and the ancestors of c,  *)
(* c itself included.                                                      *)
Within(repo, c, k) ==
    LET W[i \in Nat] ==
            IF i = 0 THEN {c}
            ELSE LET near == W[i - 1]
                 IN  near \cup UNION {repo.commits[x].parents : x \in near}
    IN  W[k]

Ancestors(repo, c) == Within(repo, c, Len(repo.commits))

(* build_ancestor_depths(), a breadth-first search: how many links each    *)
(* ancestor is away from c.                                                *)
AncestorDepths(repo, c) ==
    LET near == [k \in 0 .. Len(repo.commits) |-> Within(repo, c, k)]
    IN  [x \in Ancestors(repo, c) |->
            CHOOSE k \in DOMAIN near :
                x \in near[k] /\ (k > 0 => x \notin near[k - 1])]

CommonAncestors(repo, a, b) == Ancestors(repo, a) \cap Ancestors(repo, b)

MaxOf(m, n) == IF m > n THEN m ELSE n

(* The order of the commit IDs "commit-0", "commit-1", ..., which compare  *)
(* as strings: "commit-1", "commit-10", ..., "commit-2", ... (the one with *)
(* place x is "commit-(x-1)"; below one hundred commits).                  *)
IdOrder(x) == IF x <= 10 THEN 20 * (x - 1) ELSE 2 * (x - 1) + 1

(* The search for a merge base ranks common ancestors by maximal depth,    *)
(* then by the sum of the depths, then by ID.                              *)
FindMergeBase(repo, a, b) ==
    LET depths_a == AncestorDepths(repo, a)
        depths_b == AncestorDepths(repo, b)
        ranks == {<<MaxOf(depths_a[x], depths_b[x]),
                    depths_a[x] + depths_b[x], IdOrder(x), x>> :
                    x \in DOMAIN depths_a \cap DOMAIN depths_b}
        closer(r, q) == \/ r[1] < q[1]
                        \/ r[1] = q[1] /\ r[2] < q[2]
                        \/ r[1] = q[1] /\ r[2] = q[2] /\ r[3] < q[3]
    IN  IF a = b THEN a
        ELSE (CHOOSE r \in ranks : \A q \in ranks \ {r} : closer(r, q))[4]

(* What Merge() does with one path: the value, or a conflict.              *)
PathConflict(base, source, target) ==
    source # base /\ target # base /\ source # target

(* Mutant: the source wins wherever the two sides differ.                  *)
PathMergeSource(base, source, target) == source

PathMerge(base, source, target) ==
    IF source # base THEN source      \* alone, or the same change twice
    ELSE IF target # base THEN target
    ELSE base

(* Merge() is called with two existing branches without staged changes.    *)
CanMerge(repo, source, target) ==
    /\ source # target
    /\ BranchExists(repo, source) /\ BranchExists(repo, target)
    /\ IsClean(repo, source) /\ IsClean(repo, target)

MergeBase(repo, source, target) ==
    FindMergeBase(repo, repo.head[source], repo.head[target])

(* The conflicting paths, and the repository after a merge without any.    *)
MergeConflicts(repo, source, target) ==
    LET base == AtCommit(repo, MergeBase(repo, source, target))
        src  == AtCommit(repo, repo.head[source])
        tgt  == AtCommit(repo, repo.head[target])
    IN  {p \in Paths : PathConflict(base[p], src[p], tgt[p])}

Merge(repo, source, target) ==
    LET base == AtCommit(repo, MergeBase(repo, source, target))
        src  == AtCommit(repo, repo.head[source])
        tgt  == AtCommit(repo, repo.head[target])
    IN  Advance(repo, target, {repo.head[target], repo.head[source]},
                [p \in Paths |-> PathMerge(base[p], src[p], tgt[p])])
=============================================================================

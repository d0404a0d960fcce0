--------------------------- MODULE StorageProofs ---------------------------
(***************************************************************************)
(* Proofs about the versioned store, for every set of branches, paths and  *)
(* values and any number of commits.                                       *)
(***************************************************************************)
EXTENDS Storage, MemoryStorageProofs

-----------------------------------------------------------------------------
(* One step changes one branch.                                            *)

(* What a step does: it works on one branch b, keeps the invariant, leaves *)
(* every other branch alone, and if it creates b, b shows its commit.      *)
StepTouches(b) ==
    /\ RepoOK(repo')
    /\ OnlyTouches(repo, repo', b)
    /\ ~BranchExists(repo, b) /\ BranchExists(repo', b) =>
            /\ repo'.head[b] \in CommitIds(repo)
            /\ repo'.staging[b] = NoStaging

LEMMA StepTouchesOne ==
    ASSUME RepoOK(repo), Next
    PROVE  \E b \in Branches : StepTouches(b)
<1> PICK b \in Branches :
        \/ DoCreateBranch(b)
        \/ DoDeleteBranch(b)
        \/ \E p \in Paths, v \in Values : DoPutObject(b, p, v)
        \/ \E p \in Paths : DoDeleteObject(b, p)
        \/ DoCommit(b)
        \/ \E t \in Branches : DoMerge(b, t)
  BY DEF Next
<1>1. CASE DoCreateBranch(b)
  <2>1. PICK base \in CommitIds(repo) : repo' = CreateBranch(repo, b, base)
    BY <1>1 DEF DoCreateBranch
  <2>2. base \in CommitIds(repo) \cup {NoBranch}
    OBVIOUS
  <2>3. /\ RepoOK(repo') /\ OnlyTouches(repo, repo', b)
        /\ repo'.head[b] = base /\ repo'.staging[b] = NoStaging
    BY <2>1, <2>2, PointShape
  <2>4. StepTouches(b)
    BY <2>3 DEF StepTouches
  <2>5. QED
    BY <2>4
<1>2. CASE DoDeleteBranch(b)
  <2>1. repo' = CreateBranch(repo, b, NoBranch) /\ BranchExists(repo, b)
    BY <1>2 DEF DoDeleteBranch, DeleteBranch, CreateBranch
  <2>2. RepoOK(repo') /\ OnlyTouches(repo, repo', b)
    BY <2>1, PointShape
  <2>3. StepTouches(b)
    BY <2>1, <2>2 DEF StepTouches
  <2>4. QED
    BY <2>3
<1>3. ASSUME NEW p \in Paths, NEW v \in Values \cup {Absent},
             BranchExists(repo, b), repo' = PutObject(repo, b, p, v)
      PROVE  StepTouches(b)
  <2>1. RepoOK(repo') /\ OnlyTouches(repo, repo', b)
    BY <1>3, StageShape
  <2>2. QED
    BY <1>3, <2>1 DEF StepTouches
<1>4. CASE \E p \in Paths, v \in Values : DoPutObject(b, p, v)
  BY <1>3, <1>4 DEF DoPutObject
<1>5. CASE \E p \in Paths : DoDeleteObject(b, p)
  <2>1. PICK p \in Paths : BranchExists(repo, b) /\ repo' = PutObject(repo, b, p, Absent)
    BY <1>5 DEF DoDeleteObject, DeleteObject, PutObject
  <2>2. QED
    BY <1>3, <2>1
<1>6. CASE DoCommit(b)
  <2>1. BranchExists(repo, b)
        /\ repo' = Advance(repo, b, {repo.head[b]}, ResolveState(repo, b))
    BY <1>6 DEF DoCommit, Commit
  <2>2. repo \in Repository /\ repo.head[b] \in CommitIds(repo)
    BY <2>1 DEF RepoOK, BranchExists
  <2>3. ResolveState(repo, b) \in Objects /\ {repo.head[b]} \in SUBSET Nat
    BY <2>2, ObjectsShape, RepoShape
  <2>4. RepoOK(repo') /\ OnlyTouches(repo, repo', b)
    BY <2>1, <2>3, AdvanceShape
  <2>5. StepTouches(b)
    BY <2>1, <2>4 DEF StepTouches
  <2>6. QED
    BY <2>5
<1>7. CASE \E t \in Branches : DoMerge(b, t)
  <2>1. PICK t \in Branches : CanMerge(repo, b, t) /\ repo' = Merge(repo, b, t)
    BY <1>7 DEF DoMerge
  <2>2. RepoOK(repo') /\ OnlyTouches(repo, repo', t)
    BY <2>1, MergeShape DEF CanMerge
  <2>3. StepTouches(t)
    BY <2>1, <2>2 DEF StepTouches, CanMerge
  <2>4. QED
    BY <2>3
<1>8. QED
  BY <1>1, <1>2, <1>4, <1>5, <1>6, <1>7

(* An existing branch that a step does not work on shows the same objects  *)
(* before and after it.                                                    *)
LEMMA UntouchedShows ==
    ASSUME RepoOK(repo), NEW b \in Branches, OnlyTouches(repo, repo', b),
           NEW x \in Branches \ {b}, BranchExists(repo, x)
    PROVE  ResolveState(repo', x) = ResolveState(repo, x)
<1>1. repo.head[x] \in CommitIds(repo)
  BY DEF RepoOK, BranchExists
<1>2. /\ repo'.commits[repo.head[x]] = repo.commits[repo.head[x]]
      /\ repo'.head[x] = repo.head[x] /\ repo'.staging[x] = repo.staging[x]
  BY <1>1 DEF OnlyTouches
<1>3. QED
  BY <1>2 DEF ResolveState, AtCommit

LEMMA RepoIsOK == Spec => []RepoOK(repo)
<1>1. Init => RepoOK(repo)
  <2> SUFFICES ASSUME Init
               PROVE  RepoOK(repo)
    OBVIOUS
  <2> DEFINE new == [parents |-> {}, objects |-> NoObjects]
             heads == [b \in Branches |-> IF b = Main THEN Genesis ELSE NoBranch]
             stage == [b \in Branches |-> NoStaging]
  <2>1. new \in CommitData
    BY DEF CommitData, NoObjects, Objects
  <2>2. heads \in [Branches -> Nat] /\ \A b \in Branches : heads[b] \in {1, NoBranch}
    BY DEF Genesis, NoBranch
  <2>3. stage \in [Branches -> Staging]
    BY NoStagingShape
  <2>4. repo = [commits |-> <<new>>, head |-> heads, staging |-> stage]
    BY DEF Init, InitRepo
  <2> HIDE DEF new, heads, stage
  <2>5. <<new>> \in Seq(CommitData) /\ DOMAIN <<new>> = {1}
    BY <2>1
  <2>6. repo \in Repository
    BY <2>2, <2>3, <2>4, <2>5 DEF Repository
  <2>7. QED
    BY <2>2, <2>4, <2>5, <2>6 DEF RepoOK, CommitIds
<1>2. RepoOK(repo) /\ [Next]_repo => RepoOK(repo)'
  BY StepTouchesOne DEF StepTouches
<1>3. QED
  BY <1>1, <1>2, PTL DEF Spec

(* One call changes what at most one existing branch shows, staged changes *)
(* are seen on their own branch only, and a branch that is created shows   *)
(* the commit it starts at.                                                *)
THEOREM IsolationOfBranches == Spec => BranchesIsolated
<1> DEFINE A ==
      /\ \A a, b \in Branches :
            /\ a # b
            /\ BranchExists(repo, a) /\ BranchExists(repo', a)
            /\ BranchExists(repo, b) /\ BranchExists(repo', b)
            => \/ ResolveState(repo', a) = ResolveState(repo, a)
               \/ ResolveState(repo', b) = ResolveState(repo, b)
      /\ \A b \in Branches :
            ~BranchExists(repo, b) /\ BranchExists(repo', b) =>
                ResolveState(repo', b) = AtCommit(repo, GetBranchHead(repo', b))
<1>1. RepoOK(repo) /\ [Next]_repo => [A]_repo
  <2> SUFFICES ASSUME RepoOK(repo), Next
               PROVE  A
    OBVIOUS
  <2>1. PICK b \in Branches : StepTouches(b)
    BY StepTouchesOne
  <2>2. ASSUME NEW x \in Branches \ {b}, BranchExists(repo, x)
        PROVE  ResolveState(repo', x) = ResolveState(repo, x)
    BY <2>1, <2>2, UntouchedShows DEF StepTouches
  <2>3. ASSUME NEW x \in Branches, ~BranchExists(repo, x), BranchExists(repo', x)
        PROVE  ResolveState(repo', x) = AtCommit(repo, GetBranchHead(repo', x))
    <3>1. x = b
      BY <2>1, <2>3 DEF StepTouches, OnlyTouches, BranchExists
    <3>2. /\ repo'.head[x] \in CommitIds(repo)
          /\ repo'.staging[x] = NoStaging
          /\ repo'.commits[repo'.head[x]] = repo.commits[repo'.head[x]]
      BY <2>1, <2>3, <3>1 DEF StepTouches, OnlyTouches
    <3>3. AtCommit(repo, repo'.head[x]) \in Objects
          /\ AtCommit(repo', repo'.head[x]) = AtCommit(repo, repo'.head[x])
      BY <3>2, ObjectsShape DEF RepoOK, AtCommit
    <3>4. ResolveState(repo', x) = [p \in Paths |-> AtCommit(repo, repo'.head[x])[p]]
      BY <3>2, <3>3 DEF ResolveState, NoStaging
    <3>5. QED
      BY <3>3, <3>4 DEF GetBranchHead, Objects
  <2>4. QED
    BY <2>2, <2>3
<1>2. QED
  BY <1>1, RepoIsOK, PTL DEF Spec, BranchesIsolated

-----------------------------------------------------------------------------
(* A merge loses no update.                                                *)

(* What the history remembers of the calls that made it: a commit other    *)
(* than the first has one parent, or it is the merge of two.               *)
MergeOf(r, c, s, t) ==
    \A p \in Paths :
        AtCommit(r, c)[p] = PathMerge(AtCommit(r, FindMergeBase(r, s, t))[p],
                                      AtCommit(r, s)[p], AtCommit(r, t)[p])

HistoryOK(r) ==
    /\ GraphOK(r)
    /\ \A c \in CommitIds(r) : c # Genesis =>
            \E s, t \in 1 .. c - 1 :
                Parents(r, c) = {s, t} /\ (s # t => MergeOf(r, c, s, t))

ChangedIn(r, c, p) ==
    \A x \in Parents(r, c) : AtCommit(r, c)[p] # AtCommit(r, x)[p]

(* A value that differs from an ancestor's was written by a commit that    *)
(* the ancestor does not have.  By induction on the place of the commit:   *)
(* a commit that did not write the path has the value of one parent x; if  *)
(* the ancestor lies on the side of the other parent, x has a value other  *)
(* than the merge base (else the other parent's had won), and what wrote   *)
(* it is no common ancestor.                                               *)
LEMMA ChangeIsFound ==
    ASSUME NEW r, HistoryOK(r), BasesAreLatest(r), NEW p \in Paths
    PROVE  \A c \in CommitIds(r) : \A b \in Ancestors(r, c) :
              AtCommit(r, c)[p] # AtCommit(r, b)[p] =>
                  \E d \in Ancestors(r, c) \ Ancestors(r, b) : ChangedIn(r, d, p)
<1> DEFINE At(c) == AtCommit(r, c)[p]
           Found(c, b) == \E d \in Ancestors(r, c) \ Ancestors(r, b) : ChangedIn(r, d, p)
           T == {c \in CommitIds(r) : \E b \in Ancestors(r, c) : At(c) # At(b) /\ ~Found(c, b)}
<1>0. GraphOK(r) /\ CommitIds(r) = 1 .. Len(r.commits) /\ Len(r.commits) \in Nat
  BY DEF HistoryOK, GraphOK
<1> SUFFICES ASSUME T # {}
             PROVE  FALSE
  OBVIOUS
<1>1. T \in SUBSET Nat
  BY <1>0
<1>2. PICK c \in T : \A y \in T : c <= y
  BY <1>1, LeastNumber
<1>3. PICK b \in Ancestors(r, c) : At(c) # At(b) /\ ~Found(c, b)
  OBVIOUS
<1>4. /\ c \in CommitIds(r) /\ c \in Nat /\ b # c
      /\ b \in CommitIds(r) /\ b \in 1 .. c
  BY <1>0, <1>3, AncestorsBelow
<1>5. ASSUME NEW x \in CommitIds(r), x < c, NEW y \in Ancestors(r, x), At(x) # At(y)
      PROVE  Found(x, y)
  <2>1. x \notin T
    BY <1>0, <1>2, <1>4, <1>5
  <2>2. QED
    BY <1>5, <2>1
<1>6. c # Genesis
  BY <1>4 DEF Genesis
<1>7. PICK s \in 1 .. c - 1, t \in 1 .. c - 1 :
        Parents(r, c) = {s, t} /\ (s # t => MergeOf(r, c, s, t))
  BY <1>4, <1>6 DEF HistoryOK
<1>8. /\ s \in CommitIds(r) /\ s < c /\ t \in CommitIds(r) /\ t < c
      /\ Ancestors(r, s) \subseteq Ancestors(r, c)
      /\ Ancestors(r, t) \subseteq Ancestors(r, c)
  <2>1. s \in CommitIds(r) /\ s < c /\ t \in CommitIds(r) /\ t < c
    BY <1>0, <1>4, <1>7
  <2>2. s \in Ancestors(r, c) /\ t \in Ancestors(r, c)
    BY <1>0, <1>4, <1>7, AncestorsClosed DEF Closed
  <2>3. QED
    BY <1>0, <1>4, <2>1, <2>2, AncestorsNest
<1>9. ~ChangedIn(r, c, p)
  <2>1. c \in Ancestors(r, c) /\ c \notin Ancestors(r, b)
    BY <1>0, <1>4, AncestorsClosed, AncestorsBelow
  <2>2. QED
    BY <1>3, <2>1
<1>10. PICK x \in {s, t} : At(c) = At(x)
  BY <1>7, <1>9 DEF ChangedIn
<1>11. PICK y \in {s, t} : b \in Ancestors(r, y)
  BY <1>0, <1>4, <1>7, AncestorsOfParents
<1>12. CASE At(c) = At(y)
  <2>1. Found(y, b)
    BY <1>3, <1>5, <1>8, <1>11, <1>12
  <2>2. QED
    BY <1>3, <1>8, <2>1
<1>13. CASE At(c) # At(y)
  <2> DEFINE m == FindMergeBase(r, s, t)
  <2>1. s # t /\ x # y /\ {x, y} = {s, t}
    BY <1>10, <1>13
  <2>2. At(c) = PathMerge(At(m), At(s), At(t))
    BY <1>7, <2>1 DEF MergeOf
  <2>3. /\ m \in Ancestors(r, s) /\ m \in Ancestors(r, t)
        /\ Ancestors(r, s) \cap Ancestors(r, t) \subseteq Ancestors(r, m)
    <3>1. m \in CommonAncestors(r, s, t)
      BY <1>0, <1>8, MergeBaseIsCommon
    <3>2. CommonAncestors(r, s, t) \subseteq Ancestors(r, m)
      BY <1>4, <1>7 DEF BasesAreLatest, Parents
    <3>3. QED
      BY <3>1, <3>2 DEF CommonAncestors
  <2> HIDE DEF m
  <2>4. At(x) # At(m)
    BY <1>10, <1>13, <2>1, <2>2 DEF PathMerge
  <2>5. Found(x, m)
    BY <1>5, <1>8, <2>3, <2>4
  <2>6. PICK d \in Ancestors(r, x) \ Ancestors(r, m) : ChangedIn(r, d, p)
    BY <2>5
  <2>7. d \notin Ancestors(r, y) /\ d \in Ancestors(r, c)
    BY <1>8, <2>1, <2>3, <2>6
  <2>8. Ancestors(r, b) \subseteq Ancestors(r, y)
    BY <1>0, <1>8, <1>11, AncestorsNest
  <2>9. QED
    BY <1>3, <2>6, <2>7, <2>8
<1>14. QED
  BY <1>12, <1>13

(* HistoryOK depends on the commits only, and a merge base once found      *)
(* stays the merge base: a new commit n of s that has one parent, or       *)
(* merges two, is all there is to show.                                    *)
NewCommitOK(r, s, n) ==
    \E x, y \in CommitIds(r) :
        /\ Parents(s, n) = {x, y}
        /\ x # y => \A p \in Paths : AtCommit(s, n)[p] =
               PathMerge(AtCommit(r, FindMergeBase(r, x, y))[p],
                         AtCommit(r, x)[p], AtCommit(r, y)[p])

LEMMA HistoryGrows ==
    ASSUME NEW r, NEW s, RepoOK(r), RepoOK(s), HistoryOK(r), NEW n,
           n = Len(r.commits) + 1,
           CommitIds(s) \in {CommitIds(r), CommitIds(r) \cup {n}},
           \A c \in CommitIds(r) : s.commits[c] = r.commits[c],
           n \in CommitIds(s) => NewCommitOK(r, s, n)
    PROVE  HistoryOK(s) /\ Extends(r, s)
<1>1. /\ GraphOK(r) /\ CommitIds(r) = 1 .. Len(r.commits) /\ Len(r.commits) \in Nat
      /\ CommitIds(s) = 1 .. Len(s.commits) /\ Len(s.commits) \in Nat
  BY RepoShape DEF HistoryOK, RepoOK
<1>2. \A c \in CommitIds(s) : c \in CommitIds(r) \/ c = n
  OBVIOUS
<1>3. \A c \in CommitIds(r) : Parents(s, c) = Parents(r, c) /\ AtCommit(s, c) = AtCommit(r, c)
  BY DEF Parents, AtCommit
<1>4. n \in CommitIds(s) => Parents(s, n) \subseteq CommitIds(r) /\ Parents(s, n) # {}
  BY DEF NewCommitOK
<1>5. GraphOK(s) /\ Extends(r, s)
  BY <1>1, <1>4, GraphGrows
<1>6. ASSUME NEW c \in CommitIds(s), c # Genesis
      PROVE  \E x, y \in 1 .. c - 1 :
                Parents(s, c) = {x, y} /\ (x # y => MergeOf(s, c, x, y))
  <2>1. PICK x \in CommitIds(r), y \in CommitIds(r) :
            /\ x \in 1 .. c - 1 /\ y \in 1 .. c - 1 /\ Parents(s, c) = {x, y}
            /\ x # y => \A p \in Paths : AtCommit(s, c)[p] =
                    PathMerge(AtCommit(r, FindMergeBase(r, x, y))[p],
                              AtCommit(r, x)[p], AtCommit(r, y)[p])
    <3>1. CASE c \in CommitIds(r)
      <4>1. PICK x \in 1 .. c - 1, y \in 1 .. c - 1 :
                Parents(r, c) = {x, y} /\ (x # y => MergeOf(r, c, x, y))
        BY <1>6, <3>1 DEF HistoryOK
      <4>2. x \in CommitIds(r) /\ y \in CommitIds(r)
        BY <1>1, <3>1
      <4>3. QED
        BY <1>3, <3>1, <4>1, <4>2 DEF MergeOf
    <3>2. CASE c = n
      BY <1>1, <3>2 DEF NewCommitOK
    <3>3. QED
      BY <1>2, <3>1, <3>2
  <2>2. FindMergeBase(s, x, y) = FindMergeBase(r, x, y)
    BY <1>5, MergeBaseKept
  <2>3. FindMergeBase(r, x, y) \in CommitIds(r)
    BY <1>1, MergeBaseIsCommon, AncestorsBelow DEF CommonAncestors
  <2>4. x # y => MergeOf(s, c, x, y)
    BY <1>3, <2>1, <2>2, <2>3 DEF MergeOf
  <2>5. QED
    BY <2>1, <2>4
<1>7. QED
  BY <1>5, <1>6 DEF HistoryOK

LEMMA HistoryStep ==
    ASSUME RepoOK(repo), HistoryOK(repo), Next
    PROVE  RepoOK(repo') /\ HistoryOK(repo') /\ Extends(repo, repo')
<1> DEFINE n == Len(repo.commits) + 1
<1>1. RepoOK(repo') /\ \A c \in CommitIds(repo) : repo'.commits[c] = repo.commits[c]
  BY StepTouchesOne DEF StepTouches, OnlyTouches
<1>2. repo \in Repository /\ repo' \in Repository
  BY <1>1 DEF RepoOK
<1>3. CASE repo'.commits = repo.commits
  <2>1. CommitIds(repo') = CommitIds(repo) /\ n \notin CommitIds(repo')
    BY <1>2, <1>3, RepoShape DEF CommitIds
  <2> HIDE DEF n
  <2>2. QED
    BY <1>1, <2>1, HistoryGrows DEF n
<1>4. ASSUME NEW b \in Branches, DoCommit(b)
      PROVE  HistoryOK(repo') /\ Extends(repo, repo')
  <2>1. BranchExists(repo, b)
        /\ repo' = Advance(repo, b, {repo.head[b]}, ResolveState(repo, b))
    BY <1>4 DEF DoCommit, Commit
  <2>2. repo.head[b] \in CommitIds(repo)
    BY <2>1 DEF RepoOK, BranchExists
  <2>3. ResolveState(repo, b) \in Objects /\ {repo.head[b]} \in SUBSET Nat
    BY <1>2, <2>2, ObjectsShape, RepoShape
  <2> DEFINE objs == ResolveState(repo, b)
             ps == {repo.head[b]}
  <2>4. /\ CommitIds(repo') = CommitIds(repo) \cup {n}
        /\ repo'.commits[n] = [parents |-> ps, objects |-> objs]
    <3> HIDE DEF objs, ps
    <3>1. repo' = Advance(repo, b, ps, objs) /\ ps \in SUBSET Nat /\ objs \in Objects
      BY <2>1, <2>3 DEF objs, ps
    <3>2. QED
      BY <3>1, AdvanceShape
  <2>5. NewCommitOK(repo, repo', n)
    BY <2>2, <2>4 DEF NewCommitOK, Parents
  <2> HIDE DEF n
  <2>6. QED
    BY <1>1, <2>2, <2>4, <2>5, HistoryGrows DEF n
<1>5. ASSUME NEW a \in Branches, NEW b \in Branches, DoMerge(a, b)
      PROVE  HistoryOK(repo') /\ Extends(repo, repo')
  <2>1. CanMerge(repo, a, b) /\ repo' = Merge(repo, a, b)
    BY <1>5 DEF DoMerge
  <2>2. /\ repo.head[a] \in CommitIds(repo) /\ repo.head[b] \in CommitIds(repo)
        /\ CommitIds(repo') = CommitIds(repo) \cup {n}
        /\ Parents(repo', n) = {repo.head[a], repo.head[b]}
    BY <2>1, MergeShape DEF CanMerge
  <2>3. \A p \in Paths : AtCommit(repo', n)[p] =
            PathMerge(AtCommit(repo, FindMergeBase(repo, repo.head[a], repo.head[b]))[p],
                      AtCommit(repo, repo.head[a])[p], AtCommit(repo, repo.head[b])[p])
    BY <2>1, MergeShape DEF CanMerge
  <2> HIDE DEF n
  <2>4. NewCommitOK(repo, repo', n)
    BY <2>2, <2>3 DEF NewCommitOK
  <2>5. QED
    BY <1>1, <2>2, <2>4, HistoryGrows DEF n
<1>6. ASSUME ~\E b \in Branches : DoCommit(b) \/ \E t \in Branches : DoMerge(b, t)
      PROVE  repo'.commits = repo.commits
  <2>1. PICK b \in Branches :
            \/ DoCreateBranch(b)
            \/ DoDeleteBranch(b)
            \/ \E p \in Paths, v \in Values : DoPutObject(b, p, v)
            \/ \E p \in Paths : DoDeleteObject(b, p)
    BY <1>6 DEF Next
  <2>2. CASE DoCreateBranch(b)
    BY <1>2, <2>2 DEF DoCreateBranch, CreateBranch, Repository
  <2>3. CASE DoDeleteBranch(b)
    BY <1>2, <2>3 DEF DoDeleteBranch, DeleteBranch, Repository
  <2>4. CASE \E p \in Paths, v \in Values : DoPutObject(b, p, v)
    BY <1>2, <2>4 DEF DoPutObject, PutObject, Repository
  <2>5. CASE \E p \in Paths : DoDeleteObject(b, p)
    BY <1>2, <2>5 DEF DoDeleteObject, DeleteObject, Repository
  <2>6. QED
    BY <2>1, <2>2, <2>3, <2>4, <2>5
<1>7. QED
  BY <1>1, <1>3, <1>4, <1>5, <1>6

LEMMA HistoryIsOK == Spec => [](RepoOK(repo) /\ HistoryOK(repo))
<1>1. Init => HistoryOK(repo)
  <2> SUFFICES ASSUME Init
               PROVE  HistoryOK(repo)
    OBVIOUS
  <2>1. repo.commits = <<[parents |-> {}, objects |-> NoObjects]>>
    BY DEF Init, InitRepo
  <2>2. Len(repo.commits) = 1 /\ CommitIds(repo) = {1} /\ Parents(repo, 1) = {}
    BY <2>1 DEF CommitIds, Parents
  <2>3. QED
    BY <2>2 DEF HistoryOK, GraphOK, Genesis
<1>2. RepoOK(repo) /\ HistoryOK(repo) /\ [Next]_repo => HistoryOK(repo)'
  <2>1. RepoOK(repo) /\ HistoryOK(repo) /\ Next => HistoryOK(repo')
    BY HistoryStep
  <2>2. HistoryOK(repo) /\ UNCHANGED repo => HistoryOK(repo')
    OBVIOUS
  <2>3. QED
    BY <2>1, <2>2
<1>3. QED
  BY <1>1, <1>2, RepoIsOK, PTL DEF Spec

(* "snapshot isolation to prevent lost updates": where Merge() changes an  *)
(* object of its target, the source side wrote that object in a commit the *)
(* target did not have, provided every merge had the latest common         *)
(* ancestor as its base.                                                   *)
THEOREM MergesLoseNoUpdate == Spec => NoLostUpdate
<1> DEFINE A == \A s, t \in Branches, p \in Paths :
                   /\ DoMerge(s, t)
                   /\ AtCommit(repo', repo'.head[t])[p] # AtCommit(repo, repo.head[t])[p]
                   /\ BasesAreLatest(repo')
                   => \E c \in Ancestors(repo, repo.head[s]) \ Ancestors(repo, repo.head[t]) :
                          Changed(c, p)
<1>1. ASSUME RepoOK(repo), HistoryOK(repo), Next
      PROVE  A
  <2> SUFFICES ASSUME NEW s \in Branches, NEW t \in Branches, NEW p \in Paths,
                      DoMerge(s, t), BasesAreLatest(repo'),
                      AtCommit(repo', repo'.head[t])[p] # AtCommit(repo, repo.head[t])[p]
               PROVE  \E c \in Ancestors(repo, repo.head[s]) \ Ancestors(repo, repo.head[t]) :
                          Changed(c, p)
    OBVIOUS
  <2> DEFINE h == repo.head[s]
             k == repo.head[t]
             m == FindMergeBase(repo, h, k)
             n == Len(repo.commits) + 1
  <2>1. Extends(repo, repo') /\ GraphOK(repo) /\ GraphOK(repo')
    BY <1>1, HistoryStep DEF Extends
  <2>2. CanMerge(repo, s, t) /\ repo' = Merge(repo, s, t)
    BY DEF DoMerge
  <2>3. /\ h \in CommitIds(repo) /\ k \in CommitIds(repo)
        /\ n \in CommitIds(repo') /\ repo'.head[t] = n
        /\ Parents(repo', n) = {h, k}
        /\ AtCommit(repo', n)[p] = PathMerge(AtCommit(repo, m)[p],
                                             AtCommit(repo, h)[p], AtCommit(repo, k)[p])
    <3>1. /\ h \in CommitIds(repo) /\ k \in CommitIds(repo)
          /\ CommitIds(repo') = CommitIds(repo) \cup {n} /\ repo'.head[t] = n
          /\ Parents(repo', n) = {h, k}
      BY <1>1, <2>2, MergeShape DEF CanMerge
    <3>2. \A q \in Paths : AtCommit(repo', n)[q] =
              PathMerge(AtCommit(repo, m)[q], AtCommit(repo, h)[q], AtCommit(repo, k)[q])
      BY <1>1, <2>2, MergeShape DEF CanMerge
    <3> HIDE DEF h, k, m, n
    <3>3. QED
      BY <3>1, <3>2
  <2>4. m \in CommonAncestors(repo, h, k) /\ m \in CommitIds(repo)
    BY <2>1, <2>3, MergeBaseIsCommon, AncestorsBelow DEF CommonAncestors
  <2>5. /\ \A c \in CommitIds(repo) : /\ Ancestors(repo', c) = Ancestors(repo, c)
                                      /\ Parents(repo', c) = Parents(repo, c)
        /\ \A x, y \in CommitIds(repo) : FindMergeBase(repo', x, y) = FindMergeBase(repo, x, y)
        /\ CommitIds(repo) \subseteq CommitIds(repo')
    BY <2>1, AncestorsKept, MergeBaseKept DEF Extends, Parents
  <2> HIDE DEF h, k, m, n
  <2>6. CommonAncestors(repo, h, k) \subseteq Ancestors(repo, m)
    <3>1. FindMergeBase(repo', h, k) = m
      BY <2>3, <2>5 DEF m
    <3>2. CommonAncestors(repo', h, k) \subseteq Ancestors(repo', m)
      BY <2>3, <3>1 DEF BasesAreLatest, Parents
    <3>3. QED
      BY <2>3, <2>4, <2>5, <3>2 DEF CommonAncestors
  <2>7. BasesAreLatest(repo)
    <3> SUFFICES ASSUME NEW c \in CommitIds(repo), NEW x \in Parents(repo, c),
                        NEW y \in Parents(repo, c)
                 PROVE  CommonAncestors(repo, x, y)
                            \subseteq Ancestors(repo, FindMergeBase(repo, x, y))
      BY DEF BasesAreLatest, Parents
    <3>1. x \in CommitIds(repo) /\ y \in CommitIds(repo)
      BY <2>1 DEF GraphOK
    <3>2. FindMergeBase(repo, x, y) \in CommitIds(repo)
      BY <2>1, <3>1, MergeBaseIsCommon, AncestorsBelow DEF CommonAncestors
    <3>3. CommonAncestors(repo', x, y) \subseteq Ancestors(repo', FindMergeBase(repo', x, y))
      BY <2>5 DEF BasesAreLatest, Parents
    <3>4. QED
      BY <2>5, <3>1, <3>2, <3>3 DEF CommonAncestors
  <2>8. AtCommit(repo, h)[p] # AtCommit(repo, m)[p]
    BY <2>3 DEF PathMerge, k
  <2>9. PICK d \in Ancestors(repo, h) \ Ancestors(repo, m) : ChangedIn(repo, d, p)
    BY <1>1, <2>3, <2>4, <2>7, <2>8, ChangeIsFound DEF CommonAncestors
  <2>10. d \notin Ancestors(repo, k)
    BY <2>6, <2>9 DEF CommonAncestors
  <2>11. QED
    BY <2>9, <2>10 DEF h, k, ChangedIn, Changed, Parents
<1>2. RepoOK(repo) /\ HistoryOK(repo) /\ [Next]_repo => [A]_repo
  BY <1>1
<1>3. QED
  BY <1>2, HistoryIsOK, PTL DEF Spec, NoLostUpdate
=============================================================================

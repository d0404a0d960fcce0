---------------------------- MODULE LakeFSProofs ----------------------------
(***************************************************************************)
(* Proofs about the store behind an HTTP interface, for any number of      *)
(* clients, calls, branches and failures.                                  *)
(*                                                                         *)
(* A step is taken apart into what the server does to the repository,      *)
(* which every call in progress has to survive, and how the call whose     *)
(* request it was goes on, which depends on the repository before it only. *)
(***************************************************************************)
EXTENDS LakeFSStorage, MemoryStorageProofs, FiniteSetTheorems

LOCAL INSTANCE FiniteSetsExt

-----------------------------------------------------------------------------
(* Calls and requests.                                                     *)

LEMMA CallFields ==
    ASSUME NEW x \in Calls
    PROVE  /\ x.kind \in {"delete", "commit", "head", "create", "get", "list", "put",
                          "delete_object", "merge"} \cup IndexCalls
           /\ x.kind \notin {"get", "list", "merge"} => x.branch \in Branches
           /\ x.kind = "create" => x.base \in {Main} \cup Nat
           /\ x.kind = "get" => x.path \in Paths
           /\ x.kind \in {"put", "delete_object"} => x.path \in Paths \ {IndexPath}
           /\ x.kind = "put" => x.value \in Values
           /\ x.kind = "merge" => x.source \in Branches /\ x.target \in Branches
           /\ x.kind \in IndexCalls => x.artifact \in Artifacts
BY DEF Calls, IndexCalls

PcOK(x, pc) ==
    \/ x.kind \in {"delete", "put", "commit", "head"} /\ pc = x.kind
    \/ x.kind = "create" /\ pc \in {"exists", "commit_exists", "create"}
    \/ x.kind = "get" /\ pc \in {"ref", "get"}
    \/ x.kind = "list" /\ pc \in {"ref", "list"}
    \/ x.kind = "delete_object" /\ pc \in {"exists", "delete_object"}
    \/ x.kind = "merge" /\ pc \in {"source_clean", "target_clean", "merge",
                                   "base", "paths", "source_head", "target_head"}
    \/ x.kind \in IndexCalls /\ pc \in {"ref", "get", "put"}

(* A request that makes sense to the server: a branch is created at a      *)
(* commit there is, and what is put at the index path is an index object.  *)
ReqOK(r, k) ==
    /\ k.in \in Calls
    /\ PcOK(k.in, k.pc)
    /\ k.pc = "create" => k.in.base = Main \/ CommitExists(r, k.in.base)
    /\ k.in.kind \in IndexCalls /\ k.pc = "put" => k.note \in IndexObjects \cup {Absent}

(* When a request that writes is served.                                   *)
LEMMA WhenApplied ==
    ASSUME NEW r, NEW k, ReqOK(r, k), Applies(r, k)
    PROVE  /\ k.pc = "create" => k.in.kind = "create" /\ ~BranchExists(r, k.in.branch)
           /\ k.pc = "delete" =>
                k.in.kind = "delete" /\ k.in.branch # Main /\ BranchExists(r, k.in.branch)
           /\ k.pc = "put" => k.in.kind \in {"put"} \cup IndexCalls /\ BranchExists(r, k.in.branch)
           /\ k.pc = "delete_object" =>
                k.in.kind = "delete_object" /\ BranchExists(r, k.in.branch)
           /\ k.pc = "commit" => k.in.kind = "commit" /\ BranchExists(r, k.in.branch)
           /\ k.pc = "merge" =>
                /\ k.in.kind = "merge"
                /\ BranchExists(r, k.in.source) /\ BranchExists(r, k.in.target)
                /\ IsClean(r, k.in.target)
                /\ MergeConflicts(r, k.in.source, k.in.target) = {}
<1>1. PcOK(k.in, k.pc) /\ Reply(r, k) = "ok" /\ k.in \in Calls
  BY DEF ReqOK, Applies
<1>2. CASE k.pc = "create"
  BY <1>1, <1>2 DEF Reply, PcOK, IndexCalls
<1>3. CASE k.pc = "delete"
  BY <1>1, <1>3 DEF Reply, PcOK, IndexCalls, OkIf
<1>4. CASE k.pc = "put"
  BY <1>1, <1>4 DEF Reply, PcOK, IndexCalls, OkIf, BranchOf
<1>5. CASE k.pc = "delete_object"
  <2>1. k.in.kind = "delete_object"
    BY <1>1, <1>5 DEF PcOK, IndexCalls
  <2>2. PathOf(k) \in Listed(r, k.in.branch)
    BY <1>1, <1>5 DEF Reply, OkIf
  <2>3. QED
    BY <1>1, <1>5, <2>1, <2>2, CallFields DEF Listed, RefExists
<1>6. CASE k.pc = "commit"
  BY <1>1, <1>6 DEF Reply, PcOK, IndexCalls, OkIf, BranchOf
<1>7. CASE k.pc = "merge"
  BY <1>1, <1>7 DEF Reply, PcOK, IndexCalls, OkIf, BothExist
<1>8. QED
  BY <1>2, <1>3, <1>4, <1>5, <1>6, <1>7

-----------------------------------------------------------------------------
(* Index objects.                                                          *)

RowsAt(r, c) == DOMAIN Rows(AtCommit(r, c)[IndexPath])

(* Index objects, and nothing else, are at the index path.                 *)
IndexOK(r) ==
    /\ \A c \in CommitIds(r) : AtCommit(r, c)[IndexPath] \in IndexObjects \cup {Absent}
    /\ \A b \in Branches : r.staging[b][IndexPath] \in IndexObjects \cup {Absent, Unstaged}

LEMMA RowsShape ==
    ASSUME NEW obj \in IndexObjects \cup {Absent}, NEW a \in Artifacts
    PROVE  /\ WithRow(obj, a, 0) \in IndexObjects /\ WithoutRow(obj, a) \in IndexObjects
           /\ DOMAIN Rows(WithRow(obj, a, 0)) = DOMAIN Rows(obj) \cup {a}
           /\ DOMAIN Rows(WithoutRow(obj, a)) = DOMAIN Rows(obj) \ {a}
<1>1. /\ Absent \notin IndexObjects
  BY LakeFSAssumption, StorageAssumption
<1>2. PICK D \in SUBSET Artifacts : Rows(obj) \in [D -> {0}]
  BY <1>1 DEF IndexObjects, Rows, NoRows
<1>3. WithRow(obj, a, 0) \in [D \cup {a} -> {0}] /\ WithoutRow(obj, a) \in [D \ {a} -> {0}]
  BY <1>2 DEF WithRow, WithoutRow
<1>4. WithRow(obj, a, 0) \in IndexObjects /\ WithoutRow(obj, a) \in IndexObjects
  BY <1>3 DEF IndexObjects
<1>5. Rows(WithRow(obj, a, 0)) = WithRow(obj, a, 0) /\ Rows(WithoutRow(obj, a)) = WithoutRow(obj, a)
  BY <1>1, <1>4 DEF Rows
<1>6. QED
  BY <1>2, <1>3, <1>4, <1>5

(* What a put writes.                                                      *)
LEMMA ValueShape ==
    ASSUME NEW r, NEW k, ReqOK(r, k), k.pc = "put"
    PROVE  /\ PathOf(k) \in Paths /\ ValueOf(k) \in Values
           /\ PathOf(k) = IndexPath =>
                /\ k.in.kind \in IndexCalls
                /\ ValueOf(k) \in IndexObjects
                /\ k.in.kind = "add_row" =>
                     DOMAIN Rows(k.note) \subseteq DOMAIN Rows(ValueOf(k))
                /\ k.in.kind = "remove_row" =>
                     DOMAIN Rows(k.note) \ {k.in.artifact} \subseteq DOMAIN Rows(ValueOf(k))
<1>1. CASE k.in.kind \in IndexCalls
  <2>1. k.note \in IndexObjects \cup {Absent} /\ k.in.artifact \in Artifacts
    BY <1>1, CallFields DEF ReqOK
  <2>2. ValueOf(k) = IF k.in.kind = "add_row" THEN WithRow(k.note, k.in.artifact, 0)
                     ELSE WithoutRow(k.note, k.in.artifact)
    BY <1>1 DEF ValueOf, NewRows
  <2>3. PathOf(k) = IndexPath
    BY <1>1 DEF PathOf
  <2> DEFINE obj == k.note
             a == k.in.artifact
  <2>4. /\ WithRow(obj, a, 0) \in IndexObjects /\ WithoutRow(obj, a) \in IndexObjects
        /\ DOMAIN Rows(WithRow(obj, a, 0)) = DOMAIN Rows(obj) \cup {a}
        /\ DOMAIN Rows(WithoutRow(obj, a)) = DOMAIN Rows(obj) \ {a}
    BY <2>1, RowsShape
  <2>5. QED
    BY <1>1, <2>2, <2>3, <2>4, LakeFSAssumption
<1>2. CASE k.in.kind \notin IndexCalls
  <2>1. k.in.kind = "put" /\ k.in \in Calls
    BY <1>2 DEF ReqOK, PcOK
  <2>2. QED
    BY <1>2, <2>1, CallFields DEF ValueOf, PathOf
<1>3. QED
  BY <1>1, <1>2

-----------------------------------------------------------------------------
(* The server.                                                             *)

GoodRepo(r) == RepoOK(r) /\ GraphOK(r) /\ IndexOK(r) /\ BranchExists(r, Main)

(* What a request may do: commits stay, and a branch that is not deleted,  *)
(* as the canonical one never is, moves to a descendant.                   *)
Moves(r, s, del) ==
    /\ GoodRepo(s) /\ Extends(r, s)
    /\ \A b \in Branches : BranchExists(r, b) /\ (~del \/ b = Main) =>
            BranchExists(s, b) /\ r.head[b] \in Ancestors(s, s.head[b])

LEMMA GoodHeads ==
    ASSUME NEW r, GoodRepo(r), NEW b \in Branches, BranchExists(r, b)
    PROVE  r.head[b] \in CommitIds(r)
BY DEF GoodRepo, RepoOK, BranchExists

LEMMA StaysPut ==
    ASSUME NEW r, GoodRepo(r), NEW del
    PROVE  Moves(r, r, del)
<1>1. \A b \in Branches : BranchExists(r, b) => r.head[b] \in Ancestors(r, r.head[b])
  BY GoodHeads, AncestorsClosed DEF GoodRepo
<1>2. QED
  BY <1>1 DEF Moves, Extends, GoodRepo

LEMMA MovesBy ==
    ASSUME NEW r, GoodRepo(r), NEW s, RepoOK(s), NEW b \in Branches, NEW del, NEW n,
           OnlyTouches(r, s, b),
           n = Len(r.commits) + 1,
           CommitIds(s) \in {CommitIds(r), CommitIds(r) \cup {n}},
           n \in CommitIds(s) =>
               /\ Parents(s, n) \subseteq CommitIds(r) /\ Parents(s, n) # {}
               /\ AtCommit(s, n)[IndexPath] \in IndexObjects \cup {Absent},
           s.staging[b][IndexPath] \in IndexObjects \cup {Absent, Unstaged},
           BranchExists(r, b) => \/ s.head[b] = r.head[b]
                                 \/ s.head[b] = n /\ n \in CommitIds(s) /\ r.head[b] \in Parents(s, n)
                                 \/ del /\ b # Main
    PROVE  Moves(r, s, del)
<1>1. RepoOK(r) /\ GraphOK(r) /\ \A c \in CommitIds(r) : s.commits[c] = r.commits[c]
  BY DEF GoodRepo, OnlyTouches
<1>2. GraphOK(s) /\ Extends(r, s)
  BY <1>1, GraphGrows
<1>3. Main \in Branches /\ n # NoBranch
  BY <1>1, RepoShape, StorageAssumption DEF NoBranch, RepoOK
<1>4. BranchExists(s, Main)
  <2>1. CASE b = Main
    BY <1>3, <2>1 DEF BranchExists, GoodRepo
  <2>2. CASE b # Main
    BY <1>3, <2>2 DEF BranchExists, GoodRepo, OnlyTouches
  <2>3. QED
    BY <2>1, <2>2
<1>5. ASSUME NEW c \in CommitIds(s)
      PROVE  AtCommit(s, c)[IndexPath] \in IndexObjects \cup {Absent}
  <2>1. CASE c \in CommitIds(r)
    BY <1>1, <2>1 DEF GoodRepo, IndexOK, AtCommit
  <2>2. CASE c \notin CommitIds(r)
    BY <1>5, <2>2
  <2>3. QED
    BY <2>1, <2>2
<1>6. IndexOK(s)
  BY <1>5 DEF IndexOK, GoodRepo, OnlyTouches
<1>7. GoodRepo(s)
  BY <1>2, <1>4, <1>6 DEF GoodRepo
<1>8. ASSUME NEW x \in Branches, BranchExists(r, x), ~del \/ x = Main
      PROVE  BranchExists(s, x) /\ r.head[x] \in Ancestors(s, s.head[x])
  <2>1. s.head[x] = r.head[x] \/ (s.head[x] = n /\ n \in CommitIds(s) /\ r.head[x] \in Parents(s, n))
    BY <1>8 DEF OnlyTouches
  <2>2. BranchExists(s, x)
    BY <1>3, <1>8, <2>1 DEF BranchExists
  <2>3. s.head[x] \in CommitIds(s)
    BY <1>7, <2>2, GoodHeads
  <2>4. QED
    BY <1>2, <2>1, <2>2, <2>3, AncestorsClosed DEF Closed
<1>9. QED
  BY <1>2, <1>7, <1>8 DEF Moves

LEMMA StagedIndex ==
    ASSUME NEW r, GoodRepo(r)
    PROVE  /\ IndexPath \in Paths /\ NoStaging[IndexPath] = Unstaged
           /\ \A b \in Branches : /\ r.staging[b] \in [Paths -> Values \cup {Absent, Unstaged}]
                                  /\ BranchExists(r, b) =>
                                       ResolveState(r, b)[IndexPath] \in IndexObjects \cup {Absent}
<1>1. IndexPath \in Paths /\ NoStaging[IndexPath] = Unstaged
  BY LakeFSAssumption DEF NoStaging
<1>2. \A b \in Branches : r.staging[b] \in [Paths -> Values \cup {Absent, Unstaged}]
  BY RepoShape DEF GoodRepo, RepoOK, Staging
<1>3. ASSUME NEW b \in Branches, BranchExists(r, b)
      PROVE  ResolveState(r, b)[IndexPath] \in IndexObjects \cup {Absent}
  <2>1. r.head[b] \in CommitIds(r)
    BY <1>3, GoodHeads
  <2>2. /\ AtCommit(r, r.head[b])[IndexPath] \in IndexObjects \cup {Absent}
        /\ r.staging[b][IndexPath] \in IndexObjects \cup {Absent, Unstaged}
    BY <2>1 DEF GoodRepo, IndexOK
  <2>3. QED
    BY <1>1, <2>2 DEF ResolveState
<1>4. QED
  BY <1>1, <1>2, <1>3

(* The repository after each kind of request.                              *)
LEMMA CreateEffect ==
    ASSUME NEW r, GoodRepo(r), NEW k, ReqOK(r, k), Applies(r, k), k.pc = "create"
    PROVE  \E c \in CommitIds(r) : /\ ~BranchExists(r, k.in.branch) /\ k.in.branch \in Branches
                                   /\ Effect(r, k) = CreateBranch(r, k.in.branch, c)
<1>1. k.in.kind = "create" /\ ~BranchExists(r, k.in.branch)
  BY WhenApplied
<1>2. k.in.branch \in Branches /\ (k.in.base = Main \/ CommitExists(r, k.in.base))
  BY <1>1, CallFields DEF ReqOK
<1>3. r.head[Main] \in CommitIds(r)
  BY GoodHeads, StorageAssumption DEF GoodRepo
<1>4. Effect(r, k) = CreateBranch(r, k.in.branch, IF k.in.base = Main THEN r.head[Main] ELSE k.in.base)
  BY DEF Effect
<1>5. QED
  BY <1>1, <1>2, <1>3, <1>4 DEF CommitExists

LEMMA DeleteEffect ==
    ASSUME NEW r, NEW k, ReqOK(r, k), Applies(r, k), k.pc = "delete"
    PROVE  /\ k.in.branch \in Branches \ {Main}
           /\ Effect(r, k) = CreateBranch(r, k.in.branch, NoBranch)
BY WhenApplied, CallFields DEF Effect, DeleteBranch, CreateBranch, ReqOK

LEMMA PutEffect ==
    ASSUME NEW r, NEW k, ReqOK(r, k), Applies(r, k), k.pc \in {"put", "delete_object"}
    PROVE  \E p \in Paths, v \in Values \cup {Absent} :
              /\ k.in.branch \in Branches /\ BranchExists(r, k.in.branch)
              /\ Effect(r, k) = PutObject(r, k.in.branch, p, v)
              /\ p = IndexPath => k.pc = "put" /\ p = PathOf(k) /\ v = ValueOf(k)
<1>1. CASE k.pc = "put"
  <2>1. k.in.kind \in {"put"} \cup IndexCalls /\ BranchExists(r, k.in.branch) /\ k.in \in Calls
    BY <1>1, WhenApplied DEF ReqOK
  <2>2. k.in.branch \in Branches
    BY <2>1, CallFields DEF IndexCalls
  <2>3. PathOf(k) \in Paths /\ ValueOf(k) \in Values
    BY <1>1, ValueShape
  <2>4. Effect(r, k) = PutObject(r, k.in.branch, PathOf(k), ValueOf(k))
    BY <1>1 DEF Effect
  <2>5. QED
    BY <1>1, <2>1, <2>2, <2>3, <2>4
<1>2. CASE k.pc = "delete_object"
  <2>1. k.in.kind = "delete_object" /\ BranchExists(r, k.in.branch) /\ k.in \in Calls
    BY <1>2, WhenApplied DEF ReqOK
  <2>2. k.in.branch \in Branches /\ PathOf(k) \in Paths \ {IndexPath}
    BY <2>1, CallFields DEF PathOf, IndexCalls
  <2>3. Effect(r, k) = PutObject(r, k.in.branch, PathOf(k), Absent)
    BY <1>2 DEF Effect, DeleteObject, PutObject
  <2>4. QED
    BY <2>1, <2>2, <2>3
<1>3. QED
  BY <1>1, <1>2

LEMMA CommitEffect ==
    ASSUME NEW r, GoodRepo(r), NEW k, ReqOK(r, k), Applies(r, k), k.pc = "commit"
    PROVE  LET s == Effect(r, k)
               b == k.in.branch
               n == Len(r.commits) + 1
           IN  /\ b \in Branches /\ BranchExists(r, b)
               /\ RepoOK(s) /\ OnlyTouches(r, s, b)
               /\ CommitIds(s) = CommitIds(r) \cup {n} /\ s.head[b] = n
               /\ s.staging[b] = NoStaging
               /\ Parents(s, n) = {r.head[b]} /\ AtCommit(s, n) = ResolveState(r, b)
<1> DEFINE b == k.in.branch
           ps == {r.head[b]}
           objs == ResolveState(r, b)
<1>1. k.in.kind = "commit" /\ BranchExists(r, b)
  BY WhenApplied
<1>2. b \in Branches
  BY <1>1, CallFields DEF ReqOK
<1>3. r.head[b] \in CommitIds(r) /\ RepoOK(r) /\ r \in Repository
  BY <1>1, <1>2, GoodHeads DEF GoodRepo, RepoOK
<1>4. objs \in Objects /\ ps \in SUBSET Nat
  BY <1>2, <1>3, ObjectsShape, RepoShape
<1>5. Effect(r, k) = Advance(r, b, ps, objs)
  BY DEF Effect, Commit
<1> HIDE DEF b, ps, objs
<1>6. /\ RepoOK(Effect(r, k)) /\ OnlyTouches(r, Effect(r, k), b)
      /\ CommitIds(Effect(r, k)) = CommitIds(r) \cup {Len(r.commits) + 1}
      /\ Effect(r, k).head[b] = Len(r.commits) + 1
      /\ Effect(r, k).staging[b] = NoStaging
      /\ Effect(r, k).commits[Len(r.commits) + 1] = [parents |-> ps, objects |-> objs]
  BY <1>2, <1>3, <1>4, <1>5, AdvanceShape
<1>7. QED
  BY <1>1, <1>2, <1>6 DEF Parents, AtCommit, b, ps, objs

LEMMA MergeEffect ==
    ASSUME NEW r, GoodRepo(r), NEW k, ReqOK(r, k), Applies(r, k), k.pc = "merge"
    PROVE  LET s == Effect(r, k)
               n == Len(r.commits) + 1
               h == r.head[k.in.source]
               t == r.head[k.in.target]
           IN  /\ k.in.target \in Branches
               /\ RepoOK(s) /\ OnlyTouches(r, s, k.in.target)
               /\ CommitIds(s) = CommitIds(r) \cup {n} /\ s.head[k.in.target] = n
               /\ s.staging[k.in.target] = NoStaging
               /\ h \in CommitIds(r) /\ t \in CommitIds(r) /\ Parents(s, n) = {h, t}
               /\ AtCommit(s, n)[IndexPath] =
                     PathMerge(AtCommit(r, FindMergeBase(r, h, t))[IndexPath],
                               AtCommit(r, h)[IndexPath], AtCommit(r, t)[IndexPath])
               /\ ~PathConflict(AtCommit(r, FindMergeBase(r, h, t))[IndexPath],
                                AtCommit(r, h)[IndexPath], AtCommit(r, t)[IndexPath])
<1> DEFINE a == k.in.source
           b == k.in.target
           s == Effect(r, k)
           n == Len(r.commits) + 1
           h == r.head[a]
           t == r.head[b]
           m == FindMergeBase(r, h, t)
<1>1. /\ k.in.kind = "merge" /\ BranchExists(r, a) /\ BranchExists(r, b)
      /\ MergeConflicts(r, a, b) = {}
  BY WhenApplied
<1>2. a \in Branches /\ b \in Branches /\ RepoOK(r) /\ IndexPath \in Paths
  BY <1>1, CallFields, LakeFSAssumption DEF ReqOK, GoodRepo
<1>3. s = Merge(r, a, b)
  BY DEF Effect
<1>4. /\ h \in CommitIds(r) /\ t \in CommitIds(r)
      /\ RepoOK(s) /\ OnlyTouches(r, s, b)
      /\ CommitIds(s) = CommitIds(r) \cup {n} /\ s.head[b] = n
      /\ s.staging[b] = NoStaging
      /\ Parents(s, n) = {h, t}
  <2> HIDE DEF a, b, s
  <2>1. QED
    BY <1>1, <1>2, <1>3, MergeShape
<1>5. \A p \in Paths : AtCommit(s, n)[p] =
          PathMerge(AtCommit(r, m)[p], AtCommit(r, h)[p], AtCommit(r, t)[p])
  <2> HIDE DEF a, b, s
  <2>1. QED
    BY <1>1, <1>2, <1>3, MergeShape
<1>6. \A p \in Paths : ~PathConflict(AtCommit(r, m)[p], AtCommit(r, h)[p], AtCommit(r, t)[p])
  BY <1>1 DEF MergeConflicts, MergeBase
<1> HIDE DEF s, n, h, t, m, a, b
<1>7. QED
  BY <1>2, <1>4, <1>5, <1>6 DEF s, n, h, t, m, a, b

(* Every request moves the repository on.                                  *)
LEMMA EffectMoves ==
    ASSUME NEW r, GoodRepo(r), NEW k, ReqOK(r, k), NEW del,
           k.pc = "delete" /\ Applies(r, k) => del
    PROVE  Moves(r, Effect(r, k), del)
<1> DEFINE s == Effect(r, k)
           n == Len(r.commits) + 1
<1>0. RepoOK(r) /\ r \in Repository /\ n \notin CommitIds(r)
  BY RepoShape DEF GoodRepo, RepoOK
<1>1. CASE ~Applies(r, k)
  BY <1>1, StaysPut DEF Effect
<1>2. ASSUME NEW b \in Branches, NEW c \in CommitIds(r) \cup {NoBranch},
             s = CreateBranch(r, b, c), BranchExists(r, b) => del /\ b # Main
      PROVE  Moves(r, s, del)
  <2>1. RepoOK(s) /\ OnlyTouches(r, s, b) /\ s.commits = r.commits /\ s.staging[b] = NoStaging
    BY <1>0, <1>2, PointShape
  <2>2. CommitIds(s) = CommitIds(r) /\ s.staging[b][IndexPath] = Unstaged
    BY <2>1, StagedIndex DEF CommitIds
  <2> HIDE DEF s
  <2>3. QED
    BY <1>0, <1>2, <2>1, <2>2, MovesBy
<1>3. CASE Applies(r, k) /\ k.pc = "create"
  BY <1>2, <1>3, CreateEffect
<1>4. CASE Applies(r, k) /\ k.pc = "delete"
  BY <1>2, <1>4, DeleteEffect
<1>5. CASE Applies(r, k) /\ k.pc \in {"put", "delete_object"}
  <2> DEFINE b == k.in.branch
  <2>1. PICK p \in Paths, v \in Values \cup {Absent} :
            /\ b \in Branches /\ s = PutObject(r, b, p, v)
            /\ p = IndexPath => k.pc = "put" /\ p = PathOf(k) /\ v = ValueOf(k)
    BY <1>5, PutEffect
  <2>2. /\ RepoOK(s) /\ OnlyTouches(r, s, b) /\ s.commits = r.commits /\ s.head = r.head
        /\ s.staging[b] = [r.staging[b] EXCEPT ![p] = v]
    BY <1>0, <2>1, StageShape
  <2>3. p = IndexPath => v \in IndexObjects
    BY <2>1, ValueShape
  <2>4. s.staging[b][IndexPath] \in IndexObjects \cup {Absent, Unstaged}
    BY <2>1, <2>2, <2>3, StagedIndex DEF GoodRepo, IndexOK
  <2>5. CommitIds(s) = CommitIds(r)
    BY <2>2 DEF CommitIds
  <2> HIDE DEF s, b
  <2>6. Moves(r, s, del)
    BY <1>0, <2>1, <2>2, <2>4, <2>5, MovesBy
  <2>7. QED
    BY <2>6 DEF s
<1>6. CASE Applies(r, k) /\ k.pc = "commit"
  <2> DEFINE b == k.in.branch
  <2>1. /\ b \in Branches /\ BranchExists(r, b)
        /\ RepoOK(s) /\ OnlyTouches(r, s, b)
        /\ CommitIds(s) = CommitIds(r) \cup {n} /\ s.head[b] = n
        /\ s.staging[b] = NoStaging
        /\ Parents(s, n) = {r.head[b]} /\ AtCommit(s, n) = ResolveState(r, b)
    BY <1>6, CommitEffect
  <2>2. /\ s.staging[b][IndexPath] = Unstaged
        /\ AtCommit(s, n)[IndexPath] \in IndexObjects \cup {Absent}
        /\ r.head[b] \in CommitIds(r)
    BY <2>1, StagedIndex, GoodHeads
  <2> HIDE DEF s, b, n
  <2>3. Moves(r, s, del)
    BY <2>1, <2>2, MovesBy DEF n
  <2>4. QED
    BY <2>3 DEF s
<1>7. CASE Applies(r, k) /\ k.pc = "merge"
  <2> DEFINE b == k.in.target
             h == r.head[k.in.source]
             t == r.head[b]
             m == FindMergeBase(r, h, t)
  <2>1. /\ b \in Branches
        /\ RepoOK(s) /\ OnlyTouches(r, s, b)
        /\ CommitIds(s) = CommitIds(r) \cup {n} /\ s.head[b] = n
        /\ s.staging[b] = NoStaging
        /\ h \in CommitIds(r) /\ t \in CommitIds(r) /\ Parents(s, n) = {h, t}
        /\ AtCommit(s, n)[IndexPath] =
                PathMerge(AtCommit(r, m)[IndexPath],
                          AtCommit(r, h)[IndexPath], AtCommit(r, t)[IndexPath])
    BY <1>7, MergeEffect
  <2>2. AtCommit(s, n)[IndexPath] \in {AtCommit(r, h)[IndexPath], AtCommit(r, t)[IndexPath]}
    BY <2>1 DEF PathMerge
  <2>3. AtCommit(s, n)[IndexPath] \in IndexObjects \cup {Absent}
    BY <2>1, <2>2 DEF GoodRepo, IndexOK
  <2>4. s.staging[b][IndexPath] = Unstaged
    BY <2>1, StagedIndex
  <2>5. r.head[b] = t
    OBVIOUS
  <2> HIDE DEF s, b, h, t, n, m
  <2>6. /\ Parents(s, n) \subseteq CommitIds(r) /\ Parents(s, n) # {}
        /\ r.head[b] \in Parents(s, n) /\ n \in CommitIds(s)
    BY <2>1, <2>5
  <2>7. Moves(r, s, del)
    BY <2>1, <2>3, <2>4, <2>6, MovesBy DEF n
  <2>8. QED
    BY <2>7 DEF s
<1>8. QED
  BY <1>1, <1>3, <1>4, <1>5, <1>6, <1>7 DEF Applies, Writes

-----------------------------------------------------------------------------
(* Listing in pages.                                                       *)

LEMMA MinIsLeast ==
    ASSUME NEW S \in SUBSET Nat, S # {}
    PROVE  Min(S) \in S /\ \A x \in S : Min(S) <= x
<1>1. \E x \in S : \A y \in S : x <= y
  BY LeastNumber
<1>2. QED
  BY <1>1 DEF Min

(* A page has what is listed up to its last entry, the last page all.      *)
LEMMA PageStep ==
    ASSUME NEW listed \in SUBSET Paths, NEW page, page.after \in Nat
    PROVE  LET new == NextPage(listed, page)
           IN  /\ new.after \in Nat /\ page.after <= new.after
               /\ page.found \subseteq new.found
               /\ new.found \subseteq page.found \cup listed
               /\ \A p \in listed : page.after < p /\ p <= new.after => p \in new.found
               /\ IsLast(listed, page) =>
                     \A p \in listed : page.after < p => p \in new.found
<1> DEFINE rest == Rest(listed, page)
           m == Min(rest)
<1>1. /\ rest \in SUBSET Nat /\ rest \subseteq listed
      /\ \A p \in listed : p \in rest <=> page.after < p
      /\ IsFiniteSet(rest)
  BY LakeFSAssumption, FS_Subset DEF Rest
<1>2. CASE rest = {}
  BY <1>1, <1>2 DEF NextPage
<1>3. CASE rest # {}
  <2>1. m \in rest /\ \A x \in rest : m <= x
    BY <1>1, <1>3, MinIsLeast
  <2>2. NextPage(listed, page) = [found |-> page.found \cup {m}, after |-> m]
    BY <1>3 DEF NextPage
  <2>3. IsLast(listed, page) => rest = {m}
    <3>1. /\ Cardinality(rest \ {m}) = Cardinality(rest) - 1 /\ Cardinality(rest) \in Nat
          /\ Cardinality(rest \ {m}) \in Nat /\ IsFiniteSet(rest \ {m})
      BY <1>1, <2>1, FS_RemoveElement, FS_CardinalityType, FS_Subset
    <3>2. SUFFICES ASSUME IsLast(listed, page)
                   PROVE  Cardinality(rest \ {m}) = 0
      BY <2>1, <3>1, FS_EmptySet
    <3>3. QED
      BY <3>1, <3>2 DEF IsLast
  <2> HIDE DEF rest, m
  <2>4. QED
    BY <1>1, <2>1, <2>2, <2>3
<1>4. QED
  BY <1>2, <1>3

-----------------------------------------------------------------------------
(* A call in progress, and one that is done.                               *)

CallShape(k) ==
    /\ k \in [in : {k.in}, pc : {k.pc}, note : {k.note}, answer : {k.answer},
              applied : {k.applied}]
    /\ k.applied \in Nat

(* The report on a conflict: once the base is known it stays a common      *)
(* ancestor of both heads, however they move.                              *)
ReportPcs == {"base", "paths", "source_head", "target_head"}
ReportOK(r, k, del) ==
    /\ k.note \in [base : {k.note.base}, paths : {k.note.paths},
                   source_head : {k.note.source_head}, target_head : {k.note.target_head}]
    /\ k.pc # "base" /\ ~del =>
        /\ BranchExists(r, k.in.source) /\ BranchExists(r, k.in.target)
        /\ k.note.base \in CommonAncestors(r, r.head[k.in.source], r.head[k.in.target])
        /\ k.pc = "target_head" => /\ k.note.source_head \in CommitIds(r)
                                   /\ k.note.base \in Ancestors(r, k.note.source_head)

(* The pages so far: nothing that never was, and up to the last entry all  *)
(* that was there all the time.                                            *)
PagesOK(k, ls, listed) ==
    /\ ls.always \subseteq listed /\ listed \subseteq ls.ever
    /\ k.pc = "list" => /\ k.note.after \in Nat
                        /\ k.note.found \subseteq ls.ever
                        /\ \A p \in ls.always : p <= k.note.after => p \in k.note.found

(* What later requests of a call rely on: an answer that was right when an *)
(* earlier one was served.                                                 *)
Run(r, k, sn, ls, del) ==
    /\ ReqOK(r, k)
    /\ Promised(r, k.in) \subseteq sn
    /\ k.in.kind \in Writes => k.applied = 0
    /\ k.pc = "commit_exists" /\ k.in.base # Main /\ ~CommitExists(r, k.in.base) =>
            <<"NotFound">> \in sn
    /\ k.pc = "delete_object" => <<"OK">> \in sn
    /\ k.pc \in ReportPcs => <<"Conflict">> \in sn /\ ReportOK(r, k, del)
    /\ k.in.kind = "list" => PagesOK(k, ls, Listed(r, k.in.ref))

Done(r, k, sn, ls, del) ==
    k.answer # NoAnswer =>
        /\ k.in.kind \notin IndexCalls /\ k.answer # <<"Failed">> =>
            (IF k.answer[1] = "OK" /\ k.in.kind \in {"head", "get"} THEN k.answer
             ELSE <<k.answer[1]>>) \in sn
        /\ k.in.kind \in Writes =>
            /\ k.answer[1] = "OK" => \/ k.applied = 1
                                     \/ k.in.kind = "delete_object" /\ <<"Gone">> \in sn
            /\ k.answer[1] \notin {"OK", "Failed"} => k.applied = 0
        /\ k.answer[1] = "Conflict" /\ ~del =>
            LET report == k.answer[2]
            IN  /\ report.source_head \in CommitIds(r) /\ report.target_head \in CommitIds(r)
                /\ report.base \in CommonAncestors(r, report.source_head, report.target_head)
        /\ k.in.kind = "list" /\ k.answer[1] = "OK" =>
            ls.always \subseteq k.answer[2] /\ k.answer[2] \subseteq ls.ever

(* Both survive what the server does for others.                           *)
LEMMA DoneKept ==
    ASSUME NEW r, NEW s, NEW d, Moves(r, s, d), NEW k, NEW sn, NEW ls,
           NEW del, NEW del2, ~del2 => ~del, Done(r, k, sn, ls, del)
    PROVE  Done(s, k, sn, ls, del2)
<1> SUFFICES ASSUME k.answer # NoAnswer, k.answer[1] = "Conflict", ~del2
             PROVE  LET report == k.answer[2]
                    IN  /\ report.source_head \in CommitIds(s) /\ report.target_head \in CommitIds(s)
                        /\ report.base \in CommonAncestors(s, report.source_head, report.target_head)
  BY DEF Done
<1> DEFINE report == k.answer[2]
<1>1. /\ report.source_head \in CommitIds(r) /\ report.target_head \in CommitIds(r)
      /\ report.base \in CommonAncestors(r, report.source_head, report.target_head)
  BY DEF Done
<1>2. Extends(r, s) /\ CommitIds(r) \subseteq CommitIds(s)
  BY DEF Moves, Extends
<1>3. \A c \in CommitIds(r) : Ancestors(s, c) = Ancestors(r, c)
  BY <1>2, AncestorsKept
<1>4. QED
  BY <1>1, <1>2, <1>3 DEF CommonAncestors

LEMMA RunKept ==
    ASSUME NEW r, NEW s, NEW d, GoodRepo(r), Moves(r, s, d), NEW k, NEW sn, NEW sn2,
           NEW ls, NEW ls2, NEW del, NEW del2, ~del2 => ~del /\ ~d,
           Run(r, k, sn, ls, del), sn \subseteq sn2, Promised(s, k.in) \subseteq sn2,
           k.in.kind = "list" => /\ ls2.always = ls.always \cap Listed(s, k.in.ref)
                                 /\ ls2.ever = ls.ever \cup Listed(s, k.in.ref)
    PROVE  Run(s, k, sn2, ls2, del2)
<1>1. Extends(r, s) /\ CommitIds(r) \subseteq CommitIds(s) /\ GraphOK(s) /\ GoodRepo(s)
  BY DEF Moves, Extends
<1>2. \A c \in CommitIds(r) : Ancestors(s, c) = Ancestors(r, c)
  BY <1>1, AncestorsKept
<1>3. ReqOK(s, k)
  BY <1>1 DEF Run, ReqOK, CommitExists
<1>4. k.pc = "commit_exists" /\ k.in.base # Main /\ ~CommitExists(s, k.in.base) =>
            <<"NotFound">> \in sn2
  BY <1>1 DEF Run, CommitExists
<1>5. ASSUME k.pc \in ReportPcs
      PROVE  ReportOK(s, k, del2)
  <2>1. ReportOK(r, k, del) /\ k.in.kind = "merge" /\ k.in \in Calls
    BY <1>5 DEF Run, ReqOK, PcOK, ReportPcs, IndexCalls
  <2> SUFFICES ASSUME k.pc # "base", ~del2
               PROVE  /\ BranchExists(s, k.in.source) /\ BranchExists(s, k.in.target)
                      /\ k.note.base \in CommonAncestors(s, s.head[k.in.source], s.head[k.in.target])
                      /\ k.pc = "target_head" => /\ k.note.source_head \in CommitIds(s)
                                                 /\ k.note.base \in Ancestors(s, k.note.source_head)
    BY <2>1 DEF ReportOK
  <2>2. ASSUME NEW b \in Branches, BranchExists(r, b), k.note.base \in Ancestors(r, r.head[b])
        PROVE  BranchExists(s, b) /\ k.note.base \in Ancestors(s, s.head[b])
    <3>1. BranchExists(s, b) /\ r.head[b] \in Ancestors(s, s.head[b])
      BY <2>2 DEF Moves
    <3>2. s.head[b] \in CommitIds(s) /\ r.head[b] \in CommitIds(r)
      BY <1>1, <2>2, <3>1, GoodHeads
    <3>3. Ancestors(s, r.head[b]) \subseteq Ancestors(s, s.head[b])
      BY <1>1, <3>1, <3>2, AncestorsNest
    <3>4. QED
      BY <1>2, <2>2, <3>1, <3>2, <3>3
  <2>3. k.in.source \in Branches /\ k.in.target \in Branches
    BY <2>1, CallFields
  <2>4. QED
    BY <1>1, <1>2, <2>1, <2>2, <2>3 DEF ReportOK, CommonAncestors
<1>6. k.in.kind = "list" => PagesOK(k, ls2, Listed(s, k.in.ref))
  BY DEF Run, PagesOK
<1>7. QED
  BY <1>3, <1>4, <1>5, <1>6 DEF Run

-----------------------------------------------------------------------------
(* How a call goes on after the reply to its request.                      *)

(* The call after a step: in progress or done, and as it should be.        *)
Fine(r, k, x, sn, ls, del) ==
    /\ CallShape(k) /\ k.in = x
    /\ k.pc = "done" => Done(r, k, sn, ls, del)
    /\ k.pc # "done" => Run(r, k, sn, ls, del)

With(k, n) == [k EXCEPT !.applied = @ + n]

LEMMA GoOnIs ==
    ASSUME NEW k, CallShape(k), NEW n \in Nat, NEW pc, NEW note
    PROVE  LET f == With(GoOn(k, pc, note), n)
           IN  /\ CallShape(f) /\ f.in = k.in /\ f.pc = pc /\ f.note = note
               /\ f.applied = k.applied + n
<1> DEFINE x == k.in
           y == k.pc
           z == k.note
           a == k.answer
           i == k.applied
           f == With(GoOn(k, pc, note), n)
<1>1. k \in [in : {x}, pc : {y}, note : {z}, answer : {a}, applied : {i}] /\ i \in Nat
  BY DEF CallShape
<1> HIDE DEF x, y, z, a, i
<1>2. GoOn(k, pc, note) \in [in : {x}, pc : {pc}, note : {note}, answer : {a}, applied : {i}]
  BY <1>1 DEF GoOn
<1>3. f \in [in : {x}, pc : {pc}, note : {note}, answer : {a}, applied : {i + n}]
  BY <1>2 DEF With
<1> HIDE DEF f
<1>4. QED
  BY <1>1, <1>3 DEF CallShape, x, a, i, f

LEMMA FinishIs ==
    ASSUME NEW k, CallShape(k), NEW n \in Nat, NEW answer
    PROVE  LET f == With(Finish(k, answer), n)
           IN  /\ CallShape(f) /\ f.in = k.in /\ f.pc = "done" /\ f.answer = answer
               /\ f.applied = k.applied + n
<1> DEFINE x == k.in
           y == k.pc
           z == k.note
           a == k.answer
           i == k.applied
           f == With(Finish(k, answer), n)
<1>1. k \in [in : {x}, pc : {y}, note : {z}, answer : {a}, applied : {i}] /\ i \in Nat
  BY DEF CallShape
<1> HIDE DEF x, y, z, a, i
<1>2. Finish(k, answer) \in [in : {x}, pc : {"done"}, note : {NoAnswer}, answer : {answer}, applied : {i}]
  BY <1>1 DEF Finish
<1>3. f \in [in : {x}, pc : {"done"}, note : {NoAnswer}, answer : {answer}, applied : {i + n}]
  BY <1>2 DEF With
<1> HIDE DEF f
<1>4. QED
  BY <1>1, <1>3 DEF CallShape, x, i, f

(* An answer that is a status only.                                        *)
LEMMA StatusFine ==
    ASSUME NEW r, NEW k, CallShape(k), NEW n \in Nat, NEW sn, NEW ls, NEW del, NEW st,
           st # "Conflict",
           k.in.kind \in {"head", "get", "list"} => st # "OK",
           k.in.kind \notin IndexCalls => st = "Failed" \/ <<st>> \in sn,
           k.in.kind \in Writes => /\ k.applied = 0
                                   /\ st = "OK" => \/ n = 1
                                                   \/ k.in.kind = "delete_object" /\ <<"Gone">> \in sn
                                   /\ st \notin {"OK", "Failed"} => n = 0
    PROVE  Fine(r, With(Finish(k, <<st>>), n), k.in, sn, ls, del)
<1> DEFINE f == With(Finish(k, <<st>>), n)
<1>1. /\ CallShape(f) /\ f.in = k.in /\ f.pc = "done" /\ f.answer = <<st>>
      /\ f.applied = k.applied + n
  BY FinishIs
<1> HIDE DEF f
<1>2. f.answer[1] = st /\ (k.in.kind \in Writes => f.applied = n)
  BY <1>1
<1>3. Done(r, f, sn, ls, del)
  BY <1>1, <1>2 DEF Done
<1>4. QED
  BY <1>1, <1>3 DEF Fine, f

(* A call and the reply to its request: the server's, with what it applied *)
(* (n), or none, in which case the server may have applied it or not.      *)
Replied(r, k, reply, body, n) ==
    \/ /\ reply = Reply(r, k) /\ n = (IF Applies(r, k) THEN 1 ELSE 0)
       /\ reply = "ok" => body = Body(r, k)
    \/ reply = "failed" /\ n \in {0, 1} /\ (n = 1 => Applies(r, k))

LEMMA FailedIs == Status["failed"] = "Failed" /\ Status["ok"] = "OK"
                  /\ Status["not_found"] = "NotFound" /\ Status["exists"] = "AlreadyExists"
                  /\ Status["forbidden"] = "FailedPrecondition"
                  /\ Status["unclean"] = "FailedPrecondition"
BY DEF Status

LEMMA FailedFine ==
    ASSUME NEW r, NEW k, CallShape(k), NEW n \in Nat, NEW sn, NEW ls, NEW del,
           k.in.kind \in Writes => k.applied = 0
    PROVE  Fine(r, With(Answer(k, "failed"), n), k.in, sn, ls, del)
BY FailedIs, StatusFine DEF Answer

(* DeleteBranch(), PutObject(), Commit(): one request.                     *)
LEMMA WriteFine ==
    ASSUME NEW r, NEW k, CallShape(k), NEW sn, NEW ls, NEW del, NEW reply, NEW body, NEW n,
           Run(r, k, sn, ls, del), Replied(r, k, reply, body, n),
           k.in.kind \in {"delete", "put", "commit"}
    PROVE  Fine(r, With(GoesOn(k, reply, body), n), k.in, sn, ls, del)
<1>1. k.pc = k.in.kind /\ k.in \in Calls /\ k.applied = 0 /\ n \in Nat
  BY DEF Run, ReqOK, PcOK, IndexCalls, Writes, Replied
<1>2. GoesOn(k, reply, body) = Answer(k, reply)
  BY DEF GoesOn
<1>3. CASE reply = "failed"
  BY <1>1, <1>2, <1>3, FailedFine
<1>4. CASE reply = Reply(r, k) /\ n = (IF Applies(r, k) THEN 1 ELSE 0)
  <2>1. /\ reply \in {"ok", "not_found", "forbidden"}
        /\ <<Status[reply]>> \in Promised(r, k.in)
        /\ reply = "ok" <=> n = 1
    <3>1. CASE k.in.kind = "delete"
      BY <1>1, <1>4, <3>1, FailedIs DEF Reply, Promised, OkIf, Applies, Writes
    <3>2. CASE k.in.kind \in {"put", "commit"}
      <4>1. BranchOf(k) = k.in.branch
        BY <1>1, <3>2 DEF BranchOf
      <4>2. reply = OkIf(BranchExists(r, k.in.branch))
        BY <1>1, <1>4, <3>2, <4>1 DEF Reply
      <4>3. Promised(r, k.in) =
                {IF BranchExists(r, k.in.branch) THEN <<"OK">> ELSE <<"NotFound">>}
        BY <3>2 DEF Promised
      <4>4. QED
        BY <1>1, <1>4, <3>2, <4>2, <4>3, FailedIs DEF OkIf, Applies, Writes
    <3>3. QED
      BY <3>1, <3>2
  <2>2. QED
    BY <1>1, <1>2, <1>4, <2>1, FailedIs, StatusFine DEF Run, Answer, IndexCalls
<1>5. QED
  BY <1>3, <1>4 DEF Replied

(* The next request of a call that has written nothing so far.             *)
LEMMA GoOnFine ==
    ASSUME NEW r, NEW k, CallShape(k), NEW sn, NEW ls, NEW del, NEW n, NEW pc, NEW note,
           Run(r, k, sn, ls, del), n = 0, pc # "done", PcOK(k.in, pc),
           pc = "create" => k.in.base = Main \/ CommitExists(r, k.in.base),
           k.in.kind \in IndexCalls /\ pc = "put" => note \in IndexObjects \cup {Absent},
           pc = "commit_exists" /\ k.in.base # Main /\ ~CommitExists(r, k.in.base) =>
               <<"NotFound">> \in sn,
           pc = "delete_object" => <<"OK">> \in sn,
           pc \in ReportPcs => <<"Conflict">> \in sn
               /\ ReportOK(r, [in |-> k.in, pc |-> pc, note |-> note], del),
           k.in.kind = "list" =>
               PagesOK([in |-> k.in, pc |-> pc, note |-> note], ls, Listed(r, k.in.ref))
    PROVE  Fine(r, With(GoOn(k, pc, note), n), k.in, sn, ls, del)
<1> DEFINE f == With(GoOn(k, pc, note), n)
<1>1. /\ CallShape(f) /\ f.in = k.in /\ f.pc = pc /\ f.note = note
      /\ f.applied = k.applied
  <2>1. /\ CallShape(f) /\ f.in = k.in /\ f.pc = pc /\ f.note = note
        /\ f.applied = k.applied + n /\ n \in Nat
    BY GoOnIs
  <2>2. k.applied \in Nat
    BY DEF CallShape
  <2> HIDE DEF f
  <2>3. QED
    BY <2>1, <2>2
<1> HIDE DEF f
<1>2. ReqOK(r, f)
  BY <1>1 DEF Run, ReqOK
<1>3. pc \in ReportPcs => ReportOK(r, f, del)
  BY <1>1 DEF ReportOK
<1>4. k.in.kind = "list" => PagesOK(f, ls, Listed(r, k.in.ref))
  BY <1>1 DEF PagesOK
<1>5. Run(r, f, sn, ls, del)
  BY <1>1, <1>2, <1>3, <1>4 DEF Run
<1>6. QED
  BY <1>1, <1>5 DEF Fine, f

(* CreateBranch(): that the branch did not exist and the base did was seen *)
(* at different moments.                                                   *)
LEMMA CreateFine ==
    ASSUME NEW r, NEW k, CallShape(k), NEW sn, NEW ls, NEW del, NEW reply, NEW body, NEW n,
           Run(r, k, sn, ls, del), Replied(r, k, reply, body, n), k.in.kind = "create"
    PROVE  Fine(r, With(GoesOn(k, reply, body), n), k.in, sn, ls, del)
<1>1. /\ k.pc \in {"exists", "commit_exists", "create"} /\ k.applied = 0 /\ n \in Nat
      /\ k.in \in Calls /\ k.in.kind \in Writes /\ k.in.kind \notin IndexCalls
  BY DEF Run, ReqOK, PcOK, IndexCalls, Writes, Replied
<1>2. GoesOn(k, reply, body) = CreateBranchGoesOn(k, reply)
  BY DEF GoesOn
<1>3. Promised(r, k.in) = {IF BranchExists(r, k.in.branch) THEN <<"AlreadyExists">>
             ELSE IF k.in.base # Main /\ ~CommitExists(r, k.in.base) THEN <<"NotFound">>
             ELSE <<"OK">>} /\ Promised(r, k.in) \subseteq sn
  BY DEF Promised, Run
<1>4. CASE reply = "failed"
  <2>1. CreateBranchGoesOn(k, reply) = Answer(k, "failed")
    BY <1>1, <1>4 DEF CreateBranchGoesOn
  <2>2. QED
    BY <1>1, <1>2, <2>1, FailedFine
<1>5. CASE reply = Reply(r, k) /\ n = (IF Applies(r, k) THEN 1 ELSE 0)
  <2>1. CASE k.pc = "exists"
    <3>1. BranchOf(k) = k.in.branch /\ n = 0
      BY <1>5, <2>1 DEF BranchOf, Applies, Writes
    <3>2. reply = OkIf(BranchExists(r, k.in.branch))
      BY <1>5, <2>1, <3>1 DEF Reply
    <3>3. CASE BranchExists(r, k.in.branch)
      <4>1. GoesOn(k, reply, body) = Finish(k, <<"AlreadyExists">>)
        BY <1>2, <2>1, <3>2, <3>3, FailedIs DEF CreateBranchGoesOn, OkIf, Answer
      <4>2. QED
        BY <1>1, <1>3, <3>1, <3>3, <4>1, StatusFine
    <3>4. CASE ~BranchExists(r, k.in.branch)
      <4>1. GoesOn(k, reply, body) = GoOn(k, "commit_exists", NoAnswer)
        BY <1>2, <2>1, <3>2, <3>4 DEF CreateBranchGoesOn, OkIf
      <4>2. PcOK(k.in, "commit_exists")
        BY DEF PcOK
      <4>3. QED
        BY <1>1, <1>3, <3>1, <3>4, <4>1, <4>2, GoOnFine DEF ReportPcs
    <3>5. QED
      BY <3>3, <3>4
  <2>2. CASE k.pc = "commit_exists"
    <3>1. n = 0 /\ reply = OkIf(CommitExists(r, k.in.base))
      BY <1>5, <2>2 DEF Applies, Writes, Reply
    <3>2. CASE CommitExists(r, k.in.base) \/ k.in.base = Main
      <4>1. GoesOn(k, reply, body) = GoOn(k, "create", NoAnswer)
        BY <1>2, <2>2, <3>1, <3>2 DEF CreateBranchGoesOn, OkIf
      <4>2. PcOK(k.in, "create")
        BY DEF PcOK
      <4>3. QED
        BY <1>1, <3>1, <3>2, <4>1, <4>2, GoOnFine DEF ReportPcs
    <3>3. CASE ~CommitExists(r, k.in.base) /\ k.in.base # Main
      <4>1. GoesOn(k, reply, body) = Finish(k, <<"NotFound">>)
        BY <1>2, <2>2, <3>1, <3>3, FailedIs DEF CreateBranchGoesOn, OkIf, Answer
      <4>2. <<"NotFound">> \in sn
        BY <2>2, <3>3 DEF Run
      <4>3. QED
        BY <1>1, <3>1, <4>1, <4>2, StatusFine
    <3>4. QED
      BY <3>2, <3>3
  <2>3. CASE k.pc = "create"
    <3>1. reply = IF BranchExists(r, k.in.branch) THEN "exists" ELSE "ok"
      BY <1>5, <2>3 DEF Reply
    <3>2. GoesOn(k, reply, body) = Finish(k, <<Status[reply]>>)
      BY <1>2, <2>3 DEF CreateBranchGoesOn, Answer
    <3>3. k.in.base = Main \/ CommitExists(r, k.in.base)
      BY <2>3 DEF Run, ReqOK
    <3>4. n = IF reply = "ok" THEN 1 ELSE 0
      BY <1>5, <2>3 DEF Applies, Writes
    <3>5. CASE BranchExists(r, k.in.branch)
      BY <1>1, <1>3, <3>1, <3>2, <3>4, <3>5, FailedIs, StatusFine
    <3>6. CASE ~BranchExists(r, k.in.branch)
      BY <1>1, <1>3, <3>1, <3>2, <3>3, <3>4, <3>6, FailedIs, StatusFine
    <3>7. QED
      BY <3>5, <3>6
  <2>4. QED
    BY <1>1, <2>1, <2>2, <2>3
<1>6. QED
  BY <1>4, <1>5 DEF Replied

(* GetBranchHead() and GetObject() answer with what they have read.        *)
LEMMA ReadFine ==
    ASSUME NEW r, NEW k, CallShape(k), NEW n \in Nat, NEW sn, NEW ls, NEW del, NEW v,
           k.in.kind \in {"head", "get"}, <<"OK", v>> \in sn
    PROVE  Fine(r, With(Finish(k, <<"OK", v>>), n), k.in, sn, ls, del)
<1> DEFINE f == With(Finish(k, <<"OK", v>>), n)
<1>1. /\ CallShape(f) /\ f.in = k.in /\ f.pc = "done" /\ f.answer = <<"OK", v>>
  BY FinishIs
<1> HIDE DEF f
<1>2. f.answer[1] = "OK" /\ k.in.kind \notin Writes
  BY <1>1 DEF Writes
<1>3. Done(r, f, sn, ls, del)
  BY <1>1, <1>2 DEF Done
<1>4. QED
  BY <1>1, <1>3 DEF Fine, f

LEMMA GetFine ==
    ASSUME NEW r, NEW k, CallShape(k), NEW sn, NEW ls, NEW del, NEW reply, NEW body, NEW n,
           Run(r, k, sn, ls, del), Replied(r, k, reply, body, n), k.in.kind \in {"head", "get"}
    PROVE  Fine(r, With(GoesOn(k, reply, body), n), k.in, sn, ls, del)
<1>1. /\ \/ k.in.kind = "head" /\ k.pc = "head"
         \/ k.in.kind = "get" /\ k.pc \in {"ref", "get"}
      /\ n \in Nat /\ k.in.kind \notin Writes /\ k.in.kind \notin IndexCalls
      /\ Promised(r, k.in) \subseteq sn
  BY DEF Run, ReqOK, PcOK, IndexCalls, Writes, Replied
<1>2. GoesOn(k, reply, body) =
        IF k.pc = "ref" /\ reply = "ok" THEN GoOn(k, "get", NoAnswer)
        ELSE Finish(k, IF reply = "ok" THEN <<"OK", body>> ELSE <<Status[reply]>>)
  BY <1>1 DEF GoesOn, GetBranchHeadGoesOn, GetObjectGoesOn
<1>3. CASE reply = "failed"
  <2>1. GoesOn(k, reply, body) = Answer(k, "failed")
    BY <1>2, <1>3 DEF Answer
  <2>2. QED
    BY <1>1, <2>1, FailedFine
<1>4. CASE /\ reply = Reply(r, k) /\ n = (IF Applies(r, k) THEN 1 ELSE 0)
           /\ reply = "ok" => body = Body(r, k)
  <2>1. CASE k.pc = "head"
    <3>1. BranchOf(k) = k.in.branch
      BY <2>1 DEF BranchOf
    <3>2. /\ reply = OkIf(BranchExists(r, k.in.branch))
          /\ reply = "ok" => body = r.head[k.in.branch]
      BY <1>4, <2>1, <3>1 DEF Reply, Body, GetBranchHead
    <3>3. (IF BranchExists(r, k.in.branch) THEN <<"OK", r.head[k.in.branch]>> ELSE <<"NotFound">>) \in sn
      BY <1>1, <2>1 DEF Promised
    <3>4. CASE BranchExists(r, k.in.branch)
      BY <1>1, <1>2, <2>1, <3>2, <3>3, <3>4, ReadFine DEF OkIf
    <3>5. CASE ~BranchExists(r, k.in.branch)
      BY <1>1, <1>2, <2>1, <3>2, <3>3, <3>5, FailedIs, StatusFine DEF OkIf
    <3>6. QED
      BY <3>4, <3>5
  <2>2. CASE k.in.kind = "get"
    <3>1. RefOf(k) = k.in.ref /\ PathOf(k) = k.in.path
      BY <2>2 DEF RefOf, PathOf, IndexCalls
    <3>2. (IF k.in.path \in Listed(r, k.in.ref) THEN <<"OK", Visible(r, k.in.ref)[k.in.path]>>
           ELSE <<"NotFound">>) \in sn
      BY <1>1, <2>2 DEF Promised
    <3>3. CASE k.pc = "ref"
      <4>1. reply = OkIf(RefExists(r, k.in.ref)) /\ n = 0
        BY <1>4, <3>1, <3>3 DEF Reply, Applies, Writes
      <4>2. CASE RefExists(r, k.in.ref)
        <5>1. GoesOn(k, reply, body) = GoOn(k, "get", NoAnswer)
          BY <1>2, <3>3, <4>1, <4>2 DEF OkIf
        <5>2. PcOK(k.in, "get")
          BY <2>2 DEF PcOK
        <5>3. QED
          BY <1>1, <2>2, <4>1, <5>1, <5>2, GoOnFine DEF ReportPcs
      <4>3. CASE ~RefExists(r, k.in.ref)
        <5>1. k.in.path \notin Listed(r, k.in.ref)
          BY <4>3 DEF Listed
        <5>2. QED
          BY <1>1, <1>2, <3>2, <4>1, <4>3, <5>1, FailedIs, StatusFine DEF OkIf
      <4>4. QED
        BY <4>2, <4>3
    <3>4. CASE k.pc = "get"
      <4>1. /\ reply = OkIf(k.in.path \in Listed(r, k.in.ref))
            /\ reply = "ok" => body = Visible(r, k.in.ref)[k.in.path]
        BY <1>4, <3>1, <3>4 DEF Reply, Body
      <4>2. CASE k.in.path \in Listed(r, k.in.ref)
        BY <1>1, <1>2, <3>2, <3>4, <4>1, <4>2, ReadFine DEF OkIf
      <4>3. CASE k.in.path \notin Listed(r, k.in.ref)
        BY <1>1, <1>2, <3>2, <3>4, <4>1, <4>3, FailedIs, StatusFine DEF OkIf
      <4>4. QED
        BY <4>2, <4>3
    <3>5. QED
      BY <1>1, <2>2, <3>3, <3>4
  <2>3. QED
    BY <1>1, <2>1, <2>2
<1>5. QED
  BY <1>3, <1>4 DEF Replied

(* DeleteObject(): that there is a branch was seen first; an object that   *)
(* is not there has gone.                                                  *)
LEMMA DeleteObjectFine ==
    ASSUME NEW r, NEW k, CallShape(k), NEW sn, NEW ls, NEW del, NEW reply, NEW body, NEW n,
           Run(r, k, sn, ls, del), Replied(r, k, reply, body, n), k.in.kind = "delete_object"
    PROVE  Fine(r, With(GoesOn(k, reply, body), n), k.in, sn, ls, del)
<1>1. /\ k.pc \in {"exists", "delete_object"} /\ k.applied = 0 /\ n \in Nat
      /\ k.in \in Calls /\ k.in.kind \in Writes /\ k.in.kind \notin IndexCalls
  BY DEF Run, ReqOK, PcOK, IndexCalls, Writes, Replied
<1>2. GoesOn(k, reply, body) =
        IF k.pc = "exists" /\ reply = "ok" THEN GoOn(k, "delete_object", NoAnswer)
        ELSE Finish(k, <<Status[IF k.pc = "delete_object" /\ reply = "not_found" THEN "ok" ELSE reply]>>)
  BY DEF GoesOn, DeleteObjectGoesOn, Answer
<1>3. /\ (IF BranchExists(r, k.in.branch) THEN <<"OK">> ELSE <<"NotFound">>) \in sn
      /\ k.in.path \notin Listed(r, k.in.branch) => <<"Gone">> \in sn
  BY DEF Promised, Run
<1>4. CASE reply = "failed"
  <2>1. GoesOn(k, reply, body) = Answer(k, "failed")
    BY <1>1, <1>2, <1>4 DEF Answer
  <2>2. QED
    BY <1>1, <2>1, FailedFine
<1>5. CASE reply = Reply(r, k) /\ n = (IF Applies(r, k) THEN 1 ELSE 0)
  <2>1. CASE k.pc = "exists"
    <3>1. BranchOf(k) = k.in.branch /\ n = 0
      BY <1>5, <2>1 DEF BranchOf, Applies, Writes
    <3>2. reply = OkIf(BranchExists(r, k.in.branch))
      BY <1>5, <2>1, <3>1 DEF Reply
    <3>3. CASE BranchExists(r, k.in.branch)
      <4>1. GoesOn(k, reply, body) = GoOn(k, "delete_object", NoAnswer)
        BY <1>2, <2>1, <3>2, <3>3 DEF OkIf
      <4>2. PcOK(k.in, "delete_object")
        BY DEF PcOK
      <4>3. QED
        BY <1>1, <1>3, <3>1, <3>3, <4>1, <4>2, GoOnFine DEF ReportPcs
    <3>4. CASE ~BranchExists(r, k.in.branch)
      <4>1. GoesOn(k, reply, body) = Finish(k, <<"NotFound">>)
        BY <1>2, <2>1, <3>2, <3>4, FailedIs DEF OkIf
      <4>2. QED
        BY <1>1, <1>3, <3>1, <3>4, <4>1, StatusFine
    <3>5. QED
      BY <3>3, <3>4
  <2>2. CASE k.pc = "delete_object"
    <3>1. PathOf(k) = k.in.path
      BY <1>1 DEF PathOf
    <3>2. reply = OkIf(k.in.path \in Listed(r, k.in.branch))
      BY <1>5, <2>2, <3>1 DEF Reply
    <3>3. GoesOn(k, reply, body) = Finish(k, <<"OK">>)
      BY <1>2, <2>2, <3>2, FailedIs DEF OkIf
    <3>4. <<"OK">> \in sn
      BY <2>2 DEF Run
    <3>5. n = 1 \/ <<"Gone">> \in sn
      BY <1>3, <1>5, <2>2, <3>2 DEF OkIf, Applies, Writes
    <3>6. QED
      BY <1>1, <3>3, <3>4, <3>5, StatusFine
  <2>3. QED
    BY <1>1, <2>1, <2>2
<1>6. QED
  BY <1>4, <1>5 DEF Replied

(* ListObjects(), page by page.                                            *)
LEMMA ListFine ==
    ASSUME NEW r, NEW k, CallShape(k), NEW sn, NEW ls, NEW del, NEW reply, NEW body, NEW n,
           Run(r, k, sn, ls, del), Replied(r, k, reply, body, n), k.in.kind = "list"
    PROVE  Fine(r, With(GoesOn(k, reply, body), n), k.in, sn, ls, del)
<1> DEFINE listed == Listed(r, k.in.ref)
           new == NextPage(listed, k.note)
<1>1. /\ k.pc \in {"ref", "list"} /\ n \in Nat /\ k.in.kind \notin Writes
      /\ k.in.kind \notin IndexCalls /\ PagesOK(k, ls, listed)
  BY DEF Run, ReqOK, PcOK, IndexCalls, Writes, Replied
<1>2. GoesOn(k, reply, body) = ListObjectsGoesOn(k, reply, body)
  BY DEF GoesOn
<1>3. (IF RefExists(r, k.in.ref) THEN <<"OK">> ELSE <<"NotFound">>) \in sn
  BY DEF Promised, Run
<1>4. CASE reply = "failed"
  <2>1. GoesOn(k, reply, body) = Answer(k, "failed")
    BY <1>2, <1>4 DEF ListObjectsGoesOn
  <2>2. QED
    BY <1>1, <2>1, FailedFine
<1>5. CASE /\ reply = Reply(r, k) /\ n = (IF Applies(r, k) THEN 1 ELSE 0)
           /\ reply = "ok" => body = Body(r, k)
  <2>1. RefOf(k) = k.in.ref /\ n = 0
    BY <1>1, <1>5 DEF RefOf, Applies, Writes
  <2>2. reply = OkIf(RefExists(r, k.in.ref))
    BY <1>1, <1>5, <2>1 DEF Reply
  <2>3. CASE ~RefExists(r, k.in.ref)
    <3>1. GoesOn(k, reply, body) = Finish(k, <<"NotFound">>)
      BY <1>2, <2>2, <2>3, FailedIs DEF ListObjectsGoesOn, OkIf, Answer
    <3>2. QED
      BY <1>1, <1>3, <2>3, <3>1, StatusFine
  <2>4. CASE RefExists(r, k.in.ref) /\ k.pc = "ref"
    <3>1. GoesOn(k, reply, body) = GoOn(k, "list", FirstPage)
      BY <1>2, <2>2, <2>4 DEF ListObjectsGoesOn, OkIf
    <3>2. PcOK(k.in, "list")
      BY DEF PcOK
    <3>3. ls.always \subseteq Paths
      BY <1>1 DEF PagesOK, Listed
    <3>4. PagesOK([in |-> k.in, pc |-> "list", note |-> FirstPage], ls, listed)
      <4>1. \A p \in ls.always : p \in Nat /\ p # 0
        BY <3>3, LakeFSAssumption
      <4>2. FirstPage.after = 0 /\ FirstPage.found = {}
        BY DEF FirstPage
      <4>3. \A p \in ls.always : ~(p <= FirstPage.after)
        BY <4>1, <4>2
      <4> HIDE DEF listed
      <4>4. QED
        BY <1>1, <4>2, <4>3 DEF PagesOK
    <3> HIDE DEF listed
    <3>5. QED
      BY <1>1, <2>1, <3>1, <3>2, <3>4, GoOnFine DEF ReportPcs, listed
  <2>5. CASE RefExists(r, k.in.ref) /\ k.pc = "list"
    <3>1. body = listed
      BY <1>5, <2>1, <2>2, <2>5 DEF Body, OkIf
    <3>2. /\ listed \in SUBSET Paths /\ k.note.after \in Nat /\ k.note.found \subseteq ls.ever
          /\ ls.always \subseteq listed /\ listed \subseteq ls.ever
          /\ \A p \in ls.always : p <= k.note.after => p \in k.note.found
      BY <1>1, <2>5 DEF PagesOK, Listed
    <3> HIDE DEF listed
    <3>3. /\ new.after \in Nat /\ k.note.after <= new.after
          /\ k.note.found \subseteq new.found
          /\ new.found \subseteq k.note.found \cup listed
          /\ \A p \in listed : k.note.after < p /\ p <= new.after => p \in new.found
          /\ IsLast(listed, k.note) => \A p \in listed : k.note.after < p => p \in new.found
      BY <3>2, PageStep
    <3>4. \A p \in ls.always : p \in Nat
      BY <3>2, LakeFSAssumption
    <3> HIDE DEF new
    <3>5. CASE IsLast(listed, k.note)
      <4> DEFINE f == With(Finish(k, <<"OK", new.found>>), n)
      <4>1. GoesOn(k, reply, body) = Finish(k, <<"OK", new.found>>)
        BY <1>2, <2>2, <2>5, <3>1, <3>5 DEF ListObjectsGoesOn, OkIf, new
      <4>2. /\ CallShape(f) /\ f.in = k.in /\ f.pc = "done" /\ f.answer = <<"OK", new.found>>
        BY <1>1, FinishIs
      <4> HIDE DEF f
      <4>3. f.answer[1] = "OK" /\ f.answer[2] = new.found
        BY <4>2
      <4>4. ls.always \subseteq new.found /\ new.found \subseteq ls.ever
        <5>1. ASSUME NEW p \in ls.always
              PROVE  p \in new.found
          <6>1. p \in listed /\ p \in Nat /\ k.note.after \in Nat
            BY <3>2, <3>4
          <6>2. CASE p <= k.note.after
            BY <3>2, <3>3, <6>2
          <6>3. CASE k.note.after < p
            BY <3>3, <3>5, <6>1, <6>3
          <6>4. QED
            BY <6>1, <6>2, <6>3
        <5>2. QED
          BY <3>2, <3>3, <5>1
      <4>5. <<"OK">> \in sn
        BY <1>3, <2>5
      <4>6. Done(r, f, sn, ls, del)
        BY <1>1, <4>2, <4>3, <4>4, <4>5 DEF Done
      <4>7. Fine(r, f, k.in, sn, ls, del)
        BY <4>2, <4>6 DEF Fine
      <4>8. QED
        BY <4>1, <4>7 DEF f
    <3>6. CASE ~IsLast(listed, k.note)
      <4>1. GoesOn(k, reply, body) = GoOn(k, "list", new)
        BY <1>2, <2>2, <2>5, <3>1, <3>6 DEF ListObjectsGoesOn, OkIf, new
      <4>2. PcOK(k.in, "list")
        BY DEF PcOK
      <4>3. ASSUME NEW p \in ls.always, p <= new.after
            PROVE  p \in new.found
        <5>1. p \in listed /\ p \in Nat /\ k.note.after \in Nat
          BY <3>2, <3>4
        <5>2. CASE p <= k.note.after
          BY <3>2, <3>3, <5>2
        <5>3. CASE k.note.after < p
          BY <3>3, <4>3, <5>1, <5>3
        <5>4. QED
          BY <5>1, <5>2, <5>3
      <4>4. PagesOK([in |-> k.in, pc |-> "list", note |-> new], ls, listed)
        BY <3>2, <3>3, <4>3 DEF PagesOK
      <4>5. QED
        BY <1>1, <2>1, <4>1, <4>2, <4>4, GoOnFine DEF ReportPcs, listed
    <3>7. QED
      BY <3>5, <3>6
  <2>6. QED
    BY <1>1, <2>3, <2>4, <2>5
<1>6. QED
  BY <1>4, <1>5 DEF Replied

(* Merge(): first both branches, then the POST.                            *)
LEMMA MergePromise ==
    ASSUME NEW r, NEW x, x.kind = "merge"
    PROVE  /\ ~BranchExists(r, x.source) \/ ~BranchExists(r, x.target) =>
                <<"NotFound">> \in Promised(r, x)
           /\ \A b \in {x.source, x.target} : BranchExists(r, b) /\ ~IsClean(r, b) =>
                <<"FailedPrecondition">> \in Promised(r, x)
           /\ BranchExists(r, x.source) /\ BranchExists(r, x.target) /\ IsClean(r, x.target) =>
                (IF MergeConflicts(r, x.source, x.target) # {} THEN <<"Conflict">> ELSE <<"OK">>)
                    \in Promised(r, x)
<1> DEFINE gone    == {b \in {x.source, x.target} : ~BranchExists(r, b)}
           unclean == {b \in {x.source, x.target} \ gone : ~IsClean(r, b)}
           verdict == IF MergeConflicts(r, x.source, x.target) # {} THEN <<"Conflict">> ELSE <<"OK">>
<1>1. Promised(r, x) =
        {<<"NotFound">> : b \in gone} \cup {<<"FailedPrecondition">> : b \in unclean}
            \cup IF gone # {} \/ x.target \in unclean THEN {} ELSE {verdict}
  BY DEF Promised
<1> HIDE DEF verdict
<1>2. QED
  BY <1>1 DEF verdict

LEMMA MergeFine ==
    ASSUME NEW r, NEW k, CallShape(k), NEW sn, NEW ls, NEW del, NEW reply, NEW body, NEW n,
           Run(r, k, sn, ls, del), Replied(r, k, reply, body, n), k.in.kind = "merge",
           k.pc \notin ReportPcs
    PROVE  Fine(r, With(GoesOn(k, reply, body), n), k.in, sn, ls, del)
<1> DEFINE a == k.in.source
           b == k.in.target
<1>1. /\ k.pc \in {"source_clean", "target_clean", "merge"} /\ k.applied = 0 /\ n \in Nat
      /\ k.in \in Calls /\ k.in.kind \in Writes /\ k.in.kind \notin IndexCalls
      /\ Promised(r, k.in) \subseteq sn
  BY DEF Run, ReqOK, PcOK, IndexCalls, Writes, Replied, ReportPcs
<1>2. GoesOn(k, reply, body) = MergeGoesOn(k, reply, body)
  BY DEF GoesOn
<1>3. CASE reply = "failed"
  <2>1. GoesOn(k, reply, body) = Answer(k, "failed")
    BY <1>1, <1>2, <1>3 DEF MergeGoesOn
  <2>2. QED
    BY <1>1, <2>1, FailedFine
<1>4. CASE reply = Reply(r, k) /\ n = (IF Applies(r, k) THEN 1 ELSE 0)
  <2>1. ASSUME k.pc \in {"source_clean", "target_clean"}, NEW x, x \in {a, b}, BranchOf(k) = x,
               NEW next, PcOK(k.in, next), next \notin {"done", "create", "commit_exists",
                                                        "delete_object"} \cup ReportPcs,
               GoesOn(k, reply, body) = IF reply = "ok" THEN GoOn(k, next, NoAnswer)
                                        ELSE Finish(k, <<Status[reply]>>)
        PROVE  Fine(r, With(GoesOn(k, reply, body), n), k.in, sn, ls, del)
    <3>1. n = 0 /\ reply = IF BranchExists(r, x) /\ ~IsClean(r, x) THEN "unclean"
                           ELSE OkIf(BranchExists(r, x))
      BY <1>4, <2>1 DEF Applies, Writes, Reply
    <3>2. CASE BranchExists(r, x) /\ ~IsClean(r, x)
      <4>1. GoesOn(k, reply, body) = Finish(k, <<"FailedPrecondition">>)
        BY <2>1, <3>1, <3>2, FailedIs
      <4>2. <<"FailedPrecondition">> \in sn
        BY <1>1, <2>1, <3>2, MergePromise
      <4>3. QED
        BY <1>1, <3>1, <4>1, <4>2, StatusFine
    <3>3. CASE ~BranchExists(r, x)
      <4>1. GoesOn(k, reply, body) = Finish(k, <<"NotFound">>)
        BY <2>1, <3>1, <3>3, FailedIs DEF OkIf
      <4>2. <<"NotFound">> \in sn
        BY <1>1, <2>1, <3>3, MergePromise
      <4>3. QED
        BY <1>1, <3>1, <4>1, <4>2, StatusFine
    <3>4. CASE BranchExists(r, x) /\ IsClean(r, x)
      <4>1. GoesOn(k, reply, body) = GoOn(k, next, NoAnswer)
        BY <2>1, <3>1, <3>4 DEF OkIf
      <4>2. next # "done" /\ next # "create" /\ next # "commit_exists"
            /\ next # "delete_object" /\ next \notin ReportPcs
        BY <2>1
      <4>3. PcOK(k.in, next)
        BY <2>1
      <4>4. QED
        BY <1>1, <3>1, <4>1, <4>2, <4>3, GoOnFine
    <3>5. QED
      BY <3>2, <3>3, <3>4
  <2>2. CASE k.pc = "source_clean"
    <3>1. BranchOf(k) = a
      BY <2>2 DEF BranchOf
    <3>2. GoesOn(k, reply, body) = IF reply = "ok" THEN GoOn(k, "target_clean", NoAnswer)
                                   ELSE Finish(k, <<Status[reply]>>)
      BY <1>2, <2>2 DEF MergeGoesOn, Answer
    <3>3. PcOK(k.in, "target_clean")
      BY DEF PcOK
    <3>4. QED
      BY <2>1, <2>2, <3>1, <3>2, <3>3 DEF ReportPcs
  <2>3. CASE k.pc = "target_clean"
    <3>1. BranchOf(k) = b
      BY <2>3 DEF BranchOf
    <3>2. GoesOn(k, reply, body) = IF reply = "ok" THEN GoOn(k, "merge", NoAnswer)
                                   ELSE Finish(k, <<Status[reply]>>)
      BY <1>2, <2>3 DEF MergeGoesOn, Answer
    <3>3. PcOK(k.in, "merge")
      BY DEF PcOK
    <3>4. QED
      BY <2>1, <2>3, <3>1, <3>2, <3>3 DEF ReportPcs
  <2>4. CASE k.pc = "merge"
    <3>1. GoesOn(k, reply, body) = IF reply = "conflict" THEN GoOn(k, "base", NoReport)
                                   ELSE Finish(k, <<Status[reply]>>)
      BY <1>2, <2>4 DEF MergeGoesOn, Answer, ReportSteps
    <3>2. /\ reply = IF BothExist(r, k) /\ ~IsClean(r, b) THEN "unclean"
                     ELSE IF BothExist(r, k) /\ MergeConflicts(r, a, b) # {} THEN "conflict"
                     ELSE OkIf(BothExist(r, k))
          /\ n = IF reply = "ok" THEN 1 ELSE 0
      BY <1>4, <2>4 DEF Reply, Applies, Writes
    <3>3. CASE ~BothExist(r, k)
      <4>1. <<"NotFound">> \in sn /\ reply = "not_found"
        BY <1>1, <3>2, <3>3, MergePromise DEF BothExist, OkIf
      <4>2. GoesOn(k, reply, body) = Finish(k, <<"NotFound">>) /\ n = 0
        BY <3>1, <3>2, <4>1, FailedIs
      <4>3. QED
        BY <1>1, <4>1, <4>2, StatusFine
    <3>4. CASE BothExist(r, k) /\ ~IsClean(r, b)
      <4>1. <<"FailedPrecondition">> \in sn /\ reply = "unclean"
        BY <1>1, <3>2, <3>4, MergePromise DEF BothExist
      <4>2. GoesOn(k, reply, body) = Finish(k, <<"FailedPrecondition">>) /\ n = 0
        BY <3>1, <3>2, <4>1, FailedIs
      <4>3. QED
        BY <1>1, <4>1, <4>2, StatusFine
    <3>5. CASE BothExist(r, k) /\ IsClean(r, b) /\ MergeConflicts(r, a, b) # {}
      <4>1. <<"Conflict">> \in sn /\ reply = "conflict"
        BY <1>1, <3>2, <3>5, MergePromise DEF BothExist
      <4>2. GoesOn(k, reply, body) = GoOn(k, "base", NoReport) /\ n = 0
        BY <3>1, <3>2, <4>1
      <4>3. PcOK(k.in, "base")
        BY DEF PcOK
      <4>4. ReportOK(r, [in |-> k.in, pc |-> "base", note |-> NoReport], del)
        BY DEF ReportOK, NoReport
      <4>5. QED
        BY <1>1, <4>1, <4>2, <4>3, <4>4, GoOnFine
    <3>6. CASE BothExist(r, k) /\ IsClean(r, b) /\ MergeConflicts(r, a, b) = {}
      <4>1. <<"OK">> \in sn /\ reply = "ok"
        BY <1>1, <3>2, <3>6, MergePromise DEF BothExist, OkIf
      <4>2. GoesOn(k, reply, body) = Finish(k, <<"OK">>) /\ n = 1
        BY <3>1, <3>2, <4>1, FailedIs
      <4>3. QED
        BY <1>1, <4>1, <4>2, StatusFine
    <3>7. QED
      BY <3>3, <3>4, <3>5, <3>6
  <2>5. QED
    BY <1>1, <2>2, <2>3, <2>4
<1>5. QED
  BY <1>3, <1>4 DEF Replied

(* The details of a conflict.                                              *)
LEMMA ReportFine ==
    ASSUME NEW r, GoodRepo(r), NEW k, CallShape(k), NEW sn, NEW ls, NEW del,
           NEW reply, NEW body, NEW n,
           Run(r, k, sn, ls, del), Replied(r, k, reply, body, n), k.in.kind = "merge",
           k.pc \in ReportPcs
    PROVE  Fine(r, With(GoesOn(k, reply, body), n), k.in, sn, ls, del)
<1> DEFINE a == k.in.source
           b == k.in.target
           h == r.head[a]
           t == r.head[b]
           base == k.note.base
           report == [k.note EXCEPT ![k.pc] = IF k.pc = "paths" THEN NextPage(body, @) ELSE body]
           i == CHOOSE i \in DOMAIN ReportSteps : ReportSteps[i] = k.pc
<1>1. /\ k.applied = 0 /\ n \in Nat /\ k.in \in Calls /\ k.in.kind \in Writes
      /\ k.in.kind \notin IndexCalls /\ Promised(r, k.in) \subseteq sn
      /\ <<"Conflict">> \in sn /\ ReportOK(r, k, del)
  BY DEF Run, ReqOK, IndexCalls, Writes, Replied
<1>2. GoesOn(k, reply, body) =
        IF reply # "ok" THEN Finish(k, <<Status[reply]>>)
        ELSE IF k.pc = "paths" /\ ~IsLast(body, k.note.paths) THEN GoOn(k, "paths", report)
        ELSE IF i = Len(ReportSteps) THEN Finish(k, <<"Conflict", report>>)
        ELSE GoOn(k, ReportSteps[i + 1], report)
  <2>1. GoesOn(k, reply, body) = ReportGoesOn(k, reply, body)
    BY DEF GoesOn, MergeGoesOn, ReportPcs
  <2>2. QED
    BY <2>1 DEF ReportGoesOn, Answer
<1>3. CASE reply = "failed"
  <2>1. GoesOn(k, reply, body) = Answer(k, "failed")
    BY <1>2, <1>3 DEF Answer
  <2>2. QED
    BY <1>1, <2>1, FailedFine
<1>4. CASE /\ reply = Reply(r, k) /\ n = (IF Applies(r, k) THEN 1 ELSE 0)
           /\ reply = "ok" => body = Body(r, k)
  <2>1. n = 0
    BY <1>4 DEF Applies, Writes, ReportPcs
  <2>2. /\ k.pc \in {"base", "paths"} => reply = OkIf(BothExist(r, k))
        /\ k.pc = "source_head" => reply = OkIf(BranchExists(r, a))
        /\ k.pc = "target_head" => reply = OkIf(BranchExists(r, b))
    BY <1>4 DEF Reply, BranchOf
  <2>3. a \in Branches /\ b \in Branches
    BY <1>1, CallFields
  <2>4. CASE reply # "ok"
    <3>1. reply = "not_found" /\ (~BranchExists(r, a) \/ ~BranchExists(r, b))
      BY <2>2, <2>4 DEF OkIf, BothExist, ReportPcs
    <3>2. <<"NotFound">> \in sn
      BY <1>1, <3>1, MergePromise
    <3>3. GoesOn(k, reply, body) = Finish(k, <<"NotFound">>)
      BY <1>2, <2>4, <3>1, FailedIs
    <3>4. QED
      BY <1>1, <2>1, <3>2, <3>3, StatusFine
  <2>5. CASE reply = "ok"
    <3>1. ASSUME NEW pc, PcOK(k.in, pc), pc \in ReportPcs \ {"base"},
                 GoesOn(k, reply, body) = GoOn(k, pc, report),
                 ReportOK(r, [in |-> k.in, pc |-> pc, note |-> report], del)
          PROVE  Fine(r, With(GoesOn(k, reply, body), n), k.in, sn, ls, del)
      <4>1. pc # "done" /\ pc # "create" /\ pc # "commit_exists" /\ pc # "delete_object"
        BY <3>1 DEF ReportPcs
      <4> HIDE DEF report
      <4>2. QED
        BY <1>1, <2>1, <3>1, <4>1, GoOnFine
    <3>2. k.note \in [base : {base}, paths : {k.note.paths},
                      source_head : {k.note.source_head}, target_head : {k.note.target_head}]
      BY <1>1 DEF ReportOK
    <3>3. CASE k.pc = "base"
      <4>1. i = 1
        BY <3>3 DEF ReportSteps
      <4>2. GoesOn(k, reply, body) = GoOn(k, "paths", report)
        BY <1>2, <2>5, <3>3, <4>1 DEF ReportSteps
      <4>3. BranchExists(r, a) /\ BranchExists(r, b)
        BY <2>2, <2>5, <3>3 DEF OkIf, BothExist
      <4>4. body = FindMergeBase(r, h, t)
        BY <1>4, <2>5, <3>3 DEF Body, MergeBase
      <4>5. body \in CommonAncestors(r, h, t)
        BY <2>3, <4>3, <4>4, GoodHeads, MergeBaseIsCommon DEF GoodRepo
      <4>6. report \in [base : {body}, paths : {k.note.paths},
                        source_head : {k.note.source_head}, target_head : {k.note.target_head}]
        <5>1. report = [k.note EXCEPT !.base = body]
          BY <3>3
        <5> HIDE DEF report
        <5>2. QED
          BY <3>2, <5>1
      <4> HIDE DEF report
      <4>7. ReportOK(r, [in |-> k.in, pc |-> "paths", note |-> report], del)
        BY <4>3, <4>5, <4>6 DEF ReportOK
      <4>8. QED
        BY <3>1, <4>2, <4>7 DEF ReportPcs, PcOK
    <3>4. CASE k.pc = "paths"
      <4>1. i = 2
        BY <3>4 DEF ReportSteps
      <4>2. PICK pc \in {"paths", "source_head"} : GoesOn(k, reply, body) = GoOn(k, pc, report)
        BY <1>2, <2>5, <3>4, <4>1 DEF ReportSteps
      <4>3. report \in [base : {base}, paths : {NextPage(body, k.note.paths)},
                        source_head : {k.note.source_head}, target_head : {k.note.target_head}]
        <5>1. report = [k.note EXCEPT !.paths = NextPage(body, k.note.paths)]
          BY <3>4
        <5> HIDE DEF report
        <5>2. QED
          BY <3>2, <5>1
      <4> HIDE DEF report
      <4>4. ReportOK(r, [in |-> k.in, pc |-> pc, note |-> report], del)
        BY <1>1, <3>4, <4>2, <4>3 DEF ReportOK
      <4>5. QED
        BY <3>1, <4>2, <4>4 DEF ReportPcs, PcOK
    <3>5. CASE k.pc = "source_head"
      <4>1. i = 3
        BY <3>5 DEF ReportSteps
      <4>2. GoesOn(k, reply, body) = GoOn(k, "target_head", report)
        BY <1>2, <2>5, <3>5, <4>1 DEF ReportSteps
      <4>3. BranchExists(r, a)
        BY <2>2, <2>5, <3>5 DEF OkIf
      <4>4. body = h /\ h \in CommitIds(r)
        BY <1>4, <2>3, <2>5, <3>5, <4>3, GoodHeads DEF Body, BranchOf, GetBranchHead
      <4>5. report \in [base : {base}, paths : {k.note.paths},
                        source_head : {h}, target_head : {k.note.target_head}]
        <5>1. report = [k.note EXCEPT !.source_head = h]
          BY <3>5, <4>4
        <5> HIDE DEF report
        <5>2. QED
          BY <3>2, <5>1
      <4> HIDE DEF report
      <4>6. ReportOK(r, [in |-> k.in, pc |-> "target_head", note |-> report], del)
        BY <1>1, <3>5, <4>4, <4>5 DEF ReportOK, CommonAncestors
      <4>7. QED
        BY <3>1, <4>2, <4>6 DEF ReportPcs, PcOK
    <3>6. CASE k.pc = "target_head"
      <4> DEFINE f == With(Finish(k, <<"Conflict", report>>), n)
      <4>1. i = 4
        BY <3>6 DEF ReportSteps
      <4>2. GoesOn(k, reply, body) = Finish(k, <<"Conflict", report>>)
        BY <1>2, <2>5, <3>6, <4>1 DEF ReportSteps
      <4>3. BranchExists(r, b)
        BY <2>2, <2>5, <3>6 DEF OkIf
      <4>4. body = t /\ t \in CommitIds(r)
        BY <1>4, <2>3, <2>5, <3>6, <4>3, GoodHeads DEF Body, BranchOf, GetBranchHead
      <4>5. report \in [base : {base}, paths : {k.note.paths},
                        source_head : {k.note.source_head}, target_head : {t}]
        <5>1. report = [k.note EXCEPT !.target_head = t]
          BY <3>6, <4>4
        <5> HIDE DEF report
        <5>2. QED
          BY <3>2, <5>1
      <4> HIDE DEF report
      <4>6. /\ CallShape(f) /\ f.in = k.in /\ f.pc = "done" /\ f.answer = <<"Conflict", report>>
            /\ f.applied = k.applied + n
        BY <1>1, FinishIs
      <4> HIDE DEF f
      <4>7. f.answer[1] = "Conflict" /\ f.answer[2] = report /\ f.applied = 0
        BY <1>1, <2>1, <4>6
      <4>8. ~del => /\ report.source_head \in CommitIds(r) /\ report.target_head \in CommitIds(r)
                    /\ report.base \in CommonAncestors(r, report.source_head, report.target_head)
        BY <1>1, <3>6, <4>4, <4>5 DEF ReportOK, CommonAncestors
      <4>9. Done(r, f, sn, ls, del)
        BY <1>1, <4>6, <4>7, <4>8 DEF Done
      <4>10. Fine(r, f, k.in, sn, ls, del)
        BY <4>6, <4>9 DEF Fine
      <4>11. QED
        BY <4>2, <4>10 DEF f
    <3>7. QED
      BY <3>3, <3>4, <3>5, <3>6 DEF ReportPcs
  <2>6. QED
    BY <2>4, <2>5
<1>5. QED
  BY <1>3, <1>4 DEF Replied

(* AddIndexRow() and RemoveIndexRow(): what is read is an index object.    *)
LEMMA IndexFine ==
    ASSUME NEW r, GoodRepo(r), NEW k, CallShape(k), NEW sn, NEW ls, NEW del,
           NEW reply, NEW body, NEW n,
           Run(r, k, sn, ls, del), Replied(r, k, reply, body, n), k.in.kind \in IndexCalls
    PROVE  Fine(r, With(GoesOn(k, reply, body), n), k.in, sn, ls, del)
<1>1. /\ k.pc \in {"ref", "get", "put"} /\ n \in Nat /\ k.in.kind \notin Writes
      /\ k.in \in Calls /\ k.in.kind # "list"
      /\ k.pc # "put" => n = 0
  BY DEF Run, ReqOK, PcOK, IndexCalls, Writes, Replied, Applies
<1>2. ASSUME NEW pc \in {"get", "put"}, NEW note, k.pc # "put",
             pc = "put" => note \in IndexObjects \cup {Absent}
      PROVE  Fine(r, With(GoOn(k, pc, note), n), k.in, sn, ls, del)
  <2>1. pc # "done" /\ pc # "create" /\ pc # "commit_exists" /\ pc # "delete_object"
        /\ pc \notin ReportPcs /\ PcOK(k.in, pc)
    BY DEF ReportPcs, PcOK
  <2>2. QED
    BY <1>1, <1>2, <2>1, GoOnFine
<1>3. ASSUME NEW st, st # "Conflict"
      PROVE  Fine(r, With(Finish(k, <<st>>), n), k.in, sn, ls, del)
  BY <1>1, <1>3, StatusFine DEF IndexCalls
<1>4. reply = "ok" /\ k.pc = "get" => body \in IndexObjects
  <2> SUFFICES ASSUME reply = "ok", k.pc = "get"
               PROVE  body \in IndexObjects
    OBVIOUS
  <2>1. RefOf(k) = k.in.branch /\ PathOf(k) = IndexPath /\ k.in.branch \in Branches
    BY <1>1, CallFields DEF RefOf, PathOf, IndexCalls
  <2>2. IndexPath \in Listed(r, k.in.branch) /\ body = Visible(r, k.in.branch)[IndexPath]
    BY <2>1 DEF Replied, Reply, Body, OkIf
  <2>3. BranchExists(r, k.in.branch) /\ body = ResolveState(r, k.in.branch)[IndexPath] /\ body # Absent
    BY <2>1, <2>2 DEF Listed, RefExists, Visible
  <2>4. QED
    BY <2>1, <2>3, StagedIndex
<1>5. k.pc = "put" => Status[reply] # "Conflict"
  <2>1. k.pc = "put" => reply \in {"ok", "not_found", "failed"}
    BY DEF Replied, Reply, OkIf
  <2>2. QED
    BY <2>1, FailedIs
<1>6. CASE k.in.kind = "add_row"
  <2>1. GoesOn(k, reply, body) = AddIndexRowGoesOn(k, reply, body)
    BY <1>6 DEF GoesOn
  <2>2. CASE k.pc = "ref"
    BY <1>2, <2>1, <2>2 DEF AddIndexRowGoesOn
  <2>3. CASE k.pc = "get"
    BY <1>2, <1>3, <1>4, <2>1, <2>3 DEF AddIndexRowGoesOn
  <2>4. CASE k.pc = "put"
    BY <1>3, <1>5, <2>1, <2>4 DEF AddIndexRowGoesOn, Answer
  <2>5. QED
    BY <1>1, <2>2, <2>3, <2>4
<1>7. CASE k.in.kind = "remove_row"
  <2>1. GoesOn(k, reply, body) = RemoveIndexRowGoesOn(k, reply, body)
    BY <1>7 DEF GoesOn
  <2>2. CASE k.pc = "ref" /\ reply = "ok"
    BY <1>2, <2>1, <2>2 DEF RemoveIndexRowGoesOn
  <2>3. CASE k.pc = "get" /\ reply = "ok"
    BY <1>2, <1>4, <2>1, <2>3 DEF RemoveIndexRowGoesOn
  <2>4. CASE ~(k.pc = "ref" /\ reply = "ok") /\ ~(k.pc = "get" /\ reply = "ok")
    <3>1. GoesOn(k, reply, body) = Finish(k, <<"OK">>)
      BY <2>1, <2>4, FailedIs DEF RemoveIndexRowGoesOn, Answer
    <3>2. QED
      BY <1>3, <3>1
  <2>5. QED
    BY <2>2, <2>3, <2>4
<1>8. QED
  BY <1>6, <1>7 DEF IndexCalls

LEMMA GoesOnFine ==
    ASSUME NEW r, GoodRepo(r), NEW k, CallShape(k), NEW sn, NEW ls, NEW del,
           NEW reply, NEW body, NEW n,
           Run(r, k, sn, ls, del), Replied(r, k, reply, body, n)
    PROVE  Fine(r, With(GoesOn(k, reply, body), n), k.in, sn, ls, del)
<1>1. k.in \in Calls
  BY DEF Run, ReqOK
<1>2. k.in.kind \in {"delete", "commit", "head", "create", "get", "list", "put",
                     "delete_object", "merge"} \cup IndexCalls
  BY <1>1, CallFields
<1>3. CASE k.in.kind \in {"delete", "put", "commit"}
  BY <1>3, WriteFine
<1>4. CASE k.in.kind \in {"head", "get"}
  BY <1>4, GetFine
<1>5. CASE k.in.kind = "create"
  BY <1>5, CreateFine
<1>6. CASE k.in.kind = "list"
  BY <1>6, ListFine
<1>7. CASE k.in.kind = "delete_object"
  BY <1>7, DeleteObjectFine
<1>8. CASE k.in.kind = "merge"
  BY <1>8, MergeFine, ReportFine
<1>9. CASE k.in.kind \in IndexCalls
  BY <1>9, IndexFine
<1>10. QED
  BY <1>2, <1>3, <1>4, <1>5, <1>6, <1>7, <1>8, <1>9

-----------------------------------------------------------------------------
(* The steps.                                                              *)

ClientOK(c) ==
    /\ CallShape(call[c])
    /\ ~Running(c) => Done(repo, call[c], seen[c], listable[c], deleted)
    /\ Running(c) => /\ Run(repo, call[c], seen[c], listable[c], deleted)
                     /\ call[c].in \in bounds.calls

(* The inductive invariant.                                                *)
LakeFSOK ==
    /\ GoodRepo(repo)
    /\ bounds \in [calls : {bounds.calls}, number : Nat, faults : Nat]
    /\ bounds.calls \subseteq Calls
    /\ call = [c \in Clients |-> call[c]]
    /\ \A c \in Clients : ClientOK(c)
    /\ \A k \in adrift : ReqOK(repo, k) /\ k.in \in bounds.calls

(* What the history variables see of a client.                             *)
LEMMA Observed ==
    ASSUME Observe, NEW c \in Clients
    PROVE  /\ call'[c].pc = "done" => seen'[c] = seen[c] /\ listable'[c] = listable[c]
           /\ call'[c].pc # "done" /\ Running(c) =>
                /\ seen'[c] = seen[c] \cup Promised(repo', call'[c].in)
                /\ call'[c].in.kind = "list" =>
                    /\ listable'[c].always = listable[c].always \cap Listed(repo', call'[c].in.ref)
                    /\ listable'[c].ever = listable[c].ever \cup Listed(repo', call'[c].in.ref)
           /\ call'[c].pc # "done" /\ ~Running(c) =>
                /\ seen'[c] = Promised(repo', call'[c].in)
                /\ call'[c].in.kind = "list" =>
                    /\ listable'[c].always = Listed(repo', call'[c].in.ref)
                    /\ listable'[c].ever = Listed(repo', call'[c].in.ref)
BY DEF Observe

(* The server moves on, and this client's call as it should.               *)
LEMMA ClientMoves ==
    ASSUME LakeFSOK, Observe, Moves(repo, repo', deleted'), ~deleted' => ~deleted,
           bounds'.calls = bounds.calls, NEW c \in Clients,
           IF Running(c)
           THEN Fine(repo, call'[c], call[c].in, seen[c], listable[c], deleted)
           ELSE call'[c] = call[c]
    PROVE  ClientOK(c)'
<1>1. ClientOK(c) /\ GoodRepo(repo)
  BY DEF LakeFSOK
<1>2. CASE ~Running(c)
  <2>1. call'[c] = call[c] /\ call'[c].pc = "done"
    BY <1>2 DEF Running
  <2>2. seen'[c] = seen[c] /\ listable'[c] = listable[c]
    BY <2>1, Observed
  <2>3. Done(repo', call[c], seen[c], listable[c], deleted')
    BY <1>1, <1>2, DoneKept DEF ClientOK
  <2>4. QED
    BY <1>1, <2>1, <2>2, <2>3 DEF ClientOK, Running
<1>3. CASE Running(c)
  <2>1. Fine(repo, call'[c], call[c].in, seen[c], listable[c], deleted)
    BY <1>3
  <2>2. CASE call'[c].pc = "done"
    <3>1. seen'[c] = seen[c] /\ listable'[c] = listable[c]
      BY <2>2, Observed
    <3>2. Done(repo', call'[c], seen[c], listable[c], deleted')
      BY <1>1, <2>1, <2>2, DoneKept DEF Fine
    <3>3. QED
      BY <2>1, <2>2, <3>1, <3>2 DEF ClientOK, Running, Fine
  <2>3. CASE call'[c].pc # "done"
    <3>1. /\ seen'[c] = seen[c] \cup Promised(repo', call'[c].in)
          /\ call'[c].in.kind = "list" =>
                /\ listable'[c].always = listable[c].always \cap Listed(repo', call'[c].in.ref)
                /\ listable'[c].ever = listable[c].ever \cup Listed(repo', call'[c].in.ref)
      BY <1>3, <2>3, Observed
    <3>2. Run(repo, call'[c], seen[c], listable[c], deleted)
      BY <2>1, <2>3 DEF Fine
    <3>3. Run(repo', call'[c], seen'[c], listable'[c], deleted')
      BY <1>1, <3>1, <3>2, RunKept
    <3>4. call'[c].in \in bounds'.calls /\ CallShape(call'[c])
      BY <1>1, <1>3, <2>1 DEF ClientOK, Fine
    <3>5. QED
      BY <2>3, <3>3, <3>4 DEF ClientOK, Running
  <2>4. QED
    BY <2>2, <2>3
<1>4. QED
  BY <1>2, <1>3

(* A call that does not move is fine where it is.                          *)
LEMMA IdleClient ==
    ASSUME LakeFSOK, NEW c \in Clients, call'[c] = call[c]
    PROVE  IF Running(c)
           THEN Fine(repo, call'[c], call[c].in, seen[c], listable[c], deleted)
           ELSE call'[c] = call[c]
BY DEF LakeFSOK, ClientOK, Fine, Running

LEMMA ServedMoves ==
    ASSUME LakeFSOK, NEW k, ReqOK(repo, k), Served(k)
    PROVE  Moves(repo, repo', deleted') /\ (~deleted' => ~deleted)
<1>1. GoodRepo(repo) /\ repo' = Effect(repo, k)
  BY DEF LakeFSOK, Served
<1>2. k.pc = "delete" /\ Applies(repo, k) => deleted'
  BY DEF Served
<1>3. ~deleted' => ~deleted
  BY DEF Served
<1>4. QED
  BY <1>1, <1>2, <1>3, EffectMoves

LEMMA AdriftKept ==
    ASSUME Moves(repo, repo', deleted'), NEW k, ReqOK(repo, k)
    PROVE  ReqOK(repo', k)
BY DEF ReqOK, Moves, Extends, CommitExists

LEMMA BoundsKept ==
    ASSUME bounds \in [calls : {bounds.calls}, number : Nat, faults : Nat],
           \/ UNCHANGED bounds
           \/ bounds.number > 0 /\ bounds' = [bounds EXCEPT !.number = @ - 1]
           \/ bounds.faults > 0 /\ bounds' = [bounds EXCEPT !.faults = @ - 1]
    PROVE  /\ bounds'.calls = bounds.calls
           /\ bounds' \in [calls : {bounds'.calls}, number : Nat, faults : Nat]
<1>1. bounds' \in [calls : {bounds.calls}, number : Nat, faults : Nat]
  OBVIOUS
<1>2. QED
  BY <1>1

(* A client makes a call.                                                  *)
LEMMA InvokeStep ==
    ASSUME LakeFSOK, NEW c \in Clients, NEW x \in bounds.calls, Invoke(c, x)
    PROVE  LakeFSOK'
<1> DEFINE k == [in |-> x, pc |-> FirstRequest(x.kind),
                 note |-> NoAnswer, answer |-> NoAnswer, applied |-> 0]
<1>1. /\ GoodRepo(repo) /\ x \in Calls /\ ~Running(c) /\ repo' = repo /\ adrift' = adrift
      /\ deleted' = deleted /\ call' = [call EXCEPT ![c] = k] /\ Observe
      /\ bounds.number > 0 /\ bounds' = [bounds EXCEPT !.number = @ - 1]
  BY DEF LakeFSOK, Invoke
<1>2. /\ bounds'.calls = bounds.calls
      /\ bounds' \in [calls : {bounds'.calls}, number : Nat, faults : Nat]
  BY <1>1, BoundsKept DEF LakeFSOK
<1>3. Moves(repo, repo', deleted') /\ (~deleted' => ~deleted)
  BY <1>1, StaysPut
<1>4. call'[c] = k /\ \A d \in Clients \ {c} : call'[d] = call[d]
  <2> HIDE DEF k
  <2>1. QED
    BY <1>1 DEF LakeFSOK
<1>5. call' = [d \in Clients |-> call'[d]]
  <2> HIDE DEF k
  <2>1. QED
    BY <1>1 DEF LakeFSOK
<1>6. /\ k.in = x /\ k.applied = 0 /\ CallShape(k) /\ k.pc = FirstRequest(x.kind)
  BY DEF CallShape
<1>7. /\ PcOK(x, k.pc) /\ k.pc \notin {"done", "create", "commit_exists", "delete_object", "list"}
      /\ k.pc \notin ReportPcs /\ ~(x.kind \in IndexCalls /\ k.pc = "put")
  <2>1. x.kind \in {"delete", "commit", "head", "create", "get", "list", "put",
                    "delete_object", "merge"} \cup IndexCalls
    BY <1>1, CallFields
  <2>2. QED
    BY <1>6, <2>1 DEF FirstRequest, PcOK, IndexCalls, ReportPcs
<1> HIDE DEF k
<1>8. Run(repo', k, seen'[c], listable'[c], deleted')
  <2>1. /\ seen'[c] = Promised(repo', x)
        /\ x.kind = "list" => /\ listable'[c].always = Listed(repo', x.ref)
                              /\ listable'[c].ever = Listed(repo', x.ref)
    BY <1>1, <1>4, <1>6, <1>7, Observed
  <2>2. ReqOK(repo', k)
    BY <1>1, <1>6, <1>7 DEF ReqOK
  <2>3. x.kind = "list" => PagesOK(k, listable'[c], Listed(repo', x.ref))
    BY <1>7, <2>1 DEF PagesOK
  <2>4. QED
    BY <1>6, <1>7, <2>1, <2>2, <2>3 DEF Run
<1>9. ClientOK(c)'
  BY <1>2, <1>4, <1>6, <1>7, <1>8 DEF ClientOK, Running
<1>10. ASSUME NEW d \in Clients \ {c}
       PROVE  ClientOK(d)'
  BY <1>1, <1>2, <1>3, <1>4, IdleClient, ClientMoves
<1>11. \A q \in adrift' : ReqOK(repo', q) /\ q.in \in bounds'.calls
  BY <1>1, <1>2 DEF LakeFSOK
<1>12. GoodRepo(repo') /\ bounds'.calls \subseteq Calls
  BY <1>1, <1>2 DEF LakeFSOK
<1>13. QED
  BY <1>2, <1>5, <1>9, <1>10, <1>11, <1>12 DEF LakeFSOK

(* A request of a client: what all its outcomes have in common.            *)
LEMMA RequestStep ==
    ASSUME LakeFSOK, NEW c \in Clients, Running(c), Observe,
           NEW reply, NEW body, NEW n, Replied(repo, call[c], reply, body, n),
           call' = [call EXCEPT ![c] = With(GoesOn(call[c], reply, body), n)],
           Served(call[c]) \/ UNCHANGED <<repo, deleted>>,
           UNCHANGED bounds \/ (bounds.faults > 0 /\ bounds' = [bounds EXCEPT !.faults = @ - 1]),
           \A q \in adrift' \ adrift : q.in = call[c].in /\ q.pc = call[c].pc /\ q.note = call[c].note
    PROVE  LakeFSOK'
<1> DEFINE k == call[c]
           f == With(GoesOn(k, reply, body), n)
<1>1. /\ GoodRepo(repo) /\ CallShape(k) /\ Run(repo, k, seen[c], listable[c], deleted)
      /\ k.in \in bounds.calls /\ ReqOK(repo, k)
  BY DEF LakeFSOK, ClientOK, Run
<1>2. Moves(repo, repo', deleted') /\ (~deleted' => ~deleted)
  BY <1>1, StaysPut, ServedMoves
<1>3. /\ bounds'.calls = bounds.calls
      /\ bounds' \in [calls : {bounds'.calls}, number : Nat, faults : Nat]
  BY BoundsKept DEF LakeFSOK
<1>4. Fine(repo, f, k.in, seen[c], listable[c], deleted)
  BY <1>1, GoesOnFine
<1>5. /\ call'[c] = f /\ \A d \in Clients \ {c} : call'[d] = call[d]
      /\ call' = [d \in Clients |-> call'[d]]
  <2>1. call' = [call EXCEPT ![c] = f]
    OBVIOUS
  <2> HIDE DEF f
  <2>2. QED
    BY <2>1 DEF LakeFSOK
<1> HIDE DEF f
<1>6. ClientOK(c)'
  BY <1>2, <1>3, <1>4, <1>5, ClientMoves
<1>7. ASSUME NEW d \in Clients \ {c}
      PROVE  ClientOK(d)'
  BY <1>2, <1>3, <1>5, IdleClient, ClientMoves
<1>8. \A q \in adrift' : ReqOK(repo, q) /\ q.in \in bounds.calls
  BY <1>1 DEF LakeFSOK, ReqOK
<1>9. \A q \in adrift' : ReqOK(repo', q) /\ q.in \in bounds'.calls
  BY <1>2, <1>3, <1>8, AdriftKept
<1>10. GoodRepo(repo') /\ bounds'.calls \subseteq Calls
  BY <1>2, <1>3 DEF LakeFSOK, Moves
<1>11. QED
  BY <1>3, <1>5, <1>6, <1>7, <1>9, <1>10 DEF LakeFSOK

LEMMA DoRequestStep ==
    ASSUME LakeFSOK, NEW c \in Clients, DoRequest(c)
    PROVE  LakeFSOK'
<1> DEFINE k == call[c]
           done == IF Applies(repo, k) THEN 1 ELSE 0
           reply == Reply(repo, k)
           body == IF reply = "ok" THEN Body(repo, k) ELSE NoAnswer
           next(after, n) == call' = [call EXCEPT ![c] = [after EXCEPT !.applied = @ + n]]
           failed == GoesOn(k, "failed", NoAnswer)
<1>1. Running(c) /\ Observe
  BY DEF DoRequest
<1>2. \/ /\ Served(k) /\ next(GoesOn(k, reply, body), done)
         /\ UNCHANGED <<bounds, adrift>>
      \/ /\ bounds.faults > 0 /\ bounds' = [bounds EXCEPT !.faults = @ - 1]
         /\ \/ next(failed, 0) /\ UNCHANGED <<repo, adrift, deleted, careless>>
            \/ done = 1 /\ Served(k) /\ next(failed, 1) /\ UNCHANGED adrift
            \/ /\ adrift' = adrift \cup {[in |-> k.in, pc |-> k.pc, note |-> k.note]}
               /\ next(failed, 0) /\ UNCHANGED <<repo, deleted, careless>>
  BY DEF DoRequest
<1>3. CASE /\ Served(k) /\ next(GoesOn(k, reply, body), done)
           /\ UNCHANGED <<bounds, adrift>>
  <2>1. Replied(repo, k, reply, body, done)
    BY DEF Replied
  <2>2. call' = [call EXCEPT ![c] = With(GoesOn(k, reply, body), done)]
    BY <1>3 DEF With
  <2>3. \A q \in adrift' \ adrift : FALSE
    BY <1>3
  <2> HIDE DEF reply, body, done
  <2>4. QED
    BY <1>1, <1>3, <2>1, <2>2, <2>3, RequestStep
<1>4. ASSUME NEW n \in {0, 1}, n = 1 => Applies(repo, k), next(failed, n),
             bounds.faults > 0, bounds' = [bounds EXCEPT !.faults = @ - 1],
             Served(k) \/ UNCHANGED <<repo, deleted>>,
             \A q \in adrift' \ adrift : q.in = k.in /\ q.pc = k.pc /\ q.note = k.note
      PROVE  LakeFSOK'
  <2>1. Replied(repo, k, "failed", NoAnswer, n)
    BY <1>4 DEF Replied
  <2>2. call' = [call EXCEPT ![c] = With(GoesOn(k, "failed", NoAnswer), n)]
    BY <1>4 DEF With
  <2>3. QED
    BY <1>1, <1>4, <2>1, <2>2, RequestStep
<1>5. CASE /\ bounds.faults > 0 /\ bounds' = [bounds EXCEPT !.faults = @ - 1]
           /\ next(failed, 0) /\ UNCHANGED <<repo, adrift, deleted, careless>>
  <2>1. \A q \in adrift' \ adrift : FALSE
    BY <1>5
  <2> HIDE DEF failed, next
  <2>2. QED
    BY <1>4, <1>5, <2>1
<1>6. CASE /\ bounds.faults > 0 /\ bounds' = [bounds EXCEPT !.faults = @ - 1]
           /\ done = 1 /\ Served(k) /\ next(failed, 1) /\ UNCHANGED adrift
  <2>1. Applies(repo, k) /\ \A q \in adrift' \ adrift : FALSE
    BY <1>6
  <2> HIDE DEF failed, next
  <2>2. QED
    BY <1>4, <1>6, <2>1
<1>7. CASE /\ bounds.faults > 0 /\ bounds' = [bounds EXCEPT !.faults = @ - 1]
           /\ adrift' = adrift \cup {[in |-> k.in, pc |-> k.pc, note |-> k.note]}
           /\ next(failed, 0) /\ UNCHANGED <<repo, deleted, careless>>
  <2>1. \A q \in adrift' \ adrift : q.in = k.in /\ q.pc = k.pc /\ q.note = k.note
    BY <1>7
  <2> HIDE DEF failed, next
  <2>2. QED
    BY <1>4, <1>7, <2>1
<1>8. QED
  BY <1>2, <1>3, <1>5, <1>6, <1>7

LEMMA ServeLateStep ==
    ASSUME LakeFSOK, NEW k \in adrift, ServeLate(k)
    PROVE  LakeFSOK'
<1>1. /\ ReqOK(repo, k) /\ Served(k) /\ call' = call /\ bounds' = bounds /\ Observe
      /\ adrift' = adrift \ {k}
  BY DEF LakeFSOK, ServeLate
<1>2. Moves(repo, repo', deleted') /\ (~deleted' => ~deleted)
  BY <1>1, ServedMoves
<1>3. \A c \in Clients : ClientOK(c)'
  BY <1>1, <1>2, IdleClient, ClientMoves
<1>4. \A q \in adrift' : ReqOK(repo', q) /\ q.in \in bounds'.calls
  BY <1>1, <1>2, AdriftKept DEF LakeFSOK
<1>5. GoodRepo(repo')
  BY <1>2 DEF Moves
<1>6. QED
  BY <1>1, <1>3, <1>4, <1>5 DEF LakeFSOK

LEMMA StartIsGood ==
    ASSUME NEW r, NEW R, StartOK(r, R)
    PROVE  GoodRepo(r)
<1>1. r \in Repository /\ CommitIds(r) = 1 .. Len(r.commits) /\ Len(r.commits) \in Nat
  BY RepoShape DEF StartOK
<1>2. RepoOK(r)
  BY <1>1 DEF StartOK, RepoOK, BranchExists, CommitExists
<1>3. GraphOK(r)
  BY <1>1 DEF StartOK, GraphOK, Parents
<1>4. IndexOK(r)
  BY LakeFSAssumption DEF StartOK, IndexOK, IsClean, NoStaging
<1>5. QED
  BY <1>2, <1>3, <1>4 DEF GoodRepo, StartOK

LEMMA LakeFSIsOK == Spec => []LakeFSOK
<1>1. Init => LakeFSOK
  <2> SUFFICES ASSUME Init
               PROVE  LakeFSOK
    OBVIOUS
  <2>1. PICK sc \in Scenarios :
            /\ repo = sc.repo
            /\ bounds = [calls |-> sc.calls, number |-> sc.number, faults |-> sc.faults]
    BY DEF Init
  <2>2. /\ sc.number \in Nat /\ sc.faults \in Nat /\ sc.calls \subseteq Calls
        /\ StartOK(sc.repo, Removed(sc.calls))
    BY LakeFSAssumption
  <2>3. GoodRepo(repo)
    BY <2>1, <2>2, StartIsGood
  <2>4. ASSUME NEW c \in Clients
        PROVE  ClientOK(c)
    <3>1. call[c] = NoCall
      BY DEF Init
    <3>2. NoCall.pc = "done" /\ NoCall.answer = NoAnswer /\ CallShape(NoCall)
      BY DEF NoCall, CallShape
    <3>3. QED
      BY <3>1, <3>2 DEF ClientOK, Running, Done
  <2>5. call = [c \in Clients |-> call[c]] /\ adrift = {}
    BY DEF Init
  <2>6. QED
    BY <2>1, <2>2, <2>3, <2>4, <2>5 DEF LakeFSOK
<1>2. LakeFSOK /\ [Next]_vars => LakeFSOK'
  <2> SUFFICES ASSUME LakeFSOK, [Next]_vars
               PROVE  LakeFSOK'
    OBVIOUS
  <2>1. CASE Next
    BY <2>1, InvokeStep, DoRequestStep, ServeLateStep DEF Next
  <2>2. CASE UNCHANGED vars
    BY <2>2 DEF vars, LakeFSOK, ClientOK, Running
  <2>3. QED
    BY <2>1, <2>2
<1>3. QED
  BY <1>1, <1>2, PTL DEF Spec

(* Whatever others do between the requests of a call, and whatever fails,  *)
(* an answer other than a failure is one the store would have given at     *)
(* some moment of the call.                                                *)
THEOREM CallsLookAtomic == Spec => []AnswersAsPromised
<1>1. LakeFSOK => AnswersAsPromised
  BY DEF LakeFSOK, ClientOK, Running, Done, AnswersAsPromised, Answered
<1>2. QED
  BY <1>1, LakeFSIsOK, PTL

(* OK means that the call has had its effect, once, and an error other     *)
(* than a failure that it has had none.                                    *)
THEOREM AnswersTellEffects == Spec => []AnswersTell
<1>1. LakeFSOK => AnswersTell
  BY DEF LakeFSOK, ClientOK, Running, Done, AnswersTell, Answered
<1>2. QED
  BY <1>1, LakeFSIsOK, PTL

(* The base of a conflict report is an ancestor of both heads of it,       *)
(* however far they have moved since it was asked for.                     *)
THEOREM ReportsAreUsable == Spec => []ReportIsUsable
<1>1. LakeFSOK => ReportIsUsable
  BY DEF LakeFSOK, ClientOK, Running, Done, ReportIsUsable, Answered
<1>2. QED
  BY <1>1, LakeFSIsOK, PTL

(* A listing in pages has what was there all the time, and nothing that    *)
(* never was.                                                              *)
THEOREM ListingsAreSound == Spec => []ListsWhatIsThere
<1>1. LakeFSOK => ListsWhatIsThere
  BY DEF LakeFSOK, ClientOK, Running, Done, ListsWhatIsThere, Answered
<1>2. QED
  BY <1>1, LakeFSIsOK, PTL

-----------------------------------------------------------------------------
(* Index rows.  As long as index objects are put by clients that have all  *)
(* their rows, commits only lose rows of their parents, and staged index   *)
(* objects rows of their branch's head, that someone removes.  A merge     *)
(* takes the index object of one side, the other having left that of the   *)
(* base alone, and the base is an ancestor of both.                        *)

StagedRows(r, b) == DOMAIN Rows(r.staging[b][IndexPath])

CommitsGrow(r, R) ==
    \A c \in CommitIds(r) : \A x \in Parents(r, c) : RowsAt(r, x) \ R \subseteq RowsAt(r, c)
StagedGrow(r, R) ==
    \A b \in Branches : BranchExists(r, b) /\ r.staging[b][IndexPath] # Unstaged =>
        RowsAt(r, r.head[b]) \ R \subseteq StagedRows(r, b)

LEMMA AncestorsRows ==
    ASSUME NEW r, GraphOK(r), NEW R, CommitsGrow(r, R),
           NEW c \in CommitIds(r), NEW x \in Ancestors(r, c)
    PROVE  RowsAt(r, x) \ R \subseteq RowsAt(r, c)
<1> DEFINE S == {y \in CommitIds(r) : RowsAt(r, y) \ R \subseteq RowsAt(r, c)}
<1>1. ASSUME NEW y \in S \cap CommitIds(r)
      PROVE  Parents(r, y) \subseteq S
  <2>1. Parents(r, y) \subseteq CommitIds(r)
    BY DEF GraphOK
  <2>2. QED
    BY <2>1 DEF CommitsGrow
<1>2. c \in S
  OBVIOUS
<1> HIDE DEF S
<1>3. Ancestors(r, c) \subseteq S
  BY <1>1, <1>2, AncestorsLeast
<1>4. QED
  BY <1>3 DEF S

(* The rows a branch shows, staged or not.                                 *)
LEMMA ShownRows ==
    ASSUME NEW r, GoodRepo(r), NEW R, StagedGrow(r, R), NEW b \in Branches, BranchExists(r, b)
    PROVE  RowsAt(r, r.head[b]) \ R \subseteq DOMAIN Rows(ResolveState(r, b)[IndexPath])
<1>1. ResolveState(r, b)[IndexPath] = IF r.staging[b][IndexPath] = Unstaged
                                      THEN AtCommit(r, r.head[b])[IndexPath]
                                      ELSE r.staging[b][IndexPath]
  BY LakeFSAssumption DEF ResolveState
<1>2. QED
  BY <1>1 DEF StagedGrow, StagedRows, RowsAt

(* A step that adds at most one commit, and whose branch has good staging. *)
LEMMA RowsStep ==
    ASSUME NEW r, GoodRepo(r), NEW s, NEW b \in Branches, NEW n, NEW R,
           CommitsGrow(r, R), StagedGrow(r, R),
           OnlyTouches(r, s, b),
           CommitIds(s) \in {CommitIds(r), CommitIds(r) \cup {n}},
           n \in CommitIds(s) \ CommitIds(r) =>
                /\ Parents(s, n) \subseteq CommitIds(r)
                /\ \A x \in Parents(s, n) : RowsAt(r, x) \ R \subseteq RowsAt(s, n)
    PROVE  /\ CommitsGrow(s, R)
           /\ \A x \in Branches \ {b} :
                BranchExists(s, x) /\ s.staging[x][IndexPath] # Unstaged =>
                    RowsAt(s, s.head[x]) \ R \subseteq StagedRows(s, x)
<1>1. /\ \A c \in CommitIds(r) : s.commits[c] = r.commits[c]
      /\ \A x \in Branches \ {b} : s.head[x] = r.head[x] /\ s.staging[x] = r.staging[x]
  BY DEF OnlyTouches
<1>2. \A c \in CommitIds(r) : Parents(r, c) \subseteq CommitIds(r)
  BY DEF GoodRepo, GraphOK
<1>3. \A c \in CommitIds(r) : RowsAt(s, c) = RowsAt(r, c) /\ Parents(s, c) = Parents(r, c)
  BY <1>1 DEF RowsAt, AtCommit, Parents
<1>4. CommitsGrow(s, R)
  BY <1>2, <1>3 DEF CommitsGrow
<1>5. ASSUME NEW x \in Branches \ {b}, BranchExists(s, x), s.staging[x][IndexPath] # Unstaged
      PROVE  RowsAt(s, s.head[x]) \ R \subseteq StagedRows(s, x)
  <2>1. BranchExists(r, x) /\ r.staging[x][IndexPath] # Unstaged
    BY <1>1, <1>5 DEF BranchExists
  <2>2. RowsAt(r, r.head[x]) \ R \subseteq StagedRows(r, x) /\ r.head[x] \in CommitIds(r)
    BY <2>1, GoodHeads DEF StagedGrow
  <2>3. QED
    BY <1>1, <1>3, <2>2 DEF StagedRows
<1>6. QED
  BY <1>4, <1>5

(* A request leaves both as they are, unless it is a careless put.         *)
LEMMA EffectRows ==
    ASSUME NEW r, GoodRepo(r), NEW k, ReqOK(r, k), NEW R, CommitsGrow(r, R), StagedGrow(r, R),
           k.in.kind = "remove_row" => k.in.artifact \in R
    PROVE  /\ CommitsGrow(Effect(r, k), R)
           /\ ~Careless(r, k) => StagedGrow(Effect(r, k), R)
<1> DEFINE s == Effect(r, k)
           n == Len(r.commits) + 1
<1>0. RepoOK(r) /\ GraphOK(r) /\ r \in Repository
  BY DEF GoodRepo, RepoOK
<1>1. CASE ~Applies(r, k)
  BY <1>1 DEF Effect
<1>2. ASSUME NEW b \in Branches, NEW c \in CommitIds(r) \cup {NoBranch}, s = CreateBranch(r, b, c)
      PROVE  CommitsGrow(s, R) /\ StagedGrow(s, R)
  <2>1. OnlyTouches(r, s, b) /\ s.commits = r.commits /\ s.staging[b] = NoStaging
    BY <1>0, <1>2, PointShape
  <2>2. CommitIds(s) = CommitIds(r) /\ s.staging[b][IndexPath] = Unstaged
    BY <2>1, StagedIndex DEF CommitIds
  <2> HIDE DEF s
  <2>3. QED
    BY <2>1, <2>2, RowsStep DEF StagedGrow
<1>3. CASE Applies(r, k) /\ k.pc = "create"
  BY <1>2, <1>3, CreateEffect
<1>4. CASE Applies(r, k) /\ k.pc = "delete"
  BY <1>2, <1>4, DeleteEffect
<1>5. CASE Applies(r, k) /\ k.pc \in {"put", "delete_object"}
  <2> DEFINE b == k.in.branch
  <2>1. PICK p \in Paths, v \in Values \cup {Absent} :
            /\ b \in Branches /\ BranchExists(r, b) /\ s = PutObject(r, b, p, v)
            /\ p = IndexPath => k.pc = "put" /\ p = PathOf(k) /\ v = ValueOf(k)
    BY <1>5, PutEffect
  <2>2. /\ OnlyTouches(r, s, b) /\ s.commits = r.commits /\ s.head = r.head
        /\ s.staging[b] = [r.staging[b] EXCEPT ![p] = v]
    BY <1>0, <2>1, StageShape
  <2>3. CommitIds(s) = CommitIds(r) /\ RowsAt(s, s.head[b]) = RowsAt(r, r.head[b])
    BY <2>2 DEF CommitIds, RowsAt, AtCommit
  <2>4. r.staging[b] \in [Paths -> Values \cup {Absent, Unstaged}] /\ IndexPath \in Paths
    BY <2>1, StagedIndex
  <2>5. ASSUME ~Careless(r, k), s.staging[b][IndexPath] # Unstaged
        PROVE  RowsAt(s, s.head[b]) \ R \subseteq StagedRows(s, b)
    <3>1. CASE p # IndexPath
      <4>1. s.staging[b][IndexPath] = r.staging[b][IndexPath]
        BY <2>2, <2>4, <3>1
      <4>2. QED
        BY <2>1, <2>3, <2>5, <4>1 DEF StagedGrow, StagedRows
    <3>2. CASE p = IndexPath
      <4>1. s.staging[b][IndexPath] = ValueOf(k) /\ PathOf(k) = IndexPath /\ k.pc = "put"
        BY <2>1, <2>2, <2>4, <3>2
      <4>2. /\ k.in.kind \in IndexCalls
            /\ k.in.kind = "add_row" => DOMAIN Rows(k.note) \subseteq DOMAIN Rows(ValueOf(k))
            /\ k.in.kind = "remove_row" =>
                    DOMAIN Rows(k.note) \ {k.in.artifact} \subseteq DOMAIN Rows(ValueOf(k))
        BY <4>1, ValueShape
      <4>3. DOMAIN Rows(k.note) \ R \subseteq DOMAIN Rows(ValueOf(k))
        BY <4>2 DEF IndexCalls
      <4>4. ResolveState(r, b)[IndexPath] = k.note
        BY <1>5, <2>5, <4>1, <4>2 DEF Careless
      <4>5. RowsAt(r, r.head[b]) \ R \subseteq DOMAIN Rows(ResolveState(r, b)[IndexPath])
        BY <2>1, ShownRows
      <4>6. QED
        BY <2>3, <4>1, <4>3, <4>4, <4>5 DEF StagedRows
    <3>3. QED
      BY <3>1, <3>2
  <2> HIDE DEF s, b, n
  <2>6. /\ CommitsGrow(s, R)
        /\ \A x \in Branches \ {b} :
                BranchExists(s, x) /\ s.staging[x][IndexPath] # Unstaged =>
                    RowsAt(s, s.head[x]) \ R \subseteq StagedRows(s, x)
    BY <2>1, <2>2, <2>3, RowsStep
  <2>7. ~Careless(r, k) => StagedGrow(s, R)
    BY <2>5, <2>6 DEF StagedGrow
  <2>8. QED
    BY <2>6, <2>7 DEF s
<1>6. CASE Applies(r, k) /\ k.pc = "commit"
  <2> DEFINE b == k.in.branch
  <2>1. /\ b \in Branches /\ BranchExists(r, b) /\ OnlyTouches(r, s, b)
        /\ CommitIds(s) = CommitIds(r) \cup {n} /\ s.staging[b] = NoStaging
        /\ Parents(s, n) = {r.head[b]} /\ AtCommit(s, n) = ResolveState(r, b)
    BY <1>6, CommitEffect
  <2>2. s.staging[b][IndexPath] = Unstaged /\ r.head[b] \in CommitIds(r)
    BY <2>1, StagedIndex, GoodHeads
  <2>3. RowsAt(r, r.head[b]) \ R \subseteq RowsAt(s, n)
    BY <2>1, ShownRows DEF RowsAt
  <2> HIDE DEF s, b, n
  <2>4. CommitsGrow(s, R) /\ StagedGrow(s, R)
    BY <2>1, <2>2, <2>3, RowsStep DEF StagedGrow
  <2>5. QED
    BY <2>4 DEF s
<1>7. CASE Applies(r, k) /\ k.pc = "merge"
  <2> DEFINE b == k.in.target
             h == r.head[k.in.source]
             t == r.head[b]
             m == FindMergeBase(r, h, t)
             index(c) == AtCommit(r, c)[IndexPath]
  <2>1. /\ b \in Branches /\ OnlyTouches(r, s, b)
        /\ CommitIds(s) = CommitIds(r) \cup {n} /\ s.staging[b] = NoStaging
        /\ h \in CommitIds(r) /\ t \in CommitIds(r) /\ Parents(s, n) = {h, t}
        /\ AtCommit(s, n)[IndexPath] = PathMerge(index(m), index(h), index(t))
        /\ ~PathConflict(index(m), index(h), index(t))
    BY <1>7, MergeEffect
  <2>2. s.staging[b][IndexPath] = Unstaged
    BY <2>1, StagedIndex
  <2> HIDE DEF s, b, h, t, n, m
  <2>3. m \in Ancestors(r, h) /\ m \in Ancestors(r, t)
    BY <1>0, <2>1, MergeBaseIsCommon DEF m, CommonAncestors
  <2>4. RowsAt(r, m) \ R \subseteq RowsAt(r, h) /\ RowsAt(r, m) \ R \subseteq RowsAt(r, t)
    BY <1>0, <2>1, <2>3, AncestorsRows
  <2>5. RowsAt(r, h) \ R \subseteq RowsAt(s, n) /\ RowsAt(r, t) \ R \subseteq RowsAt(s, n)
    <3>1. CASE index(h) # index(m)
      <4>1. AtCommit(s, n)[IndexPath] = index(h) /\ index(t) \in {index(m), index(h)}
        BY <2>1, <3>1 DEF PathMerge, PathConflict
      <4>2. QED
        BY <2>4, <4>1 DEF RowsAt
    <3>2. CASE index(h) = index(m)
      <4>1. AtCommit(s, n)[IndexPath] = index(t)
        BY <2>1, <3>2 DEF PathMerge
      <4>2. QED
        BY <2>4, <3>2, <4>1 DEF RowsAt
    <3>3. QED
      BY <3>1, <3>2
  <2>6. CommitsGrow(s, R) /\ StagedGrow(s, R)
    BY <2>1, <2>2, <2>5, RowsStep DEF StagedGrow
  <2>7. QED
    BY <2>6 DEF s
<1>8. QED
  BY <1>1, <1>3, <1>4, <1>5, <1>6, <1>7 DEF Applies, Writes

RowsOK ==
    LET R == Removed(bounds.calls)
    IN  careless \/ (CommitsGrow(repo, R) /\ StagedGrow(repo, R))

(* What a step does to the repository: the effect of one request, or       *)
(* nothing.                                                                *)
LEMMA StepServes ==
    ASSUME LakeFSOK, [Next]_vars
    PROVE  /\ bounds'.calls = bounds.calls
           /\ \/ repo' = repo /\ careless' = careless
              \/ \E k : ReqOK(repo, k) /\ k.in \in bounds.calls /\ Served(k)
<1>1. CASE UNCHANGED vars
  BY <1>1 DEF vars
<1>2. ASSUME NEW c \in Clients, DoRequest(c)
      PROVE  /\ bounds'.calls = bounds.calls
             /\ \/ repo' = repo /\ careless' = careless
                \/ \E k : ReqOK(repo, k) /\ k.in \in bounds.calls /\ Served(k)
  <2>1. /\ Running(c)
        /\ UNCHANGED bounds \/ (bounds.faults > 0 /\ bounds' = [bounds EXCEPT !.faults = @ - 1])
        /\ Served(call[c]) \/ UNCHANGED <<repo, careless>>
    BY <1>2 DEF DoRequest
  <2>2. bounds'.calls = bounds.calls
    BY <2>1, BoundsKept DEF LakeFSOK
  <2>3. ReqOK(repo, call[c]) /\ call[c].in \in bounds.calls
    BY <2>1 DEF LakeFSOK, ClientOK, Run
  <2>4. QED
    BY <2>1, <2>2, <2>3
<1>3. ASSUME NEW c \in Clients, NEW x \in bounds.calls, Invoke(c, x)
      PROVE  bounds'.calls = bounds.calls /\ repo' = repo /\ careless' = careless
  <2>1. bounds.number > 0 /\ bounds' = [bounds EXCEPT !.number = @ - 1]
    BY <1>3 DEF Invoke
  <2>2. bounds'.calls = bounds.calls
    BY <2>1, BoundsKept DEF LakeFSOK
  <2>3. QED
    BY <1>3, <2>2 DEF Invoke
<1>4. ASSUME NEW k \in adrift, ServeLate(k)
      PROVE  bounds'.calls = bounds.calls /\ ReqOK(repo, k) /\ k.in \in bounds.calls /\ Served(k)
  BY <1>4 DEF ServeLate, LakeFSOK
<1>5. QED
  BY <1>1, <1>2, <1>3, <1>4 DEF Next

LEMMA RowsMove ==
    ASSUME LakeFSOK, RowsOK, [Next]_vars
    PROVE  /\ RowsOK'
           /\ careless \/ MainRows(repo) \ Removed(bounds.calls) \subseteq MainRows(repo')
<1> DEFINE R == Removed(bounds.calls)
<1>1. GoodRepo(repo) /\ bounds'.calls = bounds.calls /\ R = Removed(bounds'.calls)
  BY StepServes DEF LakeFSOK
<1>2. CASE repo' = repo /\ careless' = careless
  BY <1>1, <1>2 DEF RowsOK
<1>3. ASSUME NEW k, ReqOK(repo, k), k.in \in bounds.calls, Served(k)
      PROVE  /\ RowsOK'
             /\ careless \/ MainRows(repo) \ R \subseteq MainRows(repo')
  <2>1. repo' = Effect(repo, k) /\ careless' = (careless \/ Careless(repo, k))
    BY <1>3 DEF Served
  <2>2. k.in.kind = "remove_row" => k.in.artifact \in R
    BY <1>3 DEF Removed
  <2>3. CASE careless
    BY <2>1, <2>3 DEF RowsOK
  <2>4. CASE ~careless
    <3> HIDE DEF R
    <3>1. CommitsGrow(repo, R) /\ StagedGrow(repo, R)
      BY <2>4 DEF RowsOK, R
    <3>2. CommitsGrow(repo', R) /\ (~Careless(repo, k) => StagedGrow(repo', R))
      BY <1>1, <1>3, <2>1, <2>2, <3>1, EffectRows
    <3>3. RowsOK'
      BY <1>1, <2>1, <2>4, <3>2 DEF RowsOK
    <3>4. Moves(repo, repo', TRUE)
      BY <1>1, <1>3, <2>1, EffectMoves
    <3>5. /\ GraphOK(repo') /\ repo'.head[Main] \in CommitIds(repo')
          /\ repo.head[Main] \in Ancestors(repo', repo'.head[Main])
          /\ repo.head[Main] \in CommitIds(repo)
          /\ repo'.commits[repo.head[Main]] = repo.commits[repo.head[Main]]
      BY <1>1, <3>4, GoodHeads, StorageAssumption DEF Moves, GoodRepo, Extends
    <3>6. RowsAt(repo', repo.head[Main]) \ R \subseteq RowsAt(repo', repo'.head[Main])
      BY <3>2, <3>5, AncestorsRows
    <3>7. RowsAt(repo', repo.head[Main]) = RowsAt(repo, repo.head[Main])
      BY <3>5 DEF RowsAt, AtCommit
    <3>8. MainRows(repo) = RowsAt(repo, repo.head[Main])
          /\ MainRows(repo') = RowsAt(repo', repo'.head[Main])
      BY DEF MainRows, RowsAt, GetBranchHead
    <3>9. QED
      BY <3>3, <3>6, <3>7, <3>8
  <2>5. QED
    BY <2>3, <2>4
<1>4. QED
  BY <1>2, <1>3, StepServes

(* The canonical branch loses only rows that someone removed, unless an    *)
(* index object was put by a client that did not have its rows.            *)
THEOREM MainLosesNoRows == Spec => RowsOnlyRemoved
<1>1. Init => RowsOK
  <2> SUFFICES ASSUME Init
               PROVE  RowsOK
    OBVIOUS
  <2>1. PICK sc \in Scenarios :
            /\ repo = sc.repo
            /\ bounds = [calls |-> sc.calls, number |-> sc.number, faults |-> sc.faults]
    BY DEF Init
  <2>2. StartOK(repo, Removed(bounds.calls))
    BY <2>1, LakeFSAssumption
  <2>3. CommitsGrow(repo, Removed(bounds.calls))
    BY <2>2 DEF StartOK, CommitsGrow, RowsAt, Parents
  <2>4. \A b \in Branches : repo.staging[b][IndexPath] = Unstaged
    BY <2>2, LakeFSAssumption DEF StartOK, IsClean, NoStaging
  <2>5. QED
    BY <2>3, <2>4 DEF RowsOK, StagedGrow
<1>2. LakeFSOK /\ RowsOK /\ [Next]_vars => RowsOK'
  BY RowsMove
<1>3. LakeFSOK /\ RowsOK /\ [Next]_vars =>
          [careless \/ MainRows(repo) \ Removed(bounds.calls) \subseteq MainRows(repo')]_vars
  BY RowsMove
<1>4. QED
  BY <1>1, <1>2, <1>3, LakeFSIsOK, PTL DEF Spec, RowsOnlyRemoved
=============================================================================

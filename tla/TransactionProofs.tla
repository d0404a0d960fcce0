------------------------- MODULE TransactionProofs -------------------------
(***************************************************************************)
(* Proofs about the transactions of one service process, for any number of *)
(* request threads, transactions, artifacts, indexes and commits: a        *)
(* transaction is merged at most once, is not closed over the head of its  *)
(* children, and shows nothing before it is committed.                     *)
(*                                                                         *)
(* With a second process, or after a crash, each of these fails: the mutex *)
(* and the cached records are what they rest on.                           *)
(*                                                                         *)
(* The second half is about what transactions write, with other processes  *)
(* and crashes.                                                            *)
(***************************************************************************)
EXTENDS TransactionManager, TLAPS

(* One process serves all threads and does not die.                        *)
OneInstance == (\A i, j \in Instances : i = j) /\ Crashing = {}

-----------------------------------------------------------------------------
(* The repository.  The values in it are not typed: index objects come out *)
(* of a merge whose base is found by a search.                             *)

RepoOK(r) ==
    /\ \E S, U : r \in [commits : Seq(S), head : [Branches -> Nat],
                        staging : [Branches -> [Paths -> U]]]
    /\ \A b \in Branches : r.head[b] \in CommitIds(r) \cup {NoBranch}

(* From r to s nothing happened to the commits of r and to the branches    *)
(* other than those in B.                                                  *)
Kept(r, s, B) ==
    /\ CommitIds(r) \subseteq CommitIds(s)
    /\ \A c \in CommitIds(r) : s.commits[c] = r.commits[c]
    /\ \A x \in Branches \ B : s.head[x] = r.head[x] /\ s.staging[x] = r.staging[x]

(* Branch b was set to commit c, or had a commit added.                    *)
Pointed(r, s, b, c) ==
    /\ RepoOK(s) /\ Kept(r, s, {b})
    /\ s.head[b] = c /\ s.staging[b] = NoStaging /\ s.commits = r.commits

Advanced(r, s, b) ==
    RepoOK(s) /\ Kept(r, s, {b}) /\ BranchExists(s, b) /\ s.staging[b] = NoStaging

(* The object at path p in the head of branch b.                           *)
HeadAt(r, b, p) == AtCommit(r, r.head[b])[p]

LEMMA RepoShape ==
    ASSUME NEW r, RepoOK(r)
    PROVE  /\ r.head \in [Branches -> Nat]
           /\ CommitIds(r) = 1 .. Len(r.commits)
           /\ Len(r.commits) \in Nat
           /\ NoBranch \notin CommitIds(r)
           /\ \A b \in Branches : BranchExists(r, b) <=> r.head[b] \in CommitIds(r)
<1>1. PICK S, U : r \in [commits : Seq(S), head : [Branches -> Nat],
                         staging : [Branches -> [Paths -> U]]]
  BY DEF RepoOK
<1>2. /\ r.head \in [Branches -> Nat]
      /\ CommitIds(r) = 1 .. Len(r.commits)
      /\ Len(r.commits) \in Nat
  BY <1>1 DEF CommitIds
<1>3. NoBranch \notin CommitIds(r)
  BY <1>2 DEF NoBranch
<1>4. QED
  BY <1>2, <1>3 DEF RepoOK, BranchExists

(* A new staging area for branch b.                                        *)
Restaged(r, b, f) == [r EXCEPT !.staging[b] = f]

OnPaths(f) == \E V : f \in [Paths -> V]

LEMMA StageShape ==
    ASSUME NEW r, RepoOK(r), NEW b \in Branches, NEW f, OnPaths(f),
           NEW s, s = Restaged(r, b, f)
    PROVE  RepoOK(s) /\ Kept(r, s, {b}) /\ s.head = r.head /\ s.staging[b] = f
           /\ s.commits = r.commits
<1>1. PICK S, U : r \in [commits : Seq(S), head : [Branches -> Nat],
                         staging : [Branches -> [Paths -> U]]]
  BY DEF RepoOK
<1>0. PICK V : f \in [Paths -> V]
  BY DEF OnPaths
<1> DEFINE new == [r.staging EXCEPT ![b] = f]
<1>2. s = [r EXCEPT !.staging = new]
  BY <1>1 DEF Restaged
<1>3. new \in [Branches -> [Paths -> U \cup V]]
  BY <1>0, <1>1
<1>4. new[b] = f /\ \A x \in Branches \ {b} : new[x] = r.staging[x]
  BY <1>1
<1> HIDE DEF new
<1>5. /\ s \in [commits : Seq(S), head : [Branches -> Nat],
                staging : [Branches -> [Paths -> U \cup V]]]
      /\ s.commits = r.commits /\ s.head = r.head /\ s.staging = new
  BY <1>1, <1>2, <1>3
<1>6. CommitIds(s) = CommitIds(r)
  BY <1>5 DEF CommitIds
<1>7. RepoOK(s)
  BY <1>5, <1>6 DEF RepoOK
<1>8. QED
  BY <1>4, <1>5, <1>6, <1>7 DEF Kept

(* A staged change at one path.                                            *)
PutAt(r, s, t, p, x) ==
    /\ RepoOK(s) /\ Kept(r, s, {t}) /\ s.head = r.head /\ s.commits = r.commits
    /\ s.staging[t][p] = x
    /\ \A q \in Paths : q # p => s.staging[t][q] = r.staging[t][q]

LEMMA PutAnyShape ==
    ASSUME NEW r, RepoOK(r), NEW t \in Branches, NEW p \in Paths, NEW x,
           NEW s, s = PutObject(r, t, p, x)
    PROVE  PutAt(r, s, t, p, x)
<1>1. PICK S, U : r \in [commits : Seq(S), head : [Branches -> Nat],
                         staging : [Branches -> [Paths -> U]]]
  BY DEF RepoOK
<1> DEFINE g == [r.staging[t] EXCEPT ![p] = x]
<1>2. s = Restaged(r, t, g)
  BY <1>1 DEF PutObject, Restaged
<1>3. g \in [Paths -> U \cup {x}]
  BY <1>1
<1>4. g[p] = x /\ \A q \in Paths \ {p} : g[q] = r.staging[t][q]
  BY <1>1
<1>5. PICK f : /\ s = Restaged(r, t, f) /\ OnPaths(f)
               /\ f[p] = x /\ \A q \in Paths \ {p} : f[q] = r.staging[t][q]
  <2> HIDE DEF g
  <2>1. QED
    BY <1>2, <1>3, <1>4 DEF OnPaths
<1>6. RepoOK(s) /\ Kept(r, s, {t}) /\ s.head = r.head /\ s.staging[t] = f
      /\ s.commits = r.commits
  BY <1>5, StageShape
<1>7. QED
  BY <1>5, <1>6 DEF PutAt

(* The staged change of a transaction's record.                            *)
Annotated(r, s, t) ==
    /\ RepoOK(s) /\ Kept(r, s, {t}) /\ s.head = r.head /\ s.commits = r.commits
    /\ \A a \in Payloads : s.staging[t][a] = r.staging[t][a]

LEMMA PutShape ==
    ASSUME NEW r, RepoOK(r), NEW t \in TxnIds, NEW x, NEW s, s = PutObject(r, t, t, x)
    PROVE  Annotated(r, s, t)
<1>1. t \in Branches /\ t \in Paths /\ \A a \in Payloads : a \in Paths /\ a # t
  BY NameAssumption DEF Branches, Paths
<1>2. PutAt(r, s, t, t, x)
  BY <1>1, PutAnyShape
<1>3. QED
  BY <1>1, <1>2 DEF Annotated, PutAt

(* A branch is created, or deleted.                                        *)
LEMMA PointShape ==
    ASSUME NEW r, RepoOK(r), NEW b \in Branches,
           NEW c \in CommitIds(r) \cup {NoBranch},
           NEW s, s = CreateBranch(r, b, c)
    PROVE  Pointed(r, s, b, c)
<1>1. PICK S, U : r \in [commits : Seq(S), head : [Branches -> Nat],
                         staging : [Branches -> [Paths -> U]]]
  BY DEF RepoOK
<1>2. c \in Nat
  BY RepoShape DEF NoBranch
<1> DEFINE new == [r.staging EXCEPT ![b] = NoStaging]
           heads == [r.head EXCEPT ![b] = c]
<1>3. s = [r EXCEPT !.head = heads, !.staging = new]
  BY <1>1 DEF CreateBranch
<1>4. new \in [Branches -> [Paths -> U \cup {Unstaged}]] /\ heads \in [Branches -> Nat]
  BY <1>1, <1>2 DEF NoStaging
<1>5. /\ new[b] = NoStaging /\ heads[b] = c
      /\ \A x \in Branches \ {b} : new[x] = r.staging[x] /\ heads[x] = r.head[x]
  BY <1>1
<1> HIDE DEF new, heads
<1>6. /\ s \in [commits : Seq(S), head : [Branches -> Nat],
                staging : [Branches -> [Paths -> U \cup {Unstaged}]]]
      /\ s.commits = r.commits /\ s.head = heads /\ s.staging = new
  BY <1>1, <1>3, <1>4
<1>7. CommitIds(s) = CommitIds(r)
  BY <1>6 DEF CommitIds
<1>8. RepoOK(s)
  BY <1>5, <1>6, <1>7 DEF RepoOK
<1>9. QED
  BY <1>5, <1>6, <1>7, <1>8 DEF Kept, Pointed

LEMMA DeleteShape ==
    ASSUME NEW r, RepoOK(r), NEW b \in Branches, NEW s, s = DeleteBranch(r, b)
    PROVE  Pointed(r, s, b, NoBranch)
<1>1. s = CreateBranch(r, b, NoBranch)
  BY DEF CreateBranch, DeleteBranch
<1>2. QED
  BY <1>1, PointShape

(* A new commit at the head of branch b.                                   *)
LEMMA AdvanceShape ==
    ASSUME NEW r, RepoOK(r), NEW b \in Branches, NEW ps, NEW objs,
           NEW s, s = Advance(r, b, ps, objs)
    PROVE  /\ Advanced(r, s, b) /\ AtCommit(s, s.head[b]) = objs
           /\ CommitIds(s) = CommitIds(r) \cup {Len(r.commits) + 1}
           /\ s.head[b] = Len(r.commits) + 1 /\ s.commits[s.head[b]].parents = ps
<1>1. PICK S, U : r \in [commits : Seq(S), head : [Branches -> Nat],
                         staging : [Branches -> [Paths -> U]]]
  BY DEF RepoOK
<1> DEFINE new == [parents |-> ps, objects |-> objs]
           n == Len(r.commits) + 1
           heads == [r.head EXCEPT ![b] = n]
           stage == [r.staging EXCEPT ![b] = NoStaging]
           log == Append(r.commits, new)
<1>2. s = [r EXCEPT !.commits = log, !.head = heads, !.staging = stage]
  BY <1>1 DEF Advance
<1>3. new.objects = objs /\ new.parents = ps
  OBVIOUS
<1> HIDE DEF new
<1>4. r.commits \in Seq(S \cup {new}) /\ new \in S \cup {new} /\ Len(r.commits) \in Nat
  BY <1>1
<1>5. /\ log \in Seq(S \cup {new}) /\ Len(log) = n /\ log[n] = new
      /\ \A c \in 1 .. Len(r.commits) : log[c] = r.commits[c]
  BY <1>4
<1>6. stage \in [Branches -> [Paths -> U \cup {Unstaged}]] /\ heads \in [Branches -> Nat]
  BY <1>1, <1>4 DEF NoStaging
<1>7. /\ heads[b] = n /\ stage[b] = NoStaging
      /\ \A x \in Branches \ {b} : stage[x] = r.staging[x] /\ heads[x] = r.head[x]
  BY <1>1
<1> HIDE DEF log, heads, stage
<1>8. /\ s \in [commits : Seq(S \cup {new}), head : [Branches -> Nat],
                staging : [Branches -> [Paths -> U \cup {Unstaged}]]]
      /\ s.commits = log /\ s.head = heads /\ s.staging = stage
  BY <1>1, <1>2, <1>5, <1>6
<1>9. CommitIds(r) = 1 .. Len(r.commits) /\ CommitIds(s) = 1 .. n
  BY <1>4, <1>5, <1>8, RepoShape DEF CommitIds
<1>10. RepoOK(s)
  <2>1. \A x \in Branches : heads[x] \in 1 .. n \cup {NoBranch}
    BY <1>4, <1>7, <1>9 DEF RepoOK
  <2>2. \A x \in Branches : s.head[x] \in CommitIds(s) \cup {NoBranch}
    BY <2>1, <1>8, <1>9
  <2>3. QED
    BY <1>8, <2>2, Zenon DEF RepoOK
<1>11. Kept(r, s, {b})
  BY <1>4, <1>5, <1>7, <1>8, <1>9 DEF Kept
<1>12. s.head[b] # NoBranch
  BY <1>4, <1>7, <1>8 DEF NoBranch
<1>13. AtCommit(s, s.head[b]) = objs /\ s.commits[s.head[b]].parents = ps
  BY <1>3, <1>5, <1>7, <1>8 DEF AtCommit
<1>14. CommitIds(s) = CommitIds(r) \cup {n} /\ s.head[b] = n
  BY <1>4, <1>7, <1>8, <1>9
<1>15. QED
  BY <1>7, <1>8, <1>10, <1>11, <1>12, <1>13, <1>14 DEF BranchExists, Advanced

LEMMA CommitShape ==
    ASSUME NEW r, RepoOK(r), NEW b \in Branches, NEW s, s = Commit(r, b)
    PROVE  Advanced(r, s, b) /\ \A p \in Paths : HeadAt(s, b, p) = ResolveState(r, b)[p]
<1>1. PICK ps, objs : objs = ResolveState(r, b) /\ s = Advance(r, b, ps, objs)
  BY DEF Commit
<1>2. Advanced(r, s, b) /\ AtCommit(s, s.head[b]) = objs
  BY <1>1, AdvanceShape
<1>3. QED
  BY <1>1, <1>2 DEF HeadAt

(* What Merge() writes to a path is the source's value or the target's.    *)
Taken(r, s, a, b) ==
    \A p \in Paths : HeadAt(s, b, p) \in {HeadAt(r, a, p), HeadAt(r, b, p)}

LEMMA MergeShape ==
    ASSUME NEW r, RepoOK(r), NEW a \in Branches, NEW b \in Branches,
           NEW s, s = Merge(r, a, b)
    PROVE  Advanced(r, s, b) /\ Taken(r, s, a, b)
<1> DEFINE base == AtCommit(r, MergeBase(r, a, b))
           src  == AtCommit(r, r.head[a])
           tgt  == AtCommit(r, r.head[b])
           new  == [p \in Paths |-> PathMerge(base[p], src[p], tgt[p])]
<1>1. \A p \in Paths : new[p] \in {src[p], tgt[p]}
  <2> HIDE DEF base, src, tgt
  <2>1. QED
    BY DEF PathMerge
<1>2. PICK ps, objs : objs = new /\ s = Advance(r, b, ps, objs)
  BY DEF Merge
<1> HIDE DEF new
<1>3. Advanced(r, s, b) /\ AtCommit(s, s.head[b]) = objs
  BY <1>2, AdvanceShape
<1>4. QED
  BY <1>1, <1>2, <1>3 DEF HeadAt, Taken

(* The resolver changes index objects only.                                *)
LEMMA ResolveShape ==
    ASSUME NEW r, RepoOK(r), NEW a \in Branches, NEW b \in Branches, NEW conflicts,
           NEW s, s = ResolveConflicts(r, a, b, conflicts)
    PROVE  /\ Advanced(r, s, a)
           /\ \A p \in Paths \ conflicts : HeadAt(s, a, p) = ResolveState(r, a)[p]
<1>1. PICK f, u : /\ OnPaths(f) /\ u = Restaged(r, a, f) /\ s = Commit(u, a)
                  /\ \A p \in Paths \ conflicts : f[p] = r.staging[a][p]
  <2> DEFINE v(p) == ResolveSinglePath(r, r.head[a], r.head[b], p)
             g == [p \in Paths |-> IF p \in conflicts THEN v(p) ELSE r.staging[a][p]]
  <2>1. s = Commit(Restaged(r, a, g), a)
    BY DEF ResolveConflicts, Restaged, GetBranchHead
  <2>2. g \in [Paths -> {g[p] : p \in Paths}]
    OBVIOUS
  <2>3. \A p \in Paths \ conflicts : g[p] = r.staging[a][p]
    OBVIOUS
  <2> HIDE DEF g
  <2>4. OnPaths(g)
    BY <2>2 DEF OnPaths
  <2>5. QED
    BY <2>1, <2>3, <2>4
<1>2. /\ RepoOK(u) /\ Kept(r, u, {a}) /\ u.head = r.head /\ u.staging[a] = f
      /\ u.commits = r.commits
  BY <1>1, StageShape
<1>3. Advanced(u, s, a) /\ \A p \in Paths : HeadAt(s, a, p) = ResolveState(u, a)[p]
  BY <1>1, <1>2, CommitShape
<1>4. Advanced(r, s, a)
  BY <1>2, <1>3 DEF Advanced, Kept
<1>5. \A p \in Paths \ conflicts : ResolveState(u, a)[p] = ResolveState(r, a)[p]
  BY <1>1, <1>2 DEF ResolveState, AtCommit
<1>6. QED
  BY <1>3, <1>4, <1>5

-----------------------------------------------------------------------------
(* The inductive invariant.                                                *)

CommitPcs  == {"commit", "clean", "cleaning", "merge", "resolve", "sleep",
               "restore", "restoring", "merged", "rollback"}
\* the mutex is held
HeldPcs    == {"clean", "cleaning", "merge", "resolve", "restore", "restoring",
               "merged"}
\* the transaction was found to have no children
ClosingPcs == {"clean", "cleaning", "merge", "merged"}

WriteOps  == [pc : {"write", "written"}, txn : Txns, artifact : Payloads,
              attempts : Nat]
CommitOps == [pc : CommitPcs, txn : TxnIds, rec : CachedRecords, attempts : Nat,
              seen : SUBSET Payloads, ours : Nat, theirs : Nat,
              conflicts : SUBSET Indexes]
Ops       == {Idle} \cup WriteOps \cup CommitOps

(* An implicit transaction has no parent.                                  *)
CacheOK(k) ==
    /\ k \in [Instances -> [TxnIds -> CachedRecords \cup {None}]]
    /\ \A i \in Instances, th \in Threads : k[i][th] # None => k[i][th].parent = None

Typed ==
    /\ RepoOK(repo) /\ BranchExists(repo, Main)
    /\ CacheOK(cache)
    /\ lock \in [Instances -> Threads \cup {None}]
    /\ op \in [Threads -> Ops]
    /\ outcome \in [Txns -> {"unborn", "open", "committed", "rolledback"}]
    /\ parent \in [Txns -> Txns \cup {None}]
    /\ merges \in [Txns -> Nat]

(* Whoever is between the locking and the unlocking of the mutex has it.   *)
LockHeld == \A th \in Threads : op[th].pc \in HeldPcs => lock[Home[th]] = th

(* Nothing is there of a transaction that was not created.                 *)
Born ==
    \A t \in Txns : outcome[t] = "unborn" =>
        /\ ~BranchExists(repo, t) /\ parent[t] = None
        /\ \A i \in Instances : cache[i][t] = None

(* As long as its branch is there, a transaction is in the cache.          *)
Cached ==
    \A t \in Txns, i \in Instances :
        /\ BranchExists(repo, t) => cache[i][t] # None
        /\ cache[i][t] # None => cache[i][t].parent = parent[t]

(* A transaction that was merged has lost its branch, or is about to.      *)
Merged ==
    \A t \in Txns :
        /\ merges[t] = IF outcome[t] = "committed" THEN 1 ELSE 0
        /\ outcome[t] = "committed" /\ BranchExists(repo, t) =>
                \E th \in Threads : op[th].pc = "merged" /\ op[th].txn = t

(* An open child has a parent, whose cached record knows of it.            *)
Children ==
    \A c \in Txns : outcome[c] = "open" /\ parent[c] # None =>
        /\ BranchExists(repo, parent[c])
        /\ \A i \in Instances : c \in cache[i][parent[c]].children

(* A commit works on a transaction that was created, with the parent it    *)
(* was created with, or on the thread's implicit one; past its checks the  *)
(* transaction has no open children.                                       *)
OpSound(th, o) ==
    o.pc \in CommitPcs =>
        /\ o.txn \in Txns \cup {th}
        /\ o.txn \in Txns => outcome[o.txn] # "unborn" /\ o.rec.parent = parent[o.txn]
        /\ o.txn = th => o.rec.parent = None
        /\ o.pc \in {"commit", "rollback"} => o.txn = th
        /\ o.pc = "merged" /\ o.txn \in Txns => outcome[o.txn] = "committed"
        /\ o.pc \in ClosingPcs =>
                \A c \in Txns : outcome[c] = "open" => parent[c] # o.txn

OpsSound == \A th \in Threads : OpSound(th, op[th])

Inv == Typed /\ LockHeld /\ Born /\ Cached /\ Merged /\ Children /\ OpsSound

-----------------------------------------------------------------------------
(* Threads and the mutex.                                                  *)

LEMMA OpKinds ==
    ASSUME NEW o \in Ops
    PROVE  /\ o.pc \in CommitPcs => o \in CommitOps
           /\ o.pc \in {"write", "written"} => o \in WriteOps
           /\ o.pc \in CommitPcs \cup {"write", "written", "idle"}
BY DEF Ops, WriteOps, CommitOps, Idle, CommitPcs

(* A thread goes on within a commit.                                       *)
LEMMA GotoShape ==
    ASSUME NEW o \in CommitOps, NEW q \in CommitPcs
    PROVE  LET n == [o EXCEPT !.pc = q]
           IN  n \in CommitOps /\ n.pc = q /\ n.txn = o.txn /\ n.rec = o.rec
BY DEF CommitOps

LEMMA RetryShape ==
    ASSUME NEW o \in CommitOps, NEW q \in CommitPcs
    PROVE  LET n == [o EXCEPT !.pc = q, !.attempts = o.attempts + 1]
           IN  n \in CommitOps /\ n.pc = q /\ n.txn = o.txn /\ n.rec = o.rec
<1>1. PICK k \in Nat : k = o.attempts + 1
  BY DEF CommitOps
<1>2. LET n == [o EXCEPT !.pc = q, !.attempts = k]
      IN  n \in CommitOps /\ n.pc = q /\ n.txn = o.txn /\ n.rec = o.rec
  BY DEF CommitOps
<1>3. QED
  BY <1>1, <1>2

(* It goes on to resolve conflicts, or is done with one of them.           *)
LEMMA ToResolveShape ==
    ASSUME NEW o \in CommitOps, NEW m \in Nat, NEW n \in Nat, NEW C \in SUBSET Indexes,
           NEW u, u = Resolving(o, C, m, n)
    PROVE  /\ u \in CommitOps /\ u.pc = "resolve" /\ u.txn = o.txn /\ u.rec = o.rec
           /\ u.seen = o.seen /\ u.ours = m /\ u.theirs = n /\ u.conflicts = C
BY DEF CommitOps, CommitPcs, Resolving

LEMMA ResolvedShape ==
    ASSUME NEW o \in CommitOps, NEW p
    PROVE  LET u == [o EXCEPT !.conflicts = @ \ {p}]
           IN  /\ u \in CommitOps /\ u.pc = o.pc /\ u.txn = o.txn /\ u.rec = o.rec
               /\ u.seen = o.seen /\ u.ours = o.ours /\ u.theirs = o.theirs
               /\ u.conflicts = o.conflicts \ {p}
<1>1. PICK C \in SUBSET Indexes : C = o.conflicts \ {p}
  BY DEF CommitOps
<1>2. LET u == [o EXCEPT !.conflicts = C]
      IN  /\ u \in CommitOps /\ u.pc = o.pc /\ u.txn = o.txn /\ u.rec = o.rec
          /\ u.seen = o.seen /\ u.ours = o.ours /\ u.theirs = o.theirs
          /\ u.conflicts = C
  BY DEF CommitOps
<1>3. QED
  BY <1>1, <1>2

LEMMA OpStep ==
    ASSUME Typed, NEW th \in Threads, NEW o \in Ops, op' = [op EXCEPT ![th] = o]
    PROVE  /\ op' \in [Threads -> Ops] /\ op'[th] = o
           /\ \A x \in Threads \ {th} : op'[x] = op[x]
BY DEF Typed

LEMMA GotoStep ==
    ASSUME Typed, NEW th \in Threads, op[th].pc \in CommitPcs,
           NEW q \in CommitPcs, Goto(th, q)
    PROVE  \E o \in CommitOps :
              /\ op' = [op EXCEPT ![th] = o]
              /\ o.pc = q /\ o.txn = op[th].txn /\ o.rec = op[th].rec
<1>1. op \in [Threads -> Ops] /\ op[th] \in CommitOps
  BY OpKinds DEF Typed
<1>2. op' = [op EXCEPT ![th] = [op[th] EXCEPT !.pc = q]]
  BY <1>1 DEF Goto
<1> DEFINE n == [op[th] EXCEPT !.pc = q]
<1>3. n \in CommitOps /\ n.pc = q /\ n.txn = op[th].txn /\ n.rec = op[th].rec
  BY <1>1, GotoShape
<1> HIDE DEF n
<1>4. op' = [op EXCEPT ![th] = n]
  BY <1>2 DEF n
<1>5. QED
  BY <1>3, <1>4

(* A commit has to resolve conflicts.                                      *)
ToResolve(th, C, target) ==
    op' = [op EXCEPT ![th] = Resolving(@, C, GetBranchHead(repo, op[th].txn),
                                       GetBranchHead(repo, target))]

LEMMA ToResolveStep ==
    ASSUME RepoOK(repo), op \in [Threads -> Ops], NEW th \in Threads,
           op[th] \in CommitOps, op[th].txn \in Branches, NEW target \in Branches,
           NEW C \in SUBSET Indexes, ToResolve(th, C, target)
    PROVE  \E o \in CommitOps :
              /\ op' = [op EXCEPT ![th] = o]
              /\ o.pc = "resolve" /\ o.txn = op[th].txn /\ o.rec = op[th].rec
              /\ o.seen = op[th].seen /\ o.conflicts = C
              /\ o.ours = repo.head[op[th].txn] /\ o.theirs = repo.head[target]
<1>1. PICK m \in Nat, n \in Nat : m = repo.head[op[th].txn] /\ n = repo.head[target]
  BY RepoShape
<1>2. PICK o \in CommitOps : o = op[th]
  OBVIOUS
<1>3. PICK u : u = Resolving(o, C, m, n)
  OBVIOUS
<1>4. op' = [op EXCEPT ![th] = u]
  BY <1>1, <1>2, <1>3 DEF ToResolve, GetBranchHead
<1>5. /\ u \in CommitOps /\ u.pc = "resolve" /\ u.txn = o.txn /\ u.rec = o.rec
      /\ u.seen = o.seen /\ u.ours = m /\ u.theirs = n /\ u.conflicts = C
  BY <1>3, ToResolveShape
<1>6. QED
  BY <1>1, <1>2, <1>4, <1>5

LEMMA ResolvedStep ==
    ASSUME NEW th \in Threads, op[th] \in CommitOps, op \in [Threads -> Ops], NEW p,
           op' = [op EXCEPT ![th].conflicts = @ \ {p}]
    PROVE  \E o \in CommitOps :
              /\ op' = [op EXCEPT ![th] = o]
              /\ o.pc = op[th].pc /\ o.txn = op[th].txn /\ o.rec = op[th].rec
              /\ o.seen = op[th].seen /\ o.ours = op[th].ours /\ o.theirs = op[th].theirs
              /\ o.conflicts = op[th].conflicts \ {p}
<1> DEFINE u == [op[th] EXCEPT !.conflicts = @ \ {p}]
<1>1. op' = [op EXCEPT ![th] = u]
  OBVIOUS
<1>2. /\ u \in CommitOps /\ u.pc = op[th].pc /\ u.txn = op[th].txn /\ u.rec = op[th].rec
      /\ u.seen = op[th].seen /\ u.ours = op[th].ours /\ u.theirs = op[th].theirs
      /\ u.conflicts = op[th].conflicts \ {p}
  BY ResolvedShape
<1> HIDE DEF u
<1>3. QED
  BY <1>1, <1>2

LEMMA HomeShape == \A th \in Threads : Home[th] \in Instances
BY TransactionAssumption

(* With one process the mutex keeps all threads apart.                     *)
LEMMA Alone ==
    ASSUME OneInstance, Typed, LockHeld, NEW th \in Threads
    PROVE  /\ op[th].pc \in HeldPcs =>
                \A x \in Threads \ {th} : op[x].pc \notin HeldPcs
           /\ lock[Home[th]] = None => \A x \in Threads : op[x].pc \notin HeldPcs
<1>1. None \notin Threads
  BY NameAssumption
<1>2. \A x \in Threads : Home[x] = Home[th]
  BY HomeShape DEF OneInstance
<1>3. QED
  BY <1>1, <1>2 DEF LockHeld

-----------------------------------------------------------------------------
(* Steps that leave the transactions' branches, records and outcomes alone *)
(* (but perhaps not those of implicit transactions) and move one thread.   *)

Quiet ==
    /\ \A b \in Txns \cup {Main} : BranchExists(repo', b) <=> BranchExists(repo, b)
    /\ \A i \in Instances, t \in Txns : cache'[i][t] = cache[i][t]
    /\ CacheOK(cache')
    /\ UNCHANGED <<outcome, parent, merges>>

LEMMA QuietStep ==
    ASSUME Inv, Quiet, NEW th \in Threads, NEW o \in Ops,
           op' = [op EXCEPT ![th] = o], OpSound(th, o),
           op[th].pc = "merged" => op[th].txn \notin Txns
    PROVE  Born' /\ Cached' /\ Merged' /\ Children' /\ OpsSound'
<1>1. /\ op' \in [Threads -> Ops] /\ op'[th] = o
      /\ \A x \in Threads \ {th} : op'[x] = op[x]
  BY OpStep DEF Inv
<1>2. Born'
  BY DEF Inv, Quiet, Born
<1>3. Cached'
  BY DEF Inv, Quiet, Cached
<1>4. Merged'
  <2>1. ASSUME NEW t \in Txns, outcome[t] = "committed", BranchExists(repo, t)
        PROVE  \E x \in Threads : op'[x].pc = "merged" /\ op'[x].txn = t
    <3>1. PICK x \in Threads : op[x].pc = "merged" /\ op[x].txn = t
      BY <2>1 DEF Inv, Merged
    <3>2. x # th
      BY <3>1
    <3>3. QED
      BY <1>1, <3>1, <3>2
  <2>2. QED
    BY <2>1 DEF Inv, Quiet, Merged
<1>5. Children'
  <2>1. \A c \in Txns : parent[c] # None => parent[c] \in Txns
    BY DEF Inv, Typed
  <2>2. QED
    BY <2>1 DEF Inv, Quiet, Children
<1>6. OpsSound'
  BY <1>1 DEF Inv, Quiet, OpsSound, OpSound
<1>7. QED
  BY <1>2, <1>3, <1>4, <1>5, <1>6

(* The ways to treat the mutex: leave it alone, take it, release it.       *)
LockMove(th, q) ==
    \/ lock' = lock /\ (q \in HeldPcs => op[th].pc \in HeldPcs)
    \/ lock' = [lock EXCEPT ![Home[th]] = th] /\ lock[Home[th]] = None
    \/ /\ lock' = [lock EXCEPT ![Home[th]] = None]
       /\ op[th].pc \in HeldPcs /\ q \notin HeldPcs

LEMMA LockStep ==
    ASSUME OneInstance, Inv, NEW th \in Threads, NEW o \in Ops,
           op' = [op EXCEPT ![th] = o], LockMove(th, o.pc)
    PROVE  lock' \in [Instances -> Threads \cup {None}] /\ LockHeld'
<1>1. /\ op'[th] = o
      /\ \A x \in Threads \ {th} : op'[x] = op[x]
  BY OpStep DEF Inv
<1>2. Home[th] \in Instances /\ \A x \in Threads : Home[x] = Home[th]
  BY HomeShape DEF OneInstance
<1>3. lock \in [Instances -> Threads \cup {None}] /\ LockHeld
  BY DEF Inv, Typed
<1>4. CASE lock' = lock /\ (o.pc \in HeldPcs => op[th].pc \in HeldPcs)
  BY <1>1, <1>3, <1>4 DEF LockHeld
<1>5. CASE lock' = [lock EXCEPT ![Home[th]] = th] /\ lock[Home[th]] = None
  <2>1. \A x \in Threads : op[x].pc \notin HeldPcs
    BY <1>5, Alone DEF Inv
  <2>2. QED
    BY <1>1, <1>2, <1>3, <1>5, <2>1 DEF LockHeld
<1>6. CASE /\ lock' = [lock EXCEPT ![Home[th]] = None]
           /\ op[th].pc \in HeldPcs /\ o.pc \notin HeldPcs
  <2>1. \A x \in Threads \ {th} : op[x].pc \notin HeldPcs
    BY <1>6, Alone DEF Inv
  <2>2. QED
    BY <1>1, <1>2, <1>3, <1>6, <2>1 DEF LockHeld
<1>7. QED
  BY <1>4, <1>5, <1>6 DEF LockMove

(* Together: a step that is quiet, moves a thread and treats the mutex in  *)
(* one of these ways keeps the invariant.                                  *)
LEMMA QuietMove ==
    ASSUME OneInstance, Inv, Quiet, RepoOK(repo'), NEW th \in Threads, NEW o \in Ops,
           op' = [op EXCEPT ![th] = o], OpSound(th, o),
           op[th].pc = "merged" => op[th].txn \notin Txns,
           LockMove(th, o.pc)
    PROVE  Inv'
<1>1. Born' /\ Cached' /\ Merged' /\ Children' /\ OpsSound'
  BY QuietStep
<1>2. lock' \in [Instances -> Threads \cup {None}] /\ LockHeld'
  BY LockStep
<1>3. op' \in [Threads -> Ops]
  BY OpStep DEF Inv
<1>4. Typed'
  BY <1>2, <1>3 DEF Inv, Typed, Quiet
<1>5. QED
  BY <1>1, <1>2, <1>4 DEF Inv

(* What keeps those branches where they are.                               *)
LEMMA SameBranches ==
    ASSUME NEW B, Kept(repo, repo', B),
           \A b \in B \cap (Txns \cup {Main}) :
                BranchExists(repo, b) /\ BranchExists(repo', b)
    PROVE  \A b \in Txns \cup {Main} : BranchExists(repo', b) <=> BranchExists(repo, b)
<1>1. Txns \cup {Main} \subseteq Branches
  BY DEF Branches, TxnIds
<1>2. QED
  BY <1>1 DEF Kept, BranchExists

LEMMA QuietShape ==
    ASSUME Inv, NEW B, Kept(repo, repo', B),
           \A b \in B \cap (Txns \cup {Main}) :
                BranchExists(repo, b) /\ BranchExists(repo', b),
           UNCHANGED <<cache, outcome, parent, merges>>
    PROVE  Quiet
<1>1. \A b \in Txns \cup {Main} : BranchExists(repo', b) <=> BranchExists(repo, b)
  BY SameBranches
<1>2. QED
  BY <1>1 DEF Quiet, Inv, Typed

LEMMA Names ==
    /\ Main \in Branches /\ Threads \subseteq Branches /\ Txns \subseteq Branches
    /\ TxnIds \subseteq Paths /\ Payloads \subseteq Paths
    /\ Txns \cap Threads = {} /\ Main \notin TxnIds
    /\ Threads \subseteq TxnIds /\ Txns \subseteq TxnIds
    /\ Payloads \cap TxnIds = {} /\ Payloads \cap Indexes = {}
    /\ None \notin Txns /\ None \notin Threads /\ None \notin CachedRecords
    /\ Unstaged \notin TxnIds /\ Absent \notin TxnIds
BY NameAssumption DEF Branches, TxnIds, Paths, StoredValues

(* A commit that failed.                                                   *)
LEMMA FailMove ==
    ASSUME OneInstance, Inv, NEW th \in Threads, op[th].pc \in HeldPcs, FailCommit(th)
    PROVE  \E o \in Ops : /\ op' = [op EXCEPT ![th] = o] /\ OpSound(th, o)
                          /\ LockMove(th, o.pc)
                          /\ o.pc \in {"idle", "rollback"}
<1>1. lock' = [lock EXCEPT ![Home[th]] = None]
  BY DEF FailCommit, Unlock
<1>2. op[th].pc \in CommitPcs /\ op[th] \in CommitOps /\ OpSound(th, op[th])
  BY OpKinds DEF Inv, Typed, HeldPcs, CommitPcs, OpsSound
<1>3. CASE op[th].txn = th
  <2>1. PICK o \in CommitOps : /\ op' = [op EXCEPT ![th] = o] /\ o.pc = "rollback"
                               /\ o.txn = op[th].txn /\ o.rec = op[th].rec
    BY <1>2, <1>3, GotoStep DEF FailCommit, Inv, CommitPcs
  <2>2. OpSound(th, o)
    BY <1>2, <1>3, <2>1 DEF OpSound, ClosingPcs
  <2>3. QED
    BY <1>1, <2>1, <2>2 DEF LockMove, HeldPcs, Ops
<1>4. CASE op[th].txn # th
  <2>1. op' = [op EXCEPT ![th] = Idle]
    BY <1>4 DEF FailCommit, Return
  <2>2. Idle \in Ops /\ OpSound(th, Idle) /\ Idle.pc = "idle"
    BY DEF Ops, OpSound, Idle, CommitPcs
  <2>3. QED
    BY <1>1, <2>1, <2>2 DEF LockMove, HeldPcs
<1>5. QED
  BY <1>3, <1>4

-----------------------------------------------------------------------------
(* The storage calls of one step.                                          *)

(* A new branch with the record of a transaction.                          *)
LEMMA RecordShape ==
    ASSUME NEW r, RepoOK(r), NEW t \in TxnIds, NEW c \in CommitIds(r), NEW rec,
           NEW s, s = WithTxnMeta(CreateBranch(r, t, c), t, rec)
    PROVE  /\ Advanced(r, s, t)
           /\ \A a \in Payloads : HeadAt(s, t, a) = AtCommit(r, c)[a]
<1>1. t \in Branches /\ t \notin Payloads /\ Payloads \subseteq Paths
  BY Names DEF Branches
<1>2. PICK u : u = CreateBranch(r, t, c)
  OBVIOUS
<1>3. PICK x, v : v = PutObject(u, t, t, x) /\ s = Commit(v, t)
  BY <1>2 DEF WithTxnMeta, TxnMetaPath
<1>4. Pointed(r, u, t, c)
  BY <1>1, <1>2, PointShape
<1>5. /\ RepoOK(v) /\ Kept(u, v, {t}) /\ v.head = u.head /\ v.commits = u.commits
      /\ \A a \in Payloads : v.staging[t][a] = u.staging[t][a]
  <2>1. RepoOK(u)
    BY <1>4 DEF Pointed
  <2>2. Annotated(u, v, t)
    BY <1>3, <2>1, PutShape
  <2>3. QED
    BY <2>2 DEF Annotated
<1>6. Advanced(v, s, t) /\ \A p \in Paths : HeadAt(s, t, p) = ResolveState(v, t)[p]
  BY <1>1, <1>3, <1>5, CommitShape
<1>7. Advanced(r, s, t)
  BY <1>4, <1>5, <1>6 DEF Kept, Advanced, Pointed
<1>8. \A a \in Payloads : ResolveState(v, t)[a] = AtCommit(r, c)[a]
  BY <1>1, <1>4, <1>5 DEF ResolveState, AtCommit, NoStaging, Pointed
<1>9. QED
  BY <1>1, <1>6, <1>7, <1>8

(* A write is staged on branch b and committed there.                      *)
LEMMA WriteShape ==
    ASSUME NEW r, RepoOK(r), NEW b \in TxnIds, NEW w \in TxnIds, NEW a \in Payloads,
           NEW s, s = Commit(Staged(r, b, w, a), b)
    PROVE  /\ Advanced(r, s, b)
           /\ HeadAt(s, b, a) = w
           /\ \A x \in Payloads \ {a} : HeadAt(s, b, x) = ResolveState(r, b)[x]
<1> DEFINE row(p) == WithRow(WithoutRow(ResolveState(r, b)[p], a), a, 0)
           g == [p \in Paths |-> IF p = a THEN w
                                 ELSE IF p \in Indexes THEN row(p)
                                 ELSE r.staging[b][p]]
<1>1. b \in Branches /\ a \in Paths /\ Payloads \subseteq Paths
      /\ Payloads \cap Indexes = {} /\ w # Unstaged
  BY Names DEF Branches
<1>2. Staged(r, b, w, a) = Restaged(r, b, g)
  BY DEF Staged, Restaged
<1> HIDE DEF row
<1>3. g \in [Paths -> {g[p] : p \in Paths}]
  OBVIOUS
<1>4. g[a] = w /\ \A x \in Payloads \ {a} : g[x] = r.staging[b][x]
  BY <1>1
<1> HIDE DEF g
<1>5. PICK f, u : /\ OnPaths(f) /\ u = Restaged(r, b, f) /\ s = Commit(u, b)
                  /\ f[a] = w /\ \A x \in Payloads \ {a} : f[x] = r.staging[b][x]
  BY <1>2, <1>3, <1>4 DEF OnPaths
<1>6. /\ RepoOK(u) /\ Kept(r, u, {b}) /\ u.head = r.head /\ u.staging[b] = f
      /\ u.commits = r.commits
  BY <1>1, <1>5, StageShape
<1>7. Advanced(u, s, b) /\ \A p \in Paths : HeadAt(s, b, p) = ResolveState(u, b)[p]
  BY <1>1, <1>5, <1>6, CommitShape
<1>8. Advanced(r, s, b)
  BY <1>6, <1>7 DEF Kept, Advanced
<1>9. /\ ResolveState(u, b)[a] = w
      /\ \A x \in Payloads \ {a} : ResolveState(u, b)[x] = ResolveState(r, b)[x]
  BY <1>1, <1>5, <1>6 DEF ResolveState, AtCommit
<1>10. QED
  BY <1>1, <1>7, <1>8, <1>9

-----------------------------------------------------------------------------
(* What each action does to the store.                                     *)

(* The facts about a thread at work that most steps need.                  *)
LEMMA AtWork ==
    ASSUME Inv, NEW th \in Threads
    PROVE  /\ op[th].pc = "write" => op[th] \in WriteOps /\ op[th].txn \in Txns
           /\ op[th].pc \in CommitPcs =>
                /\ op[th] \in CommitOps /\ op[th].txn \in Txns \cup {th}
                /\ op[th].txn \in TxnIds /\ op[th].rec \in CachedRecords
                /\ op[th].rec.parent \in Txns \cup {None}
           /\ RepoOK(repo) /\ op[th] \in Ops
<1>1. op[th] \in Ops /\ OpSound(th, op[th]) /\ RepoOK(repo)
  BY DEF Inv, Typed, OpsSound
<1>2. CASE op[th].pc \in CommitPcs
  <2>1. op[th] \in CommitOps
    BY <1>1, <1>2, OpKinds
  <2>2. op[th].txn \in TxnIds /\ op[th].rec \in CachedRecords
    BY <2>1 DEF CommitOps
  <2>3. op[th].rec.parent \in Txns \cup {None}
    BY <2>2 DEF CachedRecords
  <2>4. QED
    BY <1>1, <1>2, <2>1, <2>2, <2>3 DEF OpSound, CommitPcs
<1>3. CASE op[th].pc = "write"
  <2>1. op[th] \in WriteOps
    BY <1>1, <1>3, OpKinds
  <2>2. QED
    BY <1>1, <1>3, <2>1 DEF WriteOps, CommitPcs
<1>4. QED
  BY <1>1, <1>2, <1>3

LEMMA BeginWriteRepo ==
    ASSUME Inv, NEW th \in Threads, NEW t \in Txns, NEW a \in Payloads,
           BeginWrite(th, t, a)
    PROVE  /\ Advanced(repo, repo', th)
           /\ HeadAt(repo', th, a) = t
           /\ \A x \in Payloads \ {a} : HeadAt(repo', th, x) = HeadAt(repo, t, x)
<1>1. PICK u : /\ u = CreateBranch(repo, th, repo.head[t])
               /\ repo' = Commit(Staged(u, th, t, a), th)
  BY DEF BeginWrite, GetBranchHead
<1>2. /\ th \in Branches /\ t \in Branches /\ th \in TxnIds /\ t \in TxnIds
      /\ Payloads \subseteq Paths
  BY Names
<1>3. RepoOK(repo) /\ repo.head[t] \in CommitIds(repo)
  BY <1>2, RepoShape DEF BeginWrite, Inv, Typed
<1>4. Pointed(repo, u, th, repo.head[t])
  BY <1>1, <1>2, <1>3, PointShape
<1>5. /\ Advanced(u, repo', th) /\ HeadAt(repo', th, a) = t
      /\ \A x \in Payloads \ {a} : HeadAt(repo', th, x) = ResolveState(u, th)[x]
  <2>1. RepoOK(u)
    BY <1>4 DEF Pointed
  <2>2. QED
    BY <1>1, <1>2, <2>1, WriteShape
<1>6. \A x \in Payloads : ResolveState(u, th)[x] = HeadAt(repo, t, x)
  BY <1>2, <1>4 DEF ResolveState, AtCommit, NoStaging, Pointed, HeadAt
<1>7. Advanced(repo, repo', th)
  BY <1>4, <1>5 DEF Kept, Advanced, Pointed
<1>8. QED
  BY <1>5, <1>6, <1>7

(* A merge into branch b, after which branch th is deleted.                *)
LEMMA MergeAndDelete ==
    ASSUME NEW r, RepoOK(r), NEW th \in Branches, NEW b \in Branches, th # b,
           NEW s, s = DeleteBranch(Merge(r, th, b), th)
    PROVE  /\ RepoOK(s) /\ Kept(r, s, {th, b}) /\ BranchExists(s, b)
           /\ ~BranchExists(s, th) /\ s.staging[b] = NoStaging
           /\ Taken(r, s, th, b)
<1>1. PICK u : u = Merge(r, th, b) /\ s = DeleteBranch(u, th)
  OBVIOUS
<1>2. Advanced(r, u, b) /\ Taken(r, u, th, b)
  BY <1>1, MergeShape
<1>3. Pointed(u, s, th, NoBranch)
  BY <1>1, <1>2, DeleteShape DEF Advanced
<1>4. s.head[b] = u.head[b] /\ s.staging[b] = u.staging[b]
  BY <1>3 DEF Kept, Pointed
<1>5. \A p \in Paths : HeadAt(s, b, p) = HeadAt(u, b, p)
  BY <1>3, <1>4 DEF AtCommit, HeadAt, Pointed
<1>6. Kept(r, s, {th, b})
  BY <1>2, <1>3 DEF Kept, Advanced, Pointed
<1>7. QED
  BY <1>2, <1>3, <1>4, <1>5, <1>6 DEF BranchExists, Advanced, Pointed, Taken

-----------------------------------------------------------------------------
(* Each action keeps the invariant.                                        *)

LEMMA IdleSound == \A th \in Threads : Idle \in Ops /\ Idle.pc = "idle" /\ OpSound(th, Idle)
BY DEF Ops, OpSound, Idle, CommitPcs

LEMMA BeginWriteKeeps ==
    ASSUME OneInstance, Inv, NEW th \in Threads, NEW t \in Txns, NEW a \in Payloads,
           BeginWrite(th, t, a)
    PROVE  Inv'
<1> DEFINE o == [pc |-> "write", txn |-> t, artifact |-> a, attempts |-> 1]
<1>1. o \in Ops /\ o.pc = "write" /\ OpSound(th, o)
  BY DEF Ops, WriteOps, OpSound, CommitPcs
<1>2. op' = [op EXCEPT ![th] = o] /\ lock' = lock /\ op[th].pc = "idle"
  BY DEF BeginWrite, CanCall, Idle
<1> HIDE DEF o
<1>3. LockMove(th, o.pc)
  BY <1>1, <1>2 DEF LockMove, HeldPcs
<1>4. Advanced(repo, repo', th)
  BY BeginWriteRepo
<1>5. Quiet
  <2>1. {th} \cap (Txns \cup {Main}) = {}
    BY Names
  <2>2. UNCHANGED <<cache, outcome, parent, merges>>
    BY DEF BeginWrite, history
  <2>3. QED
    BY <1>4, <2>1, <2>2, QuietShape DEF Advanced
<1>6. QED
  BY <1>1, <1>2, <1>3, <1>4, <1>5, QuietMove DEF Advanced

(* A write's branch and perhaps its transaction's branch change.           *)
LEMMA MergeWriteKeeps ==
    ASSUME OneInstance, Inv, NEW th \in Threads, MergeWrite(th)
    PROVE  Inv'
<1> DEFINE t == op[th].txn
           conflicts == MergeConflicts(repo, th, t)
<1>1. /\ op[th].pc = "write" /\ op[th] \in WriteOps /\ t \in Txns /\ RepoOK(repo)
      /\ th \in Branches /\ t \in Branches /\ th # t /\ th \notin Txns \cup {Main}
      /\ t # Main
  BY AtWork, Names DEF MergeWrite
<1>2. /\ lock' = lock /\ UNCHANGED <<cache, outcome, parent, merges>>
  BY DEF MergeWrite, history
<1>3. ASSUME repo' = DeleteBranch(repo, th), Return(th)
      PROVE  Inv'
  <2>1. Pointed(repo, repo', th, NoBranch)
    BY <1>1, <1>3, DeleteShape
  <2>2. Quiet
    BY <1>1, <1>2, <2>1, QuietShape DEF Pointed
  <2>3. op' = [op EXCEPT ![th] = Idle]
    BY <1>3 DEF Return
  <2>4. QED
    BY <1>1, <1>2, <2>1, <2>2, <2>3, IdleSound, QuietMove DEF Pointed, LockMove, HeldPcs
<1>4. CASE CanMerge(repo, th, t) /\ repo' = DeleteBranch(Merge(repo, th, t), th)
           /\ Goto(th, "written")
  <2> DEFINE o == [op[th] EXCEPT !.pc = "written"]
  <2>1. op' = [op EXCEPT ![th] = o]
    BY <1>4 DEF Goto
  <2>2. o \in Ops /\ o.pc = "written" /\ OpSound(th, o)
    BY <1>1 DEF Ops, WriteOps, OpSound, CommitPcs
  <2> HIDE DEF o
  <2>3. RepoOK(repo') /\ Kept(repo, repo', {th, t}) /\ BranchExists(repo', t)
    BY <1>1, <1>4, MergeAndDelete
  <2>4. \A x \in {th, t} \cap (Txns \cup {Main}) :
            BranchExists(repo, x) /\ BranchExists(repo', x)
    BY <1>1, <1>4, <2>3 DEF CanMerge
  <2>5. Quiet
    BY <1>2, <2>3, <2>4, QuietShape
  <2>6. QED
    BY <1>1, <1>2, <2>1, <2>2, <2>3, <2>5, QuietMove DEF LockMove, HeldPcs
<1>5. CASE /\ repo' = ResolveConflicts(repo, th, t, conflicts)
           /\ op' = [op EXCEPT ![th].attempts = @ + 1]
  <2> DEFINE o == [op[th] EXCEPT !.attempts = op[th].attempts + 1]
  <2>1. op' = [op EXCEPT ![th] = o]
    BY <1>1, <1>5
  <2>2. o \in Ops /\ o.pc = "write" /\ OpSound(th, o)
    BY <1>1 DEF Ops, WriteOps, OpSound, CommitPcs
  <2> HIDE DEF o
  <2>3. Advanced(repo, repo', th)
    BY <1>1, <1>5, ResolveShape
  <2>4. Quiet
    BY <1>1, <1>2, <2>3, QuietShape DEF Advanced
  <2>5. QED
    BY <1>1, <1>2, <2>1, <2>2, <2>3, <2>4, QuietMove DEF LockMove, HeldPcs, Advanced
<1>6. QED
  BY <1>3, <1>4, <1>5 DEF MergeWrite

LEMMA AckWriteKeeps ==
    ASSUME OneInstance, Inv, NEW th \in Threads, AckWrite(th)
    PROVE  Inv'
<1>1. /\ op[th].pc = "written" /\ op' = [op EXCEPT ![th] = Idle]
      /\ UNCHANGED <<repo, cache, lock, outcome, parent, merges>>
  BY DEF AckWrite, Return
<1>2. Quiet /\ RepoOK(repo')
  BY <1>1 DEF Quiet, Inv, Typed
<1>3. LockMove(th, Idle.pc)
  BY <1>1, IdleSound DEF LockMove, HeldPcs
<1>4. QED
  BY <1>1, <1>2, <1>3, IdleSound, QuietMove

(* A commit goes on without touching anything but its own thread, the      *)
(* mutex and the contents of branches.                                     *)
LEMMA CommitMovesOn ==
    ASSUME OneInstance, Inv, Quiet, RepoOK(repo'), NEW th \in Threads,
           op[th].pc \in CommitPcs \ {"merged"}, NEW o \in CommitOps,
           op' = [op EXCEPT ![th] = o], o.txn = op[th].txn, o.rec = op[th].rec,
           o.pc \notin {"commit", "rollback", "merged"},
           \/ o.pc \in ClosingPcs => op[th].pc \in ClosingPcs
           \/ \A c \in Txns : outcome[c] = "open" => parent[c] # op[th].txn,
           LockMove(th, o.pc)
    PROVE  Inv'
<1>1. OpSound(th, op[th])
  BY DEF Inv, OpsSound
<1>2. OpSound(th, o)
  BY <1>1 DEF OpSound
<1>3. QED
  BY <1>2, QuietMove DEF Ops

LEMMA CommitGoesOn ==
    ASSUME OneInstance, Inv, Quiet, RepoOK(repo'), NEW th \in Threads,
           op[th].pc \in CommitPcs \ {"merged"},
           NEW q \in CommitPcs \ {"commit", "rollback", "merged"},
           \/ q \in ClosingPcs => op[th].pc \in ClosingPcs
           \/ \A c \in Txns : outcome[c] = "open" => parent[c] # op[th].txn,
           Goto(th, q), LockMove(th, q)
    PROVE  Inv'
<1>1. PICK o \in CommitOps : /\ op' = [op EXCEPT ![th] = o] /\ o.pc = q
                             /\ o.txn = op[th].txn /\ o.rec = op[th].rec
  BY GotoStep DEF Inv
<1>2. QED
  BY <1>1, CommitMovesOn

LEMMA NoOpenChild ==
    ASSUME Inv
    PROVE  /\ \A th \in Threads, c \in Txns : parent[c] # th
           /\ \A i \in Instances, t \in Txns, c \in Txns :
                  cache[i][t].children = {} => ~(outcome[c] = "open" /\ parent[c] = t)
<1>1. parent \in [Txns -> Txns \cup {None}]
  BY DEF Inv, Typed
<1>2. QED
  BY <1>1, Names DEF Inv, Children

(* Steps that change nothing the invariant is about.                       *)
LEMMA Same ==
    ASSUME Inv, UNCHANGED <<repo, cache, lock, op, outcome, parent, merges>>
    PROVE  Inv'
BY DEF Inv, Typed, LockHeld, Born, Cached, Merged, Children, OpsSound, OpSound

LEMMA ImplicitCommitKeeps ==
    ASSUME OneInstance, Inv, NEW th \in Threads, ImplicitCommit(th)
    PROVE  Inv'
<1>1. op[th].pc = "commit" /\ op[th].pc \in CommitPcs /\ "clean" \in CommitPcs
  BY DEF ImplicitCommit, CommitPcs
<1>2. op[th].txn = th
  BY <1>1 DEF Inv, OpsSound, OpSound
<1>3. \A c \in Txns : parent[c] # op[th].txn
  BY <1>2, NoOpenChild
<1>4. Quiet /\ RepoOK(repo')
  BY DEF ImplicitCommit, Quiet, Inv, Typed, history
<1>5. LockMove(th, "clean") /\ Goto(th, "clean")
  BY DEF ImplicitCommit, LockMove
<1>6. QED
  BY <1>1, <1>3, <1>4, <1>5, CommitGoesOn

(* A commit that fails changes nothing else.                               *)
LEMMA FailKeeps ==
    ASSUME OneInstance, Inv, NEW th \in Threads, op[th].pc \in HeldPcs \ {"merged"},
           FailCommit(th), Quiet, RepoOK(repo')
    PROVE  Inv'
<1>1. PICK o \in Ops : /\ op' = [op EXCEPT ![th] = o] /\ OpSound(th, o)
                       /\ LockMove(th, o.pc)
  BY FailMove
<1>2. QED
  BY <1>1, QuietMove

(* The record on the transaction's branch is staged for deletion, or       *)
(* again: nothing but its staging area changes.                            *)
LEMMA StageKeeps ==
    ASSUME Inv, NEW t \in TxnIds, NEW x, repo' = PutObject(repo, t, t, x),
           UNCHANGED <<cache, outcome, parent, merges>>
    PROVE  Quiet /\ RepoOK(repo')
<1>0. RepoOK(repo)
  BY DEF Inv, Typed
<1>1. RepoOK(repo') /\ repo'.head = repo.head
  <2>1. Annotated(repo, repo', t)
    BY <1>0, PutShape
  <2>2. QED
    BY <2>1 DEF Annotated
<1>2. QED
  BY <1>1 DEF Quiet, BranchExists, Inv, Typed

LEMMA CleanStageKeeps ==
    ASSUME OneInstance, Inv, NEW th \in Threads, CleanStage(th)
    PROVE  Inv'
<1>1. op[th].pc = "clean" /\ UNCHANGED <<cache, outcome, parent, merges>>
  BY DEF CleanStage, history
<1>2. op[th].txn \in TxnIds
  BY <1>1, AtWork DEF CommitPcs
<1>3. CASE /\ repo' = DeleteObject(repo, op[th].txn, TxnMetaPath(op[th].txn))
           /\ Goto(th, "cleaning") /\ UNCHANGED lock
  <2>1. repo' = PutObject(repo, op[th].txn, op[th].txn, Absent)
    BY <1>3 DEF DeleteObject, PutObject, TxnMetaPath
  <2>2. Quiet /\ RepoOK(repo')
    BY <1>1, <1>2, <2>1, StageKeeps
  <2>3. LockMove(th, "cleaning")
    BY <1>1, <1>3 DEF LockMove, HeldPcs
  <2>4. QED
    BY <1>1, <1>3, <2>2, <2>3, CommitGoesOn DEF CommitPcs, ClosingPcs
<1>4. CASE FailCommit(th) /\ UNCHANGED repo
  <2>1. Quiet /\ RepoOK(repo')
    BY <1>1, <1>4 DEF Quiet, Inv, Typed
  <2>2. QED
    BY <1>1, <1>4, <2>1, FailKeeps DEF HeldPcs
<1>5. QED
  BY <1>3, <1>4 DEF CleanStage

(* A commit on an existing branch.                                         *)
LEMMA CommitKeeps ==
    ASSUME Inv, NEW t \in TxnIds, BranchExists(repo, t), repo' = Commit(repo, t),
           UNCHANGED <<cache, outcome, parent, merges>>
    PROVE  Quiet /\ RepoOK(repo')
<1>1. t \in Branches
  BY DEF Branches
<1>2. Advanced(repo, repo', t)
  BY <1>1, CommitShape DEF Inv, Typed
<1>3. QED
  BY <1>2, QuietShape DEF Advanced

LEMMA CleanCommitKeeps ==
    ASSUME OneInstance, Inv, NEW th \in Threads, CleanCommit(th)
    PROVE  Inv'
<1>1. op[th].pc = "cleaning" /\ UNCHANGED <<cache, outcome, parent, merges>>
  BY DEF CleanCommit, history
<1>2. op[th].txn \in TxnIds
  BY <1>1, AtWork DEF CommitPcs
<1>3. CASE /\ BranchExists(repo, op[th].txn) /\ repo' = Commit(repo, op[th].txn)
           /\ Goto(th, "merge") /\ UNCHANGED lock
  <2>1. Quiet /\ RepoOK(repo')
    BY <1>1, <1>2, <1>3, CommitKeeps
  <2>2. LockMove(th, "merge")
    BY <1>1, <1>3 DEF LockMove, HeldPcs
  <2>3. QED
    BY <1>1, <1>3, <2>1, <2>2, CommitGoesOn DEF CommitPcs, ClosingPcs
<1>4. CASE FailCommit(th) /\ UNCHANGED repo
  <2>1. Quiet /\ RepoOK(repo')
    BY <1>1, <1>4 DEF Quiet, Inv, Typed
  <2>2. QED
    BY <1>1, <1>4, <2>1, FailKeeps DEF HeldPcs
<1>5. QED
  BY <1>3, <1>4 DEF CleanCommit
LEMMA WakeKeeps ==
    ASSUME OneInstance, Inv, NEW th \in Threads, Wake(th)
    PROVE  Inv'
<1> DEFINE t == op[th].txn
           q == IF /\ BranchExists(repo, t)
                   /\ cache[Home[th]][t] # None => cache[Home[th]][t].children = {}
                THEN "merge" ELSE "restore"
           n == [op[th] EXCEPT !.pc = q, !.attempts = op[th].attempts + 1]
<1>1. /\ op[th].pc = "sleep" /\ lock[Home[th]] = None
      /\ lock' = [lock EXCEPT ![Home[th]] = th]
      /\ UNCHANGED <<repo, cache, outcome, parent, merges>>
  BY DEF Wake, history
<1>2. op[th] \in CommitOps /\ op \in [Threads -> Ops] /\ t \in Txns \cup {th}
  BY <1>1, AtWork DEF CommitPcs, Inv, Typed
<1>3. op' = [op EXCEPT ![th] = n]
  BY <1>2 DEF Wake
<1>4. q \in {"merge", "restore"} /\ q \in CommitPcs
  BY DEF CommitPcs
<1>5. ASSUME q = "merge"
      PROVE  \A c \in Txns : outcome[c] = "open" => parent[c] # t
  <2>1. CASE t \in Txns
    <3>1. Home[th] \in Instances
      BY HomeShape
    <3>2. BranchExists(repo, t) /\ (cache[Home[th]][t] # None => cache[Home[th]][t].children = {})
      BY <1>5
    <3>3. cache[Home[th]][t].children = {}
      BY <2>1, <3>1, <3>2 DEF Inv, Cached
    <3>4. QED
      BY <2>1, <3>1, <3>3, NoOpenChild
  <2>2. QED
    BY <1>2, <2>1, NoOpenChild
<1> HIDE DEF q
<1>6. n \in CommitOps /\ n.pc = q /\ n.txn = t /\ n.rec = op[th].rec
  BY <1>2, <1>4, RetryShape
<1> HIDE DEF n
<1>7. OpSound(th, op[th])
  BY DEF Inv, OpsSound
<1>8. OpSound(th, n)
  BY <1>1, <1>4, <1>5, <1>6, <1>7 DEF OpSound, CommitPcs, ClosingPcs
<1>9. Quiet /\ RepoOK(repo')
  BY <1>1 DEF Quiet, Inv, Typed
<1>10. n \in Ops /\ LockMove(th, n.pc)
  BY <1>1, <1>6 DEF Ops, LockMove
<1>11. QED
  BY <1>1, <1>3, <1>8, <1>9, <1>10, QuietMove

LEMMA RestoreStageKeeps ==
    ASSUME OneInstance, Inv, NEW th \in Threads, RestoreStage(th)
    PROVE  Inv'
<1>1. op[th].pc = "restore" /\ UNCHANGED <<cache, outcome, parent, merges>>
  BY DEF RestoreStage, history
<1>2. op[th].txn \in TxnIds
  BY <1>1, AtWork DEF CommitPcs
<1>3. CASE /\ repo' = PutObject(repo, op[th].txn, TxnMetaPath(op[th].txn),
                                [parent |-> op[th].rec.parent])
           /\ Goto(th, "restoring") /\ UNCHANGED lock
  <2>1. PICK x : repo' = PutObject(repo, op[th].txn, op[th].txn, x)
    BY <1>3 DEF TxnMetaPath
  <2>2. Quiet /\ RepoOK(repo')
    BY <1>1, <1>2, <2>1, StageKeeps
  <2>3. LockMove(th, "restoring")
    BY <1>1, <1>3 DEF LockMove, HeldPcs
  <2>4. QED
    BY <1>1, <1>3, <2>2, <2>3, CommitGoesOn DEF CommitPcs, ClosingPcs
<1>4. CASE FailCommit(th) /\ UNCHANGED repo
  <2>1. Quiet /\ RepoOK(repo')
    BY <1>1, <1>4 DEF Quiet, Inv, Typed
  <2>2. QED
    BY <1>1, <1>4, <2>1, FailKeeps DEF HeldPcs
<1>5. QED
  BY <1>3, <1>4 DEF RestoreStage

LEMMA RestoreCommitKeeps ==
    ASSUME OneInstance, Inv, NEW th \in Threads, RestoreCommit(th)
    PROVE  Inv'
<1>1. /\ op[th].pc = "restoring" /\ FailCommit(th)
      /\ UNCHANGED <<cache, outcome, parent, merges>>
  BY DEF RestoreCommit, history
<1>2. op[th].txn \in TxnIds
  BY <1>1, AtWork DEF CommitPcs
<1>3. Quiet /\ RepoOK(repo')
  <2>1. CASE BranchExists(repo, op[th].txn)
    BY <1>1, <1>2, <2>1, CommitKeeps DEF RestoreCommit
  <2>2. CASE ~BranchExists(repo, op[th].txn)
    BY <1>1, <2>2 DEF RestoreCommit, Quiet, Inv, Typed
  <2>3. QED
    BY <2>1, <2>2
<1>4. QED
  BY <1>1, <1>3, FailKeeps DEF HeldPcs
(* The cached record is found; the checks need no other change.            *)
LEMMA BeginCommitKeeps ==
    ASSUME OneInstance, Inv, NEW th \in Threads, NEW t \in Txns, BeginCommit(th, t)
    PROVE  Inv'
<1> DEFINE i == Home[th]
           rec == Resolved(i, t)
           n == CommitOf(t, rec)
<1>1. i \in Instances /\ t \in TxnIds /\ op[th].pc = "idle" /\ lock[i] = None
  BY HomeShape, Names DEF BeginCommit, CanCall, Idle
<1>2. cache[i][t] # None
  BY <1>1 DEF BeginCommit, CanResolve, HasTxnMeta, Inv, Cached
<1>3. rec = cache[i][t]
  BY <1>2 DEF Resolved
<1>4. rec \in CachedRecords /\ rec.parent = parent[t] /\ outcome[t] # "unborn"
  BY <1>1, <1>2, <1>3 DEF Inv, Typed, CacheOK, Cached, Born
<1>5. cache' = cache
  BY <1>1, <1>3 DEF BeginCommit, Inv, Typed, CacheOK
<1>6. Quiet /\ RepoOK(repo')
  BY <1>5 DEF BeginCommit, Quiet, Inv, Typed, history
<1>7. CASE /\ rec.children = {} /\ lock' = [lock EXCEPT ![i] = th]
           /\ op' = [op EXCEPT ![th] = n]
  <2>1. \A c \in Txns : outcome[c] = "open" => parent[c] # t
    BY <1>1, <1>3, <1>7, NoOpenChild
  <2>2. n \in CommitOps /\ n.pc = "clean" /\ n.txn = t /\ n.rec = rec
    <3> HIDE DEF rec
    <3>1. QED
      BY <1>1, <1>4 DEF CommitOf, CommitOps, CommitPcs, NoBranch
  <2> HIDE DEF n
  <2>3. OpSound(th, n)
    BY <1>4, <2>1, <2>2, Names DEF OpSound
  <2>4. n \in Ops /\ LockMove(th, n.pc)
    BY <1>1, <1>7, <2>2 DEF Ops, LockMove
  <2>5. QED
    BY <1>1, <1>6, <1>7, <2>3, <2>4, QuietMove
<1>8. CASE UNCHANGED <<lock, op>>
  BY <1>5, <1>8, Same DEF BeginCommit, history
<1>9. QED
  BY <1>7, <1>8 DEF BeginCommit

LEMMA CreateSnapshotKeeps ==
    ASSUME Inv, NEW th \in Threads, NEW b, CreateSnapshot(th, b)
    PROVE  Inv'
BY Same DEF CreateSnapshot, history
-----------------------------------------------------------------------------
(* Changes of the cached records.                                          *)

(* Transaction t is forgotten.                                             *)
Forgotten(t) ==
    /\ CacheOK(cache')
    /\ \A i \in Instances : cache'[i][t] = None
    /\ \A i \in Instances, u \in TxnIds \ {t} :
          /\ cache[i][u] = None <=> cache'[i][u] = None
          /\ cache[i][u] # None =>
                /\ cache'[i][u].parent = cache[i][u].parent
                /\ cache[i][u].children \ {t} \subseteq cache'[i][u].children

LEMMA ForgetShape ==
    ASSUME OneInstance, CacheOK(cache), NEW i \in Instances, NEW t \in TxnIds,
           cache' = [cache EXCEPT ![i] = Removed(@, t)]
    PROVE  Forgotten(t) /\ (t \in Threads => \A j \in Instances, u \in Txns :
                                              cache'[j][u] = cache[j][u])
<1> DEFINE table == cache[i]
           p == IF table[t] = None THEN None ELSE table[t].parent
<1>1. table \in [TxnIds -> CachedRecords \cup {None}]
  BY DEF CacheOK
<1>2. PICK new : new = Removed(table, t)
  OBVIOUS
<1>3. DOMAIN new = TxnIds
  BY <1>2 DEF Removed
<1>4. new[t] = None
  BY <1>2 DEF Removed
<1>5. ASSUME NEW u \in TxnIds \ {t}
      PROVE  /\ new[u] \in CachedRecords \cup {None}
             /\ table[u] = None <=> new[u] = None
             /\ table[u] # None => /\ new[u].parent = table[u].parent
                                  /\ table[u].children \ {t} \subseteq new[u].children
             /\ u # p => new[u] = table[u]
  <2>1. CASE u = p /\ table[u] # None
    <3>1. new[u] = [table[u] EXCEPT !.children = @ \ {t}]
      BY <1>2, <2>1 DEF Removed
    <3>2. table[u] \in CachedRecords
      BY <1>1, <2>1
    <3>3. /\ new[u] \in CachedRecords /\ new[u].parent = table[u].parent
          /\ new[u].children = table[u].children \ {t}
      BY <3>1, <3>2 DEF CachedRecords
    <3>4. QED
      BY <2>1, <3>3, Names
  <2>2. CASE ~(u = p /\ table[u] # None)
    <3>1. new[u] = table[u]
      BY <1>2, <2>2 DEF Removed
    <3>2. QED
      BY <1>1, <3>1
  <2>3. QED
    BY <2>1, <2>2
<1>6. new \in [TxnIds -> CachedRecords \cup {None}]
  <2>1. \A u \in TxnIds : new[u] \in CachedRecords \cup {None}
    BY <1>4, <1>5
  <2>2. new = [u \in TxnIds |-> new[u]]
    BY <1>2 DEF Removed
  <2>3. QED
    BY <2>1, <2>2
<1>7. \A th \in Threads : new[th] # None => new[th].parent = None
  BY <1>4, <1>5, Names DEF CacheOK
<1>8. cache' \in [Instances -> [TxnIds -> CachedRecords \cup {None}]]
      /\ \A j \in Instances : j = i /\ cache'[j] = new
  BY <1>2, <1>6 DEF CacheOK, OneInstance
<1>9. CacheOK(cache')
  BY <1>7, <1>8 DEF CacheOK
<1>10. Forgotten(t)
  BY <1>4, <1>5, <1>8, <1>9 DEF Forgotten
<1>11. ASSUME t \in Threads PROVE p \notin Txns
  BY <1>11, Names DEF CacheOK
<1>12. QED
  BY <1>5, <1>8, <1>10, <1>11, Names

(* Transaction t is entered, as a child of p if there is one.              *)
Remembered(t, p) ==
    /\ CacheOK(cache')
    /\ \A i \in Instances : cache'[i][t] # None /\ cache'[i][t].parent = p
    /\ \A i \in Instances, u \in TxnIds \ {t, p} : cache'[i][u] = cache[i][u]
    /\ p # None => \A i \in Instances :
          /\ cache'[i][p] # None /\ cache'[i][p].parent = cache[i][p].parent
          /\ cache'[i][p].children = cache[i][p].children \cup {t}

LEMMA EnterShape ==
    ASSUME OneInstance, CacheOK(cache), NEW i \in Instances, NEW t \in TxnIds,
           NEW p \in Txns \cup {None}, p # t, t \in Threads => p = None,
           p # None => cache[i][p] # None,
           cache' = [cache EXCEPT ![i] = Entered(cache[i], t, p)]
    PROVE  Remembered(t, p)
<1> DEFINE table == cache[i]
<1>1. table \in [TxnIds -> CachedRecords \cup {None}]
  BY DEF CacheOK
<1>2. PICK new : new = Entered(table, t, p)
  OBVIOUS
<1>3. new[t] = [parent |-> p, children |-> {}]
  BY <1>2 DEF Entered
<1>4. new[t] \in CachedRecords /\ new[t].parent = p
  BY <1>3 DEF CachedRecords
<1>5. \A u \in TxnIds \ {t, p} : new[u] = table[u]
  BY <1>2 DEF Entered
<1>6. ASSUME p # None
      PROVE  /\ new[p] \in CachedRecords /\ new[p].parent = table[p].parent
             /\ new[p].children = table[p].children \cup {t}
  <2>1. p \in TxnIds /\ table[p] \in CachedRecords
    BY <1>1, <1>6, Names
  <2>2. new[p] = [table[p] EXCEPT !.children = @ \cup {t}]
    BY <1>2, <2>1 DEF Entered
  <2>3. QED
    BY <2>1, <2>2 DEF CachedRecords
<1>7. new \in [TxnIds -> CachedRecords \cup {None}]
  <2>1. \A u \in TxnIds : new[u] \in CachedRecords \cup {None}
    BY <1>1, <1>4, <1>5, <1>6, Names DEF TxnIds
  <2>2. new = [u \in TxnIds |-> new[u]]
    BY <1>2 DEF Entered
  <2>3. QED
    BY <2>1, <2>2
<1>8. \A th \in Threads : new[th] # None => new[th].parent = None
  BY <1>4, <1>5, Names DEF CacheOK
<1>9. cache' \in [Instances -> [TxnIds -> CachedRecords \cup {None}]]
      /\ \A j \in Instances : j = i /\ cache'[j] = new
  BY <1>2, <1>7 DEF CacheOK, OneInstance
<1>10. CacheOK(cache')
  BY <1>8, <1>9 DEF CacheOK
<1>11. QED
  BY <1>4, <1>5, <1>6, <1>9, <1>10, Names DEF Remembered
-----------------------------------------------------------------------------
(* The steps in which a transaction is created or closed.                  *)

(* Transaction t was created at commit c, as a child of p if there is one. *)
Created(t, p, c) ==
    /\ repo' = WithTxnMeta(CreateBranch(repo, t, c), t, [parent |-> p])
    /\ Remembered(t, p)
    /\ parent' = [parent EXCEPT ![t] = p]
    /\ p # None => BranchExists(repo, p) /\ c = repo.head[p]
    /\ p = None => c \in snaps \cup {repo.head[Main]}

LEMMA CreateTransactionShape ==
    ASSUME OneInstance, Inv, NEW th \in Threads, NEW t \in Txns,
           CreateTransaction(th, t)
    PROVE  \E p \in Txns \cup {None}, c \in CommitIds(repo) : p # t /\ Created(t, p, c)
<1> DEFINE i == Home[th]
<1>1. i \in Instances /\ outcome[t] = "unborn" /\ ~BranchExists(repo, t) /\ t \in TxnIds
      /\ CacheOK(cache) /\ t \notin Threads /\ None \notin Txns
  BY HomeShape, Names DEF CreateTransaction, Inv, Typed, Born
<1>2. \A b \in Txns \cup {Main} : BranchExists(repo, b) => repo.head[b] \in CommitIds(repo)
  BY RepoShape, Names DEF Inv, Typed
<1>3. ASSUME NEW p \in Txns \cup {None}, p # t, NEW c \in CommitIds(repo),
             p # None => BranchExists(repo, p) /\ c = repo.head[p] /\ cache[i][p] # None,
             p = None => c \in snaps \cup {repo.head[Main]},
             repo' = WithTxnMeta(CreateBranch(repo, t, c), t, [parent |-> p]),
             cache' = [cache EXCEPT ![i] = Entered(cache[i], t, p)],
             parent' = [parent EXCEPT ![t] = p]
      PROVE  Created(t, p, c)
  <2>1. Remembered(t, p)
    BY <1>1, <1>3, EnterShape
  <2>2. QED
    BY <1>3, <2>1 DEF Created
<1>4. CASE /\ repo' = WithTxnMeta(CreateBranch(repo, t, GetBranchHead(repo, Main)), t,
                                  [parent |-> None])
           /\ cache' = [cache EXCEPT ![i] = Entered(cache[i], t, None)]
           /\ parent' = [parent EXCEPT ![t] = None]
  BY <1>1, <1>2, <1>3, <1>4 DEF GetBranchHead, Inv, Typed
<1>5. ASSUME NEW c \in snaps, CommitExists(repo, c),
             repo' = WithTxnMeta(CreateBranch(repo, t, c), t, [parent |-> None]),
             cache' = [cache EXCEPT ![i] = Entered(cache[i], t, None)],
             parent' = [parent EXCEPT ![t] = None]
      PROVE  \E p \in Txns \cup {None}, x \in CommitIds(repo) : p # t /\ Created(t, p, x)
  BY <1>1, <1>3, <1>5 DEF CommitExists
<1>6. ASSUME NEW p \in Txns, BranchExists(repo, p),
             repo' = WithTxnMeta(CreateBranch(repo, t, GetBranchHead(repo, p)), t,
                                 [parent |-> p]),
             cache' = [cache EXCEPT ![i] =
                        Entered([cache[i] EXCEPT ![p] = Resolved(i, p)], t, p)],
             parent' = [parent EXCEPT ![t] = p]
      PROVE  \E q \in Txns \cup {None}, x \in CommitIds(repo) : q # t /\ Created(t, q, x)
  <2>1. cache[i][p] # None
    BY <1>1, <1>6 DEF Inv, Cached
  <2>2. [cache[i] EXCEPT ![p] = Resolved(i, p)] = cache[i]
    BY <1>1, <2>1 DEF Resolved, CacheOK
  <2>3. cache' = [cache EXCEPT ![i] = Entered(cache[i], t, p)]
    BY <1>6, <2>2
  <2>4. Created(t, p, repo.head[p])
    BY <1>1, <1>2, <1>3, <1>6, <2>1, <2>3 DEF GetBranchHead
  <2>5. QED
    BY <1>1, <1>2, <1>6, <2>4
<1>7. QED
  BY <1>4, <1>5, <1>6 DEF CreateTransaction

LEMMA CreateTransactionKeeps ==
    ASSUME OneInstance, Inv, NEW th \in Threads, NEW t \in Txns,
           CreateTransaction(th, t)
    PROVE  Inv'
<1>1. PICK p \in Txns \cup {None}, c \in CommitIds(repo) : p # t /\ Created(t, p, c)
  BY CreateTransactionShape
<1>2. /\ outcome[t] = "unborn" /\ outcome' = [outcome EXCEPT ![t] = "open"]
      /\ UNCHANGED <<lock, op, merges>> /\ parent' = [parent EXCEPT ![t] = p]
      /\ Remembered(t, p) /\ (p # None => BranchExists(repo, p))
  BY <1>1 DEF CreateTransaction, Created
<1>3. /\ t \in TxnIds /\ t \notin Threads /\ t # Main /\ None \notin Txns
      /\ Txns \subseteq TxnIds /\ Main \in Branches /\ Txns \subseteq Branches
  BY Names
<1>4. Advanced(repo, repo', t)
  BY <1>1, <1>3, RecordShape DEF Created, Inv, Typed
<1>5. /\ \A b \in (Txns \cup {Main}) \ {t} : BranchExists(repo', b) <=> BranchExists(repo, b)
      /\ BranchExists(repo', t) /\ ~BranchExists(repo, t)
  BY <1>2, <1>3, <1>4 DEF Advanced, Kept, BranchExists, Inv, Born
<1>6. \A x \in Threads : op[x].pc \notin HeldPcs
  BY Alone DEF CreateTransaction, CanCall, Inv
<1>7. Typed'
  BY <1>2, <1>3, <1>4, <1>5 DEF Inv, Typed, Remembered, Advanced
<1>8. LockHeld'
  BY <1>2 DEF Inv, LockHeld
<1>9. /\ outcome'[t] = "open" /\ parent'[t] = p
      /\ \A u \in Txns \ {t} : outcome'[u] = outcome[u] /\ parent'[u] = parent[u]
  BY <1>2 DEF Inv, Typed
<1>10. Born'
  BY <1>2, <1>3, <1>5, <1>9 DEF Inv, Born, Remembered
<1>11. Cached'
  BY <1>2, <1>3, <1>5, <1>9 DEF Inv, Cached, Remembered
<1>12. Merged'
  BY <1>2, <1>5, <1>9 DEF Inv, Merged
<1>13. Children'
  <2>1. ASSUME NEW u \in Txns \ {t}, outcome[u] = "open", parent[u] # None
        PROVE  /\ BranchExists(repo', parent[u])
               /\ \A i \in Instances : u \in cache'[i][parent[u]].children
    <3>1. parent[u] \in Txns /\ BranchExists(repo, parent[u])
          /\ \A i \in Instances : u \in cache[i][parent[u]].children
      BY <2>1 DEF Inv, Children, Typed
    <3>2. parent[u] # t
      BY <1>5, <3>1
    <3>3. QED
      BY <1>2, <1>3, <1>5, <3>1, <3>2 DEF Remembered
  <2>2. p # None => BranchExists(repo', p) /\ \A i \in Instances : t \in cache'[i][p].children
    BY <1>1, <1>2, <1>5 DEF Remembered
  <2>3. QED
    BY <1>9, <2>1, <2>2 DEF Children
<1>14. OpsSound'
  <2>1. \A x \in Threads : op[x].pc \notin ClosingPcs /\ op[x].pc # "merged"
    BY <1>6 DEF HeldPcs, ClosingPcs
  <2>2. QED
    BY <1>2, <1>9, <2>1 DEF Inv, OpsSound, OpSound
<1>15. QED
  BY <1>7, <1>8, <1>10, <1>11, <1>12, <1>13, <1>14 DEF Inv
(* A transaction without open children loses its branch and is forgotten.  *)
LEMMA CloseStep ==
    ASSUME Inv, NEW t \in Txns, Pointed(repo, repo', t, NoBranch), Forgotten(t),
           UNCHANGED <<parent, merges>>, NEW w \in {"committed", "rolledback"},
           outcome' = [outcome EXCEPT ![t] = w],
           w = "committed" <=> outcome[t] = "committed",
           \A c \in Txns : outcome[c] = "open" => parent[c] # t,
           \A x \in Threads : op'[x] # op[x] => op[x].txn = t
    PROVE  /\ Born' /\ Cached' /\ Merged' /\ Children'
           /\ RepoOK(repo') /\ BranchExists(repo', Main)
<1>1. /\ outcome'[t] = w /\ \A u \in Txns \ {t} : outcome'[u] = outcome[u]
  BY DEF Inv, Typed
<1>2. Txns \subseteq TxnIds /\ Txns \subseteq Branches /\ Main \in Branches /\ Main # t
      /\ None \notin Txns
  BY Names
<1>3. /\ RepoOK(repo') /\ ~BranchExists(repo', t)
      /\ \A b \in (Txns \cup {Main}) \ {t} : BranchExists(repo', b) <=> BranchExists(repo, b)
  BY <1>2 DEF Pointed, Kept, BranchExists
<1>4. BranchExists(repo', Main)
  BY <1>2, <1>3 DEF Inv, Typed
<1>5. Born'
  BY <1>1, <1>2, <1>3 DEF Inv, Born, Forgotten
<1>6. Cached'
  BY <1>1, <1>2, <1>3 DEF Inv, Cached, Forgotten
<1>7. Merged'
  BY <1>1, <1>3 DEF Inv, Merged
<1>8. Children'
  <2>1. ASSUME NEW c \in Txns, outcome'[c] = "open", parent[c] # None
        PROVE  /\ BranchExists(repo', parent[c])
               /\ \A i \in Instances : c \in cache'[i][parent[c]].children
    <3>1. c # t /\ outcome[c] = "open"
      BY <1>1, <2>1
    <3>2. /\ parent[c] \in Txns /\ parent[c] # t /\ BranchExists(repo, parent[c])
          /\ \A i \in Instances : c \in cache[i][parent[c]].children
      BY <2>1, <3>1 DEF Inv, Children, Typed
    <3>3. \A i \in Instances : cache[i][parent[c]] # None
      BY <3>2 DEF Inv, Cached
    <3>4. QED
      BY <1>2, <1>3, <3>1, <3>2, <3>3 DEF Forgotten
  <2>2. QED
    BY <2>1 DEF Children
<1>9. QED
  BY <1>3, <1>4, <1>5, <1>6, <1>7, <1>8

LEMMA RollbackTransactionKeeps ==
    ASSUME OneInstance, Inv, NEW th \in Threads, NEW t \in Txns,
           RollbackTransaction(th, t)
    PROVE  Inv'
<1> DEFINE i == Home[th]
<1>1. /\ lock[i] = None /\ BranchExists(repo, t)
      /\ UNCHANGED <<lock, op, parent, merges>>
      /\ outcome' = [outcome EXCEPT ![t] = "rolledback"]
  BY DEF RollbackTransaction, CanCall
<1>2. i \in Instances /\ t \in TxnIds /\ t \in Branches
  BY HomeShape, Names
<1>3. \A x \in Threads : op[x].pc \notin HeldPcs
  BY <1>1, Alone DEF Inv
<1>4. outcome[t] # "committed"
  BY <1>1, <1>3 DEF Inv, Merged, HeldPcs
<1>5. \A c \in Txns : outcome[c] = "open" => parent[c] # t
  <2>1. cache[i][t].children = {}
    BY <1>1, <1>2 DEF RollbackTransaction, Inv, Cached
  <2>2. QED
    BY <1>2, <2>1, NoOpenChild
<1>6. Pointed(repo, repo', t, NoBranch)
  BY <1>2, DeleteShape DEF RollbackTransaction, Inv, Typed
<1>7. Forgotten(t)
  BY <1>2, ForgetShape DEF RollbackTransaction, Inv, Typed
<1>8. Born' /\ Cached' /\ Merged' /\ Children' /\ RepoOK(repo') /\ BranchExists(repo', Main)
  BY <1>1, <1>4, <1>5, <1>6, <1>7, CloseStep
<1>9. Typed' /\ LockHeld'
  BY <1>1, <1>7, <1>8 DEF Inv, Typed, LockHeld, Forgotten
<1>10. OpsSound'
  <2>1. \A x \in Threads : op[x].pc # "merged"
    BY <1>3 DEF HeldPcs
  <2>2. \A u \in Txns : /\ outcome'[u] = "open" => outcome[u] = "open"
                        /\ outcome[u] # "unborn" => outcome'[u] # "unborn"
    BY <1>1 DEF Inv, Typed
  <2>3. QED
    BY <1>1, <2>1, <2>2 DEF Inv, OpsSound, OpSound
<1>11. QED
  BY <1>8, <1>9, <1>10 DEF Inv

LEMMA FinishCommitKeeps ==
    ASSUME OneInstance, Inv, NEW th \in Threads, FinishCommit(th)
    PROVE  Inv'
<1> DEFINE i == Home[th]
           t == op[th].txn
<1>1. /\ op[th].pc = "merged" /\ op' = [op EXCEPT ![th] = Idle]
      /\ lock' = [lock EXCEPT ![i] = None]
      /\ cache' = [cache EXCEPT ![i] = Removed(@, t)]
      /\ repo' = DeleteBranch(repo, t)
      /\ UNCHANGED <<outcome, parent, merges>>
  BY DEF FinishCommit, Unlock, Return, history
<1>2. /\ i \in Instances /\ t \in TxnIds /\ t \in Branches /\ t \in Txns \cup {th}
      /\ RepoOK(repo) /\ CacheOK(cache)
  BY <1>1, HomeShape, AtWork DEF CommitPcs, Branches, Inv, Typed
<1>3. OpSound(th, op[th])
  BY DEF Inv, OpsSound
<1>4. LockMove(th, Idle.pc)
  BY <1>1, IdleSound DEF LockMove, HeldPcs
<1>5. Pointed(repo, repo', t, NoBranch)
  BY <1>1, <1>2, DeleteShape
<1>6. Forgotten(t) /\ (t \in Threads => \A j \in Instances, u \in Txns :
                                              cache'[j][u] = cache[j][u])
  BY <1>1, <1>2, ForgetShape
<1>7. CASE t \in Txns
  <2>1. outcome[t] = "committed" /\ outcome' = [outcome EXCEPT ![t] = "committed"]
    BY <1>1, <1>3, <1>7 DEF OpSound, CommitPcs, Inv, Typed
  <2>2. \A c \in Txns : outcome[c] = "open" => parent[c] # t
    BY <1>1, <1>3 DEF OpSound, CommitPcs, ClosingPcs
  <2>3. /\ op' \in [Threads -> Ops] /\ op'[th] = Idle
        /\ \A x \in Threads \ {th} : op'[x] = op[x]
    BY <1>1, IdleSound, OpStep DEF Inv
  <2>4. Born' /\ Cached' /\ Merged' /\ Children' /\ RepoOK(repo') /\ BranchExists(repo', Main)
    BY <1>1, <1>5, <1>6, <1>7, <2>1, <2>2, <2>3, CloseStep
  <2>5. lock' \in [Instances -> Threads \cup {None}] /\ LockHeld'
    BY <1>1, <1>4, IdleSound, LockStep
  <2>6. Typed'
    BY <1>1, <1>6, <2>3, <2>4, <2>5 DEF Inv, Typed, Forgotten
  <2>7. OpsSound'
    BY <1>1, <2>3, IdleSound DEF Inv, OpsSound, OpSound
  <2>8. QED
    BY <2>4, <2>5, <2>6, <2>7 DEF Inv
<1>8. CASE t = th
  <2>1. t \notin Txns \cup {Main}
    BY <1>8, Names
  <2>2. \A b \in Txns \cup {Main} : BranchExists(repo', b) <=> BranchExists(repo, b)
    BY <1>5, <2>1, SameBranches DEF Pointed
  <2>3. Quiet
    BY <1>1, <1>6, <1>8, <2>2 DEF Quiet, Forgotten
  <2>4. QED
    BY <1>1, <1>4, <1>5, <2>1, <2>3, IdleSound, QuietMove DEF Pointed
<1>9. QED
  BY <1>2, <1>7, <1>8

LEMMA ImplicitRollbackKeeps ==
    ASSUME OneInstance, Inv, NEW th \in Threads, ImplicitRollback(th)
    PROVE  Inv'
<1>1. /\ op[th].pc = "rollback" /\ op' = [op EXCEPT ![th] = Idle] /\ lock' = lock
      /\ cache' = [cache EXCEPT ![Home[th]] = Removed(@, th)]
      /\ repo' = DeleteBranch(repo, th)
      /\ UNCHANGED <<outcome, parent, merges>>
  BY DEF ImplicitRollback, Return, history
<1>2. Home[th] \in Instances /\ th \in TxnIds /\ th \in Branches
      /\ th \notin Txns \cup {Main} /\ RepoOK(repo) /\ CacheOK(cache)
  BY HomeShape, Names DEF Inv, Typed
<1>3. Pointed(repo, repo', th, NoBranch)
  BY <1>1, <1>2, DeleteShape
<1>4. Forgotten(th) /\ \A j \in Instances, u \in Txns : cache'[j][u] = cache[j][u]
  BY <1>1, <1>2, ForgetShape
<1>5. \A b \in Txns \cup {Main} : BranchExists(repo', b) <=> BranchExists(repo, b)
  BY <1>2, <1>3, SameBranches DEF Pointed
<1>6. Quiet
  BY <1>1, <1>4, <1>5 DEF Quiet, Forgotten
<1>7. LockMove(th, Idle.pc)
  BY <1>1, IdleSound DEF LockMove, HeldPcs
<1>8. QED
  BY <1>1, <1>3, <1>6, <1>7, IdleSound, QuietMove DEF Pointed
(* An implicit transaction: its branch comes from the canonical one and    *)
(* shows that and its own write.                                           *)
LEMMA ImplicitWriteRepo ==
    ASSUME Inv, NEW th \in Threads, NEW a \in Payloads, ImplicitWrite(th, a)
    PROVE  /\ Advanced(repo, repo', th)
           /\ HeadAt(repo', th, a) = th
           /\ \A x \in Payloads \ {a} : HeadAt(repo', th, x) = HeadAt(repo, Main, x)
<1>1. PICK c, u : /\ c = repo.head[Main]
                  /\ u = WithTxnMeta(CreateBranch(repo, th, c), th, [parent |-> None])
                  /\ repo' = Commit(Staged(u, th, th, a), th)
  BY DEF ImplicitWrite, GetBranchHead
<1>2. th \in TxnIds /\ Payloads \subseteq Paths /\ RepoOK(repo) /\ c \in CommitIds(repo)
  BY <1>1, Names, RepoShape DEF Inv, Typed
<1>3. /\ Advanced(repo, u, th)
      /\ \A x \in Payloads : HeadAt(u, th, x) = AtCommit(repo, c)[x]
  BY <1>1, <1>2, RecordShape
<1>4. /\ Advanced(u, repo', th) /\ HeadAt(repo', th, a) = th
      /\ \A x \in Payloads \ {a} : HeadAt(repo', th, x) = ResolveState(u, th)[x]
  <2>1. RepoOK(u)
    BY <1>3 DEF Advanced
  <2>2. QED
    BY <1>1, <1>2, <2>1, WriteShape
<1>5. \A x \in Payloads : ResolveState(u, th)[x] = HeadAt(repo, Main, x)
  BY <1>1, <1>2, <1>3 DEF ResolveState, NoStaging, Advanced, HeadAt
<1>6. Advanced(repo, repo', th)
  BY <1>3, <1>4 DEF Kept, Advanced
<1>7. QED
  BY <1>4, <1>5, <1>6

LEMMA ImplicitWriteKeeps ==
    ASSUME OneInstance, Inv, NEW th \in Threads, NEW a \in Payloads,
           ImplicitWrite(th, a)
    PROVE  Inv'
<1> DEFINE o == [CommitOf(th, [parent |-> None, children |-> {}]) EXCEPT !.pc = "commit"]
<1>1. /\ op[th].pc = "idle" /\ op' = [op EXCEPT ![th] = o] /\ lock' = lock
      /\ cache' = [cache EXCEPT ![Home[th]] = Entered(cache[Home[th]], th, None)]
      /\ UNCHANGED <<outcome, parent, merges>>
  BY HomeShape DEF ImplicitWrite, CanCall, Idle, history, Inv, Typed, CacheOK
<1>2. Home[th] \in Instances /\ th \in TxnIds /\ th \in Branches /\ None \notin Txns
      /\ th \notin Txns \cup {Main} /\ th # None /\ Txns \subseteq TxnIds
      /\ None \notin TxnIds /\ RepoOK(repo) /\ CacheOK(cache)
  BY HomeShape, Names DEF Inv, Typed, TxnIds
<1>3. /\ o \in CommitOps /\ o.pc = "commit" /\ o.txn = th /\ o.rec.parent = None
  BY <1>2 DEF CommitOf, CommitOps, CommitPcs, NoBranch, CachedRecords
<1> HIDE DEF o
<1>4. OpSound(th, o) /\ o \in Ops /\ LockMove(th, o.pc)
  BY <1>1, <1>2, <1>3 DEF OpSound, ClosingPcs, Ops, LockMove, HeldPcs
<1>5. Advanced(repo, repo', th)
  BY ImplicitWriteRepo
<1>6. Remembered(th, None)
  BY <1>1, <1>2, EnterShape
<1>7. \A b \in Txns \cup {Main} : BranchExists(repo', b) <=> BranchExists(repo, b)
  BY <1>2, <1>5, SameBranches DEF Advanced
<1>8. Quiet
  BY <1>1, <1>2, <1>6, <1>7 DEF Quiet, Remembered
<1>9. QED
  BY <1>1, <1>4, <1>5, <1>8, QuietMove DEF Advanced

(* The target of a commit.                                                 *)
LEMMA TargetShape ==
    ASSUME Inv, NEW th \in Threads, op[th].pc \in CommitPcs
    PROVE  /\ Target(op[th].rec) \in Txns \cup {Main}
           /\ Target(op[th].rec) \in Branches /\ op[th].txn \in Branches
           /\ op[th].txn \in Txns =>
                 Target(op[th].rec) =
                    IF parent[op[th].txn] = None THEN Main ELSE parent[op[th].txn]
           /\ op[th].txn = th => Target(op[th].rec) = Main
<1>1. op[th].rec.parent \in Txns \cup {None} /\ op[th].txn \in TxnIds
  BY AtWork
<1>2. OpSound(th, op[th])
  BY DEF Inv, OpsSound
<1>3. QED
  BY <1>1, <1>2, Names DEF OpSound, Target, Branches

LEMMA MergeTransactionKeeps ==
    ASSUME OneInstance, Inv, NEW th \in Threads, MergeTransaction(th)
    PROVE  Inv'
<1> DEFINE t == op[th].txn
           target == Target(op[th].rec)
           conflicts == MergeConflicts(repo, t, target)
<1>1. op[th].pc = "merge" /\ UNCHANGED <<cache, parent>>
  BY DEF MergeTransaction
<1>2. /\ target \in Txns \cup {Main} /\ target \in Branches /\ t \in Branches
      /\ t \in Txns \cup {th} /\ th \notin Txns \cup {Main} /\ RepoOK(repo)
      /\ op[th].pc \in CommitPcs
  BY <1>1, TargetShape, AtWork, Names DEF CommitPcs
<1>3. CASE /\ CanMerge(repo, t, target) /\ repo' = Merge(repo, t, target)
           /\ Goto(th, "merged") /\ UNCHANGED lock
           /\ RecordMerge(t, op[th].seen, GetBranchHead(repo', target))
  <2>1. Advanced(repo, repo', target)
    BY <1>2, <1>3, MergeShape
  <2>2. PICK o \in CommitOps : /\ op' = [op EXCEPT ![th] = o] /\ o.pc = "merged"
                               /\ o.txn = t /\ o.rec = op[th].rec
    BY <1>2, <1>3, GotoStep DEF Inv, CommitPcs
  <2>3. LockMove(th, o.pc) /\ o \in Ops
    BY <1>1, <1>3, <2>2 DEF LockMove, HeldPcs, Ops
  <2>4. OpSound(th, op[th])
    BY DEF Inv, OpsSound
  <2>5. \A b \in Txns \cup {Main} : BranchExists(repo', b) <=> BranchExists(repo, b)
    BY <1>2, <1>3, <2>1, SameBranches DEF Advanced, CanMerge
  <2>6. CASE t = th
    <3>1. UNCHANGED <<outcome, merges>>
      BY <1>2, <1>3, <2>6 DEF RecordMerge
    <3>2. Quiet
      BY <1>1, <2>5, <3>1 DEF Quiet, Inv, Typed
    <3>3. OpSound(th, o)
      BY <1>1, <1>2, <2>2, <2>4, <2>6 DEF OpSound, ClosingPcs, CommitPcs
    <3>4. QED
      BY <1>1, <2>1, <2>2, <2>3, <3>2, <3>3, QuietMove DEF Advanced
  <2>7. CASE t \in Txns
    <3>1. /\ outcome' = [outcome EXCEPT ![t] = "committed"]
          /\ merges' = [merges EXCEPT ![t] = @ + 1]
      BY <1>3, <2>7 DEF RecordMerge
    <3>2. /\ op' \in [Threads -> Ops] /\ op'[th] = o
          /\ \A x \in Threads \ {th} : op'[x] = op[x]
      BY <2>2, <2>3, OpStep DEF Inv
    <3>3. \A x \in Threads : op[x].pc # "merged"
      BY <1>1, Alone DEF Inv, HeldPcs
    <3>4. outcome[t] # "committed" /\ merges[t] = 0
      BY <1>3, <2>7, <3>3 DEF Inv, Merged, CanMerge
    <3>5. /\ outcome'[t] = "committed" /\ merges'[t] = 1
          /\ \A u \in Txns \ {t} : outcome'[u] = outcome[u] /\ merges'[u] = merges[u]
      BY <2>7, <3>1, <3>4 DEF Inv, Typed
    <3>6. lock' \in [Instances -> Threads \cup {None}] /\ LockHeld'
      BY <2>2, <2>3, LockStep
    <3>7. Typed'
      <4>1. /\ RepoOK(repo') /\ BranchExists(repo', Main) /\ CacheOK(cache')
        BY <1>1, <2>1, <2>5 DEF Inv, Typed, Advanced
      <4>2. /\ outcome' \in [Txns -> {"unborn", "open", "committed", "rolledback"}]
            /\ parent' \in [Txns -> Txns \cup {None}]
        BY <1>1, <3>1 DEF Inv, Typed
      <4>3. merges' \in [Txns -> Nat]
        <5>1. merges \in [Txns -> Nat] /\ merges' = [merges EXCEPT ![t] = 1]
          BY <2>7, <3>1, <3>4 DEF Inv, Typed
        <5>2. QED
          BY <5>1
      <4>4. QED
        BY <3>2, <3>6, <4>1, <4>2, <4>3 DEF Typed
    <3>8. Born' /\ Cached' /\ Merged'
      <4>1. Born' /\ Cached'
        BY <1>1, <2>5, <3>5 DEF Inv, Born, Cached
      <4>2. \A u \in Txns \ {t} : ~(outcome[u] = "committed" /\ BranchExists(repo, u))
        BY <3>3 DEF Inv, Merged
      <4>3. Merged'
        BY <2>2, <2>5, <3>2, <3>5, <4>2 DEF Inv, Merged
      <4>4. QED
        BY <4>1, <4>3
    <3>9. Children'
      <4>1. \A c \in Txns : parent[c] # None => parent[c] \in Txns
        BY DEF Inv, Typed
      <4>2. QED
        BY <1>1, <2>5, <3>5, <4>1 DEF Inv, Children
    <3>10. OpsSound'
      <4>1. OpSound(th, o)'
        BY <1>1, <2>2, <2>4, <2>7, <3>5 DEF OpSound, ClosingPcs, CommitPcs
      <4>2. \A x \in Threads \ {th} : OpSound(x, op[x])'
        BY <1>1, <3>2, <3>3, <3>5 DEF Inv, OpsSound, OpSound
      <4>3. QED
        BY <3>2, <4>1, <4>2 DEF OpsSound
    <3>11. QED
      BY <3>6, <3>7, <3>8, <3>9, <3>10 DEF Inv
  <2>8. QED
    BY <1>2, <2>6, <2>7
<1>4. CASE /\ ToResolve(th, conflicts, target) /\ conflicts \subseteq Indexes
           /\ UNCHANGED <<repo, lock, outcome, merges>>
  <2>1. Quiet /\ RepoOK(repo')
    BY <1>1, <1>4 DEF Quiet, Inv, Typed
  <2>2. PICK o \in CommitOps : /\ op' = [op EXCEPT ![th] = o] /\ o.pc = "resolve"
                               /\ o.txn = t /\ o.rec = op[th].rec
    <3>1. op \in [Threads -> Ops] /\ op[th] \in CommitOps
      BY <1>2, AtWork DEF Inv, Typed
    <3>2. QED
      BY <1>2, <1>4, <3>1, ToResolveStep
  <2>3. LockMove(th, "resolve")
    BY <1>1, <1>4 DEF LockMove, HeldPcs
  <2>4. QED
    BY <1>1, <1>2, <2>1, <2>2, <2>3, CommitMovesOn DEF ClosingPcs
<1>5. CASE Goto(th, "restore") /\ UNCHANGED <<repo, lock, outcome, merges>>
  <2>1. Quiet /\ RepoOK(repo')
    BY <1>1, <1>5 DEF Quiet, Inv, Typed
  <2>2. LockMove(th, "restore")
    BY <1>1, <1>5 DEF LockMove, HeldPcs
  <2>3. QED
    BY <1>1, <1>2, <1>5, <2>1, <2>2, CommitGoesOn DEF CommitPcs, ClosingPcs
<1>6. \/ /\ CanMerge(repo, t, target) /\ repo' = Merge(repo, t, target)
         /\ Goto(th, "merged") /\ UNCHANGED lock
         /\ RecordMerge(t, op[th].seen, GetBranchHead(repo', target))
      \/ /\ ToResolve(th, conflicts, target) /\ Retryable(conflicts, op[th].attempts)
         /\ UNCHANGED <<repo, lock, outcome, merges>>
      \/ Goto(th, "restore") /\ UNCHANGED <<repo, lock, outcome, merges>>
  BY DEF MergeTransaction, ToResolve
<1>7. QED
  BY <1>3, <1>4, <1>5, <1>6, TransactionAssumption DEF Retryable

LEMMA ResolvePutKeeps ==
    ASSUME OneInstance, Inv, NEW th \in Threads, ResolvePut(th)
    PROVE  Inv'
<1> DEFINE t == op[th].txn
<1>1. op[th].pc = "resolve" /\ UNCHANGED <<cache, lock, outcome, parent, merges>>
  BY DEF ResolvePut
<1>2. op[th].pc \in CommitPcs /\ op[th] \in CommitOps /\ t \in Branches
  BY <1>1, AtWork DEF CommitPcs, Branches
<1>3. PICK p, x : /\ p \in op[th].conflicts /\ repo' = PutObject(repo, t, p, x)
                  /\ op' = [op EXCEPT ![th].conflicts = @ \ {p}]
  BY DEF ResolvePut
<1>4. p \in Paths
  BY <1>2, <1>3 DEF CommitOps, Paths
<1>5. RepoOK(repo') /\ repo'.head = repo.head
  <2>1. RepoOK(repo)
    BY DEF Inv, Typed
  <2>2. QED
    <3>1. PutAt(repo, repo', t, p, x)
      BY <1>2, <1>3, <1>4, <2>1, PutAnyShape
    <3>2. QED
      BY <3>1 DEF PutAt
<1>6. Quiet
  BY <1>1, <1>5 DEF Quiet, BranchExists, Inv, Typed
<1>7. PICK o \in CommitOps : /\ op' = [op EXCEPT ![th] = o] /\ o.pc = "resolve"
                             /\ o.txn = t /\ o.rec = op[th].rec
  <2>1. op \in [Threads -> Ops]
    BY DEF Inv, Typed
  <2>2. \E o \in CommitOps :
            /\ op' = [op EXCEPT ![th] = o]
            /\ o.pc = op[th].pc /\ o.txn = op[th].txn /\ o.rec = op[th].rec
            /\ o.seen = op[th].seen /\ o.ours = op[th].ours /\ o.theirs = op[th].theirs
            /\ o.conflicts = op[th].conflicts \ {p}
    BY <1>2, <1>3, <2>1, ResolvedStep
  <2>3. QED
    BY <1>1, <2>2
<1>8. LockMove(th, "resolve")
  BY <1>1 DEF LockMove, HeldPcs
<1>9. QED
  BY <1>1, <1>2, <1>5, <1>6, <1>7, <1>8, CommitMovesOn DEF ClosingPcs

LEMMA ResolveCommitKeeps ==
    ASSUME OneInstance, Inv, NEW th \in Threads, ResolveCommit(th)
    PROVE  Inv'
<1>1. op[th].pc = "resolve" /\ UNCHANGED <<cache, outcome, parent, merges>>
  BY DEF ResolveCommit, history
<1>2. op[th].txn \in TxnIds
  BY <1>1, AtWork DEF CommitPcs
<1>3. CASE /\ BranchExists(repo, op[th].txn) /\ repo' = Commit(repo, op[th].txn)
           /\ Goto(th, "sleep") /\ Unlock(th)
  <2>1. Quiet /\ RepoOK(repo')
    BY <1>1, <1>2, <1>3, CommitKeeps
  <2>2. LockMove(th, "sleep")
    BY <1>1, <1>3 DEF LockMove, HeldPcs, Unlock
  <2>3. QED
    BY <1>1, <1>3, <2>1, <2>2, CommitGoesOn DEF CommitPcs, ClosingPcs
<1>4. CASE Goto(th, "restore") /\ UNCHANGED <<repo, lock>>
  <2>1. Quiet /\ RepoOK(repo')
    BY <1>1, <1>4 DEF Quiet, Inv, Typed
  <2>2. LockMove(th, "restore")
    BY <1>1, <1>4 DEF LockMove, HeldPcs
  <2>3. QED
    BY <1>1, <1>4, <2>1, <2>2, CommitGoesOn DEF CommitPcs, ClosingPcs
<1>5. QED
  BY <1>3, <1>4 DEF ResolveCommit

-----------------------------------------------------------------------------
LEMMA InitShape ==
    ASSUME NEW r, r = InitRepo
    PROVE  /\ RepoOK(r) /\ BranchExists(r, Main) /\ r.head[Main] = Genesis
           /\ \A b \in TxnIds : ~BranchExists(r, b)
           /\ AtCommit(r, Genesis) = NoObjects
           /\ \A b \in Branches : r.staging[b] = NoStaging
<1> DEFINE new == [parents |-> {}, objects |-> NoObjects]
           heads == [b \in Branches |-> IF b = Main THEN Genesis ELSE NoBranch]
           areas == [b \in Branches |-> NoStaging]
<1>1. r = [commits |-> <<new>>, head |-> heads, staging |-> areas]
  BY DEF InitRepo
<1>2. new.objects = NoObjects
  OBVIOUS
<1>3. heads \in [Branches -> Nat] /\ areas \in [Branches -> [Paths -> {Unstaged}]]
  BY DEF Genesis, NoBranch, NoStaging
<1>4. heads[Main] = Genesis /\ \A b \in Branches \ {Main} : heads[b] = NoBranch
  BY Names
<1>5. \A b \in Branches : areas[b] = NoStaging
  OBVIOUS
<1> HIDE DEF new, heads, areas
<1>6. /\ r \in [commits : Seq({new}), head : [Branches -> Nat],
                 staging : [Branches -> [Paths -> {Unstaged}]]]
      /\ r.commits = <<new>> /\ r.head = heads /\ r.staging = areas
  BY <1>1, <1>3
<1>7. CommitIds(r) = {Genesis}
  BY <1>6 DEF CommitIds, Genesis
<1>8. RepoOK(r)
  BY <1>4, <1>6, <1>7, Zenon DEF RepoOK
<1>9. Genesis # NoBranch /\ r.commits[Genesis] = new
  BY <1>6 DEF Genesis, NoBranch
<1>10. QED
  BY <1>2, <1>4, <1>5, <1>6, <1>8, <1>9, Names DEF BranchExists, AtCommit, Branches

LEMMA InitInv == ASSUME Init PROVE Inv
<1>1. /\ RepoOK(repo) /\ BranchExists(repo, Main)
      /\ \A b \in TxnIds : ~BranchExists(repo, b)
  BY InitShape DEF Init
<1>2. /\ cache \in [Instances -> [TxnIds -> CachedRecords \cup {None}]]
      /\ \A i \in Instances, t \in TxnIds : cache[i][t] = None
  BY DEF Init
<1>3. \A th \in Threads : op[th] = Idle /\ op[th].pc = "idle"
  BY DEF Init, Idle
<1>4. Typed
  BY <1>1, <1>2, IdleSound, Names DEF Init, Typed, CacheOK
<1>5. LockHeld /\ OpsSound
  BY <1>3 DEF LockHeld, HeldPcs, OpsSound, OpSound, CommitPcs
<1>6. Born /\ Cached /\ Merged /\ Children
  BY <1>1, <1>2, Names DEF Init, Born, Cached, Merged, Children
<1>7. QED
  BY <1>4, <1>5, <1>6 DEF Inv

LEMMA NextInv == ASSUME OneInstance, Inv, [Next]_vars PROVE Inv'
<1>1. CASE UNCHANGED vars
  BY <1>1, Same DEF vars, history
<1>2. ASSUME NEW th \in Threads, Work(th) PROVE Inv'
  BY <1>2, MergeWriteKeeps, AckWriteKeeps, ImplicitCommitKeeps, CleanStageKeeps,
     CleanCommitKeeps, MergeTransactionKeeps, ResolvePutKeeps, ResolveCommitKeeps, WakeKeeps, RestoreStageKeeps,
     RestoreCommitKeeps, ImplicitRollbackKeeps, FinishCommitKeeps DEF Work
<1>3. ASSUME NEW th \in Threads, NEW t \in Txns,
             \/ CreateTransaction(th, t) \/ RollbackTransaction(th, t)
             \/ BeginCommit(th, t) \/ \E a \in Payloads : BeginWrite(th, t, a)
      PROVE  Inv'
  BY <1>3, CreateTransactionKeeps, RollbackTransactionKeeps, BeginCommitKeeps,
     BeginWriteKeeps
<1>4. ASSUME NEW th \in Threads,
             \/ \E b \in SnapshotSources : CreateSnapshot(th, b)
             \/ \E a \in Payloads : ImplicitWrite(th, a)
      PROVE  Inv'
  BY <1>4, CreateSnapshotKeeps, ImplicitWriteKeeps
<1>5. \A i \in Instances : ~Crash(i)
  BY DEF Crash, OneInstance
<1>6. QED
  BY <1>1, <1>2, <1>3, <1>4, <1>5 DEF Next

LEMMA SpecInv == ASSUME OneInstance PROVE Spec => []Inv
<1>1. Init => Inv
  BY InitInv
<1>2. Inv /\ [Next]_vars => Inv'
  BY NextInv
<1>3. QED
  BY <1>1, <1>2, PTL DEF Spec

(* "CommitTransaction returns success without performing another merge"    *)
(* (artifact_system_prd.md:635): however the threads of one process        *)
(* interleave, CommitTransactionImpl() merges a transaction once.  A       *)
(* second commit call, or one that slept while another went through, finds *)
(* the branch gone, because mutex_ is not released between the merge and   *)
(* the deletion.                                                           *)
THEOREM MergedAtMostOnce == ASSUME OneInstance PROVE Spec => []MergedOnce
<1>1. Inv => MergedOnce
  BY DEF Inv, Merged, MergedOnce
<1>2. QED
  BY <1>1, SpecInv, PTL

(* The checks of children in CommitTransactionImpl() and in                *)
(* RollbackTransaction(), made under mutex_ and again after the sleep of a *)
(* retry, keep the parent of an open transaction there: the child can be   *)
(* committed.                                                              *)
THEOREM ParentsOutliveChildren == ASSUME OneInstance PROVE Spec => []NoOrphans
<1>1. Inv => NoOrphans
  BY DEF Inv, Children, NoOrphans
<1>2. QED
  BY <1>1, SpecInv, PTL

-----------------------------------------------------------------------------
(* What the canonical branch shows comes from committed transactions only: *)
(* a proof for one service process, whose clients take snapshots of the    *)
(* canonical branch, and any number of threads, transactions and commits.  *)
(*                                                                         *)
(* A transaction's branch shows what its parent's branch showed when it    *)
(* was forked, its own writes, and what was merged into it, its children's *)
(* writes included.  The invariant says where a payload that is not        *)
(* committed can be: on the branch of its transaction and on the branches  *)
(* below that one, and on those of their writes.                           *)


(* Transaction t is u or descends from u (par gives the parents): t is in  *)
(* every set with u that is closed under children.                         *)
UnderOf(par, u, t) ==
    \A S \in SUBSET Txns :
        u \in S /\ (\A c \in Txns : par[c] \in S => c \in S) => t \in S

Under(u, t) == UnderOf(parent, u, t)

(* Branch b may show a payload of transaction u.                           *)
MayShow(u, b) ==
    \/ outcome[u] = "committed"
    \/ b \in Txns /\ Under(u, b)
    \/ b \in Threads /\ op[b].pc = "write" /\ Under(u, op[b].txn)

Shown ==
    \A b \in Branches : BranchExists(repo, b) =>
        \A a \in Payloads, u \in Txns : HeadAt(repo, b, a) = u => MayShow(u, b)

(* Payloads are staged and committed in one step.                          *)
NoneStaged == \A b \in Branches, a \in Payloads : repo.staging[b][a] = Unstaged

SnapsClean ==
    \A c \in snaps :
        /\ c \in CommitIds(repo)
        /\ \A a \in Payloads, u \in Txns :
              AtCommit(repo, c)[a] = u => outcome[u] = "committed"

Visible == Shown /\ NoneStaged /\ SnapsClean

(* Snapshots are taken of the canonical branch.                            *)
MainSnapshots == SnapshotSources \subseteq {Main}

-----------------------------------------------------------------------------
(* Descent.                                                                *)

LEMMA UnderSelf == ASSUME NEW par, NEW t PROVE UnderOf(par, t, t)
BY DEF UnderOf

LEMMA UnderChild ==
    ASSUME NEW par, NEW u \in Txns, NEW p \in Txns, NEW t \in Txns,
           UnderOf(par, u, p), par[t] = p
    PROVE  UnderOf(par, u, t)
BY DEF UnderOf

(* Whoever descends from u is u or has a parent that does.                 *)
LEMMA UnderParent ==
    ASSUME NEW par, NEW u \in Txns, NEW t \in Txns, UnderOf(par, u, t), u # t
    PROVE  par[t] \in Txns /\ UnderOf(par, u, par[t])
<1>1. ASSUME NEW S \in SUBSET Txns, u \in S, \A c \in Txns : par[c] \in S => c \in S
      PROVE  par[t] \in S
  <2>1. SUFFICES ASSUME par[t] \notin S PROVE FALSE
    OBVIOUS
  <2> DEFINE T == S \ {t}
  <2>2. T \in SUBSET Txns /\ u \in T /\ \A c \in Txns : par[c] \in T => c \in T
    BY <1>1, <2>1
  <2>3. t \in T
    BY <2>2 DEF UnderOf
  <2>4. QED
    BY <2>3
<1>2. par[t] \in Txns
  BY <1>1
<1>3. QED
  BY <1>1, <1>2 DEF UnderOf

(* Giving a parent to a transaction that has none loses nothing.           *)
LEMMA UnderGrows ==
    ASSUME NEW par, NEW new, NEW x \in Txns, par[x] \notin Txns,
           \A c \in Txns \ {x} : new[c] = par[c],
           NEW u \in Txns, NEW t \in Txns, UnderOf(par, u, t)
    PROVE  UnderOf(new, u, t)
<1>1. ASSUME NEW S \in SUBSET Txns, u \in S, \A c \in Txns : new[c] \in S => c \in S
      PROVE  t \in S
  <2>1. \A c \in Txns : par[c] \in S => c \in S
    BY <1>1
  <2>2. QED
    BY <1>1, <2>1 DEF UnderOf
<1>2. QED
  BY <1>1 DEF UnderOf

-----------------------------------------------------------------------------
(* Steps.                                                                  *)

(* What was committed stays so, and descent is only added to.              *)
Monotone ==
    /\ \A u \in Txns : outcome[u] = "committed" => outcome'[u] = "committed"
    /\ \A u, t \in Txns : Under(u, t) => Under(u, t)'

LEMMA MonotoneSame == ASSUME UNCHANGED <<outcome, parent>> PROVE Monotone
BY DEF Monotone, Under

(* The payloads that branch b shows are all right after the step.          *)
FineAfter(b) ==
    /\ \A a \in Payloads : repo'.staging[b][a] = Unstaged
    /\ BranchExists(repo', b) =>
          \A a \in Payloads, u \in Txns : HeadAt(repo', b, a) = u => MayShow(u, b)'

WritesGoOn(B) ==
    \A th \in Threads \ B :
        op[th].pc = "write" => op'[th].pc = "write" /\ op'[th].txn = op[th].txn

LEMMA MayShowStays ==
    ASSUME Inv, Monotone, NEW B, WritesGoOn(B), NEW b \in Branches \ B, NEW u \in Txns,
           MayShow(u, b)
    PROVE  MayShow(u, b)'
<1>1. CASE outcome[u] = "committed"
  BY <1>1 DEF Monotone, MayShow
<1>2. CASE b \in Txns /\ Under(u, b)
  BY <1>2 DEF Monotone, MayShow
<1>3. CASE b \in Threads /\ op[b].pc = "write" /\ Under(u, op[b].txn)
  <2>1. op[b].txn \in Txns /\ op'[b].pc = "write" /\ op'[b].txn = op[b].txn
    BY <1>3, AtWork DEF WritesGoOn
  <2>2. Under(u, op[b].txn)'
    <3>1. PICK t \in Txns : t = op[b].txn
      BY <2>1
    <3>2. Under(u, t)'
      BY <1>3, <3>1 DEF Monotone
    <3>3. QED
      BY <2>1, <3>1, <3>2 DEF Under
  <2>3. QED
    BY <1>3, <2>1, <2>2 DEF MayShow
<1>4. QED
  BY <1>1, <1>2, <1>3 DEF MayShow

LEMMA HeadKept ==
    ASSUME NEW r, NEW s, RepoOK(r), NEW B, Kept(r, s, B), NEW b \in Branches \ B
    PROVE  /\ BranchExists(s, b) <=> BranchExists(r, b)
           /\ BranchExists(r, b) => \A p \in Paths : HeadAt(s, b, p) = HeadAt(r, b, p)
           /\ s.staging[b] = r.staging[b]
<1>1. s.head[b] = r.head[b] /\ s.staging[b] = r.staging[b]
  BY DEF Kept
<1>2. BranchExists(r, b) => r.head[b] \in CommitIds(r)
  BY RepoShape
<1>3. QED
  BY <1>1, <1>2 DEF Kept, BranchExists, HeadAt, AtCommit

(* A step that treats the branches in B right keeps the invariant.         *)
LEMMA VisibleStep ==
    ASSUME Inv, Inv', Visible, Monotone, NEW B, Kept(repo, repo', B), WritesGoOn(B),
           \A b \in B \cap Branches : FineAfter(b),
           snaps' \subseteq snaps \cup {repo'.head[Main]}
    PROVE  Visible'
<1>1. Payloads \subseteq Paths /\ Main \in Branches /\ Main \notin Txns /\ Main \notin Threads
  BY Names DEF TxnIds
<1>2. RepoOK(repo) /\ RepoOK(repo') /\ BranchExists(repo', Main)
  BY DEF Inv, Typed
<1>3. Shown'
  <2>1. ASSUME NEW b \in Branches \ B, BranchExists(repo', b),
               NEW a \in Payloads, NEW u \in Txns, HeadAt(repo', b, a) = u
        PROVE  MayShow(u, b)'
    <3>1. BranchExists(repo, b) /\ HeadAt(repo, b, a) = u
      BY <1>1, <1>2, <2>1, HeadKept
    <3>2. MayShow(u, b)
      BY <3>1 DEF Visible, Shown
    <3>3. QED
      BY <3>2, MayShowStays
  <2>2. QED
    BY <2>1 DEF Shown, FineAfter
<1>4. NoneStaged'
  <2>1. \A b \in Branches \ B : repo'.staging[b] = repo.staging[b]
    BY DEF Kept
  <2>2. QED
    BY <2>1 DEF Visible, NoneStaged, FineAfter
<1>5. SnapsClean'
  <2>1. ASSUME NEW c \in snaps
        PROVE  /\ c \in CommitIds(repo')
               /\ \A a \in Payloads, u \in Txns :
                     AtCommit(repo', c)[a] = u => outcome'[u] = "committed"
    <3>1. c \in CommitIds(repo)
      BY DEF Visible, SnapsClean
    <3>2. c \in CommitIds(repo') /\ AtCommit(repo', c) = AtCommit(repo, c)
      BY <3>1 DEF Kept, AtCommit
    <3>3. QED
      BY <3>2 DEF Visible, SnapsClean, Monotone
  <2>2. repo'.head[Main] \in CommitIds(repo')
    BY <1>1, <1>2, RepoShape
  <2>3. \A a \in Payloads, u \in Txns :
            AtCommit(repo', repo'.head[Main])[a] = u => outcome'[u] = "committed"
    BY <1>1, <1>2, <1>3 DEF Shown, MayShow, HeadAt
  <2>4. QED
    BY <2>1, <2>2, <2>3 DEF SnapsClean
<1>6. QED
  BY <1>3, <1>4, <1>5 DEF Visible
(* Thread th moves, which is not at a write that goes on.                  *)
LEMMA OthersGoOn ==
    ASSUME Inv, NEW th \in Threads, NEW B, op[th].pc = "write" => th \in B,
           \/ \E q : Goto(th, q) \/ Return(th) \/ FailCommit(th)
           \/ \E o : op' = [op EXCEPT ![th] = o]
           \/ UNCHANGED op
    PROVE  WritesGoOn(B)
<1>1. op \in [Threads -> Ops]
  BY DEF Inv, Typed
<1>2. \A x \in Threads \ {th} : op'[x] = op[x]
  BY <1>1 DEF Goto, Return, FailCommit
<1>3. QED
  BY <1>2 DEF WritesGoOn

LEMMA StoreUntouched ==
    ASSUME Inv, Inv', Visible, UNCHANGED <<repo, outcome, parent>>, WritesGoOn({}),
           snaps' \subseteq snaps \cup {repo.head[Main]}
    PROVE  Visible'
<1>1. Kept(repo, repo', {})
  BY DEF Kept
<1>2. QED
  BY <1>1, MonotoneSame, VisibleStep

LEMMA DeletedFine ==
    ASSUME NEW b, Pointed(repo, repo', b, NoBranch)
    PROVE  FineAfter(b)
BY Names DEF Pointed, FineAfter, BranchExists, NoStaging

LEMMA DeleteVisible ==
    ASSUME Inv, Inv', Visible, Monotone, NEW b, Pointed(repo, repo', b, NoBranch),
           WritesGoOn({b}), snaps' = snaps
    PROVE  Visible'
<1>1. FineAfter(b) /\ Kept(repo, repo', {b})
  BY DeletedFine DEF Pointed
<1>2. QED
  BY <1>1, VisibleStep

(* A branch shows the payloads it showed before.                           *)
LEMMA SameVisible ==
    ASSUME Inv, Inv', Visible, Monotone, NEW b \in Branches, BranchExists(repo, b),
           Kept(repo, repo', {b}), WritesGoOn({}), snaps' = snaps,
           \A a \in Payloads : /\ HeadAt(repo', b, a) = HeadAt(repo, b, a)
                              /\ repo'.staging[b][a] = Unstaged
    PROVE  Visible'
<1>1. \A a \in Payloads, u \in Txns : HeadAt(repo', b, a) = u => MayShow(u, b)'
  <2>1. \A a \in Payloads, u \in Txns : HeadAt(repo', b, a) = u => MayShow(u, b)
    BY DEF Visible, Shown
  <2>2. \A u \in Txns : MayShow(u, b) => MayShow(u, b)'
    BY MayShowStays
  <2>3. QED
    BY <2>1, <2>2
<1>2. FineAfter(b)
  BY <1>1 DEF FineAfter
<1>3. WritesGoOn({b})
  BY DEF WritesGoOn
<1>4. QED
  BY <1>2, <1>3, VisibleStep

(* Only the staged record of a transaction changes, or it is committed.    *)
LEMMA RecordVisible ==
    ASSUME Inv, Inv', Visible, NEW t \in TxnIds, BranchExists(repo, t),
           (\E x : repo' = PutObject(repo, t, t, x)) \/ repo' = Commit(repo, t),
           UNCHANGED <<outcome, parent, snaps>>, WritesGoOn({})
    PROVE  Visible'
<1>1. t \in Branches /\ RepoOK(repo) /\ Payloads \subseteq Paths
  BY Names DEF Branches, Inv, Typed
<1>2. \A a \in Payloads : repo.staging[t][a] = Unstaged
  BY <1>1 DEF Visible, NoneStaged
<1>3. CASE \E x : repo' = PutObject(repo, t, t, x)
  <2>1. Annotated(repo, repo', t)
    BY <1>1, <1>3, PutShape
  <2>2. /\ Kept(repo, repo', {t}) /\ repo'.head = repo.head /\ repo'.commits = repo.commits
        /\ \A a \in Payloads : repo'.staging[t][a] = repo.staging[t][a]
    BY <2>1 DEF Annotated
  <2>3. \A a \in Payloads : HeadAt(repo', t, a) = HeadAt(repo, t, a)
    BY <2>2 DEF HeadAt, AtCommit
  <2>4. QED
    BY <1>1, <1>2, <2>2, <2>3, MonotoneSame, SameVisible
<1>4. CASE repo' = Commit(repo, t)
  <2>1. Advanced(repo, repo', t) /\ \A p \in Paths : HeadAt(repo', t, p) = ResolveState(repo, t)[p]
    BY <1>1, <1>4, CommitShape
  <2>2. Kept(repo, repo', {t}) /\ \A a \in Payloads : repo'.staging[t][a] = Unstaged
    BY <1>1, <2>1 DEF Advanced, NoStaging
  <2>3. \A a \in Payloads : HeadAt(repo', t, a) = HeadAt(repo, t, a)
    BY <1>1, <1>2, <2>1 DEF HeadAt, ResolveState
  <2>4. QED
    BY <1>1, <2>2, <2>3, MonotoneSame, SameVisible
<1>5. QED
  BY <1>3, <1>4

(* The resolver leaves the payloads alone.                                 *)
LEMMA ResolveVisible ==
    ASSUME Inv, Inv', Visible, NEW s \in TxnIds, NEW t \in Branches, BranchExists(repo, s),
           NEW conflicts, NEW k, Retryable(conflicts, k),
           repo' = ResolveConflicts(repo, s, t, conflicts),
           UNCHANGED <<outcome, parent, snaps>>, WritesGoOn({})
    PROVE  Visible'
<1>1. s \in Branches /\ RepoOK(repo) /\ Payloads \subseteq Paths
  BY Names DEF Branches, Inv, Typed
<1>2. \A a \in Payloads : repo.staging[s][a] = Unstaged /\ a \notin conflicts
  <2>1. conflicts \subseteq Indexes
    BY TransactionAssumption DEF Retryable
  <2>2. QED
    BY <1>1, <2>1, Names DEF Visible, NoneStaged
<1>3. /\ Advanced(repo, repo', s)
      /\ \A p \in Paths \ conflicts : HeadAt(repo', s, p) = ResolveState(repo, s)[p]
  BY <1>1, ResolveShape
<1>4. Kept(repo, repo', {s}) /\ \A a \in Payloads : repo'.staging[s][a] = Unstaged
  BY <1>1, <1>3 DEF Advanced, NoStaging
<1>5. \A a \in Payloads : HeadAt(repo', s, a) = HeadAt(repo, s, a)
  BY <1>1, <1>2, <1>3 DEF HeadAt, ResolveState
<1>6. QED
  BY <1>1, <1>4, <1>5, MonotoneSame, SameVisible

-----------------------------------------------------------------------------
(* Each action keeps the invariant.                                        *)

LEMMA BeginWriteVisible ==
    ASSUME Inv, Inv', Visible, NEW th \in Threads, NEW t \in Txns, NEW a \in Payloads,
           BeginWrite(th, t, a)
    PROVE  Visible'
<1>1. /\ Advanced(repo, repo', th) /\ HeadAt(repo', th, a) = t
      /\ \A x \in Payloads \ {a} : HeadAt(repo', th, x) = HeadAt(repo, t, x)
  BY BeginWriteRepo
<1>2. /\ UNCHANGED <<outcome, parent, snaps>> /\ BranchExists(repo, t)
      /\ op[th].pc = "idle"
  BY DEF BeginWrite, history, CanCall, Idle
<1>3. op'[th].pc = "write" /\ op'[th].txn = t
  BY DEF BeginWrite, Inv, Typed
<1>4. Monotone
  BY <1>2, MonotoneSame
<1>5. t \in Branches /\ t \notin Threads /\ Payloads \subseteq Paths /\ th \in Branches
  BY Names
<1>6. ASSUME NEW x \in Payloads, NEW u \in Txns, HeadAt(repo', th, x) = u
      PROVE  MayShow(u, th)'
  <2>1. CASE x = a
    <3>1. u = t
      BY <1>1, <1>6, <2>1
    <3>2. Under(t, t)'
      BY UnderSelf DEF Under
    <3>3. QED
      BY <1>3, <3>1, <3>2 DEF MayShow, Under
  <2>2. CASE x # a
    <3>1. HeadAt(repo, t, x) = u
      BY <1>1, <1>6, <2>2
    <3>2. MayShow(u, t)
      BY <1>2, <1>5, <3>1 DEF Visible, Shown
    <3>3. outcome[u] = "committed" \/ Under(u, t)
      BY <1>5, <3>2 DEF MayShow
    <3>4. outcome'[u] = "committed" \/ Under(u, t)'
      BY <1>4, <3>3 DEF Monotone
    <3>5. QED
      BY <1>3, <3>4 DEF MayShow, Under
  <2>3. QED
    BY <2>1, <2>2
<1>7. FineAfter(th) /\ Kept(repo, repo', {th})
  BY <1>1, <1>5, <1>6 DEF FineAfter, Advanced, NoStaging
<1>8. WritesGoOn({th})
  BY <1>2, OthersGoOn DEF BeginWrite
<1>9. QED
  BY <1>2, <1>4, <1>7, <1>8, VisibleStep
(* A merge of branch s into branch b.                                      *)
LEMMA MergedFine ==
    ASSUME Inv, Visible, Monotone, NEW s \in Branches, NEW b \in Branches,
           BranchExists(repo, s), BranchExists(repo, b), repo'.staging[b] = NoStaging,
           Taken(repo, repo', s, b),
           \A u \in Txns : MayShow(u, s) \/ MayShow(u, b) => MayShow(u, b)'
    PROVE  FineAfter(b)
<1>1. Payloads \subseteq Paths
  BY Names
<1>2. ASSUME NEW a \in Payloads, NEW u \in Txns, HeadAt(repo', b, a) = u
      PROVE  MayShow(u, b)'
  <2>1. HeadAt(repo, s, a) = u \/ HeadAt(repo, b, a) = u
    BY <1>1, <1>2 DEF Taken
  <2>2. MayShow(u, s) \/ MayShow(u, b)
    BY <2>1 DEF Visible, Shown
  <2>3. QED
    BY <2>2
<1>3. QED
  BY <1>1, <1>2 DEF FineAfter, NoStaging

LEMMA MergeWriteVisible ==
    ASSUME Inv, Inv', Visible, NEW th \in Threads, MergeWrite(th)
    PROVE  Visible'
<1>0. PICK t : t = op[th].txn
  OBVIOUS
<1> DEFINE conflicts == MergeConflicts(repo, th, t)
<1>1. /\ op[th].pc = "write" /\ op[th] \in WriteOps /\ t \in Txns /\ RepoOK(repo)
      /\ th \in TxnIds /\ th \in Branches /\ t \in Branches /\ th # t /\ t \notin Threads
  BY <1>0, AtWork, Names DEF MergeWrite
<1>2. UNCHANGED <<outcome, parent, snaps>> /\ Monotone
  BY MonotoneSame DEF MergeWrite, history
<1>3. ASSUME repo' = DeleteBranch(repo, th), Return(th)
      PROVE  Visible'
  <2>1. Pointed(repo, repo', th, NoBranch)
    BY <1>1, <1>3, DeleteShape
  <2>2. WritesGoOn({th})
    BY <1>3, OthersGoOn
  <2>3. QED
    BY <1>2, <2>1, <2>2, DeleteVisible
<1>4. CASE CanMerge(repo, th, t) /\ repo' = DeleteBranch(Merge(repo, th, t), th)
           /\ Goto(th, "written")
  <2>1. /\ Kept(repo, repo', {th, t}) /\ ~BranchExists(repo', th)
        /\ repo'.staging[t] = NoStaging
        /\ Taken(repo, repo', th, t)
    BY <1>1, <1>4, MergeAndDelete
  <2>2. WritesGoOn({th, t}) /\ WritesGoOn({th})
    BY <1>4, OthersGoOn
  <2>3. BranchExists(repo, th) /\ BranchExists(repo, t)
    BY <1>4 DEF CanMerge
  <2>4. ASSUME NEW u \in Txns, MayShow(u, th) \/ MayShow(u, t)
        PROVE  MayShow(u, t)'
    <3>1. MayShow(u, t)
      BY <1>0, <1>1, <2>4, Names DEF MayShow
    <3>2. QED
      BY <1>1, <1>2, <2>2, <3>1, MayShowStays
  <2>5. FineAfter(t)
    BY <1>1, <1>2, <2>1, <2>3, <2>4, MergedFine
  <2>6. FineAfter(th)
    <3>1. repo'.staging[th] = NoStaging
      <4>1. PICK r : r = Merge(repo, th, t) /\ repo' = DeleteBranch(r, th)
        BY <1>4
      <4>2. RepoOK(r)
        BY <1>1, <4>1, MergeShape DEF Advanced
      <4>3. QED
        BY <1>1, <4>1, <4>2, DeleteShape DEF Pointed
    <3>2. QED
      BY <2>1, <3>1, Names DEF FineAfter, NoStaging
  <2>7. QED
    BY <1>2, <2>1, <2>2, <2>5, <2>6, VisibleStep
<1>5. CASE /\ CanMerge(repo, th, t) /\ Retryable(conflicts, op[th].attempts)
           /\ repo' = ResolveConflicts(repo, th, t, conflicts)
           /\ op' = [op EXCEPT ![th].attempts = @ + 1]
  <2>1. op'[th].pc = "write" /\ op'[th].txn = t /\ \A x \in Threads \ {th} : op'[x] = op[x]
    <3> DEFINE o == [op[th] EXCEPT !.attempts = op[th].attempts + 1]
    <3>1. op \in [Threads -> Ops] /\ op' = [op EXCEPT ![th] = o]
      BY <1>1, <1>5 DEF Inv, Typed
    <3>2. o.pc = "write" /\ o.txn = t
      BY <1>0, <1>1 DEF WriteOps
    <3> HIDE DEF o
    <3>3. QED
      BY <3>1, <3>2
  <2>2. WritesGoOn({})
    BY <1>0, <2>1 DEF WritesGoOn
  <2>3. BranchExists(repo, th)
    BY <1>5 DEF CanMerge
  <2>4. QED
    BY <1>1, <1>2, <1>5, <2>2, <2>3, ResolveVisible
<1>6. QED
  BY <1>0, <1>3, <1>4, <1>5 DEF MergeWrite

LEMMA AckWriteVisible ==
    ASSUME MainSnapshots, Inv, Inv', Visible, NEW th \in Threads, AckWrite(th)
    PROVE  Visible'
<1>1. /\ op[th].pc = "written" /\ Return(th) /\ UNCHANGED <<repo, outcome, parent>>
  BY DEF AckWrite
<1>2. op[th].txn # Main
  <2>1. op[th] \in WriteOps
    BY <1>1, OpKinds DEF Inv, Typed
  <2>2. op[th].txn \in Txns
    BY <2>1 DEF WriteOps
  <2>3. QED
    BY <2>2, Names
<1>3. snaps' = snaps
  BY <1>2 DEF AckWrite, Learn, MainSnapshots
<1>4. WritesGoOn({})
  BY <1>1, OthersGoOn
<1>5. QED
  BY <1>1, <1>3, <1>4, StoreUntouched

(* The steps that touch neither the store nor the snapshots.               *)
LEMMA AsideVisible ==
    ASSUME Inv, Inv', Visible, NEW th \in Threads,
           \/ ImplicitCommit(th) \/ Wake(th)
           \/ \E t \in Txns : BeginCommit(th, t)
    PROVE  Visible'
<1>1. UNCHANGED <<repo, outcome, parent, snaps>> /\ op[th].pc # "write"
  <2>1. Idle.pc # "write"
    BY DEF Idle
  <2>2. CASE ImplicitCommit(th) \/ Wake(th)
    BY <2>2 DEF ImplicitCommit, Wake, history
  <2>3. CASE \E t \in Txns : BeginCommit(th, t)
    BY <2>1, <2>3 DEF BeginCommit, history, CanCall
  <2>4. QED
    BY <2>2, <2>3
<1>2. \A x \in Threads \ {th} : op'[x] = op[x]
  BY DEF ImplicitCommit, Wake, BeginCommit, Goto, Inv, Typed
<1>3. WritesGoOn({})
  BY <1>1, <1>2 DEF WritesGoOn
<1>4. QED
  BY <1>1, <1>3, StoreUntouched

LEMMA CreateSnapshotVisible ==
    ASSUME MainSnapshots, Inv, Inv', Visible, NEW th \in Threads, NEW b \in SnapshotSources,
           CreateSnapshot(th, b)
    PROVE  Visible'
<1>1. b = Main /\ UNCHANGED <<repo, op, outcome, parent>> /\ op[th].pc # "write"
  BY DEF MainSnapshots, CreateSnapshot, history, CanCall, Idle
<1>2. snaps' = snaps \cup {repo.head[Main]}
  BY <1>1 DEF CreateSnapshot, GetBranchHead
<1>3. WritesGoOn({})
  BY <1>1, OthersGoOn
<1>4. QED
  BY <1>1, <1>2, <1>3, StoreUntouched

(* The record is removed before the merge, or restored after it failed.    *)
LEMMA RecordStepVisible ==
    ASSUME Inv, Inv', Visible, NEW th \in Threads,
           CleanStage(th) \/ CleanCommit(th) \/ RestoreStage(th) \/ RestoreCommit(th)
    PROVE  Visible'
<1> DEFINE t == op[th].txn
<1>1. /\ op[th].pc \in {"clean", "cleaning", "restore", "restoring"}
      /\ UNCHANGED <<outcome, parent, snaps>>
  BY DEF CleanStage, CleanCommit, RestoreStage, RestoreCommit, history
<1>2. t \in TxnIds
  BY <1>1, AtWork DEF CommitPcs
<1>3. WritesGoOn({})
  <2>1. (\E q : Goto(th, q)) \/ FailCommit(th)
    BY DEF CleanStage, CleanCommit, RestoreStage, RestoreCommit
  <2>2. QED
    BY <1>1, <2>1, OthersGoOn
<1>4. \/ UNCHANGED repo
      \/ /\ BranchExists(repo, t)
         /\ (\E x : repo' = PutObject(repo, t, t, x)) \/ repo' = Commit(repo, t)
  <2>1. DeleteObject(repo, t, t) = PutObject(repo, t, t, Absent)
    BY DEF DeleteObject, PutObject
  <2>2. QED
    BY <2>1 DEF CleanStage, CleanCommit, RestoreStage, RestoreCommit, TxnMetaPath
<1>5. CASE UNCHANGED repo
  BY <1>1, <1>3, <1>5, StoreUntouched
<1>6. QED
  BY <1>1, <1>2, <1>3, <1>4, <1>5, RecordVisible
(* What a transaction shows is fine where it is merged into: its own       *)
(* writes are committed now, the rest comes from above.                    *)
LEMMA MergeTransactionVisible ==
    ASSUME MainSnapshots, Inv, Inv', Visible, NEW th \in Threads, MergeTransaction(th)
    PROVE  Visible'
<1>1. PICK t, target : t = op[th].txn /\ target = Target(op[th].rec)
  OBVIOUS
<1> DEFINE conflicts == MergeConflicts(repo, t, target)
<1>2. op[th].pc = "merge" /\ op[th].pc \in CommitPcs /\ UNCHANGED parent
  BY DEF MergeTransaction, CommitPcs
<1>3. /\ target \in Txns \cup {Main} /\ target \in Branches /\ t \in Branches
      /\ t \in Txns \cup {th} /\ t \in TxnIds /\ th \notin Txns \cup {Main} /\ RepoOK(repo)
  BY <1>1, <1>2, TargetShape, AtWork, Names
<1>4. \A B : WritesGoOn(B)
  BY <1>2, OthersGoOn DEF MergeTransaction
<1>5. CASE /\ CanMerge(repo, t, target) /\ repo' = Merge(repo, t, target)
           /\ RecordMerge(t, op[th].seen, GetBranchHead(repo', target))
           /\ Learn(target, GetBranchHead(repo', target))
  <2>1. /\ Advanced(repo, repo', target) /\ Taken(repo, repo', t, target)
    BY <1>3, <1>5, MergeShape
  <2>2. /\ t \in Txns => outcome' = [outcome EXCEPT ![t] = "committed"]
        /\ t \notin Txns => outcome' = outcome
    BY <1>5 DEF RecordMerge
  <2>3. \A u \in Txns : outcome[u] = "committed" => outcome'[u] = "committed"
    BY <2>2 DEF Inv, Typed
  <2>4. Monotone
    BY <1>2, <2>3 DEF Monotone, Under
  <2>5. ASSUME NEW u \in Txns, MayShow(u, t)
        PROVE  MayShow(u, target)'
    <3>1. CASE outcome[u] = "committed"
      BY <2>3, <3>1 DEF MayShow
    <3>2. CASE t \in Txns /\ Under(u, t)
      <4>1. CASE u = t
        BY <2>2, <3>2, <4>1 DEF MayShow, Inv, Typed
      <4>2. CASE u # t
        <5>1. parent[t] \in Txns /\ UnderOf(parent, u, parent[t])
          BY <3>2, <4>2, UnderParent DEF Under
        <5>2. target = parent[t]
          BY <1>1, <1>2, <3>2, <5>1, TargetShape, Names
        <5>3. UnderOf(parent', u, target)
          BY <1>2, <5>1, <5>2
        <5>4. QED
          BY <5>1, <5>2, <5>3 DEF MayShow, Under
      <4>3. QED
        BY <4>1, <4>2
    <3>3. t \in Threads => op[t].pc # "write"
      BY <1>2, <1>3, Names
    <3>4. QED
      BY <2>5, <3>1, <3>2, <3>3 DEF MayShow
  <2>6. \A u \in Txns : MayShow(u, target) => MayShow(u, target)'
    BY <1>3, <1>4, <2>4, MayShowStays
  <2>7. FineAfter(target)
    BY <1>3, <1>5, <2>1, <2>4, <2>5, <2>6, MergedFine DEF CanMerge, Advanced
  <2>8. snaps' \subseteq snaps \cup {repo'.head[Main]}
    BY <1>5 DEF Learn, MainSnapshots, GetBranchHead
  <2>9. QED
    BY <1>4, <2>1, <2>4, <2>7, <2>8, VisibleStep DEF Advanced
<1>6. CASE UNCHANGED <<repo, snaps, outcome>>
  BY <1>2, <1>4, <1>6, StoreUntouched
<1>7. QED
  BY <1>1, <1>5, <1>6 DEF MergeTransaction

(* The resolver stages an index, which is not a payload, ...               *)
LEMMA ResolvePutVisible ==
    ASSUME Inv, Inv', Visible, NEW th \in Threads, ResolvePut(th)
    PROVE  Visible'
<1>1. PICK t : t = op[th].txn
  OBVIOUS
<1>2. /\ op[th].pc = "resolve" /\ BranchExists(repo, t) /\ UNCHANGED <<outcome, parent, snaps>>
      /\ \E p \in op[th].conflicts : \E x : repo' = PutObject(repo, t, p, x)
      /\ \E o : op' = [op EXCEPT ![th] = o]
  BY <1>1 DEF ResolvePut
<1>3. op[th] \in CommitOps /\ t \in TxnIds /\ t \in Branches
  <2>1. op[th].pc \in CommitPcs
    BY <1>2 DEF CommitPcs
  <2>2. op[th] \in CommitOps
    BY <2>1, OpKinds DEF Inv, Typed
  <2>3. QED
    BY <1>1, <2>1, <2>2, AtWork DEF Branches
<1>4. PICK p \in Indexes : \E x : repo' = PutObject(repo, t, p, x)
  BY <1>2, <1>3 DEF CommitOps
<1>5. RepoOK(repo) /\ p \in Paths /\ p \notin Payloads
  BY Names DEF Inv, Typed, Paths
<1>6. PICK x : PutAt(repo, repo', t, p, x)
  BY <1>3, <1>4, <1>5, PutAnyShape
<1>7. Kept(repo, repo', {t}) /\ repo'.head = repo.head /\ repo'.commits = repo.commits
  BY <1>6 DEF PutAt
<1>8. \A a \in Payloads : /\ HeadAt(repo', t, a) = HeadAt(repo, t, a)
                          /\ repo'.staging[t][a] = Unstaged
  BY <1>3, <1>5, <1>6, <1>7, Names DEF PutAt, HeadAt, AtCommit, Visible, NoneStaged, Paths
<1>9. WritesGoOn({})
  BY <1>2, OthersGoOn
<1>10. QED
  BY <1>2, <1>3, <1>7, <1>8, <1>9, MonotoneSame, SameVisible

(* ... and commits.                                                        *)
LEMMA ResolveCommitVisible ==
    ASSUME Inv, Inv', Visible, NEW th \in Threads, ResolveCommit(th)
    PROVE  Visible'
<1>1. PICK t : t = op[th].txn
  OBVIOUS
<1>2. /\ op[th].pc = "resolve" /\ UNCHANGED <<outcome, parent, snaps>>
      /\ \/ BranchExists(repo, t) /\ repo' = Commit(repo, t)
         \/ UNCHANGED repo
      /\ \E q : Goto(th, q)
  BY <1>1 DEF ResolveCommit, history
<1>3. t \in TxnIds
  BY <1>1, <1>2, AtWork DEF CommitPcs
<1>4. WritesGoOn({})
  BY <1>2, OthersGoOn
<1>5. CASE UNCHANGED repo
  BY <1>2, <1>4, <1>5, StoreUntouched
<1>6. CASE BranchExists(repo, t) /\ repo' = Commit(repo, t)
  BY <1>2, <1>3, <1>4, <1>6, RecordVisible
<1>7. QED
  BY <1>2, <1>5, <1>6

LEMMA ClosedVisible ==
    ASSUME Inv, Inv', Visible, NEW th \in Threads, ImplicitRollback(th) \/ FinishCommit(th)
    PROVE  Visible'
<1>1. /\ op[th].pc \in {"rollback", "merged"} /\ UNCHANGED <<outcome, parent, snaps>>
      /\ Return(th)
  BY DEF ImplicitRollback, FinishCommit, history
<1>2. PICK t \in TxnIds : repo' = DeleteBranch(repo, t)
  BY <1>1, AtWork, Names DEF ImplicitRollback, FinishCommit, CommitPcs
<1>3. Pointed(repo, repo', t, NoBranch)
  BY <1>2, DeleteShape DEF Inv, Typed, Branches
<1>4. WritesGoOn({t})
  BY <1>1, OthersGoOn
<1>5. QED
  BY <1>1, <1>3, <1>4, MonotoneSame, DeleteVisible

LEMMA RollbackTransactionVisible ==
    ASSUME OneInstance, Inv, Inv', Visible, NEW th \in Threads, NEW t \in Txns,
           RollbackTransaction(th, t)
    PROVE  Visible'
<1>1. /\ lock[Home[th]] = None /\ BranchExists(repo, t) /\ UNCHANGED <<op, parent, snaps>>
      /\ outcome' = [outcome EXCEPT ![t] = "rolledback"]
  BY DEF RollbackTransaction, CanCall
<1>2. \A x \in Threads : op[x].pc \notin HeldPcs
  BY <1>1, Alone DEF Inv
<1>3. outcome[t] # "committed"
  BY <1>1, <1>2 DEF Inv, Merged, HeldPcs
<1>4. Monotone
  BY <1>1, <1>3 DEF Monotone, Under, Inv, Typed
<1>5. Pointed(repo, repo', t, NoBranch)
  BY Names, DeleteShape DEF RollbackTransaction, Inv, Typed
<1>6. WritesGoOn({t})
  BY <1>1 DEF WritesGoOn
<1>7. QED
  BY <1>1, <1>4, <1>5, <1>6, DeleteVisible

(* A new transaction shows what its base shows.                            *)
LEMMA CreateTransactionVisible ==
    ASSUME OneInstance, Inv, Inv', Visible, NEW th \in Threads, NEW t \in Txns,
           CreateTransaction(th, t)
    PROVE  Visible'
<1>1. PICK p \in Txns \cup {None}, c \in CommitIds(repo) : p # t /\ Created(t, p, c)
  BY CreateTransactionShape
<1>2. /\ outcome[t] = "unborn" /\ outcome' = [outcome EXCEPT ![t] = "open"]
      /\ UNCHANGED <<op, snaps>> /\ parent' = [parent EXCEPT ![t] = p]
      /\ parent[t] = None
  BY <1>1 DEF CreateTransaction, Created, Inv, Born
<1>3. t \in TxnIds /\ t \in Branches /\ None \notin Txns /\ Payloads \subseteq Paths
      /\ Txns \subseteq Branches /\ Main \in Branches /\ Main \notin Txns
      /\ Main \notin Threads /\ Txns \cap Threads = {}
  BY Names DEF TxnIds
<1>4. /\ Advanced(repo, repo', t)
      /\ \A a \in Payloads : HeadAt(repo', t, a) = AtCommit(repo, c)[a]
  BY <1>1, <1>3, RecordShape DEF Created, Inv, Typed
<1>5. /\ parent'[t] = p /\ \A u \in Txns \ {t} : parent'[u] = parent[u]
      /\ \A u \in Txns : outcome[u] = "committed" => outcome'[u] = "committed"
  BY <1>2 DEF Inv, Typed
<1>6. Monotone
  BY <1>2, <1>3, <1>5, UnderGrows DEF Monotone, Under
<1>7. ASSUME NEW a \in Payloads, NEW u \in Txns, AtCommit(repo, c)[a] = u
      PROVE  MayShow(u, t)'
  <2>1. CASE p # None
    <3>1. p \in Txns /\ BranchExists(repo, p) /\ HeadAt(repo, p, a) = u
      BY <1>1, <1>7, <2>1 DEF Created, HeadAt
    <3>2. outcome[u] = "committed" \/ Under(u, p)
      BY <1>3, <3>1 DEF Visible, Shown, MayShow
    <3>3. outcome'[u] = "committed" \/ UnderOf(parent', u, p)
      BY <1>6, <3>1, <3>2 DEF Monotone, Under
    <3>4. UnderOf(parent', u, p) => UnderOf(parent', u, t)
      BY <1>5, <3>1, UnderChild
    <3>5. QED
      BY <3>3, <3>4 DEF MayShow, Under
  <2>2. CASE p = None
    <3>1. c \in snaps \/ c = repo.head[Main]
      BY <1>1, <2>2 DEF Created
    <3>2. outcome[u] = "committed"
      BY <1>3, <1>7, <3>1 DEF Visible, Shown, SnapsClean, MayShow, HeadAt, Inv, Typed
    <3>3. QED
      BY <1>5, <3>2 DEF MayShow
  <2>3. QED
    BY <2>1, <2>2
<1>8. FineAfter(t) /\ Kept(repo, repo', {t})
  BY <1>3, <1>4, <1>7 DEF FineAfter, Advanced, NoStaging
<1>9. WritesGoOn({t})
  BY <1>2 DEF WritesGoOn
<1>10. QED
  BY <1>2, <1>6, <1>8, <1>9, VisibleStep

LEMMA ImplicitWriteVisible ==
    ASSUME Inv, Inv', Visible, NEW th \in Threads, NEW a \in Payloads, ImplicitWrite(th, a)
    PROVE  Visible'
<1>1. /\ Advanced(repo, repo', th) /\ HeadAt(repo', th, a) = th
      /\ \A x \in Payloads \ {a} : HeadAt(repo', th, x) = HeadAt(repo, Main, x)
  BY ImplicitWriteRepo
<1>2. UNCHANGED <<outcome, parent, snaps>> /\ op[th].pc # "write"
      /\ \E o : op' = [op EXCEPT ![th] = o]
  <2>1. UNCHANGED <<outcome, parent, snaps>> /\ op[th] = Idle
    BY DEF ImplicitWrite, history, CanCall
  <2>2. \E o : op' = [op EXCEPT ![th] = o]
    <3> DEFINE n == [CommitOf(th, [parent |-> None, children |-> {}]) EXCEPT !.pc = "commit"]
    <3>1. op' = [op EXCEPT ![th] = n]
      BY DEF ImplicitWrite
    <3> HIDE DEF n
    <3>2. QED
      BY <3>1
  <2>3. op[th].pc # "write"
    BY <2>1 DEF Idle
  <2>4. QED
    BY <2>1, <2>2, <2>3
<1>3. th \notin Txns /\ Main \in Branches /\ Main \notin Txns /\ Main \notin Threads
      /\ Payloads \subseteq Paths /\ BranchExists(repo, Main)
  BY Names DEF TxnIds, Inv, Typed
<1>4. ASSUME NEW x \in Payloads, NEW u \in Txns, HeadAt(repo', th, x) = u
      PROVE  MayShow(u, th)'
  <2>1. HeadAt(repo, Main, x) = u
    BY <1>1, <1>3, <1>4
  <2>2. outcome[u] = "committed"
    BY <1>3, <2>1 DEF Visible, Shown, MayShow
  <2>3. QED
    BY <1>2, <2>2 DEF MayShow
<1>5. FineAfter(th) /\ Kept(repo, repo', {th})
  BY <1>1, <1>3, <1>4 DEF FineAfter, Advanced, NoStaging
<1>6. WritesGoOn({th})
  BY <1>2, OthersGoOn
<1>7. QED
  BY <1>2, <1>5, <1>6, MonotoneSame, VisibleStep

-----------------------------------------------------------------------------
LEMMA InitVisible == ASSUME Init PROVE Visible
<1>1. /\ RepoOK(repo) /\ BranchExists(repo, Main) /\ repo.head[Main] = Genesis
      /\ \A b \in TxnIds : ~BranchExists(repo, b)
      /\ AtCommit(repo, Genesis) = NoObjects
      /\ \A b \in Branches : repo.staging[b] = NoStaging
  BY InitShape DEF Init
<1>2. Payloads \subseteq Paths /\ Absent \notin Txns
  BY Names DEF TxnIds
<1>3. \A a \in Payloads : HeadAt(repo, Main, a) = Absent
  BY <1>1, <1>2 DEF HeadAt, NoObjects
<1>4. QED
  BY <1>1, <1>2, <1>3 DEF Visible, Shown, NoneStaged, SnapsClean, NoStaging, Branches, Init

LEMMA NextVisible ==
    ASSUME OneInstance, MainSnapshots, Inv, Inv', Visible, [Next]_vars
    PROVE  Visible'
<1>1. CASE UNCHANGED vars
  <2>1. UNCHANGED <<repo, outcome, parent, snaps>> /\ WritesGoOn({})
    BY <1>1 DEF vars, history, WritesGoOn
  <2>2. QED
    BY <2>1, StoreUntouched
<1>2. ASSUME NEW th \in Threads, Work(th) PROVE Visible'
  BY <1>2, MergeWriteVisible, AckWriteVisible, AsideVisible, RecordStepVisible,
     MergeTransactionVisible, ResolvePutVisible, ResolveCommitVisible, ClosedVisible DEF Work
<1>3. ASSUME NEW th \in Threads, NEW t \in Txns,
             \/ CreateTransaction(th, t) \/ RollbackTransaction(th, t)
             \/ BeginCommit(th, t) \/ \E a \in Payloads : BeginWrite(th, t, a)
      PROVE  Visible'
  BY <1>3, CreateTransactionVisible, RollbackTransactionVisible, AsideVisible,
     BeginWriteVisible
<1>4. ASSUME NEW th \in Threads,
             \/ \E b \in SnapshotSources : CreateSnapshot(th, b)
             \/ \E a \in Payloads : ImplicitWrite(th, a)
      PROVE  Visible'
  BY <1>4, CreateSnapshotVisible, ImplicitWriteVisible
<1>5. \A i \in Instances : ~Crash(i)
  BY DEF Crash, OneInstance
<1>6. QED
  BY <1>1, <1>2, <1>3, <1>4, <1>5 DEF Next

(* No reader of the canonical branch sees a payload of a transaction that  *)
(* is open or was rolled back: writes go to the transaction's branch       *)
(* (WriteExecutor::ExecuteWrite), and CommitTransactionImpl() is the only  *)
(* way from there to the target, through every nesting, retry and failed   *)
(* commit of one process.                                                  *)
THEOREM NoDirtyReads ==
    ASSUME OneInstance, MainSnapshots PROVE Spec => []OnlyCommitted
<1>1. Init => Inv /\ Visible
  BY InitInv, InitVisible
<1>2. Inv /\ Visible /\ [Next]_vars => Inv' /\ Visible'
  BY NextInv, NextVisible
<1>3. Inv /\ Visible => OnlyCommitted
  <2>1. Main \in Branches /\ Main \notin Txns /\ Main \notin Threads
    BY Names DEF TxnIds
  <2>2. QED
    BY <2>1 DEF Inv, Typed, Visible, Shown, MayShow, HeadAt, OnlyCommitted, GetBranchHead
<1>4. QED
  BY <1>1, <1>2, <1>3, PTL DEF Spec

-----------------------------------------------------------------------------
(* What transactions write.                                                *)
(*                                                                         *)
(* A write that was acknowledged stays on its transaction's branch and     *)
(* goes into the commit that merges it, and the indexes of a branch have a *)
(* row for each of its artifacts, but for those that the resolver writes   *)
(* over: in spite of other service processes, of crashes, and of a search  *)
(* for a merge base that may find an old one.  What holds the branches     *)
(* together is that a payload, once written below a transaction, is only   *)
(* replaced by others written there, in every commit of the branches below *)
(* it: then a merge, which gives up a side only where that side has the    *)
(* base's value, gives up nothing.                                         *)

(* The facts about ancestors and merge bases of MemoryStorageProofs.       *)
G == INSTANCE MemoryStorageProofs WITH Values <- StoredValues

-----------------------------------------------------------------------------
(* The graph of commits.                                                   *)

LEMMA StoreNames ==
    /\ Main \in Branches
    /\ Absent \notin StoredValues
    /\ Unstaged \notin StoredValues \cup {Absent}
BY NameAssumption DEF Branches

(* The two instances of MemoryStorage agree.                               *)
LEMMA SameAncestors ==
    ASSUME NEW r, NEW c
    PROVE  Ancestors(r, c) = G!Ancestors(r, c) /\ CommitIds(r) = G!CommitIds(r)
BY DEF Ancestors, Within, G!Ancestors, G!Within, CommitIds, G!CommitIds

LEMMA SameBase ==
    ASSUME NEW r, NEW a, NEW b
    PROVE  FindMergeBase(r, a, b) = G!FindMergeBase(r, a, b)
BY DEF FindMergeBase, AncestorDepths, MaxOf, IdOrder, Ancestors, Within,
       G!FindMergeBase, G!AncestorDepths, G!MaxOf, G!IdOrder, G!Ancestors, G!Within

LEMMA AncestorFacts ==
    ASSUME NEW r, G!GraphOK(r), NEW c \in CommitIds(r)
    PROVE  /\ c \in Ancestors(r, c) /\ Ancestors(r, c) \subseteq CommitIds(r)
           /\ \A x \in Ancestors(r, c) : Ancestors(r, x) \subseteq Ancestors(r, c)
           /\ \A x \in Ancestors(r, c) \ {c} :
                 \E y \in r.commits[c].parents : x \in Ancestors(r, y)
           /\ \A y \in r.commits[c].parents : y \in Ancestors(r, c)
<1>1. c \in G!CommitIds(r) /\ \A x : Ancestors(r, x) = G!Ancestors(r, x)
      /\ CommitIds(r) = G!CommitIds(r)
  BY SameAncestors
<1>2. c \in G!Ancestors(r, c) /\ G!Closed(r, G!Ancestors(r, c))
  BY <1>1, StoreNames, G!AncestorsClosed
<1>3. G!Ancestors(r, c) \subseteq G!CommitIds(r)
  BY <1>1, StoreNames, G!AncestorsBelow
<1>4. \A x \in G!Ancestors(r, c) : G!Ancestors(r, x) \subseteq G!Ancestors(r, c)
  BY <1>1, StoreNames, G!AncestorsNest
<1>5. ASSUME NEW x \in G!Ancestors(r, c), x # c
      PROVE  \E y \in r.commits[c].parents : x \in G!Ancestors(r, y)
  <2>1. \E y \in G!Parents(r, c) : x \in G!Ancestors(r, y)
    BY <1>1, <1>5, StoreNames, G!AncestorsOfParents
  <2>2. QED
    BY <2>1 DEF G!Parents
<1>6. r.commits[c].parents \subseteq G!Ancestors(r, c)
  BY <1>1, <1>2 DEF G!Closed, G!Parents
<1>7. QED
  BY <1>1, <1>2, <1>3, <1>4, <1>5, <1>6

LEMMA BaseIsCommon ==
    ASSUME NEW r, G!GraphOK(r), NEW a \in CommitIds(r), NEW b \in CommitIds(r)
    PROVE  FindMergeBase(r, a, b) \in Ancestors(r, a) \cap Ancestors(r, b)
<1>1. a \in G!CommitIds(r) /\ b \in G!CommitIds(r)
  BY SameAncestors
<1>2. G!FindMergeBase(r, a, b) \in G!CommonAncestors(r, a, b)
  BY <1>1, StoreNames, G!MergeBaseIsCommon
<1>3. QED
  BY <1>2, SameAncestors, SameBase DEF G!CommonAncestors

LEMMA OldAncestors ==
    ASSUME NEW r, NEW s, G!Extends(r, s), NEW c \in CommitIds(r)
    PROVE  /\ Ancestors(s, c) = Ancestors(r, c) /\ c \in CommitIds(s)
           /\ AtCommit(s, c) = AtCommit(r, c)
<1>1. c \in G!CommitIds(r)
  BY SameAncestors
<1>2. G!Ancestors(s, c) = G!Ancestors(r, c)
  BY <1>1, StoreNames, G!AncestorsKept
<1>3. QED
  BY <1>1, <1>2, SameAncestors DEF G!Extends, AtCommit

-----------------------------------------------------------------------------
(* A new commit at the head of branch b.                                   *)

NewId(r) == Len(r.commits) + 1

Grown(r, s, b, ps, objs) ==
    /\ RepoOK(s)
    /\ CommitIds(s) = CommitIds(r) \cup {NewId(r)}
    /\ \A c \in CommitIds(r) : s.commits[c] = r.commits[c]
    /\ s.commits[NewId(r)].parents = ps
    /\ AtCommit(s, NewId(r)) = objs
    /\ s.head[b] = NewId(r) /\ s.staging[b] = NoStaging

(* ... and the others are as they were.                                    *)
GrownAt(r, s, b, ps, objs) == Grown(r, s, b, ps, objs) /\ Kept(r, s, {b})

LEMMA GrownGraph ==
    ASSUME NEW r, RepoOK(r), G!GraphOK(r), NEW s, NEW b, NEW ps, NEW objs,
           Grown(r, s, b, ps, objs), ps \subseteq CommitIds(r), ps # {}
    PROVE  /\ G!Extends(r, s) /\ G!GraphOK(s)
           /\ NewId(r) \in CommitIds(s) /\ NewId(r) \notin CommitIds(r)
           /\ Ancestors(s, NewId(r)) =
                {NewId(r)} \cup UNION {Ancestors(r, p) : p \in ps}
<1> DEFINE n == NewId(r)
<1>1. /\ CommitIds(r) = 1 .. Len(r.commits) /\ Len(r.commits) \in Nat
      /\ CommitIds(s) = 1 .. Len(s.commits) /\ Len(s.commits) \in Nat
  BY RepoShape DEF Grown
<1>2. n = Len(r.commits) + 1 /\ n \in CommitIds(s) /\ n \notin CommitIds(r)
  BY <1>1 DEF Grown, NewId
<1>3. \A c : CommitIds(r) = G!CommitIds(r) /\ CommitIds(s) = G!CommitIds(s)
  BY SameAncestors
<1>4. ASSUME NEW c \in CommitIds(s)
      PROVE  /\ s.commits[c].parents \subseteq 1 .. c - 1
             /\ c # Genesis => s.commits[c].parents # {}
  <2>1. CASE c \in CommitIds(r)
    BY <1>3, <2>1 DEF G!GraphOK, G!Parents, Grown, Genesis, G!Genesis
  <2>2. CASE c = n
    BY <1>1, <1>2, <2>2 DEF Grown
  <2>3. QED
    BY <2>1, <2>2 DEF Grown
<1>5. G!GraphOK(s)
  BY <1>1, <1>3, <1>4 DEF G!GraphOK, G!Parents, Genesis, G!Genesis
<1>6. G!Extends(r, s)
  BY <1>3, <1>5 DEF G!Extends, Grown
<1>7. \A p \in ps : Ancestors(s, p) = Ancestors(r, p)
  BY <1>6, OldAncestors
<1>8. s.commits[n].parents = ps
  BY DEF Grown
<1> HIDE DEF n
<1>9. Ancestors(s, n) \subseteq {n} \cup UNION {Ancestors(r, p) : p \in ps}
  BY <1>2, <1>5, <1>7, <1>8, AncestorFacts
<1>10. {n} \cup UNION {Ancestors(r, p) : p \in ps} \subseteq Ancestors(s, n)
  BY <1>2, <1>5, <1>7, <1>8, AncestorFacts
<1>11. QED
  BY <1>2, <1>5, <1>6, <1>9, <1>10 DEF n

-----------------------------------------------------------------------------
(* Values that stay.  At the paths in P: once an ancestor of commit c has  *)
(* a value in K, so has c; no ancestor of c has a value in K.              *)

Persistent(r, c, P, K) ==
    \A x \in Ancestors(r, c), p \in P :
        AtCommit(r, x)[p] \in K => AtCommit(r, c)[p] \in K

Private(r, c, K) ==
    \A x \in Ancestors(r, c), a \in Payloads : AtCommit(r, x)[a] \notin K

(* A merge of h into g: what it does not take has the base's value.        *)
Blend(r, h, g, objs) ==
    \E c \in Ancestors(r, h) \cap Ancestors(r, g) : \A p \in Paths :
        /\ objs[p] \in {AtCommit(r, h)[p], AtCommit(r, g)[p]}
        /\ objs[p] = AtCommit(r, h)[p] \/ AtCommit(r, c)[p] = AtCommit(r, h)[p]
        /\ objs[p] = AtCommit(r, g)[p] \/ AtCommit(r, c)[p] = AtCommit(r, g)[p]

LEMMA OldCommits ==
    ASSUME NEW r, NEW s, G!Extends(r, s), NEW c \in CommitIds(r)
    PROVE  /\ \A P, K : Persistent(s, c, P, K) <=> Persistent(r, c, P, K)
           /\ \A K : Private(s, c, K) <=> Private(r, c, K)
<1>1. Ancestors(s, c) = Ancestors(r, c) /\ AtCommit(s, c) = AtCommit(r, c)
  BY OldAncestors
<1>2. G!GraphOK(r)
  BY DEF G!Extends
<1>3. \A x \in Ancestors(r, c) : AtCommit(s, x) = AtCommit(r, x)
  BY <1>2, AncestorFacts, OldAncestors
<1>4. QED
  BY <1>1, <1>3 DEF Persistent, Private

LEMMA OneParent ==
    ASSUME NEW r, RepoOK(r), G!GraphOK(r), NEW s, NEW b, NEW q \in CommitIds(r), NEW objs,
           Grown(r, s, b, {q}, objs)
    PROVE  /\ \A P, K : /\ Persistent(r, q, P, K)
                        /\ \A p \in P : AtCommit(r, q)[p] \in K => objs[p] \in K
                        => Persistent(s, NewId(r), P, K)
           /\ \A K : /\ Private(r, q, K)
                     /\ \A a \in Payloads : objs[a] \notin K
                     => Private(s, NewId(r), K)
<1>1. /\ G!Extends(r, s) /\ Ancestors(s, NewId(r)) = {NewId(r)} \cup Ancestors(r, q)
  BY GrownGraph
<1>2. \A x \in Ancestors(r, q) : AtCommit(s, x) = AtCommit(r, x)
  BY <1>1, AncestorFacts, OldAncestors
<1>3. AtCommit(s, NewId(r)) = objs
  BY DEF Grown
<1>4. QED
  BY <1>1, <1>2, <1>3 DEF Persistent, Private

LEMMA TwoParents ==
    ASSUME NEW r, RepoOK(r), G!GraphOK(r), NEW s, NEW b,
           NEW h \in CommitIds(r), NEW g \in CommitIds(r), NEW objs,
           Grown(r, s, b, {g, h}, objs), Blend(r, h, g, objs)
    PROVE  /\ \A P \in SUBSET Paths : \A K : Persistent(r, h, P, K) /\ Persistent(r, g, P, K)
                => Persistent(s, NewId(r), P, K)
           /\ \A K : Private(r, h, K) /\ Private(r, g, K) => Private(s, NewId(r), K)
<1>1. /\ G!Extends(r, s)
      /\ Ancestors(s, NewId(r)) = {NewId(r)} \cup Ancestors(r, g) \cup Ancestors(r, h)
  BY GrownGraph
<1>2. \A x \in Ancestors(r, h) \cup Ancestors(r, g) : AtCommit(s, x) = AtCommit(r, x)
  BY <1>1, AncestorFacts, OldAncestors
<1>3. AtCommit(s, NewId(r)) = objs /\ h \in Ancestors(r, h) /\ g \in Ancestors(r, g)
  BY AncestorFacts DEF Grown
<1>4. PICK c \in Ancestors(r, h) \cap Ancestors(r, g) : \A p \in Paths :
        /\ objs[p] \in {AtCommit(r, h)[p], AtCommit(r, g)[p]}
        /\ objs[p] = AtCommit(r, h)[p] \/ AtCommit(r, c)[p] = AtCommit(r, h)[p]
        /\ objs[p] = AtCommit(r, g)[p] \/ AtCommit(r, c)[p] = AtCommit(r, g)[p]
  BY DEF Blend
<1>5. ASSUME NEW P \in SUBSET Paths, NEW K, Persistent(r, h, P, K), Persistent(r, g, P, K)
      PROVE  Persistent(s, NewId(r), P, K)
  <2>1. ASSUME NEW p \in P, AtCommit(r, h)[p] \in K \/ AtCommit(r, g)[p] \in K
        PROVE  objs[p] \in K
    BY <1>4, <1>5, <2>1 DEF Persistent
  <2>2. ASSUME NEW x \in Ancestors(s, NewId(r)), NEW p \in P, AtCommit(s, x)[p] \in K
        PROVE  objs[p] \in K
    BY <1>1, <1>2, <1>3, <1>5, <2>1, <2>2 DEF Persistent
  <2>3. QED
    BY <1>3, <2>2 DEF Persistent
<1>6. ASSUME NEW K, Private(r, h, K), Private(r, g, K)
      PROVE  Private(s, NewId(r), K)
  BY <1>1, <1>2, <1>3, <1>4, <1>6, Names DEF Private
<1>7. QED
  BY <1>5, <1>6

(* What only the merged side has is taken.                                 *)
LEMMA ShownByMerge ==
    ASSUME NEW r, NEW h, NEW g, NEW objs, Blend(r, h, g, objs),
           NEW K, Private(r, g, K), NEW a \in Payloads, AtCommit(r, h)[a] \in K
    PROVE  objs[a] \in K
BY Names DEF Blend, Private

-----------------------------------------------------------------------------
(* The storage calls of the steps.                                         *)

LEMMA AdvanceGrown ==
    ASSUME NEW r, RepoOK(r), NEW b \in Branches, NEW ps, NEW objs,
           NEW s, s = Advance(r, b, ps, objs)
    PROVE  GrownAt(r, s, b, ps, objs)
<1>1. /\ Advanced(r, s, b) /\ AtCommit(s, s.head[b]) = objs
      /\ CommitIds(s) = CommitIds(r) \cup {Len(r.commits) + 1}
      /\ s.head[b] = Len(r.commits) + 1 /\ s.commits[s.head[b]].parents = ps
  BY AdvanceShape
<1>2. QED
  BY <1>1 DEF GrownAt, Grown, NewId, Advanced, Kept

(* Branch b is set to commit q, a staging area is put there, and the whole *)
(* is committed.                                                           *)
LEMMA StagedGrown ==
    ASSUME NEW r, RepoOK(r), NEW b \in Branches, NEW u, RepoOK(u),
           u.commits = r.commits,
           \A x \in Branches \ {b} : u.head[x] = r.head[x] /\ u.staging[x] = r.staging[x],
           NEW s, s = Commit(u, b)
    PROVE  GrownAt(r, s, b, {u.head[b]}, ResolveState(u, b))
<1>1. PICK ps, objs : /\ ps = {u.head[b]} /\ objs = ResolveState(u, b)
                      /\ s = Advance(u, b, ps, objs)
  BY DEF Commit
<1>2. GrownAt(u, s, b, ps, objs)
  BY <1>1, AdvanceGrown
<1>3. CommitIds(u) = CommitIds(r) /\ NewId(u) = NewId(r)
  BY DEF CommitIds, NewId
<1>4. GrownAt(r, s, b, ps, objs)
  BY <1>2, <1>3 DEF GrownAt, Grown, Kept
<1>5. QED
  BY <1>1, <1>4

(* A new branch with the record of a transaction.                          *)
LEMMA RecordGrown ==
    ASSUME NEW r, RepoOK(r), NEW t \in TxnIds, NEW c \in CommitIds(r), NEW p,
           NEW s, s = WithTxnMeta(CreateBranch(r, t, c), t, [parent |-> p])
    PROVE  \E objs : /\ GrownAt(r, s, t, {c}, objs)
                     /\ \A x \in Paths \ {t} : objs[x] = AtCommit(r, c)[x]
                     /\ objs[t] \in {AtCommit(r, c)[t], [parent |-> p]}
<1>1. t \in Branches /\ t \in Paths
  BY DEF Branches, Paths
<1>2. PICK u : u = CreateBranch(r, t, c)
  OBVIOUS
<1>3. PICK y, v : y = [parent |-> p] /\ v = PutObject(u, t, t, y) /\ s = Commit(v, t)
  BY <1>2 DEF WithTxnMeta, TxnMetaPath
<1>4. /\ RepoOK(u) /\ u.head[t] = c /\ u.staging[t] = NoStaging /\ u.commits = r.commits
      /\ \A x \in Branches \ {t} : u.head[x] = r.head[x] /\ u.staging[x] = r.staging[x]
  BY <1>1, <1>2, PointShape DEF Pointed, Kept
<1> DEFINE f == [NoStaging EXCEPT ![t] = y]
<1>5. v = Restaged(u, t, f)
  BY <1>1, <1>3, <1>4 DEF PutObject, Restaged
<1>6. f \in [Paths -> {Unstaged, y}] /\ f[t] = y /\ \A x \in Paths \ {t} : f[x] = Unstaged
  BY <1>1 DEF NoStaging
<1> HIDE DEF f
<1>7. RepoOK(v) /\ Kept(u, v, {t}) /\ v.head = u.head /\ v.staging[t] = f
      /\ v.commits = u.commits
  <2>1. OnPaths(f)
    BY <1>6 DEF OnPaths
  <2>2. QED
    BY <1>1, <1>4, <1>5, <2>1, StageShape
<1>8. GrownAt(r, s, t, {v.head[t]}, ResolveState(v, t))
  BY <1>1, <1>3, <1>4, <1>7, StagedGrown DEF Kept
<1>9. /\ \A x \in Paths \ {t} : ResolveState(v, t)[x] = AtCommit(r, c)[x]
      /\ ResolveState(v, t)[t] \in {AtCommit(r, c)[t], y}
  BY <1>1, <1>4, <1>6, <1>7 DEF ResolveState, AtCommit
<1>10. QED
  BY <1>3, <1>4, <1>7, <1>8, <1>9

(* The index objects that have a row of artifact a.                        *)
RowSet(a) == {o \in IndexObjects : a \in DOMAIN o}

(* What the staging callback writes over the objects in base.              *)
Written(base, objs, w, a) ==
    /\ objs[a] = w
    /\ \A p \in Paths \ Indexes : p # a => objs[p] = base[p]
    /\ \A x \in Indexes : base[x] \in IndexObjects \cup {Absent} =>
            /\ objs[x] \in IndexObjects
            /\ \A y \in Payloads : objs[x] \in RowSet(y) <=> y = a \/ base[x] \in RowSet(y)

LEMMA IndexFacts ==
    /\ Absent \notin IndexObjects /\ Unstaged \notin IndexObjects
    /\ Payloads \cap Indexes = {} /\ Indexes \subseteq Paths /\ TxnIds \cap Indexes = {}
BY NameAssumption DEF StoredValues, Paths

(* Adding a row.                                                           *)
LEMMA RowAdded ==
    ASSUME NEW obj \in IndexObjects \cup {Absent}, NEW a \in Payloads
    PROVE  LET new == WithRow(WithoutRow(obj, a), a, 0)
           IN  /\ new \in IndexObjects
               /\ \A y \in Payloads : new \in RowSet(y) <=> y = a \/ obj \in RowSet(y)
<1> DEFINE old == Rows(obj)
           less == WithoutRow(obj, a)
           new == WithRow(less, a, 0)
<1>1. PICK D \in SUBSET Payloads : old \in [D -> {0}]
  BY DEF IndexObjects, Rows, NoRows
<1>2. \A y \in Payloads : obj \in RowSet(y) <=> y \in D
  BY <1>1, IndexFacts DEF Rows, NoRows, RowSet
<1>3. less = [x \in D \ {a} |-> old[x]]
  BY <1>1 DEF WithoutRow
<1>4. less \in [D \ {a} -> {0}]
  BY <1>1, <1>3
<1>5. less \in IndexObjects
  BY <1>4 DEF IndexObjects
<1>6. Rows(less) = less
  BY <1>5, IndexFacts DEF Rows
<1> HIDE DEF less
<1>7. new \in [D \cup {a} -> {0}]
  BY <1>4, <1>6 DEF WithRow
<1>8. D \cup {a} \in SUBSET Payloads
  OBVIOUS
<1> HIDE DEF new
<1>9. new \in IndexObjects
  BY <1>7, <1>8 DEF IndexObjects
<1>10. \A y \in Payloads : new \in RowSet(y) <=> y \in D \cup {a}
  BY <1>7, <1>9 DEF RowSet
<1>11. new \in IndexObjects /\ \A y \in Payloads : new \in RowSet(y) <=> y = a \/ obj \in RowSet(y)
  BY <1>2, <1>9, <1>10
<1>12. QED
  BY <1>11 DEF new, less

(* A write on branch b, which has nothing staged.                          *)
LEMMA WriteGrown ==
    ASSUME NEW r, RepoOK(r), NEW b \in TxnIds, NEW w \in TxnIds, NEW a \in Payloads,
           NEW u, RepoOK(u), u.commits = r.commits, u.staging[b] = NoStaging,
           \A x \in Branches \ {b} : u.head[x] = r.head[x] /\ u.staging[x] = r.staging[x],
           NEW s, s = Commit(Staged(u, b, w, a), b)
    PROVE  \E objs : /\ GrownAt(r, s, b, {u.head[b]}, objs)
                     /\ Written(AtCommit(r, u.head[b]), objs, w, a)
<1> DEFINE base == AtCommit(r, u.head[b])
           row(p) == WithRow(WithoutRow(ResolveState(u, b)[p], a), a, 0)
           f == [p \in Paths |-> IF p = a THEN w
                                 ELSE IF p \in Indexes THEN row(p)
                                 ELSE u.staging[b][p]]
<1>1. /\ b \in Branches /\ a \in Paths /\ Payloads \subseteq Paths /\ a \notin Indexes
      /\ w # Unstaged /\ Indexes \subseteq Paths
  BY Names, IndexFacts DEF Branches
<1>2. \A p \in Paths : ResolveState(u, b)[p] = base[p]
  BY DEF ResolveState, AtCommit, NoStaging
<1>3. Staged(u, b, w, a) = Restaged(u, b, f)
  BY DEF Staged, Restaged
<1> HIDE DEF row
<1>4. f \in [Paths -> {f[p] : p \in Paths}]
  OBVIOUS
<1>5. /\ f[a] = w /\ \A x \in Indexes : f[x] = row(x)
      /\ \A p \in Paths \ Indexes : p # a => f[p] = Unstaged
  BY <1>1 DEF NoStaging
<1> HIDE DEF f
<1>6. PICK v : v = Restaged(u, b, f) /\ s = Commit(v, b)
  BY <1>3
<1>7. RepoOK(v) /\ Kept(u, v, {b}) /\ v.head = u.head /\ v.staging[b] = f
      /\ v.commits = u.commits
  <2>1. OnPaths(f)
    BY <1>4 DEF OnPaths
  <2>2. QED
    BY <1>1, <1>6, <2>1, StageShape
<1>8. GrownAt(r, s, b, {v.head[b]}, ResolveState(v, b))
  BY <1>1, <1>6, <1>7, StagedGrown DEF Kept
<1>9. \A p \in Paths : ResolveState(v, b)[p] = IF f[p] = Unstaged THEN base[p] ELSE f[p]
  BY <1>7 DEF ResolveState, AtCommit
<1>10. ASSUME NEW x \in Indexes, base[x] \in IndexObjects \cup {Absent}
       PROVE  /\ ResolveState(v, b)[x] \in IndexObjects
              /\ \A y \in Payloads : ResolveState(v, b)[x] \in RowSet(y)
                                        <=> y = a \/ base[x] \in RowSet(y)
  <2>1. f[x] = WithRow(WithoutRow(base[x], a), a, 0)
    BY <1>1, <1>2, <1>5 DEF row
  <2>2. f[x] \in IndexObjects
        /\ \A y \in Payloads : f[x] \in RowSet(y) <=> y = a \/ base[x] \in RowSet(y)
    BY <1>10, <2>1, RowAdded
  <2>3. f[x] # Unstaged
    BY <2>2, IndexFacts
  <2>4. QED
    BY <1>1, <1>9, <2>2, <2>3
<1>11. Written(base, ResolveState(v, b), w, a)
  BY <1>1, <1>5, <1>9, <1>10 DEF Written
<1>12. QED
  BY <1>7, <1>8, <1>11

IsIndex(obj) == obj \in IndexObjects \cup {Absent}

LEMMA RowsShape ==
    ASSUME NEW obj, IsIndex(obj)
    PROVE  \E D \in SUBSET Payloads : /\ Rows(obj) \in [D -> {0}]
                                      /\ \A y \in Payloads : obj \in RowSet(y) <=> y \in D
<1>1. CASE obj = Absent
  <2>1. Rows(obj) \in [{} -> {0}] /\ \A y \in Payloads : obj \notin RowSet(y)
    BY <1>1, IndexFacts DEF Rows, NoRows, RowSet
  <2>2. QED
    BY <2>1
<1>2. CASE obj \in IndexObjects
  BY <1>2, IndexFacts DEF Rows, RowSet, IndexObjects
<1>3. QED
  BY <1>1, <1>2 DEF IsIndex

(* The resolver's index object keeps the rows of its own side that the     *)
(* other side did not remove.                                              *)
LEMMA ResolvedRows ==
    ASSUME NEW base, NEW ours, NEW theirs, IsIndex(base), IsIndex(ours), IsIndex(theirs),
           NEW new, new = MergeIndexObjects(Rows(base), Rows(ours), Rows(theirs))
    PROVE  /\ new \in IndexObjects
           /\ \A a \in Payloads :
                ours \in RowSet(a) /\ (base \in RowSet(a) => theirs \in RowSet(a))
                    => new \in RowSet(a)
<1>1. PICK B \in SUBSET Payloads : /\ Rows(base) \in [B -> {0}]
                                   /\ \A y \in Payloads : base \in RowSet(y) <=> y \in B
  BY RowsShape
<1>2. PICK M \in SUBSET Payloads : /\ Rows(ours) \in [M -> {0}]
                                   /\ \A y \in Payloads : ours \in RowSet(y) <=> y \in M
  BY RowsShape
<1>3. PICK N \in SUBSET Payloads : /\ Rows(theirs) \in [N -> {0}]
                                   /\ \A y \in Payloads : theirs \in RowSet(y) <=> y \in N
  BY RowsShape
<1>4. PICK f, g, h : f = Rows(base) /\ g = Rows(ours) /\ h = Rows(theirs)
  OBVIOUS
<1> DEFINE D == (B \ ((B \ M) \cup (B \ N))) \cup (M \ B) \cup (N \ B)
<1>5. Removes(f, g) = B \ M /\ Removes(f, h) = B \ N
      /\ Adds(f, g) = M \ B /\ Adds(f, h) = N \ B
  BY <1>1, <1>2, <1>3, <1>4 DEF Removes, Adds
<1>6. new = [a \in D |-> new[a]] /\ \A a \in D : new[a] = 0
  <2>1. DOMAIN f = B /\ DOMAIN g = M /\ DOMAIN h = N
        /\ \A y \in B : f[y] = 0
    BY <1>1, <1>2, <1>3, <1>4
  <2>2. \A y \in M : g[y] = 0
    BY <1>2, <1>4
  <2>3. \A y \in N : h[y] = 0
    BY <1>3, <1>4
  <2>4. new = MergeIndexObjects(f, g, h)
    BY <1>4
  <2>5. QED
    BY <1>5, <2>1, <2>2, <2>3, <2>4 DEF MergeIndexObjects, Smaller
<1>7. D \in SUBSET Payloads /\ \A y \in M : (y \in B => y \in N) => y \in D
  OBVIOUS
<1> HIDE DEF D
<1>8. new \in [D -> {0}]
  BY <1>6
<1>9. new \in IndexObjects
  BY <1>7, <1>8 DEF IndexObjects
<1>10. \A y \in Payloads : new \in RowSet(y) <=> y \in D
  BY <1>8, <1>9 DEF RowSet
<1>11. QED
  BY <1>1, <1>2, <1>3, <1>7, <1>9, <1>10

(* The resolver's commit on branch a, which it may be asked for if nothing *)
(* is staged and only index objects are in conflict.                       *)
LEMMA ResolveGrown ==
    ASSUME NEW r, RepoOK(r), NEW a \in Branches, NEW b \in Branches, NEW conflicts,
           conflicts \subseteq Indexes, r.staging[a] = NoStaging,
           NEW s, s = ResolveConflicts(r, a, b, conflicts)
    PROVE  \E objs :
              /\ GrownAt(r, s, a, {r.head[a]}, objs)
              /\ \A p \in Paths \ conflicts : objs[p] = AtCommit(r, r.head[a])[p]
              /\ \A p \in conflicts :
                    ResolveSinglePath(r, r.head[a], r.head[b], p) # Unstaged =>
                        objs[p] = ResolveSinglePath(r, r.head[a], r.head[b], p)
<1> DEFINE f == [p \in Paths |-> IF p \in conflicts
                                 THEN ResolveSinglePath(r, r.head[a], r.head[b], p)
                                 ELSE r.staging[a][p]]
<1>1. s = Commit(Restaged(r, a, f), a)
  BY DEF ResolveConflicts, Restaged, GetBranchHead
<1>2. f \in [Paths -> {f[p] : p \in Paths}]
  OBVIOUS
<1>3. /\ \A p \in Paths \ conflicts : f[p] = Unstaged
      /\ \A p \in conflicts : p \in Paths /\ f[p] = ResolveSinglePath(r, r.head[a], r.head[b], p)
  BY IndexFacts DEF NoStaging
<1> HIDE DEF f
<1>4. PICK v : v = Restaged(r, a, f) /\ s = Commit(v, a)
  BY <1>1
<1>5. RepoOK(v) /\ Kept(r, v, {a}) /\ v.head = r.head /\ v.staging[a] = f
      /\ v.commits = r.commits
  <2>1. OnPaths(f)
    BY <1>2 DEF OnPaths
  <2>2. QED
    BY <1>4, <2>1, StageShape
<1>6. GrownAt(r, s, a, {r.head[a]}, ResolveState(v, a))
  BY <1>4, <1>5, StagedGrown DEF Kept
<1>7. \A p \in Paths : ResolveState(v, a)[p] =
            IF f[p] = Unstaged THEN AtCommit(r, r.head[a])[p] ELSE f[p]
  BY <1>5 DEF ResolveState, AtCommit
<1>8. QED
  BY <1>3, <1>6, <1>7

(* A merge without conflicts.                                              *)
LEMMA MergeGrown ==
    ASSUME NEW r, RepoOK(r), G!GraphOK(r), NEW a \in Branches, NEW b \in Branches,
           CanMerge(r, a, b), MergeConflicts(r, a, b) = {},
           NEW s, s = Merge(r, a, b)
    PROVE  \E objs : /\ GrownAt(r, s, b, {r.head[b], r.head[a]}, objs)
                     /\ Blend(r, r.head[a], r.head[b], objs)
<1> DEFINE c == MergeBase(r, a, b)
           h == r.head[a]
           g == r.head[b]
           new == [p \in Paths |-> PathMerge(AtCommit(r, c)[p], AtCommit(r, h)[p],
                                             AtCommit(r, g)[p])]
<1>1. h \in CommitIds(r) /\ g \in CommitIds(r)
  BY RepoShape DEF CanMerge
<1>2. c \in Ancestors(r, h) \cap Ancestors(r, g)
  BY <1>1, BaseIsCommon DEF MergeBase
<1>3. \A p \in Paths : ~PathConflict(AtCommit(r, c)[p], AtCommit(r, h)[p], AtCommit(r, g)[p])
  BY DEF MergeConflicts
<1>4. s = Advance(r, b, {g, h}, new)
  BY DEF Merge
<1>5. \A p \in Paths : new[p] = PathMerge(AtCommit(r, c)[p], AtCommit(r, h)[p],
                                          AtCommit(r, g)[p])
  OBVIOUS
<1> HIDE DEF c, h, g, new
<1>6. GrownAt(r, s, b, {g, h}, new)
  BY <1>4, AdvanceGrown
<1>7. Blend(r, h, g, new)
  BY <1>2, <1>3, <1>5 DEF Blend, PathMerge, PathConflict
<1>8. QED
  BY <1>6, <1>7 DEF h, g

-----------------------------------------------------------------------------
(* The values that may be at a path: the payloads of transactions that     *)
(* were created, index objects, the record of the transaction at its path. *)

ValuesAt(p) ==
    {Absent} \cup
        IF p \in Payloads THEN {w \in TxnIds : w \in Txns => outcome[w] # "unborn"}
        ELSE IF p \in Indexes THEN IndexObjects
        ELSE IF p \in Txns THEN {[parent |-> x] : x \in {y \in {parent[p]} :
                                                           outcome[p] # "unborn"}}
        ELSE StoredRecords

(* Only records and merged index objects are staged between two steps.     *)
StagedAt(p) ==
    {Unstaged} \cup IF p \in TxnIds THEN ValuesAt(p)
                    ELSE IF p \in Indexes THEN IndexObjects ELSE {}

(* The indexes in which the resolver did not write over a's row.           *)
Safe(a) == {x \in Indexes : <<x, a>> \notin lostRows}

(* What is staged there keeps the branch's rows.                           *)
RowsStaged(r, b) ==
    BranchExists(r, b) => \A a \in Payloads : \A x \in Safe(a) :
        HeadAt(r, b, x) \in RowSet(a) /\ r.staging[b][x] # Unstaged
            => r.staging[b][x] \in RowSet(a)

ObjectsFine(objs) == \A p \in Paths : objs[p] \in ValuesAt(p)
StagingFine(f) == \A p \in Paths : f[p] \in StagedAt(p)

StoreFine ==
    /\ \A c \in CommitIds(repo) : ObjectsFine(AtCommit(repo, c))
    /\ \A b \in Branches : StagingFine(repo.staging[b]) /\ RowsStaged(repo, b)

(* What a thread at work knows is so.  Its branch is that of a write,      *)
(* which shows the payload, or of an implicit transaction.                 *)
WriteFine(th, o) ==
    /\ o.pc \in {"write", "written"} => outcome[o.txn] # "unborn"
    /\ o.pc = "write" => BranchExists(repo, th) /\ HeadAt(repo, th, o.artifact) = o.txn

(* What the resolver works on.                                             *)
ResolvesFine(o, r) ==
    /\ o.ours \in CommitIds(r) /\ o.theirs \in CommitIds(r)
    /\ o.conflicts \subseteq Indexes

CommitFine(th, o) ==
    o.pc \in CommitPcs =>
        /\ o.txn \in Txns \cup {th}
        /\ o.txn \in Txns => /\ outcome[o.txn] # "unborn" /\ o.rec.parent = parent[o.txn]
                             /\ \A a \in o.seen : <<o.txn, a>> \in acked
        /\ o.txn = th => o.rec.parent = None
        /\ o.pc \in {"commit", "rollback"} => o.txn = th
        /\ o.pc = "merged" /\ o.txn \in Txns => outcome[o.txn] # "open"
        /\ o.pc = "resolve" => ResolvesFine(o, repo)

BranchFine(th, o) ==
    BranchExists(repo, th) => o.pc = "write" \/ (o.pc \in CommitPcs /\ o.txn = th)

OpFine(th, o) == WriteFine(th, o) /\ CommitFine(th, o) /\ BranchFine(th, o)

OpsFine == \A th \in Threads : OpFine(th, op[th])

(* Nothing is there of a transaction that was not created.                 *)
UnbornFine ==
    \A t \in Txns : outcome[t] = "unborn" =>
        /\ ~BranchExists(repo, t) /\ parent[t] = None /\ merges[t] = 0
        /\ \A c \in Txns : parent[c] # t
        /\ \A a : <<t, a>> \notin acked

CacheFine ==
    /\ CacheOK(cache)
    /\ \A i \in Instances, t \in Txns : cache[i][t] # None =>
            outcome[t] # "unborn" /\ cache[i][t].parent = parent[t]

OpenFine ==
    /\ before \in [Txns -> SUBSET Payloads] /\ result \in [Txns -> Nat]
    /\ \A t \in Txns :
        /\ outcome[t] = "open" => BranchExists(repo, t) /\ merges[t] = 0
        /\ merges[t] > 0 => result[t] \in CommitIds(repo)

AckedFine == acked \subseteq Txns \X Payloads

Base ==
    /\ Typed /\ G!GraphOK(repo) /\ StoreFine /\ OpsFine /\ UnbornFine /\ CacheFine
    /\ OpenFine /\ AckedFine

-----------------------------------------------------------------------------
(* A step of one thread that creates no transaction.                       *)

(* What happens to the transactions.                                       *)
CalmTxns ==
    /\ outcome' \in [Txns -> {"unborn", "open", "committed", "rolledback"}]
    /\ \A t \in Txns : /\ outcome'[t] = "unborn" <=> outcome[t] = "unborn"
                       /\ outcome'[t] = "open" => outcome[t] = "open"
                       /\ outcome'[t] = "open" =>
                            BranchExists(repo', t) /\ merges'[t] = merges[t]
                       /\ outcome[t] = "unborn" => merges'[t] = merges[t]
                       /\ merges'[t] > 0 => result'[t] \in CommitIds(repo')
    /\ parent' = parent
    /\ merges' \in [Txns -> Nat]
    /\ before' \in [Txns -> SUBSET Payloads] /\ result' \in [Txns -> Nat]
    /\ lostRows \subseteq lostRows'

(* ... to the store ...                                                    *)
CalmStore(th) ==
    /\ RepoOK(repo') /\ G!Extends(repo, repo') /\ StoreFine'
    /\ BranchExists(repo', Main)
    /\ \A t \in Txns : BranchExists(repo', t) => BranchExists(repo, t)
    /\ \A x \in Threads \ {th} : repo'.head[x] = repo.head[x]

(* ... and to the threads.                                                 *)
CalmOps(th) ==
    /\ lock' \in [Instances -> Threads \cup {None}]
    /\ op' \in [Threads -> Ops]
    /\ \A x \in Threads \ {th} : op'[x] = op[x]
    /\ OpFine(th, op[th])'
    /\ acked \subseteq acked'
    /\ \A x \in acked' \ acked : x \in Txns \X Payloads /\ outcome[x[1]] # "unborn"

Calm(th) == CalmTxns /\ CalmStore(th) /\ CalmOps(th) /\ CacheFine'

LEMMA OthersFine ==
    ASSUME Base, NEW th \in Threads, CalmTxns, CalmStore(th), CalmOps(th),
           NEW x \in Threads \ {th}
    PROVE  OpFine(x, op[x])'
<1>1. /\ op[x] \in Ops /\ OpFine(x, op[x]) /\ op'[x] = op[x] /\ x \in Branches
      /\ CommitIds(repo) \subseteq CommitIds(repo')
  BY Names, OldAncestors DEF Base, Typed, OpsFine, CalmOps, CalmStore
<1>2. repo'.head[x] = repo.head[x] /\ (BranchExists(repo', x) <=> BranchExists(repo, x))
  BY DEF CalmStore, BranchExists
<1>3. WriteFine(x, op[x])'
  <2>1. CASE op[x].pc \in {"write", "written"}
    <3>1. op[x].txn \in Txns /\ op[x].artifact \in Payloads
      BY <1>1, <2>1, OpKinds DEF WriteOps
    <3>2. outcome'[op[x].txn] # "unborn"
      BY <1>1, <2>1, <3>1 DEF OpFine, WriteFine, CalmTxns
    <3>3. op[x].pc = "write" => BranchExists(repo', x) /\ HeadAt(repo', x, op[x].artifact) = op[x].txn
      <4>1. SUFFICES ASSUME op[x].pc = "write"
                     PROVE  /\ BranchExists(repo', x)
                            /\ HeadAt(repo', x, op[x].artifact) = op[x].txn
        OBVIOUS
      <4>2. BranchExists(repo, x) /\ HeadAt(repo, x, op[x].artifact) = op[x].txn
        BY <1>1, <4>1 DEF OpFine, WriteFine
      <4>3. repo.head[x] \in CommitIds(repo)
        BY <1>1, <4>2, RepoShape DEF Base, Typed
      <4>4. AtCommit(repo', repo.head[x]) = AtCommit(repo, repo.head[x])
        BY <4>3, OldAncestors DEF CalmStore
      <4>5. QED
        BY <1>2, <4>2, <4>4 DEF HeadAt
    <3>4. QED
      BY <1>1, <3>2, <3>3 DEF WriteFine
  <2>2. CASE op[x].pc \notin {"write", "written"}
    BY <1>1, <2>2 DEF WriteFine
  <2>3. QED
    BY <2>1, <2>2
<1>4. CommitFine(x, op[x])'
  BY <1>1 DEF OpFine, CommitFine, CalmTxns, CalmOps, ResolvesFine
<1>5. BranchFine(x, op[x])'
  BY <1>1, <1>2 DEF OpFine, BranchFine
<1>6. QED
  BY <1>3, <1>4, <1>5 DEF OpFine

LEMMA CalmBase ==
    ASSUME Base, NEW th \in Threads, Calm(th)
    PROVE  Base'
<1>1. CalmTxns /\ CalmStore(th) /\ CalmOps(th) /\ CacheFine'
  BY DEF Calm
<1>2. OpsFine'
  BY <1>1, OthersFine DEF OpsFine, CalmOps
<1>3. Typed'
  BY <1>1 DEF Typed, CalmTxns, CalmStore, CalmOps, CacheFine, Base
<1>4. G!GraphOK(repo') /\ StoreFine'
  BY <1>1 DEF CalmStore, G!Extends
<1>5. UnbornFine'
  BY <1>1 DEF UnbornFine, CalmTxns, CalmStore, CalmOps, Base
<1>6. OpenFine'
  <2>1. ASSUME NEW t \in Txns, outcome'[t] = "open"
        PROVE  BranchExists(repo', t) /\ merges'[t] = 0
    BY <1>1, <2>1 DEF Base, OpenFine, CalmTxns
  <2>2. QED
    BY <1>1, <2>1 DEF OpenFine, CalmTxns
<1>7. AckedFine'
  BY <1>1 DEF AckedFine, CalmOps, Base
<1>8. QED
  BY <1>1, <1>2, <1>3, <1>4, <1>5, <1>6, <1>7 DEF Base

-----------------------------------------------------------------------------
(* What the commits and the branches show.                                 *)

(* In every commit: artifacts and index rows stay, and every artifact has  *)
(* its rows, where the resolver did not write over them.                   *)
Sound(r, c) ==
    /\ Persistent(r, c, Payloads, TxnIds)
    /\ \A a \in Payloads : Persistent(r, c, Safe(a), RowSet(a))
    /\ \A a \in Payloads : \A x \in Safe(a) :
            AtCommit(r, c)[a] \in TxnIds => AtCommit(r, c)[x] \in RowSet(a)

Commits == \A c \in CommitIds(repo) : Sound(repo, c)

(* The transaction to which a branch belongs, and the branch into which it *)
(* is to be merged.                                                        *)
Owner(b) == IF b \in Threads /\ op[b].pc = "write" THEN op[b].txn ELSE b

Upper(b) ==
    IF b \in Threads THEN IF op[b].pc = "write" THEN op[b].txn ELSE Main
    ELSE IF b \in Txns /\ parent[b] # None THEN parent[b] ELSE Main

(* On the branches below a transaction, payloads from there are replaced   *)
(* only by such payloads.                                                  *)
KinStays ==
    \A b \in Branches, t \in Txns : BranchExists(repo, b) /\ Owner(b) \in Kin(t) =>
        Persistent(repo, repo.head[b], Payloads, Kin(t))

(* On the other branches there are none before the transaction is merged.  *)
KinHidden ==
    \A b \in Branches, t \in Txns :
        BranchExists(repo, b) /\ Owner(b) \notin Kin(t) /\ merges[t] = 0 =>
            Private(repo, repo.head[b], Kin(t))

(* A write that went through is on the transaction's branch.               *)
Pending(t, a) ==
    \/ <<t, a>> \in acked
    \/ \E th \in Threads : op[th].pc = "written" /\ op[th].txn = t /\ op[th].artifact = a

OnBranch ==
    \A t \in Txns, a \in Payloads : Pending(t, a) /\ BranchExists(repo, t) =>
        HeadAt(repo, t, a) \in Kin(t)

ShownOnce == \A t \in Txns : merges[t] = 1 => \A a \in before[t] : Shows(t, a)

(* What holds if snapshots are taken of the canonical branch.              *)
Secluded ==
    /\ KinHidden /\ ShownOnce
    /\ snaps \subseteq Ancestors(repo, repo.head[Main])

(* No transaction is below itself.                                         *)
Acyclic == \A t \in Txns : parent[t] \notin Kin(t)

Hist ==
    Base /\ Commits /\ KinStays /\ OnBranch /\ Acyclic /\ (MainSnapshots => Secluded)

-----------------------------------------------------------------------------
(* A step that treats the branches in B right keeps the invariant.         *)

Steady(B) ==
    /\ \A b \in Branches \ B : BranchExists(repo', b) =>
            repo'.head[b] = repo.head[b] /\ Owner(b)' = Owner(b) /\ Upper(b)' = Upper(b)
    /\ \A t \in Txns : merges'[t] = 0 => merges[t] = 0

(* The new head of a branch that others may be merged into descends from   *)
(* the old one.                                                            *)
Climbs(b) ==
    BranchExists(repo, b) /\ repo.head[b] \in Ancestors(repo', repo'.head[b])

NewKin(b) ==
    \A t \in Txns : Owner(b)' \in Kin(t) =>
        Persistent(repo', repo'.head[b], Payloads, Kin(t))

NewHidden(b) ==
    \A t \in Txns : Owner(b)' \notin Kin(t) /\ merges'[t] = 0 =>
        Private(repo', repo'.head[b], Kin(t))

NewHead(b) ==
    /\ b \in Txns \cup {Main} => Climbs(b)
    /\ NewKin(b)
    /\ MainSnapshots => NewHidden(b)

PendingStep ==
    \A t \in Txns, a \in Payloads : Pending(t, a)' /\ BranchExists(repo', t) =>
        Pending(t, a) \/ HeadAt(repo', t, a) \in Kin(t)

MergesStep ==
    \A t \in Txns : merges'[t] = 1 =>
        \/ merges[t] = 1 /\ before'[t] = before[t] /\ result'[t] = result[t]
        \/ \A a \in before'[t] : AtCommit(repo', result'[t])[a] \in Kin(t)

SnapsStep == snaps' \subseteq snaps \cup {repo'.head[Main]}

LEMMA KinSame == ASSUME parent' = parent PROVE \A t : Kin(t)' = Kin(t)
BY DEF Kin

LEMMA KinFacts ==
    ASSUME NEW t \in Txns
    PROVE  /\ t \in Kin(t) /\ Kin(t) \subseteq Txns
           /\ \A c \in Txns : parent[c] \in Kin(t) => c \in Kin(t)
           /\ \A c \in Kin(t) \ {t} : parent[c] \in Kin(t)
<1>1. t \in Kin(t) /\ Kin(t) \subseteq Txns
  BY DEF Kin
<1>2. ASSUME NEW c \in Txns, parent[c] \in Kin(t)
      PROVE  c \in Kin(t)
  BY <1>2 DEF Kin
<1> DEFINE S == {x \in Kin(t) : x = t \/ parent[x] \in Kin(t)}
<1>3. S \in SUBSET Txns /\ t \in S /\ \A c \in Txns : parent[c] \in S => c \in S
  BY <1>1, <1>2
<1> HIDE DEF S
<1>4. Kin(t) \subseteq S
  BY <1>3 DEF Kin
<1>5. QED
  BY <1>1, <1>2, <1>4 DEF S

LEMMA UpperShape ==
    ASSUME Typed, NEW b \in Branches
    PROVE  Upper(b) \in Txns \cup {Main} /\ Upper(b) \in Branches
<1>1. \A th \in Threads : op[th].pc = "write" => op[th].txn \in Txns
  BY OpKinds DEF Typed, WriteOps
<1>2. QED
  BY <1>1, Names DEF Upper, Typed

LEMMA OldSound ==
    ASSUME NEW r, NEW s, G!Extends(r, s), NEW c \in CommitIds(r), Sound(r, c)
    PROVE  Sound(s, c)
<1>1. AtCommit(s, c) = AtCommit(r, c)
  BY OldAncestors
<1>2. Persistent(s, c, Payloads, TxnIds)
  BY OldCommits DEF Sound
<1>3. \A a \in Payloads : Persistent(s, c, Safe(a), RowSet(a))
  BY OldCommits DEF Sound
<1>4. QED
  BY <1>1, <1>2, <1>3 DEF Sound

(* Less is asked of a commit when the resolver wrote over more.            *)
LEMMA SoundLess ==
    ASSUME NEW r, NEW c, Sound(r, c), lostRows \subseteq lostRows'
    PROVE  /\ Persistent(r, c, Payloads, TxnIds)
           /\ \A a \in Payloads : Persistent(r, c, Safe(a)', RowSet(a))
           /\ \A a \in Payloads : \A x \in Safe(a)' :
                AtCommit(r, c)[a] \in TxnIds => AtCommit(r, c)[x] \in RowSet(a)
<1>1. \A a : Safe(a)' \subseteq Safe(a)
  BY DEF Safe
<1>2. QED
  BY <1>1 DEF Sound, Persistent

(* What the heads of branches outside B have to do with those before.      *)
LEMMA SteadyHeads ==
    ASSUME Base, Base', G!Extends(repo, repo'), NEW B, Steady(B),
           \A b \in B \cap Branches : BranchExists(repo', b) => NewHead(b)
    PROVE  /\ \A b \in Branches \ B : BranchExists(repo', b) =>
                /\ BranchExists(repo, b) /\ repo.head[b] \in CommitIds(repo)
                /\ AtCommit(repo', repo'.head[b]) = AtCommit(repo, repo.head[b])
           /\ \A b \in Txns \cup {Main} : BranchExists(repo', b) =>
                /\ Climbs(b) /\ repo.head[b] \in CommitIds(repo)
                /\ repo'.head[b] \in CommitIds(repo')
                /\ AtCommit(repo', repo.head[b]) = AtCommit(repo, repo.head[b])
<1>1. RepoOK(repo) /\ RepoOK(repo') /\ G!GraphOK(repo')
  BY DEF Base, Typed
<1>2. \A b \in Branches : /\ BranchExists(repo, b) => repo.head[b] \in CommitIds(repo)
                          /\ BranchExists(repo', b) => repo'.head[b] \in CommitIds(repo')
  BY <1>1, RepoShape
<1>3. \A b \in Branches \ B : BranchExists(repo', b) =>
            repo'.head[b] = repo.head[b] /\ BranchExists(repo, b)
  BY DEF Steady, BranchExists
<1>4. \A c \in CommitIds(repo) : AtCommit(repo', c) = AtCommit(repo, c) /\ c \in CommitIds(repo')
  BY OldAncestors
<1>5. \A c \in CommitIds(repo') : c \in Ancestors(repo', c)
  BY <1>1, AncestorFacts
<1>6. ASSUME NEW b \in Txns \cup {Main}, BranchExists(repo', b)
      PROVE  Climbs(b)
  BY <1>2, <1>3, <1>5, <1>6, Names DEF NewHead, Climbs
<1>7. QED
  BY <1>2, <1>3, <1>4, <1>6, Names DEF Climbs

LEMMA StepCommits ==
    ASSUME Commits, G!Extends(repo, repo'), lostRows \subseteq lostRows',
           \A c \in CommitIds(repo') \ CommitIds(repo) : Sound(repo', c)
    PROVE  Commits'
<1>1. ASSUME NEW c \in CommitIds(repo')
      PROVE  Sound(repo, c)'
  <2>1. Sound(repo', c)
    BY OldSound DEF Commits
  <2>2. QED
    BY <2>1, SoundLess DEF Sound
<1>2. QED
  BY <1>1 DEF Commits

LEMMA StepKin ==
    ASSUME Hist, Base', G!Extends(repo, repo'), parent' = parent, NEW B, Steady(B),
           \A b \in B \cap Branches : BranchExists(repo', b) => NewHead(b)
    PROVE  KinStays'
<1>1. ASSUME NEW b \in Branches \ B, NEW t \in Txns,
             BranchExists(repo', b), Owner(b)' \in Kin(t)
      PROVE  Persistent(repo', repo'.head[b], Payloads, Kin(t))
  <2>1. /\ BranchExists(repo, b) /\ repo.head[b] \in CommitIds(repo)
        /\ repo'.head[b] = repo.head[b] /\ Owner(b)' = Owner(b)
    BY <1>1, SteadyHeads DEF Hist, Steady
  <2>2. Persistent(repo, repo.head[b], Payloads, Kin(t))
    BY <1>1, <2>1 DEF Hist, KinStays
  <2>3. QED
    BY <2>1, <2>2, OldCommits
<1>2. ASSUME NEW b \in B \cap Branches, NEW t \in Txns,
             BranchExists(repo', b), Owner(b)' \in Kin(t)
      PROVE  Persistent(repo', repo'.head[b], Payloads, Kin(t))
  BY <1>2 DEF NewHead, NewKin
<1>3. \A t : Kin(t)' = Kin(t)
  BY KinSame
<1>4. QED
  BY <1>1, <1>2, <1>3 DEF KinStays

LEMMA StepOnBranch ==
    ASSUME Hist, Base', KinStays', G!Extends(repo, repo'), parent' = parent, NEW B, Steady(B),
           \A b \in B \cap Branches : BranchExists(repo', b) => NewHead(b), PendingStep
    PROVE  OnBranch'
<1>1. ASSUME NEW t \in Txns, NEW a \in Payloads, BranchExists(repo', t), Pending(t, a)'
      PROVE  HeadAt(repo', t, a) \in Kin(t)
  <2>1. CASE HeadAt(repo', t, a) \in Kin(t)
    BY <2>1
  <2>2. CASE Pending(t, a)
    <3>1. /\ Climbs(t) /\ repo'.head[t] \in CommitIds(repo')
          /\ AtCommit(repo', repo.head[t]) = AtCommit(repo, repo.head[t])
      BY <1>1, SteadyHeads DEF Hist
    <3>2. AtCommit(repo, repo.head[t])[a] \in Kin(t)
      BY <2>2, <3>1 DEF Hist, OnBranch, HeadAt, Climbs
    <3>3. Owner(t)' = t /\ t \in Branches /\ t \in Kin(t)
      BY Names DEF Owner, Kin
    <3>4. Persistent(repo', repo'.head[t], Payloads, Kin(t))
      BY <1>1, <3>3, KinSame DEF KinStays
    <3>5. QED
      BY <3>1, <3>2, <3>4 DEF Climbs, Persistent, HeadAt
  <2>3. QED
    BY <1>1, <2>1, <2>2 DEF PendingStep
<1>2. QED
  BY <1>1, KinSame DEF OnBranch

LEMMA StepSecluded ==
    ASSUME Hist, MainSnapshots, Base', Commits', G!Extends(repo, repo'), parent' = parent,
           NEW B, Steady(B),
           \A b \in B \cap Branches : BranchExists(repo', b) => NewHead(b),
           SnapsStep, MergesStep
    PROVE  Secluded'
<1>1. Secluded /\ RepoOK(repo) /\ RepoOK(repo') /\ G!GraphOK(repo) /\ G!GraphOK(repo')
      /\ BranchExists(repo, Main) /\ BranchExists(repo', Main) /\ Typed' /\ Typed
  BY DEF Hist, Base, Typed
<1>2. /\ \A b \in Branches \ B : BranchExists(repo', b) =>
            /\ BranchExists(repo, b) /\ repo.head[b] \in CommitIds(repo)
            /\ AtCommit(repo', repo'.head[b]) = AtCommit(repo, repo.head[b])
      /\ \A b \in Txns \cup {Main} : BranchExists(repo', b) =>
            /\ Climbs(b) /\ repo.head[b] \in CommitIds(repo)
            /\ repo'.head[b] \in CommitIds(repo')
            /\ AtCommit(repo', repo.head[b]) = AtCommit(repo, repo.head[b])
  BY SteadyHeads DEF Hist
<1>3. \A b \in Branches \ B : BranchExists(repo', b) =>
            repo'.head[b] = repo.head[b] /\ Owner(b)' = Owner(b) /\ Upper(b)' = Upper(b)
  BY DEF Steady
<1>4. \A t : Kin(t)' = Kin(t)
  BY KinSame
<1>5. KinHidden'
  <2>1. ASSUME NEW b \in Branches, NEW t \in Txns,
               BranchExists(repo', b), Owner(b)' \notin Kin(t), merges'[t] = 0
        PROVE  Private(repo', repo'.head[b], Kin(t))
    <3>1. CASE b \in B
      BY <2>1, <3>1 DEF NewHead, NewHidden
    <3>2. CASE b \notin B
      <4>1. Private(repo, repo.head[b], Kin(t))
        BY <1>1, <1>2, <1>3, <2>1, <3>2 DEF Secluded, KinHidden, Steady
      <4>2. QED
        BY <1>2, <1>3, <2>1, <3>2, <4>1, OldCommits
    <3>3. QED
      BY <3>1, <3>2
  <2>2. QED
    BY <1>4, <2>1 DEF KinHidden
<1>8. ShownOnce'
  <2>1. ASSUME NEW t \in Txns, merges'[t] = 1, NEW a \in before'[t]
        PROVE  AtCommit(repo', result'[t])[a] \in Kin(t)
    <3>1. CASE merges[t] = 1 /\ before'[t] = before[t] /\ result'[t] = result[t]
      <4>1. AtCommit(repo, result[t])[a] \in Kin(t)
        BY <1>1, <2>1, <3>1 DEF Secluded, ShownOnce, Shows
      <4>2. result[t] \in CommitIds(repo)
        BY <3>1 DEF Hist, Base, OpenFine
      <4>3. QED
        BY <3>1, <4>1, <4>2, OldAncestors
    <3>2. QED
      BY <2>1, <3>1 DEF MergesStep
  <2>2. QED
    BY <1>4, <2>1 DEF ShownOnce, Shows
<1>9. snaps' \subseteq Ancestors(repo', repo'.head[Main])
  <2>1. /\ repo.head[Main] \in Ancestors(repo', repo'.head[Main])
        /\ repo.head[Main] \in CommitIds(repo) /\ repo'.head[Main] \in CommitIds(repo')
    BY <1>1, <1>2 DEF Climbs
  <2>2. Ancestors(repo', repo.head[Main]) = Ancestors(repo, repo.head[Main])
    BY <2>1, OldAncestors
  <2>3. Ancestors(repo, repo.head[Main]) \subseteq Ancestors(repo', repo'.head[Main])
        /\ repo'.head[Main] \in Ancestors(repo', repo'.head[Main])
    BY <1>1, <2>1, <2>2, AncestorFacts
  <2>4. QED
    BY <1>1, <2>3 DEF SnapsStep, Secluded
<1>10. QED
  BY <1>5, <1>8, <1>9 DEF Secluded

LEMMA StepHist ==
    ASSUME Hist, Base', G!Extends(repo, repo'), parent' = parent, lostRows \subseteq lostRows',
           NEW B, Steady(B),
           \A c \in CommitIds(repo') \ CommitIds(repo) : Sound(repo', c),
           \A b \in B \cap Branches : BranchExists(repo', b) => NewHead(b),
           PendingStep, MainSnapshots => SnapsStep /\ MergesStep
    PROVE  Hist' /\ G!Extends(repo, repo')
<1>1. Commits'
  BY StepCommits DEF Hist
<1>2. KinStays'
  BY StepKin
<1>3. OnBranch'
  BY <1>2, StepOnBranch
<1>4. MainSnapshots => Secluded'
  BY <1>1, StepSecluded
<1>5. Acyclic'
  BY KinSame DEF Hist, Acyclic
<1>6. QED
  BY <1>1, <1>2, <1>3, <1>4, <1>5 DEF Hist

-----------------------------------------------------------------------------
(* Steps that make no commit.                                              *)

LEMMA ValuesSame ==
    ASSUME \A t \in Txns : outcome'[t] = "unborn" <=> outcome[t] = "unborn",
           parent' = parent
    PROVE  \A p : ValuesAt(p)' = ValuesAt(p) /\ StagedAt(p)' = StagedAt(p)
<1>1. \A p : ValuesAt(p)' = ValuesAt(p)
  BY DEF ValuesAt
<1>2. QED
  BY <1>1 DEF StagedAt

LEMMA NoStagingFine == StagingFine(NoStaging)
BY DEF StagingFine, NoStaging, StagedAt

(* At the indexes, nothing is staged on branch b, or what was staged there. *)
StagesRows(b) ==
    \/ ~BranchExists(repo', b)
    \/ \A x \in Indexes : repo'.staging[b][x] = Unstaged
    \/ /\ repo'.head[b] = repo.head[b]
       /\ \A x \in Indexes : repo'.staging[b][x] = repo.staging[b][x]

LEMMA RowsStay ==
    ASSUME Base, G!Extends(repo, repo'), lostRows \subseteq lostRows', RepoOK(repo'),
           NEW b \in Branches, StagesRows(b)
    PROVE  RowsStaged(repo, b)'
<1>1. SUFFICES ASSUME NEW a \in Payloads, NEW x \in Safe(a)', BranchExists(repo', b),
                      HeadAt(repo', b, x) \in RowSet(a), repo'.staging[b][x] # Unstaged
               PROVE  repo'.staging[b][x] \in RowSet(a)
  BY DEF RowsStaged
<1>2. x \in Safe(a) /\ x \in Indexes
  BY DEF Safe
<1>3. repo'.head[b] = repo.head[b] /\ repo'.staging[b][x] = repo.staging[b][x]
  BY <1>1, <1>2 DEF StagesRows
<1>4. BranchExists(repo, b) /\ repo.head[b] \in CommitIds(repo)
  BY <1>1, <1>3, RepoShape DEF BranchExists, Base, Typed
<1>5. HeadAt(repo', b, x) = HeadAt(repo, b, x)
  BY <1>3, <1>4, OldAncestors DEF HeadAt
<1>6. RowsStaged(repo, b)
  BY DEF Base, StoreFine
<1>7. QED
  BY <1>1, <1>2, <1>3, <1>4, <1>5, <1>6 DEF RowsStaged

LEMMA QuietStore ==
    ASSUME Base, RepoOK(repo'), repo'.commits = repo.commits,
           \A b \in Branches : StagingFine(repo'.staging[b]),
           \A b \in Branches : StagesRows(b) \/ RowsStaged(repo, b)',
           lostRows \subseteq lostRows',
           \A t \in Txns : outcome'[t] = "unborn" <=> outcome[t] = "unborn",
           parent' = parent
    PROVE  StoreFine' /\ G!Extends(repo, repo') /\ CommitIds(repo') = CommitIds(repo)
<1>1. CommitIds(repo') = CommitIds(repo) /\ \A c : AtCommit(repo', c) = AtCommit(repo, c)
  BY DEF CommitIds, AtCommit
<1>2. G!GraphOK(repo')
  BY DEF Base, G!GraphOK, G!Parents, G!CommitIds
<1>3. G!Extends(repo, repo')
  BY <1>1, <1>2, SameAncestors DEF Base, G!Extends
<1>4. \A b \in Branches : RowsStaged(repo, b)'
  BY <1>3, RowsStay
<1>5. StoreFine'
  BY <1>1, <1>4, ValuesSame DEF StoreFine, Base, ObjectsFine, StagingFine
<1>6. QED
  BY <1>1, <1>3, <1>5

(* Which branches a quiet step may delete.                                 *)
QuietHeads ==
    /\ repo'.commits = repo.commits
    /\ \A b \in Branches : repo'.head[b] \in {repo.head[b], NoBranch}

(* What the thread does.                                                   *)
QuietOps(th) ==
    /\ CalmOps(th) /\ PendingStep
    /\ BranchExists(repo', th) =>
          /\ op'[th].pc = "write" <=> op[th].pc = "write"
          /\ op[th].pc = "write" => op'[th].txn = op[th].txn

LEMMA QuietHist ==
    ASSUME Hist, NEW th \in Threads, Calm(th), QuietOps(th), QuietHeads,
           UNCHANGED <<before, merges, result>>, MainSnapshots => SnapsStep
    PROVE  Hist' /\ G!Extends(repo, repo')
<1>1. Base' /\ G!Extends(repo, repo') /\ parent' = parent
  BY CalmBase DEF Hist, Calm, CalmStore, CalmTxns
<1>2. CommitIds(repo') = CommitIds(repo)
  BY DEF QuietHeads, CommitIds
<1>3. Steady({})
  <2>1. ASSUME NEW b \in Branches, BranchExists(repo', b)
        PROVE  repo'.head[b] = repo.head[b] /\ Owner(b)' = Owner(b) /\ Upper(b)' = Upper(b)
    <3>1. repo'.head[b] = repo.head[b]
      BY <2>1 DEF QuietHeads, BranchExists
    <3>2. b \in Threads => /\ op'[b].pc = "write" <=> op[b].pc = "write"
                           /\ op[b].pc = "write" => op'[b].txn = op[b].txn
      BY <2>1 DEF QuietOps, CalmOps
    <3>3. QED
      BY <1>1, <3>1, <3>2 DEF Owner, Upper
  <2>2. QED
    BY <2>1 DEF Steady
<1>4. MergesStep
  BY DEF MergesStep
<1>5. lostRows \subseteq lostRows'
  BY DEF Calm, CalmTxns
<1>6. QED
  BY <1>1, <1>2, <1>3, <1>4, <1>5, StepHist DEF QuietOps

LEMMA TxnsSame ==
    ASSUME Base, UNCHANGED <<outcome, parent, before, merges, result>>, G!Extends(repo, repo'),
           lostRows \subseteq lostRows',
           \A t \in Txns : outcome[t] = "open" => BranchExists(repo', t)
    PROVE  CalmTxns
<1>1. CommitIds(repo) \subseteq CommitIds(repo')
  BY OldAncestors
<1>2. QED
  BY <1>1 DEF CalmTxns, Base, Typed, OpenFine

LEMMA LockTyped ==
    ASSUME Typed, NEW th \in Threads, NEW i \in Instances,
           \/ lock' = lock
           \/ lock' = [lock EXCEPT ![i] = th]
           \/ lock' = [lock EXCEPT ![i] = None]
    PROVE  lock' \in [Instances -> Threads \cup {None}]
BY DEF Typed

(* The thread returns.                                                     *)
LEMMA ReturnQuiet ==
    ASSUME Base, NEW th \in Threads, Return(th), acked' = acked,
           lock' \in [Instances -> Threads \cup {None}], ~BranchExists(repo', th)
    PROVE  QuietOps(th)
<1>1. Idle \in Ops /\ Idle.pc = "idle"
  BY DEF Ops, Idle
<1>2. op' \in [Threads -> Ops] /\ op'[th] = Idle /\ \A x \in Threads \ {th} : op'[x] = op[x]
  BY <1>1, OpStep DEF Return, Base
<1>3. OpFine(th, op[th])'
  BY <1>1, <1>2 DEF OpFine, WriteFine, CommitFine, BranchFine, CommitPcs
<1>4. CalmOps(th)
  BY <1>2, <1>3 DEF CalmOps
<1>5. PendingStep
  BY <1>1, <1>2 DEF PendingStep, Pending
<1>6. QED
  BY <1>4, <1>5 DEF QuietOps

(* A commit goes on.                                                       *)
LEMMA GotoSeen ==
    ASSUME Base, NEW th \in Threads, op[th].pc \in CommitPcs, NEW q \in CommitPcs,
           Goto(th, q)
    PROVE  /\ op' \in [Threads -> Ops] /\ \A x \in Threads \ {th} : op'[x] = op[x]
           /\ op'[th].pc = q /\ op'[th].txn = op[th].txn /\ op'[th].rec = op[th].rec
           /\ op'[th].seen = op[th].seen
<1>1. op \in [Threads -> Ops] /\ op[th] \in CommitOps
  BY OpKinds DEF Base, Typed
<1>2. op' = [op EXCEPT ![th] = [op[th] EXCEPT !.pc = q]]
  BY <1>1 DEF Goto
<1> DEFINE n == [op[th] EXCEPT !.pc = q]
<1>3. /\ n \in CommitOps /\ n.pc = q /\ n.txn = op[th].txn /\ n.rec = op[th].rec
      /\ n.seen = op[th].seen
  BY <1>1 DEF CommitOps
<1> HIDE DEF n
<1>4. op' = [op EXCEPT ![th] = n] /\ n \in Ops
  BY <1>2, <1>3 DEF n, Ops
<1>5. QED
  BY <1>1, <1>3, <1>4

(* The next operation of a commit is sound if the last one was.            *)
GoesOn(th, q) ==
    /\ op' \in [Threads -> Ops] /\ \A x \in Threads \ {th} : op'[x] = op[x]
    /\ op'[th].pc = q /\ op'[th].txn = op[th].txn /\ op'[th].rec = op[th].rec
    /\ op'[th].seen = op[th].seen

LEMMA GoesOnQuiet ==
    ASSUME Base, CalmTxns, NEW th \in Threads, op[th].pc \in CommitPcs,
           NEW q \in CommitPcs, GoesOn(th, q), acked' = acked,
           q \in {"commit", "rollback"} => op[th].txn = th,
           q = "merged" /\ op[th].txn \in Txns => outcome'[op[th].txn] # "open",
           q = "resolve" => ResolvesFine(op'[th], repo'),
           lock' \in [Instances -> Threads \cup {None}],
           BranchExists(repo', th) => BranchExists(repo, th)
    PROVE  QuietOps(th)
<1>1. OpFine(th, op[th]) /\ q \notin {"write", "written"} /\ op[th].pc \notin {"write", "written"}
  BY DEF Base, OpsFine, CommitPcs
<1>2. CommitFine(th, op[th])'
  BY <1>1 DEF OpFine, CommitFine, GoesOn, CalmTxns, ResolvesFine
<1>3. WriteFine(th, op[th])' /\ BranchFine(th, op[th])'
  BY <1>1 DEF OpFine, WriteFine, BranchFine, GoesOn
<1>4. CalmOps(th)
  BY <1>2, <1>3 DEF OpFine, CalmOps, GoesOn
<1>5. PendingStep
  BY <1>1 DEF PendingStep, Pending, GoesOn
<1>6. QED
  BY <1>1, <1>4, <1>5 DEF QuietOps, GoesOn

(* A commit fails.                                                         *)
LEMMA FailQuiet ==
    ASSUME Base, CalmTxns, NEW th \in Threads, op[th].pc \in CommitPcs, FailCommit(th),
           acked' = acked, BranchExists(repo', th) => BranchExists(repo, th)
    PROVE  QuietOps(th)
<1>1. lock' \in [Instances -> Threads \cup {None}]
  BY LockTyped, HomeShape DEF FailCommit, Unlock, Base
<1>2. BranchExists(repo', th) => BranchExists(repo, th)
  OBVIOUS
<1>3. CASE op[th].txn = th
  <2>1. Goto(th, "rollback") /\ "rollback" \in CommitPcs
    BY <1>3 DEF FailCommit, CommitPcs
  <2>2. GoesOn(th, "rollback")
    BY <2>1, GotoSeen DEF GoesOn
  <2>3. QED
    BY <1>1, <1>2, <1>3, <2>1, <2>2, GoesOnQuiet
<1>4. CASE op[th].txn # th
  <2>1. Return(th)
    BY <1>4 DEF FailCommit
  <2>2. ~BranchExists(repo, th)
    BY <1>4 DEF Base, OpsFine, OpFine, BranchFine, CommitPcs
  <2>3. QED
    BY <1>1, <1>2, <2>1, <2>2, ReturnQuiet
<1>5. QED
  BY <1>3, <1>4

(* What may happen to the store in a quiet step.                           *)
UnbornSame ==
    /\ \A t \in Txns : outcome'[t] = "unborn" <=> outcome[t] = "unborn"
    /\ parent' = parent
    /\ lostRows \subseteq lostRows'

LEMMA SameStore ==
    ASSUME Base, repo' = repo, UnbornSame, NEW th \in Threads
    PROVE  CalmStore(th) /\ QuietHeads /\ G!Extends(repo, repo')
<1>1. RepoOK(repo') /\ BranchExists(repo', Main)
  BY DEF Base, Typed
<1>2. \A b \in Branches : StagingFine(repo'.staging[b])
  BY DEF Base, StoreFine
<1>3. \A b \in Branches : StagesRows(b)
  BY DEF StagesRows
<1>4. StoreFine' /\ G!Extends(repo, repo')
  BY <1>1, <1>2, <1>3, QuietStore DEF UnbornSame
<1>5. QED
  BY <1>1, <1>4 DEF CalmStore, QuietHeads

LEMMA DeleteStore ==
    ASSUME Base, NEW b \in TxnIds, repo' = DeleteBranch(repo, b), UnbornSame,
           NEW th \in Threads, b \in Threads => b = th
    PROVE  /\ CalmStore(th) /\ QuietHeads /\ G!Extends(repo, repo')
           /\ ~BranchExists(repo', b)
           /\ \A x \in Branches \ {b} : repo'.head[x] = repo.head[x]
<1>1. b \in Branches /\ b # Main /\ Main \in Branches
  BY Names DEF Branches
<1>2. /\ RepoOK(repo') /\ repo'.head[b] = NoBranch /\ repo'.staging[b] = NoStaging
      /\ repo'.commits = repo.commits
      /\ \A x \in Branches \ {b} : repo'.head[x] = repo.head[x]
                                   /\ repo'.staging[x] = repo.staging[x]
  BY <1>1, DeleteShape DEF Base, Typed, Pointed, Kept
<1>3. \A x \in Branches : StagingFine(repo'.staging[x])
  BY <1>2, NoStagingFine DEF Base, StoreFine
<1>4. StoreFine' /\ G!Extends(repo, repo')
  <2>1. \A x \in Branches : StagesRows(x)
    BY <1>2, IndexFacts DEF StagesRows, NoStaging
  <2>2. QED
    BY <1>2, <1>3, <2>1, QuietStore DEF UnbornSame
<1>5. BranchExists(repo', Main) /\ ~BranchExists(repo', b)
  BY <1>1, <1>2 DEF Base, Typed, BranchExists
<1>6. \A t \in Txns : BranchExists(repo', t) => BranchExists(repo, t)
  BY <1>2, Names DEF BranchExists
<1>7. QED
  BY <1>2, <1>4, <1>5, <1>6, Names DEF CalmStore, QuietHeads

(* The change of a transaction's record is staged.                         *)
LEMMA AnnotateStore ==
    ASSUME Base, NEW t \in TxnIds, NEW x \in ValuesAt(t), repo' = PutObject(repo, t, t, x),
           UnbornSame, NEW th \in Threads
    PROVE  CalmStore(th) /\ QuietHeads /\ G!Extends(repo, repo') /\ repo'.head = repo.head
<1>1. PICK S, U : repo \in [commits : Seq(S), head : [Branches -> Nat],
                            staging : [Branches -> [Paths -> U]]]
  BY DEF Base, Typed, RepoOK
<1>2. t \in Branches /\ t \in Paths
  BY DEF Branches, Paths
<1> DEFINE f == [repo.staging[t] EXCEPT ![t] = x]
<1>3. repo' = Restaged(repo, t, f)
  BY <1>1, <1>2 DEF PutObject, Restaged
<1>4. f \in [Paths -> U \cup {x}]
  BY <1>1, <1>2
<1>5. \A p \in Paths : f[p] = IF p = t THEN x ELSE repo.staging[t][p]
  BY <1>1, <1>2
<1> HIDE DEF f
<1>6. StagingFine(f)
  BY <1>2, <1>5 DEF Base, StoreFine, StagingFine, StagedAt
<1>7. RepoOK(repo') /\ Kept(repo, repo', {t}) /\ repo'.head = repo.head /\ repo'.staging[t] = f
      /\ repo'.commits = repo.commits
  <2>1. OnPaths(f) /\ RepoOK(repo)
    BY <1>4 DEF OnPaths, Base, Typed
  <2>2. PICK s : s = repo' /\ s = Restaged(repo, t, f)
    BY <1>3
  <2>3. QED
    BY <1>2, <2>1, <2>2, StageShape
<1>8. \A b \in Branches : StagingFine(repo'.staging[b])
  BY <1>6, <1>7 DEF Base, StoreFine, Kept
<1>9. StoreFine' /\ G!Extends(repo, repo')
  <2>1. \A b \in Branches : StagesRows(b)
    BY <1>5, <1>7, IndexFacts DEF StagesRows, Kept
  <2>2. QED
    BY <1>7, <1>8, <2>1, QuietStore DEF UnbornSame
<1>10. BranchExists(repo', Main) /\ \A t1 \in Txns : BranchExists(repo', t1) => BranchExists(repo, t1)
  BY <1>7 DEF Base, Typed, BranchExists
<1>11. QED
  BY <1>7, <1>9, <1>10 DEF CalmStore, QuietHeads

(* The cached records.                                                     *)
LEMMA CacheSame == ASSUME Base, cache' = cache, UnbornSame PROVE CacheFine'
BY DEF Base, CacheFine, UnbornSame

LEMMA CacheRemoved ==
    ASSUME Base, NEW i \in Instances, NEW t \in TxnIds, UnbornSame,
           cache' = [cache EXCEPT ![i] = Removed(@, t)]
    PROVE  CacheFine'
<1> DEFINE table == cache[i]
           p == IF table[t] = None THEN None ELSE table[t].parent
<1>1. table \in [TxnIds -> CachedRecords \cup {None}] /\ CacheOK(cache)
  BY DEF Base, CacheFine, CacheOK
<1>2. PICK new : new = Removed(table, t)
  OBVIOUS
<1>3. ASSUME NEW u \in TxnIds
      PROVE  /\ new[u] \in CachedRecords \cup {None}
             /\ new[u] # None => table[u] # None /\ new[u].parent = table[u].parent
  <2>1. CASE u # t /\ u = p /\ table[u] # None
    <3>1. new[u] = [table[u] EXCEPT !.children = @ \ {t}]
      BY <1>2, <2>1 DEF Removed
    <3>2. table[u] \in CachedRecords
      BY <1>1, <2>1
    <3>3. QED
      BY <2>1, <3>1, <3>2 DEF CachedRecords
  <2>2. CASE u # t /\ ~(u = p /\ table[u] # None)
    <3>1. new[u] = table[u]
      BY <1>2, <2>2 DEF Removed
    <3>2. QED
      BY <1>1, <3>1
  <2>3. CASE u = t
    BY <1>2, <2>3 DEF Removed
  <2>4. QED
    BY <2>1, <2>2, <2>3
<1>4. new \in [TxnIds -> CachedRecords \cup {None}]
  <2>1. new = [u \in TxnIds |-> new[u]]
    BY <1>2 DEF Removed
  <2>2. QED
    BY <1>3, <2>1
<1>5. /\ cache' \in [Instances -> [TxnIds -> CachedRecords \cup {None}]]
      /\ cache'[i] = new /\ \A j \in Instances \ {i} : cache'[j] = cache[j]
  BY <1>1, <1>2, <1>4 DEF CacheOK
<1>6. \A j \in Instances, u \in TxnIds : cache'[j][u] # None =>
            cache[j][u] # None /\ cache'[j][u].parent = cache[j][u].parent
  BY <1>3, <1>5
<1>7. QED
  BY <1>1, <1>5, <1>6, Names DEF Base, CacheFine, CacheOK, UnbornSame

(* The record that ResolveTransaction() finds is that of the transaction.  *)
LEMMA ResolvedFine ==
    ASSUME Base, NEW i \in Instances, NEW t \in Txns, CanResolve(i, t)
    PROVE  /\ Resolved(i, t) \in CachedRecords /\ Resolved(i, t).parent = parent[t]
           /\ outcome[t] # "unborn"
<1>1. CASE cache[i][t] # None
  <2>1. Resolved(i, t) = cache[i][t] /\ cache[i][t] \in CachedRecords
    BY <1>1, Names DEF Resolved, Base, CacheFine, CacheOK
  <2>2. QED
    BY <1>1, <2>1 DEF Base, CacheFine
<1>2. CASE cache[i][t] = None
  <2>1. t \in Paths /\ t \in Branches /\ t \in TxnIds /\ t \notin Payloads /\ t \notin Indexes
    BY Names, IndexFacts
  <2>2. BranchExists(repo, t) /\ ResolveState(repo, t)[t] # Absent
    BY <1>2 DEF CanResolve, HasTxnMeta, TxnMetaPath
  <2>3. repo.head[t] \in CommitIds(repo)
    BY <2>1, <2>2, RepoShape DEF Base, Typed
  <2>4. AtCommit(repo, repo.head[t])[t] \in ValuesAt(t) /\ repo.staging[t][t] \in StagedAt(t)
    BY <2>1, <2>3 DEF Base, StoreFine, ObjectsFine, StagingFine
  <2>5. ResolveState(repo, t)[t] \in ValuesAt(t)
    BY <2>1, <2>4 DEF ResolveState, StagedAt
  <2>6. outcome[t] # "unborn" /\ ResolveState(repo, t)[t] = [parent |-> parent[t]]
    BY <2>1, <2>2, <2>5 DEF ValuesAt
  <2>7. Resolved(i, t) = [parent |-> parent[t], children |-> {}]
    BY <1>2, <2>6 DEF Resolved, TxnMetaPath
  <2>8. parent[t] \in Txns \cup {None}
    BY DEF Base, Typed
  <2>9. QED
    BY <2>6, <2>7, <2>8 DEF CachedRecords
<1>3. QED
  BY <1>1, <1>2

-----------------------------------------------------------------------------
(* The quiet actions.                                                      *)

LEMMA CreateSnapshotHist ==
    ASSUME Hist, NEW th \in Threads, NEW b \in SnapshotSources, CreateSnapshot(th, b)
    PROVE  Hist' /\ G!Extends(repo, repo')
<1>1. UNCHANGED <<repo, cache, lock, op, outcome, parent, acked, before, merges, result, lostRows>>
      /\ snaps' = snaps \cup {repo.head[b]}
  BY DEF CreateSnapshot, history, GetBranchHead
<1>2. Base /\ UnbornSame
  BY <1>1 DEF Hist, UnbornSame
<1>3. CalmStore(th) /\ QuietHeads /\ G!Extends(repo, repo')
  BY <1>1, <1>2, SameStore
<1>4. CalmTxns /\ CacheFine'
  BY <1>1, <1>2, <1>3, TxnsSame, CacheSame DEF Base, OpenFine
<1>5. OpFine(th, op[th])'
  BY <1>1, <1>2 DEF Base, OpsFine, OpFine, WriteFine, CommitFine, BranchFine
<1>6. CalmOps(th) /\ PendingStep
  BY <1>1, <1>2, <1>5 DEF CalmOps, PendingStep, Pending, Base, Typed
<1>7. QuietOps(th) /\ Calm(th)
  BY <1>1, <1>3, <1>4, <1>6 DEF QuietOps, Calm
<1>8. MainSnapshots => SnapsStep
  BY <1>1 DEF MainSnapshots, SnapsStep
<1>9. QED
  BY <1>1, <1>3, <1>7, <1>8, QuietHist

LEMMA AckWriteHist ==
    ASSUME Hist, NEW th \in Threads, AckWrite(th)
    PROVE  Hist' /\ G!Extends(repo, repo')
<1> DEFINE t == op[th].txn
           a == op[th].artifact
<1>1. /\ UNCHANGED <<repo, cache, lock, outcome, parent, before, merges, result, lostRows>>
      /\ op[th].pc = "written" /\ op' = [op EXCEPT ![th] = Idle]
      /\ acked' \in {acked, acked \cup {<<t, a>>}}
      /\ snaps' \in {snaps, snaps \cup {repo.head[t]}}
      /\ snaps' # snaps => t \in SnapshotSources
  BY DEF AckWrite, Return, Learn, GetBranchHead
<1>2. Base /\ UnbornSame
  BY <1>1 DEF Hist, UnbornSame
<1>3. CalmStore(th) /\ QuietHeads /\ G!Extends(repo, repo')
  BY <1>1, <1>2, SameStore
<1>4. CalmTxns /\ CacheFine'
  BY <1>1, <1>2, <1>3, TxnsSame, CacheSame DEF Base, OpenFine
<1>5. t \in Txns /\ a \in Payloads /\ outcome[t] # "unborn" /\ ~BranchExists(repo, th)
  <2>1. op[th] \in WriteOps /\ OpFine(th, op[th])
    BY <1>1, <1>2, OpKinds DEF Base, Typed, OpsFine
  <2>2. QED
    BY <1>1, <2>1 DEF WriteOps, OpFine, WriteFine, BranchFine, CommitPcs
<1>6. Idle \in Ops /\ Idle.pc = "idle"
  BY DEF Ops, Idle
<1>7. op' \in [Threads -> Ops] /\ op'[th] = Idle /\ \A x \in Threads \ {th} : op'[x] = op[x]
  BY <1>1, <1>2, <1>6, OpStep DEF Base
<1>8. OpFine(th, op[th])'
  BY <1>1, <1>5, <1>6, <1>7 DEF OpFine, WriteFine, CommitFine, BranchFine, CommitPcs
<1>9. CalmOps(th)
  <2>1. \A x \in acked' \ acked : x = <<t, a>>
    BY <1>1
  <2>2. acked \subseteq acked' /\ lock' \in [Instances -> Threads \cup {None}]
    BY <1>1, <1>2 DEF Base, Typed
  <2>3. QED
    BY <1>5, <1>7, <1>8, <2>1, <2>2 DEF CalmOps
<1>10. PendingStep
  <2>1. ASSUME NEW u \in Txns, NEW y \in Payloads, Pending(u, y)'
        PROVE  Pending(u, y)
    <3>1. CASE <<u, y>> \in acked'
      BY <1>1, <3>1 DEF Pending
    <3>2. ASSUME NEW x \in Threads, op'[x].pc = "written", op'[x].txn = u, op'[x].artifact = y
          PROVE  Pending(u, y)
      BY <1>6, <1>7, <3>2 DEF Pending
    <3>3. QED
      BY <2>1, <3>1, <3>2 DEF Pending
  <2>2. QED
    BY <2>1 DEF PendingStep
<1>11. QuietOps(th) /\ Calm(th)
  BY <1>1, <1>3, <1>4, <1>5, <1>9, <1>10 DEF QuietOps, Calm
<1>12. MainSnapshots => SnapsStep
  <2>1. MainSnapshots => snaps' = snaps
    BY <1>1, <1>5, Names DEF MainSnapshots
  <2>2. QED
    BY <2>1 DEF SnapsStep
<1>13. QED
  BY <1>1, <1>3, <1>11, <1>12, QuietHist

LEMMA BeginCommitHist ==
    ASSUME Hist, NEW th \in Threads, NEW t \in Txns, BeginCommit(th, t)
    PROVE  Hist' /\ G!Extends(repo, repo')
<1> DEFINE i == Home[th]
           rec == Resolved(i, t)
           o == CommitOf(t, rec)
<1>1. /\ UNCHANGED <<repo, snaps, outcome, parent, acked, before, merges, result, lostRows>>
      /\ op[th] = Idle /\ CanResolve(i, t)
      /\ cache' = [cache EXCEPT ![i][t] = rec]
      /\ \/ lock' = [lock EXCEPT ![i] = th] /\ op' = [op EXCEPT ![th] = o]
         \/ UNCHANGED <<lock, op>>
  BY DEF BeginCommit, CanCall, history
<1>2. Base /\ UnbornSame /\ i \in Instances
  BY <1>1, HomeShape DEF Hist, UnbornSame
<1>3. CalmStore(th) /\ QuietHeads /\ G!Extends(repo, repo')
  BY <1>1, <1>2, SameStore
<1>4. CalmTxns
  BY <1>1, <1>2, <1>3, TxnsSame DEF Base, OpenFine
<1>5. rec \in CachedRecords /\ rec.parent = parent[t] /\ outcome[t] # "unborn"
  BY <1>1, <1>2, ResolvedFine
<1> HIDE DEF rec
<1>6. CacheFine'
  <2>1. CacheOK(cache) /\ t \in TxnIds /\ t \notin Threads
    BY <1>2, Names DEF Base, CacheFine
  <2>2. /\ cache' \in [Instances -> [TxnIds -> CachedRecords \cup {None}]]
        /\ \A j \in Instances, u \in TxnIds :
              cache'[j][u] = IF j = i /\ u = t THEN rec ELSE cache[j][u]
    BY <1>1, <1>2, <1>5, <2>1 DEF CacheOK
  <2>3. CacheOK(cache')
    BY <2>1, <2>2, Names DEF CacheOK
  <2>4. QED
    BY <1>1, <1>2, <1>5, <2>2, <2>3, Names DEF Base, CacheFine
<1>7. lock' \in [Instances -> Threads \cup {None}]
  BY <1>1, <1>2, LockTyped DEF Base
<1>8. Idle.pc = "idle" /\ OpFine(th, Idle)
  BY <1>1, <1>2 DEF Idle, Base, OpsFine
<1>9. ~BranchExists(repo, th)
  BY <1>8 DEF OpFine, BranchFine, CommitPcs
<1>10. QuietOps(th)
  <2>1. CASE UNCHANGED <<lock, op>>
    <3>1. OpFine(th, op[th])'
      BY <1>1, <1>2, <2>1 DEF Base, OpsFine, OpFine, WriteFine, CommitFine, BranchFine
    <3>2. CalmOps(th) /\ PendingStep
      BY <1>1, <1>2, <1>7, <2>1, <3>1 DEF CalmOps, PendingStep, Pending, Base, Typed
    <3>3. QED
      BY <1>1, <1>9, <3>2 DEF QuietOps
  <2>2. CASE op' = [op EXCEPT ![th] = o]
    <3>1. /\ o \in CommitOps /\ o.pc = "clean" /\ o.txn = t /\ o.rec = rec
          /\ o.seen = {a \in Payloads : <<t, a>> \in acked}
      BY <1>5, Names DEF CommitOf, CommitOps, CommitPcs, NoBranch
    <3> HIDE DEF o
    <3>2. op' \in [Threads -> Ops] /\ op'[th] = o /\ \A x \in Threads \ {th} : op'[x] = op[x]
      BY <1>2, <2>2, <3>1, OpStep DEF Ops, Base
    <3>3. t # th
      BY Names
    <3>4. OpFine(th, op[th])'
      BY <1>1, <1>5, <1>9, <3>1, <3>2, <3>3 DEF OpFine, WriteFine, CommitFine, BranchFine, CommitPcs
    <3>5. CalmOps(th)
      BY <1>1, <1>7, <3>2, <3>4 DEF CalmOps
    <3>6. PendingStep
      BY <1>1, <3>1, <3>2 DEF PendingStep, Pending
    <3>7. QED
      BY <1>1, <1>9, <3>5, <3>6 DEF QuietOps
  <2>3. QED
    BY <1>1, <2>1, <2>2
<1>11. Calm(th) /\ SnapsStep
  BY <1>1, <1>3, <1>4, <1>6, <1>10 DEF QuietOps, Calm, SnapsStep
<1>12. QED
  BY <1>1, <1>3, <1>10, <1>11, QuietHist

(* The transactions and the cached records are as they were.               *)
LEMMA RestSame ==
    ASSUME Base, UNCHANGED <<cache, history>>, G!Extends(repo, repo'),
           \A t \in Txns : outcome[t] = "open" => repo'.head[t] = repo.head[t]
    PROVE  CalmTxns /\ CacheFine' /\ UNCHANGED <<before, merges, result, acked>>
<1>1. UNCHANGED <<cache, outcome, parent, acked, before, merges, result, lostRows>>
  BY DEF history
<1>2. \A t \in Txns : outcome[t] = "open" => BranchExists(repo', t)
  BY DEF Base, OpenFine, BranchExists
<1>3. QED
  BY <1>1, <1>2, TxnsSame, CacheSame DEF UnbornSame

LEMMA HistoryKeeps == ASSUME UNCHANGED history PROVE UnbornSame
BY DEF history, UnbornSame

LEMMA QuietEnd ==
    ASSUME Hist, NEW th \in Threads, CalmTxns, CacheFine', CalmStore(th), QuietHeads,
           QuietOps(th), UNCHANGED <<before, merges, result, snaps>>
    PROVE  Hist' /\ G!Extends(repo, repo')
BY QuietHist DEF Calm, QuietOps, SnapsStep

(* The commit fails or goes on, if not to its end.                         *)
Moves(th) ==
    \/ FailCommit(th)
    \/ \E q \in CommitPcs \ {"commit", "rollback", "merged", "resolve"} :
           GoesOn(th, q) /\ lock' \in [Instances -> Threads \cup {None}]

LEMMA MovesQuiet ==
    ASSUME Base, CalmTxns, NEW th \in Threads, op[th].pc \in CommitPcs, Moves(th),
           acked' = acked, BranchExists(repo', th) => BranchExists(repo, th)
    PROVE  QuietOps(th)
<1>1. CASE FailCommit(th)
  BY <1>1, FailQuiet
<1>2. ASSUME NEW q \in CommitPcs \ {"commit", "rollback", "merged", "resolve"}, GoesOn(th, q),
             lock' \in [Instances -> Threads \cup {None}]
      PROVE  QuietOps(th)
  BY <1>2, GoesOnQuiet
<1>3. QED
  BY <1>1, <1>2 DEF Moves

(* A step of a commit that makes none of its own.                          *)
LEMMA CommitQuiet ==
    ASSUME Hist, NEW th \in Threads, op[th].pc \in CommitPcs, CalmStore(th), QuietHeads,
           repo'.head = repo.head, UNCHANGED <<cache, history, snaps>>,
           Moves(th)
    PROVE  Hist' /\ G!Extends(repo, repo')
<1>1. Base /\ G!Extends(repo, repo')
  BY DEF Hist, CalmStore
<1>2. CalmTxns /\ CacheFine' /\ UNCHANGED <<before, merges, result, acked, snaps>>
  BY <1>1, RestSame
<1>3. QuietOps(th)
  BY <1>1, <1>2, MovesQuiet DEF BranchExists
<1>4. QED
  BY <1>2, <1>3, QuietEnd

LEMMA ImplicitCommitHist ==
    ASSUME Hist, NEW th \in Threads, ImplicitCommit(th)
    PROVE  Hist' /\ G!Extends(repo, repo')
<1>1. /\ op[th].pc = "commit" /\ Goto(th, "clean") /\ UNCHANGED <<repo, cache, snaps, history>>
      /\ lock' = [lock EXCEPT ![Home[th]] = th]
  BY DEF ImplicitCommit
<1>2. op[th].pc \in CommitPcs /\ "clean" \in CommitPcs \ {"commit", "rollback", "merged", "resolve"}
      /\ Base /\ UnbornSame
  BY <1>1, HistoryKeeps DEF CommitPcs, Hist
<1>3. CalmStore(th) /\ QuietHeads /\ repo'.head = repo.head
  BY <1>1, <1>2, SameStore
<1>4. GoesOn(th, "clean")
  BY <1>1, <1>2, GotoSeen DEF GoesOn
<1>5. lock' \in [Instances -> Threads \cup {None}]
  BY <1>1, <1>2, LockTyped, HomeShape DEF Base
<1>6. QED
  BY <1>1, <1>2, <1>3, <1>4, <1>5, CommitQuiet DEF Moves

LEMMA WakeHist ==
    ASSUME Hist, NEW th \in Threads, Wake(th)
    PROVE  Hist' /\ G!Extends(repo, repo')
<1>1. PICK q \in {"merge", "restore"} :
        /\ op[th].pc = "sleep" /\ UNCHANGED <<repo, cache, snaps, history>>
        /\ lock' = [lock EXCEPT ![Home[th]] = th]
        /\ op' = [op EXCEPT ![th].pc = q, ![th].attempts = @ + 1]
  BY DEF Wake
<1>2. op[th].pc \in CommitPcs /\ q \in CommitPcs \ {"commit", "rollback", "merged", "resolve"}
      /\ Base /\ UnbornSame
  BY <1>1, HistoryKeeps DEF CommitPcs, Hist
<1>3. CalmStore(th) /\ QuietHeads /\ repo'.head = repo.head
  BY <1>1, <1>2, SameStore
<1>4. GoesOn(th, q)
  <2>1. op \in [Threads -> Ops] /\ op[th] \in CommitOps
    BY <1>2, OpKinds DEF Base, Typed
  <2> DEFINE n == [op[th] EXCEPT !.pc = q, !.attempts = op[th].attempts + 1]
  <2>2. op' = [op EXCEPT ![th] = n]
    BY <1>1, <2>1
  <2>3. n \in CommitOps /\ n.pc = q /\ n.txn = op[th].txn /\ n.rec = op[th].rec
    BY <1>2, <2>1, RetryShape
  <2>4. n.seen = op[th].seen
    BY <2>1 DEF CommitOps
  <2> HIDE DEF n
  <2>5. n \in Ops
    BY <2>3 DEF Ops
  <2>6. QED
    BY <1>2, <2>2, <2>3, <2>4, <2>5, OpStep DEF GoesOn, Base
<1>5. lock' \in [Instances -> Threads \cup {None}]
  BY <1>1, <1>2, LockTyped, HomeShape DEF Base
<1>6. QED
  BY <1>1, <1>2, <1>3, <1>4, <1>5, CommitQuiet DEF Moves

(* Stage something for the record, or fail.                                *)
LEMMA StageHist ==
    ASSUME Hist, NEW th \in Threads, op[th].pc \in CommitPcs,
           UNCHANGED <<cache, snaps, history>>,
           \/ FailCommit(th) /\ UNCHANGED repo
           \/ \E q \in CommitPcs \ {"commit", "rollback", "merged", "resolve"}, t \in TxnIds :
                \E x \in ValuesAt(t) :
                    repo' = PutObject(repo, t, t, x) /\ Goto(th, q) /\ UNCHANGED lock
    PROVE  Hist' /\ G!Extends(repo, repo')
<1>1. Base /\ UnbornSame
  BY HistoryKeeps DEF Hist
<1>2. CASE FailCommit(th) /\ UNCHANGED repo
  <2>1. CalmStore(th) /\ QuietHeads /\ repo'.head = repo.head
    BY <1>1, <1>2, SameStore
  <2>2. QED
    BY <1>2, <2>1, CommitQuiet DEF Moves
<1>3. ASSUME NEW q \in CommitPcs \ {"commit", "rollback", "merged", "resolve"}, NEW t \in TxnIds,
             NEW x \in ValuesAt(t),
             repo' = PutObject(repo, t, t, x), Goto(th, q), UNCHANGED lock
      PROVE  Hist' /\ G!Extends(repo, repo')
  <2>1. CalmStore(th) /\ QuietHeads /\ repo'.head = repo.head
    BY <1>1, <1>3, AnnotateStore
  <2>2. GoesOn(th, q) /\ lock' \in [Instances -> Threads \cup {None}]
    BY <1>1, <1>3, GotoSeen DEF GoesOn, Base, Typed
  <2>3. QED
    BY <2>1, <2>2, CommitQuiet DEF Moves
<1>4. QED
  BY <1>2, <1>3

(* What a commit works on.                                                 *)
LEMMA CommitShapes ==
    ASSUME Base, NEW th \in Threads, op[th].pc \in CommitPcs
    PROVE  /\ op[th] \in CommitOps /\ op[th].txn \in Txns \cup {th} /\ op[th].txn \in TxnIds
           /\ op[th].rec.parent \in Txns \cup {None}
           /\ op[th].txn \in Txns => /\ outcome[op[th].txn] # "unborn"
                                     /\ op[th].rec.parent = parent[op[th].txn]
           /\ op[th].txn = th => op[th].rec.parent = None
<1>1. op[th] \in CommitOps /\ OpFine(th, op[th])
  BY OpKinds DEF Base, Typed, OpsFine
<1>2. op[th].rec.parent \in Txns \cup {None} /\ op[th].txn \in TxnIds
  BY <1>1 DEF CommitOps, CachedRecords
<1>3. QED
  BY <1>1, <1>2 DEF OpFine, CommitFine

LEMMA CleanStageHist ==
    ASSUME Hist, NEW th \in Threads, CleanStage(th)
    PROVE  Hist' /\ G!Extends(repo, repo')
<1>1. op[th].pc = "clean" /\ UNCHANGED <<cache, snaps, history>>
  BY DEF CleanStage
<1>2. op[th].pc \in CommitPcs /\ "cleaning" \in CommitPcs \ {"commit", "rollback", "merged", "resolve"}
      /\ Base
  BY <1>1 DEF CommitPcs, Hist
<1>3. op[th].txn \in TxnIds /\ Absent \in ValuesAt(op[th].txn)
  BY <1>2, CommitShapes DEF ValuesAt
<1>4. \/ FailCommit(th) /\ UNCHANGED repo
      \/ repo' = PutObject(repo, op[th].txn, op[th].txn, Absent) /\ Goto(th, "cleaning")
         /\ UNCHANGED lock
  BY DEF CleanStage, DeleteObject, PutObject, TxnMetaPath
<1>5. QED
  BY <1>1, <1>2, <1>3, <1>4, StageHist

LEMMA RestoreStageHist ==
    ASSUME Hist, NEW th \in Threads, RestoreStage(th)
    PROVE  Hist' /\ G!Extends(repo, repo')
<1> DEFINE t == op[th].txn
           x == [parent |-> op[th].rec.parent]
<1>1. op[th].pc = "restore" /\ UNCHANGED <<cache, snaps, history>>
  BY DEF RestoreStage
<1>2. op[th].pc \in CommitPcs /\ "restoring" \in CommitPcs \ {"commit", "rollback", "merged", "resolve"}
      /\ Base
  BY <1>1 DEF CommitPcs, Hist
<1>3. t \in TxnIds /\ x \in ValuesAt(t)
  <2>1. /\ t \in TxnIds /\ t \notin Payloads /\ t \notin Indexes
        /\ op[th].rec.parent \in Txns \cup {None}
        /\ t \in Txns => outcome[t] # "unborn" /\ op[th].rec.parent = parent[t]
    BY <1>2, CommitShapes, Names, IndexFacts
  <2>2. CASE t \in Txns
    BY <2>1, <2>2 DEF ValuesAt
  <2>3. CASE t \notin Txns
    BY <2>1, <2>3 DEF ValuesAt, StoredRecords
  <2>4. QED
    BY <2>1, <2>2, <2>3
<1>4. \/ FailCommit(th) /\ UNCHANGED repo
      \/ repo' = PutObject(repo, t, t, x) /\ Goto(th, "restoring") /\ UNCHANGED lock
  BY DEF RestoreStage, TxnMetaPath
<1> HIDE DEF x
<1>5. QED
  BY <1>1, <1>2, <1>3, <1>4, StageHist

(* A write gives up: its branch is deleted.                                *)
LEMMA DropWriteHist ==
    ASSUME Hist, NEW th \in Threads, repo' = DeleteBranch(repo, th), Return(th),
           UNCHANGED <<cache, lock, snaps, history>>
    PROVE  Hist' /\ G!Extends(repo, repo')
<1>1. Base /\ UnbornSame /\ th \in TxnIds
  BY HistoryKeeps, Names DEF Hist
<1>2. /\ CalmStore(th) /\ QuietHeads /\ G!Extends(repo, repo') /\ ~BranchExists(repo', th)
      /\ \A x \in Branches \ {th} : repo'.head[x] = repo.head[x]
  BY <1>1, DeleteStore
<1>3. CalmTxns /\ CacheFine' /\ UNCHANGED <<before, merges, result, acked, snaps>>
  BY <1>1, <1>2, RestSame, Names
<1>4. QuietOps(th)
  BY <1>1, <1>2, <1>3, ReturnQuiet DEF Base, Typed
<1>5. QED
  BY <1>2, <1>3, <1>4, QuietEnd

LEMMA RollbackTransactionHist ==
    ASSUME Hist, NEW th \in Threads, NEW t \in Txns, RollbackTransaction(th, t)
    PROVE  Hist' /\ G!Extends(repo, repo')
<1> DEFINE i == Home[th]
<1>1. /\ op[th] = Idle /\ BranchExists(repo, t) /\ repo' = DeleteBranch(repo, t)
      /\ cache' = [cache EXCEPT ![i] = Removed(@, t)]
      /\ outcome' = [outcome EXCEPT ![t] = "rolledback"]
      /\ UNCHANGED <<lock, op, snaps, parent, acked, before, merges, result, lostRows>>
  BY DEF RollbackTransaction, CanCall
<1>2. Base /\ i \in Instances /\ t \in TxnIds /\ t \notin Threads
  BY HomeShape, Names DEF Hist
<1>3. outcome[t] # "unborn" /\ UnbornSame
  <2>1. outcome[t] # "unborn"
    BY <1>1, <1>2 DEF Base, UnbornFine
  <2>2. QED
    BY <1>1, <1>2, <2>1 DEF UnbornSame, Base, Typed
<1>4. /\ CalmStore(th) /\ QuietHeads /\ G!Extends(repo, repo')
      /\ \A x \in Branches \ {t} : repo'.head[x] = repo.head[x]
  BY <1>1, <1>2, <1>3, DeleteStore
<1>5. CacheFine'
  BY <1>1, <1>2, <1>3, CacheRemoved
<1>6. CalmTxns
  <2>1. outcome' \in [Txns -> {"unborn", "open", "committed", "rolledback"}]
    BY <1>1, <1>2 DEF Base, Typed
  <2>2. \A u \in Txns : outcome'[u] = "open" => outcome[u] = "open" /\ u # t
    BY <1>1, <1>2 DEF Base, Typed
  <2>3. \A u \in Txns : outcome'[u] = "open" => BranchExists(repo', u)
    BY <1>2, <1>4, <2>2, Names DEF Base, OpenFine, BranchExists
  <2>4. CommitIds(repo) \subseteq CommitIds(repo')
    BY <1>4, OldAncestors
  <2>5. QED
    BY <1>1, <1>2, <1>3, <2>1, <2>2, <2>3, <2>4 DEF CalmTxns, Base, Typed, OpenFine, UnbornSame
<1>7. QuietOps(th)
  <2>1. Idle.pc = "idle"
    BY DEF Idle
  <2>2. ~BranchExists(repo, th) /\ ~BranchExists(repo', th)
    BY <1>1, <1>2, <1>4, <2>1, Names
       DEF Base, OpsFine, OpFine, BranchFine, CommitPcs, BranchExists
  <2>3. OpFine(th, op[th])'
    BY <1>1, <2>1, <2>2 DEF OpFine, WriteFine, CommitFine, BranchFine, CommitPcs
  <2>4. CalmOps(th) /\ PendingStep
    BY <1>1, <1>2, <2>3 DEF CalmOps, PendingStep, Pending, Base, Typed
  <2>5. QED
    BY <2>2, <2>4 DEF QuietOps
<1>8. QED
  BY <1>1, <1>4, <1>5, <1>6, <1>7, QuietEnd

(* The end of a commit, or of an implicit transaction that failed.         *)
LEMMA CloseHist ==
    ASSUME Hist, NEW th \in Threads, op[th].pc \in CommitPcs, NEW t \in TxnIds,
           t = op[th].txn, t \in Txns => outcome[t] # "open",
           repo' = DeleteBranch(repo, t),
           cache' = [cache EXCEPT ![Home[th]] = Removed(@, t)], Return(th),
           lock' \in [Instances -> Threads \cup {None}], UNCHANGED <<snaps, history>>
    PROVE  Hist' /\ G!Extends(repo, repo')
<1>1. Base /\ UnbornSame /\ Home[th] \in Instances /\ t \in Txns \cup {th}
  BY HistoryKeeps, HomeShape, CommitShapes DEF Hist
<1>2. /\ CalmStore(th) /\ QuietHeads /\ G!Extends(repo, repo') /\ ~BranchExists(repo', t)
      /\ \A x \in Branches \ {t} : repo'.head[x] = repo.head[x]
  BY <1>1, DeleteStore, Names
<1>3. CacheFine'
  BY <1>1, CacheRemoved
<1>4. UNCHANGED <<outcome, parent, before, merges, result, acked, snaps, lostRows>>
  BY DEF history
<1>5. CalmTxns
  <2>1. \A u \in Txns : outcome[u] = "open" => BranchExists(repo', u)
    BY <1>1, <1>2, Names DEF Base, OpenFine, BranchExists
  <2>2. QED
    BY <1>1, <1>2, <1>4, <2>1, TxnsSame
<1>6. ~BranchExists(repo', th)
  <2>1. CASE t = th
    BY <1>2, <2>1
  <2>2. CASE t # th
    <3>1. ~BranchExists(repo, th)
      BY <1>1, <2>2 DEF Base, OpsFine, OpFine, BranchFine, CommitPcs
    <3>2. QED
      BY <1>2, <2>2, <3>1, Names DEF BranchExists
  <2>3. QED
    BY <2>1, <2>2
<1>7. QuietOps(th)
  BY <1>1, <1>4, <1>6, ReturnQuiet
<1>8. QED
  BY <1>2, <1>3, <1>4, <1>5, <1>7, QuietEnd

LEMMA FinishCommitHist ==
    ASSUME Hist, NEW th \in Threads, FinishCommit(th)
    PROVE  Hist' /\ G!Extends(repo, repo')
<1>1. /\ op[th].pc = "merged" /\ repo' = DeleteBranch(repo, op[th].txn)
      /\ cache' = [cache EXCEPT ![Home[th]] = Removed(@, op[th].txn)]
      /\ lock' = [lock EXCEPT ![Home[th]] = None] /\ Return(th) /\ UNCHANGED <<snaps, history>>
  BY DEF FinishCommit, Unlock
<1>2. Base /\ op[th].pc \in CommitPcs
  BY <1>1 DEF Hist, CommitPcs
<1>3. op[th].txn \in TxnIds /\ (op[th].txn \in Txns => outcome[op[th].txn] # "open")
  BY <1>1, <1>2, CommitShapes DEF Base, OpsFine, OpFine, CommitFine
<1>4. lock' \in [Instances -> Threads \cup {None}]
  BY <1>1, <1>2, LockTyped, HomeShape DEF Base
<1>5. QED
  BY <1>1, <1>2, <1>3, <1>4, CloseHist

LEMMA ImplicitRollbackHist ==
    ASSUME Hist, NEW th \in Threads, ImplicitRollback(th)
    PROVE  Hist' /\ G!Extends(repo, repo')
<1>1. /\ op[th].pc = "rollback" /\ repo' = DeleteBranch(repo, th)
      /\ cache' = [cache EXCEPT ![Home[th]] = Removed(@, th)]
      /\ Return(th) /\ UNCHANGED <<lock, snaps, history>>
  BY DEF ImplicitRollback
<1>2. Base /\ op[th].pc \in CommitPcs
  BY <1>1 DEF Hist, CommitPcs
<1>3. op[th].txn = th /\ th \in TxnIds /\ th \notin Txns
  BY <1>1, <1>2, Names DEF Base, OpsFine, OpFine, CommitFine
<1>4. lock' \in [Instances -> Threads \cup {None}]
  BY <1>1, <1>2 DEF Base, Typed
<1>5. QED
  BY <1>1, <1>2, <1>3, <1>4, CloseHist

(* A crash is quiet, too, but concerns all threads of an instance.         *)
LEMMA CrashRepo ==
    ASSUME RepoOK(repo), NEW i, Crash(i)
    PROVE  /\ RepoOK(repo') /\ repo'.commits = repo.commits
           /\ \A b \in Branches :
                /\ repo'.head[b] =
                        IF b \in Threads /\ Home[b] = i THEN NoBranch ELSE repo.head[b]
                /\ repo'.staging[b] \in {NoStaging, repo.staging[b]}
<1>1. PICK S, U : repo \in [commits : Seq(S), head : [Branches -> Nat],
                            staging : [Branches -> [Paths -> U]]]
  BY DEF RepoOK
<1> DEFINE its == {th \in Threads : Home[th] = i}
           heads == [b \in Branches |-> IF b \in its THEN NoBranch ELSE repo.head[b]]
           new == [b \in Branches |-> IF b \in its THEN NoStaging ELSE repo.staging[b]]
<1>2. repo' = [repo EXCEPT !.head = heads, !.staging = new]
  BY <1>1 DEF Crash
<1>3. heads \in [Branches -> Nat]
  BY <1>1 DEF NoBranch
<1>4. new \in [Branches -> [Paths -> U \cup {Unstaged}]]
  BY <1>1 DEF NoStaging
<1>5. \A b \in Branches : heads[b] = (IF b \in Threads /\ Home[b] = i THEN NoBranch
                                      ELSE repo.head[b])
                          /\ new[b] \in {NoStaging, repo.staging[b]}
  OBVIOUS
<1> HIDE DEF heads, new
<1>6. /\ repo' \in [commits : Seq(S), head : [Branches -> Nat],
                    staging : [Branches -> [Paths -> U \cup {Unstaged}]]]
      /\ repo'.commits = repo.commits /\ repo'.head = heads /\ repo'.staging = new
  BY <1>1, <1>2, <1>3, <1>4
<1>7. CommitIds(repo') = CommitIds(repo)
  BY <1>6 DEF CommitIds
<1>8. RepoOK(repo')
  BY <1>5, <1>6, <1>7 DEF RepoOK
<1>9. QED
  BY <1>5, <1>6, <1>8

LEMMA CrashHist ==
    ASSUME Hist, NEW i \in Instances, Crash(i)
    PROVE  Hist' /\ G!Extends(repo, repo')
<1> DEFINE its == {th \in Threads : Home[th] = i}
<1>1. Base /\ RepoOK(repo) /\ Typed /\ UnbornSame
      /\ UNCHANGED <<snaps, outcome, parent, acked, before, merges, result, lostRows>>
  BY HistoryKeeps DEF Hist, Base, Typed, Crash, history
<1>2. /\ RepoOK(repo') /\ repo'.commits = repo.commits
      /\ \A b \in Branches :
            /\ repo'.head[b] = IF b \in its THEN NoBranch ELSE repo.head[b]
            /\ repo'.staging[b] \in {NoStaging, repo.staging[b]}
  BY <1>1, CrashRepo
<1>3. /\ cache' = [cache EXCEPT ![i] = [t \in TxnIds |-> None]]
      /\ lock' = [lock EXCEPT ![i] = None]
      /\ op' = [th \in Threads |-> IF th \in its THEN Idle ELSE op[th]]
  BY DEF Crash
<1> HIDE DEF its
<1>4. Idle \in Ops /\ Idle.pc = "idle" /\ its \subseteq Threads /\ its \cap Txns = {} /\ Main \notin its
  BY Names DEF Ops, Idle, its
<1>5. op' \in [Threads -> Ops] /\ \A x \in Threads : op'[x] = IF x \in its THEN Idle ELSE op[x]
  BY <1>1, <1>3, <1>4 DEF Typed
<1>6. StoreFine' /\ G!Extends(repo, repo') /\ CommitIds(repo') = CommitIds(repo)
  <2>1. \A b \in Branches : StagingFine(repo'.staging[b])
    BY <1>1, <1>2, NoStagingFine DEF Base, StoreFine
  <2>2. \A b \in Branches : StagesRows(b)
    BY <1>2, IndexFacts DEF StagesRows, BranchExists, NoStaging
  <2>3. QED
    BY <1>1, <1>2, <2>1, <2>2, QuietStore DEF UnbornSame
<1>7. \A c : AtCommit(repo', c) = AtCommit(repo, c)
  BY <1>2 DEF AtCommit
<1>8. \A b \in Branches \ its : repo'.head[b] = repo.head[b]
                                /\ (BranchExists(repo', b) <=> BranchExists(repo, b))
  BY <1>2 DEF BranchExists
<1>9. \A b \in its : ~BranchExists(repo', b)
  BY <1>2, <1>4, Names DEF BranchExists
<1>10. OpsFine'
  <2>1. ASSUME NEW x \in Threads PROVE OpFine(x, op[x])'
    <3>1. CASE x \in its
      BY <1>4, <1>5, <1>9, <3>1 DEF OpFine, WriteFine, CommitFine, BranchFine, CommitPcs
    <3>2. CASE x \notin its
      <4>1. OpFine(x, op[x]) /\ op'[x] = op[x] /\ x \in Branches
        BY <1>1, <1>5, <3>2, Names DEF Base, OpsFine
      <4>2. QED
        BY <1>1, <1>6, <1>7, <1>8, <3>2, <4>1
           DEF OpFine, WriteFine, CommitFine, BranchFine, HeadAt, ResolvesFine
    <3>3. QED
      BY <3>1, <3>2
  <2>2. QED
    BY <2>1 DEF OpsFine
<1>11. CacheFine'
  <2>1. CacheOK(cache) /\ Txns \subseteq TxnIds
    BY <1>1, Names DEF Base, CacheFine
  <2>2. /\ cache' \in [Instances -> [TxnIds -> CachedRecords \cup {None}]]
        /\ \A j \in Instances, u \in TxnIds :
              cache'[j][u] = IF j = i THEN None ELSE cache[j][u]
    BY <1>3, <2>1 DEF CacheOK
  <2>3. CacheOK(cache')
    BY <2>1, <2>2, Names DEF CacheOK
  <2>4. QED
    BY <1>1, <2>1, <2>2, <2>3 DEF Base, CacheFine
<1>12. BranchExists(repo', Main) /\ \A t \in Txns : BranchExists(repo', t) <=> BranchExists(repo, t)
  BY <1>1, <1>4, <1>8, Names DEF Typed
<1>13. Base'
  <2>1. Typed'
    BY <1>1, <1>2, <1>3, <1>5, <1>11, <1>12 DEF Typed, CacheFine
  <2>2. UnbornFine' /\ OpenFine' /\ AckedFine'
    BY <1>1, <1>6, <1>12 DEF Base, UnbornFine, OpenFine, AckedFine
  <2>3. QED
    BY <1>6, <1>10, <1>11, <2>1, <2>2 DEF Base, G!Extends
<1>14. Steady({})
  <2>1. ASSUME NEW b \in Branches, BranchExists(repo', b)
        PROVE  repo'.head[b] = repo.head[b] /\ Owner(b)' = Owner(b) /\ Upper(b)' = Upper(b)
    <3>1. b \notin its
      BY <1>9, <2>1
    <3>2. b \in Threads => op'[b] = op[b]
      BY <1>5, <3>1
    <3>3. QED
      BY <1>1, <1>8, <3>1, <3>2 DEF Owner, Upper
  <2>2. QED
    BY <1>1, <2>1 DEF Steady
<1>15. PendingStep
  BY <1>1, <1>4, <1>5 DEF PendingStep, Pending
<1>16. MergesStep /\ SnapsStep
  BY <1>1 DEF MergesStep, SnapsStep
<1>17. QED
  BY <1>1, <1>6, <1>13, <1>14, <1>15, <1>16, StepHist

LEMMA SameHist == ASSUME Hist, UNCHANGED vars PROVE Hist'
<1>1. UNCHANGED <<repo, cache, lock, op, snaps, outcome, parent, acked, before, merges, result,
                  lostRows>>
  BY DEF vars, history
<1>2. Base'
  <2>1. \A p : ValuesAt(p)' = ValuesAt(p) /\ StagedAt(p)' = StagedAt(p)
    BY <1>1, ValuesSame
  <2>2. StoreFine'
    BY <1>1, <2>1 DEF Hist, Base, StoreFine, ObjectsFine, StagingFine, RowsStaged, Safe
  <2>3. OpsFine'
    BY <1>1 DEF Hist, Base, OpsFine, OpFine, WriteFine, CommitFine, BranchFine
  <2>4. Typed' /\ UnbornFine' /\ CacheFine' /\ OpenFine' /\ AckedFine'
    BY <1>1 DEF Hist, Base, Typed, UnbornFine, CacheFine, OpenFine, AckedFine
  <2>5. QED
    BY <1>1, <2>2, <2>3, <2>4 DEF Hist, Base
<1>3. /\ \A t : Kin(t)' = Kin(t)
      /\ \A b : Owner(b)' = Owner(b) /\ Upper(b)' = Upper(b)
      /\ \A t, a : Pending(t, a)' <=> Pending(t, a)
  BY <1>1 DEF Kin, Owner, Upper, Pending
<1>4. Commits' /\ KinStays' /\ OnBranch' /\ Acyclic'
  BY <1>1, <1>3 DEF Hist, Commits, Sound, Safe, KinStays, OnBranch, Acyclic
<1>5. Secluded => Secluded'
  BY <1>1, <1>3 DEF Secluded, KinHidden, ShownOnce, Shows
<1>6. QED
  BY <1>2, <1>4, <1>5 DEF Hist

-----------------------------------------------------------------------------
(* Steps that add a commit to branch b.                                    *)

(* The other branches stay; that of thread th may be deleted.              *)
OthersStay(b, th) ==
    \A x \in Branches \ {b} :
        /\ repo'.head[x] = repo.head[x] \/ (x = th /\ repo'.head[x] = NoBranch)
        /\ repo'.staging[x] \in {repo.staging[x], NoStaging}

Grows(b, th, ps, objs) ==
    /\ Grown(repo, repo', b, ps, objs) /\ OthersStay(b, th)
    /\ ps \subseteq CommitIds(repo) /\ ps # {} /\ ObjectsFine(objs)
    /\ b \in Threads => b = th
    /\ b \in Txns => BranchExists(repo, b)

LEMMA KeptStay ==
    ASSUME NEW b, NEW th, NEW ps, NEW objs, GrownAt(repo, repo', b, ps, objs)
    PROVE  Grown(repo, repo', b, ps, objs) /\ OthersStay(b, th)
BY DEF GrownAt, Kept, OthersStay

LEMMA GrowsStore ==
    ASSUME Base, UnbornSame, NEW th \in Threads, NEW b \in Branches, NEW ps, NEW objs,
           Grows(b, th, ps, objs)
    PROVE  /\ CalmStore(th) /\ G!Extends(repo, repo')
           /\ CommitIds(repo') = CommitIds(repo) \cup {NewId(repo)}
           /\ NewId(repo) \in CommitIds(repo')
           /\ repo'.head[b] = NewId(repo) /\ BranchExists(repo', b)
           /\ AtCommit(repo', NewId(repo)) = objs
           /\ \A t \in Txns : BranchExists(repo, t) => BranchExists(repo', t)
<1>1. RepoOK(repo) /\ G!GraphOK(repo) /\ RepoOK(repo') /\ BranchExists(repo, Main)
  BY DEF Base, Typed, Grows, Grown
<1>2. Grown(repo, repo', b, ps, objs) /\ ps \subseteq CommitIds(repo) /\ ps # {}
  BY DEF Grows
<1>3. G!Extends(repo, repo') /\ NewId(repo) \in CommitIds(repo')
  BY <1>1, <1>2, GrownGraph
<1>4. /\ CommitIds(repo') = CommitIds(repo) \cup {NewId(repo)} /\ repo'.head[b] = NewId(repo)
      /\ AtCommit(repo', NewId(repo)) = objs /\ repo'.staging[b] = NoStaging
  BY <1>2 DEF Grown
<1>5. BranchExists(repo', b)
  BY <1>1, <1>3, <1>4, RepoShape
<1>6. StoreFine'
  <2>1. \A c \in CommitIds(repo) : AtCommit(repo', c) = AtCommit(repo, c)
    BY <1>3, OldAncestors
  <2>2. \A c \in CommitIds(repo') : ObjectsFine(AtCommit(repo', c))
    BY <1>4, <2>1 DEF Base, StoreFine, Grows
  <2>3. \A x \in Branches : StagingFine(repo'.staging[x])
    <3>1. ASSUME NEW x \in Branches PROVE StagingFine(repo'.staging[x])
      <4>1. repo'.staging[x] \in {repo.staging[x], NoStaging}
        BY <1>4 DEF Grows, OthersStay
      <4>2. QED
        BY <4>1, NoStagingFine DEF Base, StoreFine
    <3>2. QED
      BY <3>1
  <2>4. \A p : ValuesAt(p)' = ValuesAt(p) /\ StagedAt(p)' = StagedAt(p)
    BY ValuesSame DEF UnbornSame
  <2>5. ASSUME NEW x \in Branches PROVE RowsStaged(repo, x)'
    <3>1. StagesRows(x)
      BY <1>4, IndexFacts DEF Grows, OthersStay, StagesRows, NoStaging, BranchExists
    <3>2. QED
      BY <1>1, <1>3, <3>1, RowsStay DEF UnbornSame
  <2>6. QED
    BY <2>2, <2>3, <2>4, <2>5 DEF StoreFine, ObjectsFine, StagingFine
<1>7. \A x \in Branches \ {b} : x # th =>
            repo'.head[x] = repo.head[x] /\ (BranchExists(repo', x) <=> BranchExists(repo, x))
  BY DEF Grows, OthersStay, BranchExists
<1>8. BranchExists(repo', Main) /\ \A t \in Txns : BranchExists(repo', t) <=> BranchExists(repo, t)
  BY <1>1, <1>5, <1>7, Names DEF Grows
<1>9. \A x \in Threads \ {th} : repo'.head[x] = repo.head[x]
  BY <1>7, Names DEF Grows
<1>10. CalmStore(th)
  BY <1>1, <1>3, <1>6, <1>8, <1>9 DEF CalmStore
<1>11. QED
  BY <1>3, <1>4, <1>5, <1>8, <1>10

(* The branches other than b are as they were.                             *)
LEMMA GrowsSteady ==
    ASSUME NEW th \in Threads, NEW b \in Branches, NEW ps, NEW objs, Grows(b, th, ps, objs),
           parent' = parent, \A t \in Txns : merges'[t] = 0 => merges[t] = 0,
           \A x \in Threads \ {th} : op'[x] = op[x],
           th # b /\ BranchExists(repo', th) =>
              /\ op'[th].pc = "write" <=> op[th].pc = "write"
              /\ op[th].pc = "write" => op'[th].txn = op[th].txn
    PROVE  Steady({b})
<1>1. ASSUME NEW x \in Branches \ {b}, BranchExists(repo', x)
      PROVE  repo'.head[x] = repo.head[x] /\ Owner(x)' = Owner(x) /\ Upper(x)' = Upper(x)
  <2>1. repo'.head[x] = repo.head[x]
    BY <1>1 DEF Grows, OthersStay, BranchExists
  <2>2. x \in Threads => /\ op'[x].pc = "write" <=> op[x].pc = "write"
                         /\ op[x].pc = "write" => op'[x].txn = op[x].txn
    BY <1>1
  <2>3. QED
    BY <2>1, <2>2 DEF Owner, Upper
<1>2. QED
  BY <1>1 DEF Steady

LEMMA GrowsHist ==
    ASSUME Hist, NEW th \in Threads, NEW b \in Branches, NEW ps, NEW objs,
           Grows(b, th, ps, objs), Calm(th), Steady({b}),
           Sound(repo', NewId(repo)), NewHead(b), PendingStep,
           MainSnapshots => SnapsStep /\ MergesStep
    PROVE  Hist' /\ G!Extends(repo, repo')
<1>1. Base' /\ G!Extends(repo, repo') /\ parent' = parent
  BY CalmBase DEF Hist, Calm, CalmStore, CalmTxns
<1>2. CommitIds(repo') = CommitIds(repo) \cup {NewId(repo)}
  BY DEF Grows, Grown
<1>3. lostRows \subseteq lostRows'
  BY DEF Calm, CalmTxns
<1>4. QED
  BY <1>1, <1>2, <1>3, StepHist

(* A sound commit on top of a sound one.                                   *)
LEMMA SoundOne ==
    ASSUME NEW r, RepoOK(r), G!GraphOK(r), NEW s, NEW b, NEW q \in CommitIds(r), NEW objs,
           Grown(r, s, b, {q}, objs), Sound(r, q),
           \A a \in Payloads : AtCommit(r, q)[a] \in TxnIds => objs[a] \in TxnIds,
           \A a \in Payloads : \A x \in Safe(a) :
                AtCommit(r, q)[x] \in RowSet(a) => objs[x] \in RowSet(a),
           \A a \in Payloads : \A x \in Safe(a) :
                objs[a] \in TxnIds => AtCommit(r, q)[a] \in TxnIds \/ objs[x] \in RowSet(a)
    PROVE  Sound(s, NewId(r))
<1>1. Persistent(s, NewId(r), Payloads, TxnIds)
  BY OneParent DEF Sound
<1>2. \A a \in Payloads : Persistent(s, NewId(r), Safe(a), RowSet(a))
  BY OneParent DEF Sound
<1>3. AtCommit(s, NewId(r)) = objs
  BY DEF Grown
<1>4. QED
  BY <1>1, <1>2, <1>3 DEF Sound

(* A merge of two sound ones.                                              *)
LEMMA SoundTwo ==
    ASSUME NEW r, RepoOK(r), G!GraphOK(r), NEW s, NEW b,
           NEW h \in CommitIds(r), NEW g \in CommitIds(r), NEW objs,
           Grown(r, s, b, {g, h}, objs), Blend(r, h, g, objs), Sound(r, h), Sound(r, g)
    PROVE  /\ Sound(s, NewId(r))
           /\ \A a \in Payloads : AtCommit(r, h)[a] \in TxnIds \/ AtCommit(r, g)[a] \in TxnIds
                => objs[a] \in TxnIds
<1>1. Payloads \in SUBSET Paths /\ \A a : Safe(a) \in SUBSET Paths
  BY Names, IndexFacts DEF Safe
<1>2. /\ Persistent(s, NewId(r), Payloads, TxnIds)
      /\ \A a \in Payloads : Persistent(s, NewId(r), Safe(a), RowSet(a))
  BY <1>1, TwoParents DEF Sound
<1>3. /\ h \in Ancestors(s, NewId(r)) /\ g \in Ancestors(s, NewId(r))
      /\ AtCommit(s, h) = AtCommit(r, h) /\ AtCommit(s, g) = AtCommit(r, g)
      /\ AtCommit(s, NewId(r)) = objs
  <2>1. G!Extends(r, s) /\ Ancestors(s, NewId(r)) =
            {NewId(r)} \cup UNION {Ancestors(r, p) : p \in {g, h}}
    BY GrownGraph
  <2>2. h \in Ancestors(r, h) /\ g \in Ancestors(r, g)
    BY AncestorFacts
  <2>3. QED
    BY <2>1, <2>2, OldAncestors DEF Grown
<1>4. \A a \in Payloads : AtCommit(r, h)[a] \in TxnIds \/ AtCommit(r, g)[a] \in TxnIds
                => objs[a] \in TxnIds
  BY <1>2, <1>3 DEF Persistent
<1>5. \A a \in Payloads : \A x \in Safe(a) :
            AtCommit(r, h)[x] \in RowSet(a) \/ AtCommit(r, g)[x] \in RowSet(a)
                => objs[x] \in RowSet(a)
  BY <1>2, <1>3 DEF Persistent
<1>6. \A a \in Payloads : objs[a] \in {AtCommit(r, h)[a], AtCommit(r, g)[a]}
  BY <1>1 DEF Blend
<1>7. \A a \in Payloads : \A x \in Safe(a) : objs[a] \in TxnIds => objs[x] \in RowSet(a)
  BY <1>5, <1>6 DEF Sound
<1>8. QED
  BY <1>2, <1>3, <1>4, <1>7 DEF Sound

(* A commit on branch b that changes no payload: records change, or rows   *)
(* come from the branch above.                                             *)
Alike(b, objs) ==
    /\ \A a \in Payloads : objs[a] = HeadAt(repo, b, a)
    /\ \A a \in Payloads : \A x \in Safe(a) :
          HeadAt(repo, b, x) \in RowSet(a) => objs[x] \in RowSet(a)

LEMMA AlikeHead ==
    ASSUME Hist, UnbornSame, NEW th \in Threads, NEW b \in TxnIds, BranchExists(repo, b), NEW objs,
           Grows(b, th, {repo.head[b]}, objs), Alike(b, objs),
           Owner(b)' = Owner(b), merges' = merges
    PROVE  NewHead(b) /\ Sound(repo', NewId(repo))
<1> DEFINE q == repo.head[b]
           n == NewId(repo)
<1>1. Base /\ RepoOK(repo) /\ G!GraphOK(repo) /\ b \in Branches /\ b # Main /\ Typed
  BY Names DEF Hist, Base, Typed, Branches
<1>2. q \in CommitIds(repo) /\ Sound(repo, q)
  BY <1>1, RepoShape DEF Hist, Commits
<1>3. /\ G!Extends(repo, repo') /\ n \in CommitIds(repo') /\ repo'.head[b] = n
      /\ AtCommit(repo', n) = objs /\ CalmStore(th)
  BY <1>1, GrowsStore
<1>4. Grown(repo, repo', b, {q}, objs) /\ OthersStay(b, th)
  BY DEF Grows
<1>5. \A a \in Payloads : objs[a] = AtCommit(repo, q)[a]
  BY DEF Alike, HeadAt
<1>6. \A a \in Payloads : \A x \in Safe(a) :
        AtCommit(repo, q)[x] \in RowSet(a) => objs[x] \in RowSet(a)
  BY DEF Alike, HeadAt
<1>7. Sound(repo', n)
  BY <1>1, <1>2, <1>4, <1>5, <1>6, SoundOne
<1>8. Climbs(b)
  <2>1. Ancestors(repo', n) = {n} \cup UNION {Ancestors(repo, p) : p \in {q}}
    BY <1>1, <1>2, <1>4, GrownGraph
  <2>2. q \in Ancestors(repo, q)
    BY <1>1, <1>2, AncestorFacts
  <2>3. QED
    BY <1>3, <2>1, <2>2 DEF Climbs
<1>9. NewKin(b)
  <2>1. ASSUME NEW t \in Txns, Owner(b) \in Kin(t)
        PROVE  Persistent(repo', n, Payloads, Kin(t))
    <3>1. Persistent(repo, q, Payloads, Kin(t))
      BY <1>1, <2>1 DEF Hist, KinStays
    <3>2. QED
      BY <1>1, <1>2, <1>4, <1>5, <3>1, OneParent
  <2>2. QED
    BY <1>3, <2>1 DEF NewKin
<1>10. ASSUME MainSnapshots PROVE NewHidden(b)
  <2>1. ASSUME NEW t \in Txns, Owner(b) \notin Kin(t), merges[t] = 0
        PROVE  Private(repo', n, Kin(t))
    <3>1. Private(repo, q, Kin(t)) /\ q \in Ancestors(repo, q)
      BY <1>1, <1>2, <1>10, <2>1, AncestorFacts DEF Hist, Secluded, KinHidden
    <3>2. \A a \in Payloads : objs[a] \notin Kin(t)
      BY <1>5, <3>1 DEF Private
    <3>3. QED
      BY <1>1, <1>2, <1>4, <3>1, <3>2, OneParent
  <2>2. QED
    BY <1>3, <2>1 DEF NewHidden
<1>11. QED
  BY <1>1, <1>3, <1>7, <1>8, <1>9, <1>10 DEF NewHead

LEMMA AlikeHist ==
    ASSUME Hist, NEW th \in Threads, NEW b \in TxnIds, BranchExists(repo, b), NEW objs,
           Grows(b, th, {repo.head[b]}, objs), Alike(b, objs),
           QuietOps(th), UNCHANGED <<cache, history, snaps>>
    PROVE  Hist' /\ G!Extends(repo, repo')
<1>1. Base /\ UnbornSame /\ b \in Branches
  BY HistoryKeeps DEF Hist, Branches
<1>2. /\ CalmStore(th) /\ G!Extends(repo, repo') /\ BranchExists(repo', b)
      /\ \A t \in Txns : BranchExists(repo, t) => BranchExists(repo', t)
  BY <1>1, GrowsStore
<1>3. UNCHANGED <<cache, outcome, parent, acked, before, merges, result, snaps, lostRows>>
  BY DEF history
<1>4. CalmTxns /\ CacheFine'
  BY <1>1, <1>2, <1>3, TxnsSame, CacheSame DEF Base, OpenFine
<1>5. Calm(th) /\ PendingStep /\ SnapsStep /\ MergesStep
  BY <1>2, <1>3, <1>4 DEF Calm, QuietOps, SnapsStep, MergesStep
<1>6. /\ \A x \in Threads \ {th} : op'[x] = op[x]
      /\ BranchExists(repo', th) =>
              /\ op'[th].pc = "write" <=> op[th].pc = "write"
              /\ op[th].pc = "write" => op'[th].txn = op[th].txn
  BY DEF QuietOps, CalmOps
<1>7. Steady({b})
  BY <1>1, <1>3, <1>6, GrowsSteady
<1>8. Owner(b)' = Owner(b)
  <2>1. b \in Threads => b = th
    BY DEF Grows
  <2>2. QED
    BY <1>2, <1>3, <1>6, <2>1 DEF Owner
<1>9. NewHead(b) /\ Sound(repo', NewId(repo))
  BY <1>1, <1>3, <1>8, AlikeHead
<1>10. QED
  BY <1>1, <1>5, <1>7, <1>9, GrowsHist

(* What is staged on a transaction's branch is committed.                  *)
LEMMA CommitAlike ==
    ASSUME Base, NEW th \in Threads, NEW t \in Txns \cup {th}, BranchExists(repo, t),
           repo' = Commit(repo, t)
    PROVE  \E objs : Grows(t, th, {repo.head[t]}, objs) /\ Alike(t, objs)
<1>1. RepoOK(repo) /\ t \in Branches /\ t \in TxnIds
  BY Names DEF Base, Typed
<1>2. repo.head[t] \in CommitIds(repo)
  BY <1>1, RepoShape
<1>3. PICK objs : objs = ResolveState(repo, t)
  OBVIOUS
<1>4. GrownAt(repo, repo', t, {repo.head[t]}, objs)
  BY <1>1, <1>3, StagedGrown
<1>5. \A p \in Paths : objs[p] = IF repo.staging[t][p] = Unstaged
                                  THEN AtCommit(repo, repo.head[t])[p]
                                  ELSE repo.staging[t][p]
  BY <1>3 DEF ResolveState
<1>6. /\ \A p \in Paths : AtCommit(repo, repo.head[t])[p] \in ValuesAt(p)
      /\ \A p \in Paths : repo.staging[t][p] \in StagedAt(p)
  BY <1>1, <1>2 DEF Base, StoreFine, ObjectsFine, StagingFine
<1>7. ObjectsFine(objs)
  <2>1. \A p \in Indexes : IndexObjects \subseteq ValuesAt(p)
    BY IndexFacts DEF ValuesAt
  <2>2. QED
    BY <1>5, <1>6, <2>1 DEF ObjectsFine, StagedAt
<1>8. \A p \in Payloads : objs[p] = HeadAt(repo, t, p)
  <2>1. ASSUME NEW p \in Payloads PROVE objs[p] = HeadAt(repo, t, p)
    <3>1. p \in Paths /\ p \notin TxnIds /\ p \notin Indexes
      BY Names, IndexFacts
    <3>2. repo.staging[t][p] = Unstaged
      BY <1>6, <3>1 DEF StagedAt
    <3>3. QED
      BY <1>5, <3>1, <3>2 DEF HeadAt
  <2>2. QED
    BY <2>1
<1>9. Alike(t, objs)
  <2>1. ASSUME NEW a \in Payloads, NEW x \in Safe(a), HeadAt(repo, t, x) \in RowSet(a)
        PROVE  objs[x] \in RowSet(a)
    <3>1. x \in Paths /\ RowsStaged(repo, t)
      BY <1>1, IndexFacts DEF Safe, Base, StoreFine
    <3>2. repo.staging[t][x] = Unstaged \/ repo.staging[t][x] \in RowSet(a)
      BY <2>1, <3>1 DEF RowsStaged
    <3>3. QED
      BY <1>5, <2>1, <3>1, <3>2, IndexFacts DEF HeadAt
  <2>2. QED
    BY <1>8, <2>1 DEF Alike
<1>10. Grows(t, th, {repo.head[t]}, objs)
  BY <1>1, <1>2, <1>4, <1>7, KeptStay, Names DEF Grows
<1>11. QED
  BY <1>9, <1>10

LEMMA AlikeCommitHist ==
    ASSUME Hist, NEW th \in Threads, op[th].pc \in CommitPcs, NEW t \in Txns \cup {th},
           BranchExists(repo, t), NEW objs,
           Grows(t, th, {repo.head[t]}, objs), Alike(t, objs),
           UNCHANGED <<cache, history, snaps>>, Moves(th)
    PROVE  Hist' /\ G!Extends(repo, repo')
<1>1. Base /\ UnbornSame /\ t \in TxnIds /\ t \in Branches
  BY HistoryKeeps, Names DEF Hist
<1>2. /\ G!Extends(repo, repo') /\ \A u \in Txns : BranchExists(repo, u) => BranchExists(repo', u)
  BY <1>1, GrowsStore
<1>3. UNCHANGED <<cache, outcome, parent, acked, before, merges, result, snaps, lostRows>>
  BY DEF history
<1>4. CalmTxns
  BY <1>1, <1>2, <1>3, TxnsSame DEF Base, OpenFine
<1>5. BranchExists(repo', th) => BranchExists(repo, th)
  BY <1>1, Names DEF Grows, OthersStay, BranchExists
<1>6. QuietOps(th)
  BY <1>1, <1>3, <1>4, <1>5, MovesQuiet
<1>7. QED
  BY <1>1, <1>6, AlikeHist

LEMMA CommittedHist ==
    ASSUME Hist, NEW th \in Threads, op[th].pc \in CommitPcs,
           BranchExists(repo, op[th].txn), repo' = Commit(repo, op[th].txn),
           UNCHANGED <<cache, history, snaps>>, Moves(th)
    PROVE  Hist' /\ G!Extends(repo, repo')
<1>1. PICK t \in Txns \cup {th} : t = op[th].txn
  BY CommitShapes DEF Hist
<1>2. PICK objs : Grows(t, th, {repo.head[t]}, objs) /\ Alike(t, objs)
  BY <1>1, CommitAlike DEF Hist
<1>3. QED
  BY <1>1, <1>2, AlikeCommitHist

LEMMA CleanCommitHist ==
    ASSUME Hist, NEW th \in Threads, CleanCommit(th)
    PROVE  Hist' /\ G!Extends(repo, repo')
<1>1. op[th].pc = "cleaning" /\ UNCHANGED <<cache, snaps, history>>
  BY DEF CleanCommit
<1>2. /\ op[th].pc \in CommitPcs /\ Base
      /\ "merge" \in CommitPcs \ {"commit", "rollback", "merged", "resolve"}
  BY <1>1 DEF CommitPcs, Hist
<1>3. CASE BranchExists(repo, op[th].txn) /\ repo' = Commit(repo, op[th].txn)
           /\ Goto(th, "merge") /\ UNCHANGED lock
  <2>1. GoesOn(th, "merge") /\ lock' \in [Instances -> Threads \cup {None}]
    BY <1>2, <1>3, GotoSeen DEF GoesOn, Base, Typed
  <2>2. Moves(th)
    BY <1>2, <2>1 DEF Moves
  <2>3. QED
    BY <1>1, <1>2, <1>3, <2>2, CommittedHist
<1>4. CASE FailCommit(th) /\ UNCHANGED repo
  BY <1>1, <1>2, <1>4, StageHist
<1>5. QED
  BY <1>3, <1>4 DEF CleanCommit

LEMMA RestoreCommitHist ==
    ASSUME Hist, NEW th \in Threads, RestoreCommit(th)
    PROVE  Hist' /\ G!Extends(repo, repo')
<1>1. op[th].pc = "restoring" /\ UNCHANGED <<cache, snaps, history>> /\ FailCommit(th)
  BY DEF RestoreCommit
<1>2. op[th].pc \in CommitPcs /\ Moves(th)
  BY <1>1 DEF CommitPcs, Moves
<1>3. CASE BranchExists(repo, op[th].txn) /\ repo' = Commit(repo, op[th].txn)
  BY <1>1, <1>2, <1>3, CommittedHist
<1>4. CASE UNCHANGED repo
  BY <1>1, <1>2, <1>4, StageHist
<1>5. QED
  BY <1>3, <1>4 DEF RestoreCommit

(* The resolver's object has the rows of the commit it resolves for.       *)
LEMMA ResolvedPath ==
    ASSUME Hist, NEW h \in CommitIds(repo), NEW g \in CommitIds(repo), NEW x \in Indexes
    PROVE  LET new == ResolveSinglePath(repo, h, g, x)
           IN  /\ new \in IndexObjects
               /\ \A a \in Payloads :
                    x \in Safe(a) /\ AtCommit(repo, h)[x] \in RowSet(a) => new \in RowSet(a)
<1> DEFINE c == FindMergeBase(repo, h, g)
           new == ResolveSinglePath(repo, h, g, x)
           base == AtCommit(repo, c)[x]
           ours == AtCommit(repo, h)[x]
           theirs == AtCommit(repo, g)[x]
<1>1. RepoOK(repo) /\ G!GraphOK(repo) /\ x \in Paths /\ x \notin Payloads
  BY IndexFacts DEF Hist, Base, Typed
<1>2. c \in Ancestors(repo, h) \cap Ancestors(repo, g)
  BY <1>1, BaseIsCommon
<1>3. c \in CommitIds(repo)
  BY <1>1, <1>2, AncestorFacts
<1>4. \A y \in CommitIds(repo) : IsIndex(AtCommit(repo, y)[x])
  BY <1>1 DEF Hist, Base, StoreFine, ObjectsFine, ValuesAt, IsIndex
<1>5. \A a \in Payloads : Persistent(repo, g, Safe(a), RowSet(a))
  BY DEF Hist, Commits, Sound
<1>6. \A a \in Payloads : x \in Safe(a) /\ base \in RowSet(a) => theirs \in RowSet(a)
  BY <1>2, <1>5 DEF Persistent
<1>7. new = MergeIndexObjects(Rows(base), Rows(ours), Rows(theirs))
  BY DEF ResolveSinglePath, MergeIndexObjects, Rows, NoRows, Adds, Removes,
         Smaller, Object!MergeIndexObjects, Object!Rows, Object!NoRows, Object!Adds,
         Object!Removes, Object!Smaller
<1>8. IsIndex(base) /\ IsIndex(ours) /\ IsIndex(theirs)
  BY <1>3, <1>4
<1> HIDE DEF base, ours, theirs, new
<1>9. /\ new \in IndexObjects
      /\ \A a \in Payloads : ours \in RowSet(a) /\ (base \in RowSet(a) => theirs \in RowSet(a))
                                => new \in RowSet(a)
  BY <1>7, <1>8, ResolvedRows
<1>10. QED
  BY <1>6, <1>9 DEF new, ours

(* The resolver's commit on a branch nobody else works on.                 *)
LEMMA ResolveAlike ==
    ASSUME Hist, NEW th \in Threads, NEW b \in Txns \cup {th}, NEW d \in Branches,
           CanMerge(repo, b, d), NEW conflicts, conflicts \subseteq Indexes,
           repo' = ResolveConflicts(repo, b, d, conflicts)
    PROVE  \E objs : Grows(b, th, {repo.head[b]}, objs) /\ Alike(b, objs)
<1>1. Base /\ RepoOK(repo) /\ b \in Branches /\ b \in TxnIds
  BY Names DEF Hist, Base, Typed
<1>2. /\ BranchExists(repo, b) /\ repo.head[b] \in CommitIds(repo)
      /\ repo.head[d] \in CommitIds(repo) /\ repo.staging[b] = NoStaging
  BY <1>1, RepoShape DEF CanMerge, IsClean
<1>3. PICK h, g : h = repo.head[b] /\ g = repo.head[d]
  OBVIOUS
<1>4. PICK objs : /\ GrownAt(repo, repo', b, {h}, objs)
                  /\ \A p \in Paths \ conflicts : objs[p] = AtCommit(repo, h)[p]
                  /\ \A p \in conflicts :
                        ResolveSinglePath(repo, h, g, p) # Unstaged =>
                            objs[p] = ResolveSinglePath(repo, h, g, p)
  BY <1>1, <1>2, <1>3, ResolveGrown
<1>5. ASSUME NEW x \in conflicts
      PROVE  /\ objs[x] \in IndexObjects
             /\ \A a \in Payloads :
                    x \in Safe(a) /\ HeadAt(repo, b, x) \in RowSet(a) => objs[x] \in RowSet(a)
  <2>1. PICK new : new = ResolveSinglePath(repo, h, g, x)
    OBVIOUS
  <2>2. /\ new \in IndexObjects
        /\ \A a \in Payloads :
                x \in Safe(a) /\ AtCommit(repo, h)[x] \in RowSet(a) => new \in RowSet(a)
    BY <1>2, <1>3, <2>1, ResolvedPath
  <2>3. new # Unstaged
    BY <2>2, IndexFacts
  <2>4. QED
    BY <1>3, <1>4, <2>1, <2>2, <2>3 DEF HeadAt
<1>6. \A p \in Paths \ conflicts : objs[p] = HeadAt(repo, b, p)
  BY <1>3, <1>4 DEF HeadAt
<1>7. ObjectsFine(objs)
  <2>1. ObjectsFine(AtCommit(repo, h))
    BY <1>1, <1>2, <1>3 DEF Base, StoreFine
  <2>2. \A p \in conflicts : objs[p] \in ValuesAt(p)
    BY <1>5, IndexFacts DEF ValuesAt
  <2>3. QED
    BY <1>4, <2>1, <2>2 DEF ObjectsFine
<1>8. Alike(b, objs)
  <2>1. \A a \in Payloads : a \in Paths \ conflicts
    BY Names
  <2>2. \A a : \A x \in Safe(a) : x \in conflicts \/ x \in Paths \ conflicts
    BY IndexFacts DEF Safe
  <2>3. QED
    BY <1>5, <1>6, <2>1, <2>2 DEF Alike
<1>9. Grows(b, th, {repo.head[b]}, objs)
  BY <1>1, <1>2, <1>3, <1>4, <1>7, KeptStay, Names DEF Grows
<1>10. QED
  BY <1>8, <1>9

-----------------------------------------------------------------------------
(* Writes.                                                                 *)

(* What a write works on.                                                  *)
LEMMA WriteShapes ==
    ASSUME Base, NEW th \in Threads, op[th].pc = "write"
    PROVE  /\ op[th] \in WriteOps /\ op[th].txn \in Txns /\ op[th].artifact \in Payloads
           /\ outcome[op[th].txn] # "unborn" /\ BranchExists(repo, th)
           /\ HeadAt(repo, th, op[th].artifact) = op[th].txn
           /\ Owner(th) = op[th].txn /\ Upper(th) = op[th].txn
<1>1. op[th] \in WriteOps /\ OpFine(th, op[th])
  BY OpKinds DEF Base, Typed, OpsFine
<1>2. QED
  BY <1>1 DEF WriteOps, OpFine, WriteFine, Owner, Upper

LEMMA ResolveWriteHist ==
    ASSUME Hist, NEW th \in Threads, op[th].pc = "write", NEW conflicts,
           CanMerge(repo, th, op[th].txn), conflicts \subseteq Indexes,
           repo' = ResolveConflicts(repo, th, op[th].txn, conflicts),
           op' = [op EXCEPT ![th].attempts = @ + 1],
           UNCHANGED <<cache, lock, snaps, history>>
    PROVE  Hist' /\ G!Extends(repo, repo')
<1>1. /\ Base /\ UnbornSame /\ op[th].txn \in Branches /\ Upper(th) = op[th].txn
      /\ op[th] \in WriteOps /\ th \in Branches /\ th \in TxnIds
  BY WriteShapes, HistoryKeeps, Names DEF Hist
<1>2. PICK objs : Grows(th, th, {repo.head[th]}, objs) /\ Alike(th, objs)
  BY <1>1, ResolveAlike
<1>3. BranchExists(repo, th)
  BY DEF CanMerge
<1>4. /\ CalmStore(th) /\ G!Extends(repo, repo') /\ BranchExists(repo', th)
      /\ repo'.head[th] = NewId(repo) /\ AtCommit(repo', NewId(repo)) = objs
  BY <1>1, <1>2, GrowsStore
<1> DEFINE n == [op[th] EXCEPT !.attempts = op[th].attempts + 1]
<1>5. op' = [op EXCEPT ![th] = n]
  BY <1>1 DEF Base, Typed
<1>6. n \in WriteOps /\ n.pc = "write" /\ n.txn = op[th].txn /\ n.artifact = op[th].artifact
  BY <1>1 DEF WriteOps
<1> HIDE DEF n
<1>7. op' \in [Threads -> Ops] /\ op'[th] = n /\ \A x \in Threads \ {th} : op'[x] = op[x]
  <2>1. n \in Ops
    BY <1>6 DEF Ops
  <2>2. QED
    BY <1>1, <1>5, <2>1, OpStep DEF Base
<1>8. QuietOps(th)
  <2>1. UNCHANGED <<lock, outcome, acked>>
    BY DEF history
  <2>2. HeadAt(repo', th, op[th].artifact) = op[th].txn
    BY <1>1, <1>2, <1>4, WriteShapes DEF Alike, HeadAt
  <2>3. OpFine(th, op[th])'
    BY <1>1, <1>4, <1>6, <1>7, <2>1, <2>2, WriteShapes
       DEF OpFine, WriteFine, CommitFine, BranchFine, CommitPcs
  <2>4. CalmOps(th)
    BY <1>1, <1>7, <2>1, <2>3 DEF CalmOps, Base, Typed
  <2>5. PendingStep
    BY <1>6, <1>7, <2>1 DEF PendingStep, Pending
  <2>6. QED
    BY <1>6, <1>7, <2>4, <2>5 DEF QuietOps
<1>9. QED
  BY <1>1, <1>2, <1>3, <1>8, AlikeHist

(* A commit with a write of w to artifact a over commit q.                 *)
LEMMA WrittenFine ==
    ASSUME NEW base, ObjectsFine(base), NEW objs, NEW w \in TxnIds,
           w \in Txns => outcome[w] # "unborn", NEW a \in Payloads, Written(base, objs, w, a)
    PROVE  /\ ObjectsFine(objs) /\ objs[a] = w
           /\ \A y \in Payloads \ {a} : objs[y] = base[y]
           /\ \A x \in Indexes, y \in Payloads :
                 objs[x] \in RowSet(y) <=> y = a \/ base[x] \in RowSet(y)
<1>1. /\ objs[a] = w /\ a \in Paths /\ \A y \in Payloads \ {a} : objs[y] = base[y]
  BY Names DEF Written
<1>2. \A p \in Paths : base[p] \in ValuesAt(p)
  BY DEF ObjectsFine
<1>3. \A x \in Indexes : /\ objs[x] \in IndexObjects
                         /\ \A y \in Payloads : objs[x] \in RowSet(y)
                                <=> y = a \/ base[x] \in RowSet(y)
  <2>1. \A x \in Indexes : base[x] \in IndexObjects \cup {Absent}
    BY <1>2, IndexFacts DEF ValuesAt
  <2>2. QED
    BY <2>1 DEF Written
<1>4. ASSUME NEW p \in Paths PROVE objs[p] \in ValuesAt(p)
  <2>1. CASE p = a
    BY <1>1, <2>1 DEF ValuesAt
  <2>2. CASE p \in Indexes
    BY <1>3, <2>2, IndexFacts DEF ValuesAt
  <2>3. CASE p # a /\ p \notin Indexes
    BY <1>2, <2>3 DEF Written
  <2>4. QED
    BY <2>1, <2>2, <2>3
<1>5. QED
  BY <1>1, <1>3, <1>4 DEF ObjectsFine

LEMMA WrittenSound ==
    ASSUME NEW r, RepoOK(r), G!GraphOK(r), NEW s, NEW b, NEW q \in CommitIds(r), NEW objs,
           Grown(r, s, b, {q}, objs), Sound(r, q), NEW a \in Payloads, objs[a] \in TxnIds,
           \A y \in Payloads \ {a} : objs[y] = AtCommit(r, q)[y],
           \A x \in Indexes, y \in Payloads :
                 objs[x] \in RowSet(y) <=> y = a \/ AtCommit(r, q)[x] \in RowSet(y)
    PROVE  Sound(s, NewId(r))
<1>1. \A y \in Payloads : AtCommit(r, q)[y] \in TxnIds => objs[y] \in TxnIds
  OBVIOUS
<1>2. \A y \in Payloads : \A x \in Safe(y) : AtCommit(r, q)[x] \in RowSet(y) => objs[x] \in RowSet(y)
  BY DEF Safe
<1>3. \A y \in Payloads : \A x \in Safe(y) :
          objs[y] \in TxnIds => AtCommit(r, q)[y] \in TxnIds \/ objs[x] \in RowSet(y)
  BY DEF Safe
<1>4. QED
  BY <1>1, <1>2, <1>3, SoundOne

LEMMA BeginWriteHist ==
    ASSUME Hist, NEW th \in Threads, NEW t \in Txns, NEW a \in Payloads, BeginWrite(th, t, a)
    PROVE  Hist' /\ G!Extends(repo, repo')
<1> DEFINE q == repo.head[t]
           n == NewId(repo)
           o == [pc |-> "write", txn |-> t, artifact |-> a, attempts |-> 1]
<1>1. /\ op[th] = Idle /\ CanResolve(Home[th], t) /\ BranchExists(repo, t)
      /\ op' = [op EXCEPT ![th] = o] /\ UNCHANGED <<cache, lock, snaps, history>>
      /\ repo' = Commit(Staged(CreateBranch(repo, th, q), th, t, a), th)
  BY DEF BeginWrite, CanCall, GetBranchHead
<1>2. /\ Base /\ UnbornSame /\ RepoOK(repo) /\ G!GraphOK(repo) /\ th \in Branches /\ t \in Branches
      /\ th \in TxnIds /\ t \in TxnIds /\ th # t
  BY <1>1, HistoryKeeps, Names DEF Hist, Base, Typed
<1>3. q \in CommitIds(repo) /\ Sound(repo, q)
  BY <1>1, <1>2, RepoShape DEF Hist, Commits
<1>4. PICK objs : GrownAt(repo, repo', th, {q}, objs) /\ Written(AtCommit(repo, q), objs, t, a)
  <2>1. PICK u : u = CreateBranch(repo, th, q)
    OBVIOUS
  <2>2. Pointed(repo, u, th, q)
    BY <1>2, <1>3, <2>1, PointShape
  <2>3. /\ RepoOK(u) /\ u.commits = repo.commits /\ u.staging[th] = NoStaging /\ u.head[th] = q
        /\ \A x \in Branches \ {th} : u.head[x] = repo.head[x] /\ u.staging[x] = repo.staging[x]
    BY <2>2 DEF Pointed, Kept
  <2>4. repo' = Commit(Staged(u, th, t, a), th)
    BY <1>1, <2>1
  <2>5. QED
    BY <1>2, <2>3, <2>4, WriteGrown
<1> HIDE DEF q, n, o
<1>5. outcome[t] # "unborn"
  BY <1>1, <1>2 DEF Base, UnbornFine
<1>6. ObjectsFine(AtCommit(repo, q))
  BY <1>2, <1>3 DEF Base, StoreFine
<1>7. /\ ObjectsFine(objs) /\ objs[a] = t
      /\ \A y \in Payloads \ {a} : objs[y] = AtCommit(repo, q)[y]
      /\ \A x \in Indexes, y \in Payloads :
            objs[x] \in RowSet(y) <=> y = a \/ AtCommit(repo, q)[x] \in RowSet(y)
  BY <1>2, <1>4, <1>5, <1>6, WrittenFine
<1>10. Grown(repo, repo', th, {q}, objs) /\ Grows(th, th, {q}, objs)
  BY <1>2, <1>3, <1>4, <1>7, KeptStay, Names DEF Grows
<1>11. /\ CalmStore(th) /\ G!Extends(repo, repo') /\ BranchExists(repo', th)
       /\ repo'.head[th] = n /\ AtCommit(repo', n) = objs
       /\ \A u \in Txns : BranchExists(repo, u) => BranchExists(repo', u)
  BY <1>2, <1>10, GrowsStore DEF n
<1>12. UNCHANGED <<cache, lock, outcome, parent, acked, before, merges, result, snaps, lostRows>>
  BY <1>1 DEF history
<1>13. CalmTxns /\ CacheFine'
  BY <1>2, <1>11, <1>12, TxnsSame, CacheSame DEF Base, OpenFine
<1>14. o \in WriteOps /\ o.pc = "write" /\ o.txn = t /\ o.artifact = a
  BY DEF o, WriteOps
<1>15. op' \in [Threads -> Ops] /\ op'[th] = o /\ \A x \in Threads \ {th} : op'[x] = op[x]
  <2>1. o \in Ops
    BY <1>14 DEF Ops
  <2>2. QED
    BY <1>1, <1>2, <2>1, OpStep DEF Base
<1>16. CalmOps(th)
  <2>1. HeadAt(repo', th, a) = t
    BY <1>7, <1>11 DEF HeadAt
  <2>2. OpFine(th, op[th])'
    BY <1>5, <1>11, <1>12, <1>14, <1>15, <2>1
       DEF OpFine, WriteFine, CommitFine, BranchFine, CommitPcs
  <2>3. QED
    BY <1>2, <1>12, <1>15, <2>2 DEF CalmOps, Base, Typed
<1>17. PendingStep
  BY <1>12, <1>14, <1>15 DEF PendingStep, Pending
<1>18. Sound(repo', n)
  BY <1>2, <1>3, <1>7, <1>10, WrittenSound DEF n
<1>19. Steady({th})
  BY <1>2, <1>10, <1>12, <1>15, GrowsSteady
<1>20. Owner(th)' = t /\ Owner(t) = t
  BY <1>14, <1>15, Names DEF Owner
<1>21. NewHead(th)
  <2>1. ASSUME NEW u \in Txns, t \in Kin(u)
        PROVE  Persistent(repo', n, Payloads, Kin(u))
    <3>1. Persistent(repo, q, Payloads, Kin(u))
      BY <1>1, <1>2, <1>20, <2>1 DEF Hist, KinStays, q
    <3>2. \A y \in Payloads : AtCommit(repo, q)[y] \in Kin(u) => objs[y] \in Kin(u)
      BY <1>7, <2>1
    <3>3. QED
      BY <1>2, <1>3, <1>10, <3>1, <3>2, OneParent DEF n
  <2>2. ASSUME MainSnapshots, NEW u \in Txns, t \notin Kin(u), merges[u] = 0
        PROVE  Private(repo', n, Kin(u))
    <3>1. Private(repo, q, Kin(u)) /\ q \in Ancestors(repo, q)
      BY <1>1, <1>2, <1>3, <1>20, <2>2, AncestorFacts DEF Hist, Secluded, KinHidden, q
    <3>2. \A y \in Payloads : objs[y] \notin Kin(u)
      BY <1>7, <2>2, <3>1 DEF Private
    <3>3. QED
      BY <1>2, <1>3, <1>10, <3>1, <3>2, OneParent DEF n
  <2>4. th \notin Txns \cup {Main}
    BY Names
  <2>5. NewKin(th) /\ (MainSnapshots => NewHidden(th))
    BY <1>11, <1>12, <1>20, <2>1, <2>2 DEF NewKin, NewHidden
  <2>6. QED
    BY <2>4, <2>5 DEF NewHead
<1>22. SnapsStep /\ MergesStep
  BY <1>12 DEF SnapsStep, MergesStep
<1>23. QED
  BY <1>2, <1>10, <1>11, <1>13, <1>16, <1>17, <1>18, <1>19, <1>21, <1>22, GrowsHist DEF Calm, n

-----------------------------------------------------------------------------
(* Merges.                                                                 *)

(* The new head of branch b, into which branch s was merged.               *)
LEMMA MergedHead ==
    ASSUME Hist, UnbornSame, NEW th \in Threads, NEW s \in Branches, NEW b \in Txns \cup {Main},
           BranchExists(repo, s), BranchExists(repo, b), NEW objs,
           Grows(b, th, {repo.head[b], repo.head[s]}, objs),
           Blend(repo, repo.head[s], repo.head[b], objs),
           \A u \in Txns : b \in Kin(u) => Owner(s) \in Kin(u),
           \A u \in Txns : b \notin Kin(u) /\ merges'[u] = 0 =>
                                Owner(s) \notin Kin(u) /\ merges[u] = 0
    PROVE  NewHead(b) /\ Sound(repo', NewId(repo))
<1> DEFINE g == repo.head[b]
           h == repo.head[s]
           n == NewId(repo)
<1>1. /\ Base /\ RepoOK(repo) /\ G!GraphOK(repo) /\ Typed /\ b \in Branches
      /\ Payloads \in SUBSET Paths
  BY Names DEF Hist, Base, Typed
<1>2. g \in CommitIds(repo) /\ h \in CommitIds(repo) /\ Sound(repo, g) /\ Sound(repo, h)
  BY <1>1, RepoShape DEF Hist, Commits
<1>3. /\ G!Extends(repo, repo') /\ n \in CommitIds(repo') /\ repo'.head[b] = n
      /\ AtCommit(repo', n) = objs /\ CalmStore(th)
  BY <1>1, GrowsStore
<1>4. Grown(repo, repo', b, {g, h}, objs) /\ OthersStay(b, th) /\ Blend(repo, h, g, objs)
  BY DEF Grows
<1>5. Owner(b) = b /\ Owner(b)' = b
  BY Names DEF Owner
<1> HIDE DEF g, h, n
<1>6. Sound(repo', n)
  BY <1>1, <1>2, <1>4, SoundTwo DEF n
<1>7. Climbs(b)
  <2>1. Ancestors(repo', n) = {n} \cup UNION {Ancestors(repo, p) : p \in {g, h}}
    BY <1>1, <1>2, <1>4, GrownGraph DEF n
  <2>2. g \in Ancestors(repo, g)
    BY <1>1, <1>2, AncestorFacts
  <2>3. QED
    BY <1>3, <2>1, <2>2 DEF Climbs, g
<1>8. NewKin(b)
  <2>1. ASSUME NEW u \in Txns, b \in Kin(u)
        PROVE  Persistent(repo', n, Payloads, Kin(u))
    <3>1. Persistent(repo, g, Payloads, Kin(u)) /\ Persistent(repo, h, Payloads, Kin(u))
      BY <1>1, <1>5, <2>1 DEF Hist, KinStays, g, h
    <3>2. QED
      BY <1>1, <1>2, <1>4, <3>1, TwoParents DEF n
  <2>2. QED
    BY <1>3, <1>5, <2>1 DEF NewKin
<1>9. ASSUME MainSnapshots PROVE NewHidden(b)
  <2>1. ASSUME NEW u \in Txns, b \notin Kin(u), merges'[u] = 0
        PROVE  Private(repo', n, Kin(u))
    <3>1. Private(repo, g, Kin(u)) /\ Private(repo, h, Kin(u))
      BY <1>1, <1>5, <1>9, <2>1 DEF Hist, Secluded, KinHidden, g, h
    <3>2. QED
      BY <1>1, <1>2, <1>4, <3>1, TwoParents DEF n
  <2>2. QED
    BY <1>3, <1>5, <2>1 DEF NewHidden
<1>10. NewHead(b)
  BY <1>3, <1>5, <1>7, <1>8, <1>9 DEF NewHead
<1>11. QED
  BY <1>6, <1>10 DEF n

(* The merge is a commit that grows on branch b, whatever is then done     *)
(* with the branch of thread th.                                           *)
LEMMA BlendFine ==
    ASSUME Base, NEW h \in CommitIds(repo), NEW g \in CommitIds(repo), NEW objs,
           Blend(repo, h, g, objs)
    PROVE  ObjectsFine(objs)
<1>1. ObjectsFine(AtCommit(repo, h)) /\ ObjectsFine(AtCommit(repo, g))
  BY DEF Base, StoreFine
<1>2. QED
  BY <1>1 DEF ObjectsFine, Blend

LEMMA MergeWriteDone ==
    ASSUME Hist, NEW th \in Threads, op[th].pc = "write",
           CanMerge(repo, th, op[th].txn), MergeConflicts(repo, th, op[th].txn) = {},
           repo' = DeleteBranch(Merge(repo, th, op[th].txn), th), Goto(th, "written"),
           UNCHANGED <<cache, lock, snaps, history>>
    PROVE  Hist' /\ G!Extends(repo, repo')
<1>0. PICK t, a : t = op[th].txn /\ a = op[th].artifact
  OBVIOUS
<1> DEFINE g == repo.head[t]
           h == repo.head[th]
           n == NewId(repo)
<1>1. /\ Base /\ UnbornSame /\ RepoOK(repo) /\ G!GraphOK(repo) /\ th \in Branches /\ t \in Branches
      /\ op[th] \in WriteOps /\ t \in Txns /\ a \in Payloads /\ t # th /\ th \in TxnIds
      /\ outcome[t] # "unborn" /\ HeadAt(repo, th, a) = t /\ Owner(th) = t /\ Upper(th) = t
  BY <1>0, WriteShapes, HistoryKeeps, Names DEF Hist, Base, Typed
<1>2. CanMerge(repo, th, t) /\ BranchExists(repo, t) /\ BranchExists(repo, th)
  BY <1>0 DEF CanMerge
<1>3. h \in CommitIds(repo) /\ g \in CommitIds(repo)
  BY <1>1, <1>2, RepoShape
<1>4. PICK m : m = Merge(repo, th, t)
  OBVIOUS
<1>5. PICK objs : GrownAt(repo, m, t, {g, h}, objs) /\ Blend(repo, h, g, objs)
  BY <1>0, <1>1, <1>2, <1>4, MergeGrown
<1>6. Pointed(m, repo', th, NoBranch)
  <2>1. RepoOK(m)
    BY <1>5 DEF GrownAt, Grown
  <2>2. QED
    BY <1>0, <1>1, <1>4, <2>1, DeleteShape
<1> HIDE DEF g, h, n
<1>7. Grown(repo, repo', t, {g, h}, objs)
  <2>1. CommitIds(repo') = CommitIds(m) /\ \A c : AtCommit(repo', c) = AtCommit(m, c)
    BY <1>6 DEF Pointed, CommitIds, AtCommit
  <2>2. QED
    BY <1>1, <1>5, <1>6, <2>1 DEF GrownAt, Grown, Pointed, Kept
<1>8. OthersStay(t, th)
  BY <1>5, <1>6 DEF GrownAt, Kept, Pointed, OthersStay
<1>9. Grows(t, th, {g, h}, objs)
  BY <1>1, <1>2, <1>3, <1>5, <1>7, <1>8, BlendFine, Names DEF Grows
<1>10. /\ CalmStore(th) /\ G!Extends(repo, repo') /\ BranchExists(repo', t)
       /\ repo'.head[t] = n /\ AtCommit(repo', n) = objs
       /\ \A u \in Txns : BranchExists(repo, u) => BranchExists(repo', u)
  BY <1>1, <1>9, GrowsStore DEF n
<1>11. UNCHANGED <<cache, lock, outcome, parent, acked, before, merges, result, snaps, lostRows>>
  BY DEF history
<1>12. CalmTxns /\ CacheFine'
  BY <1>1, <1>10, <1>11, TxnsSame, CacheSame DEF Base, OpenFine
<1>13. ~BranchExists(repo', th)
  BY <1>6 DEF Pointed, BranchExists
<1>14. /\ op' \in [Threads -> Ops] /\ \A x \in Threads \ {th} : op'[x] = op[x]
       /\ op'[th].pc = "written" /\ op'[th].txn = t /\ op'[th].artifact = a
  <2> DEFINE o == [op[th] EXCEPT !.pc = "written"]
  <2>1. op' = [op EXCEPT ![th] = o]
    BY <1>1 DEF Goto, Base, Typed
  <2>2. o \in WriteOps /\ o.pc = "written" /\ o.txn = t /\ o.artifact = a
    BY <1>0, <1>1 DEF WriteOps
  <2> HIDE DEF o
  <2>3. o \in Ops
    BY <2>2 DEF Ops
  <2>4. QED
    BY <1>1, <2>1, <2>2, <2>3, OpStep DEF Base
<1>15. CalmOps(th)
  <2>1. OpFine(th, op[th])'
    BY <1>1, <1>11, <1>13, <1>14 DEF OpFine, WriteFine, CommitFine, BranchFine, CommitPcs
  <2>2. QED
    BY <1>1, <1>11, <1>14, <2>1 DEF CalmOps, Base, Typed
<1>16. NewHead(t) /\ Sound(repo', n)
  <2>1. \A u \in Txns : t \notin Kin(u) /\ merges'[u] = 0 => Owner(th) \notin Kin(u) /\ merges[u] = 0
    BY <1>1, <1>11
  <2>2. QED
    BY <1>1, <1>2, <1>5, <1>9, <2>1, MergedHead DEF g, h, n
<1>17. PendingStep
  <2>1. objs[a] \in Kin(t)
    <3>1. t \in Kin(t) /\ Owner(t)' = t /\ AtCommit(repo, h)[a] = t
      BY <1>1, KinFacts, Names DEF Owner, HeadAt, h
    <3>2. Persistent(repo', n, Payloads, Kin(t))
      BY <1>1, <1>10, <1>16, <3>1 DEF NewHead, NewKin
    <3>3. Ancestors(repo', n) = {n} \cup UNION {Ancestors(repo, p) : p \in {g, h}}
      BY <1>1, <1>3, <1>7, GrownGraph DEF n
    <3>4. h \in Ancestors(repo', n) /\ AtCommit(repo', h) = AtCommit(repo, h)
      BY <1>1, <1>3, <1>10, <3>3, AncestorFacts, OldAncestors
    <3>5. QED
      BY <1>1, <1>10, <3>1, <3>2, <3>4 DEF Persistent
  <2>2. HeadAt(repo', t, a) \in Kin(t)
    BY <1>10, <2>1 DEF HeadAt
  <2>3. \A u \in Txns, y \in Payloads : Pending(u, y)' => Pending(u, y) \/ (u = t /\ y = a)
    BY <1>11, <1>14 DEF Pending
  <2>4. QED
    BY <2>2, <2>3 DEF PendingStep
<1>18. Steady({t})
  BY <1>1, <1>9, <1>11, <1>13, <1>14, GrowsSteady
<1>19. SnapsStep /\ MergesStep /\ Calm(th)
  BY <1>10, <1>11, <1>12, <1>15 DEF SnapsStep, MergesStep, Calm
<1>20. QED
  BY <1>1, <1>9, <1>16, <1>17, <1>18, <1>19, GrowsHist DEF n

LEMMA MergeWriteHist ==
    ASSUME Hist, NEW th \in Threads, MergeWrite(th)
    PROVE  Hist' /\ G!Extends(repo, repo')
<1> DEFINE conflicts == MergeConflicts(repo, th, op[th].txn)
<1>1. op[th].pc = "write" /\ UNCHANGED <<cache, lock, snaps, history>>
  BY DEF MergeWrite
<1>2. CASE repo' = DeleteBranch(repo, th) /\ Return(th)
  BY <1>1, <1>2, DropWriteHist
<1>3. CASE /\ CanMerge(repo, th, op[th].txn) /\ conflicts = {}
           /\ repo' = DeleteBranch(Merge(repo, th, op[th].txn), th) /\ Goto(th, "written")
  BY <1>1, <1>3, MergeWriteDone
<1>4. CASE /\ CanMerge(repo, th, op[th].txn) /\ Retryable(conflicts, op[th].attempts)
           /\ repo' = ResolveConflicts(repo, th, op[th].txn, conflicts)
           /\ op' = [op EXCEPT ![th].attempts = @ + 1]
  <2>1. conflicts \subseteq Indexes
    BY <1>4, TransactionAssumption DEF Retryable
  <2> HIDE DEF conflicts
  <2>2. QED
    BY <1>1, <1>4, <2>1, ResolveWriteHist
<1>5. QED
  BY <1>2, <1>3, <1>4 DEF MergeWrite

(* A commit merges its transaction into the branch above.                  *)
LEMMA TargetUpper ==
    ASSUME Base, NEW th \in Threads, op[th].pc \in CommitPcs
    PROVE  /\ Target(op[th].rec) = Upper(op[th].txn) /\ Upper(op[th].txn) \in Txns \cup {Main}
           /\ Owner(op[th].txn) = op[th].txn
<1>1. op[th].pc # "write"
  BY DEF CommitPcs
<1>2. CASE op[th].txn = th
  BY <1>1, <1>2, CommitShapes DEF Target, Upper, Owner
<1>3. CASE op[th].txn \in Txns
  BY <1>3, CommitShapes, Names DEF Target, Upper, Owner
<1>4. QED
  BY <1>2, <1>3, CommitShapes

(* What the resolver has to do for thread th.                              *)
LEMMA ResolveShapes ==
    ASSUME Base, NEW th \in Threads, op[th].pc = "resolve"
    PROVE  /\ op[th].pc \in CommitPcs /\ op[th] \in CommitOps /\ op[th].txn \in Branches
           /\ op[th].ours \in CommitIds(repo) /\ op[th].theirs \in CommitIds(repo)
           /\ op[th].conflicts \subseteq Indexes
<1>1. op[th].pc \in CommitPcs
  BY DEF CommitPcs
<1>2. op[th] \in CommitOps /\ op[th].txn \in Branches
  BY <1>1, CommitShapes DEF Branches
<1>3. ResolvesFine(op[th], repo)
  BY <1>1 DEF Base, OpsFine, OpFine, CommitFine
<1>4. QED
  BY <1>1, <1>2, <1>3 DEF ResolvesFine

(* The merged object has the branch's rows, but for those that are lost.   *)
LEMMA ResolvePutRows ==
    ASSUME Hist, NEW t \in Branches, BranchExists(repo, t), NEW p \in Indexes,
           NEW h \in CommitIds(repo), NEW g \in CommitIds(repo),
           NEW new, new = ResolveSinglePath(repo, h, g, p),
           NEW lost, lost = (DOMAIN Rows(ResolveState(repo, t)[p])
                                \ DOMAIN Rows(AtCommit(repo, h)[p])) \ DOMAIN Rows(new),
           NEW a \in Payloads, a \notin lost, p \in Safe(a), HeadAt(repo, t, p) \in RowSet(a)
    PROVE  new \in RowSet(a)
<1>1. Base /\ RepoOK(repo) /\ p \in Paths
  BY IndexFacts DEF Hist, Base, Typed
<1>2. /\ new \in IndexObjects
      /\ AtCommit(repo, h)[p] \in RowSet(a) => new \in RowSet(a)
  BY ResolvedPath
<1>3. repo.staging[t][p] \in {Unstaged} \cup IndexObjects
  BY <1>1, IndexFacts DEF Base, StoreFine, StagingFine, StagedAt
<1>4. repo.staging[t][p] # Unstaged => repo.staging[t][p] \in RowSet(a)
  BY <1>1 DEF Base, StoreFine, RowsStaged
<1>5. ResolveState(repo, t)[p] \in RowSet(a)
  BY <1>1, <1>4 DEF ResolveState, HeadAt
<1>6. a \in DOMAIN Rows(ResolveState(repo, t)[p])
  BY <1>5, RowsShape DEF RowSet, IsIndex
<1>7. IsIndex(AtCommit(repo, h)[p]) /\ IsIndex(new)
  BY <1>1, <1>2, IndexFacts DEF Base, StoreFine, ObjectsFine, ValuesAt, IsIndex
<1>8. /\ a \in DOMAIN Rows(AtCommit(repo, h)[p]) => AtCommit(repo, h)[p] \in RowSet(a)
      /\ a \in DOMAIN Rows(new) => new \in RowSet(a)
  BY <1>7, RowsShape
<1>9. QED
  BY <1>2, <1>6, <1>8

LEMMA ResolvePutHist ==
    ASSUME Hist, NEW th \in Threads, ResolvePut(th)
    PROVE  Hist' /\ G!Extends(repo, repo')
<1>1. PICK t, h, g : t = op[th].txn /\ h = op[th].ours /\ g = op[th].theirs
  OBVIOUS
<1>2. PICK p, new, lost :
        /\ p \in op[th].conflicts /\ new = ResolveSinglePath(repo, h, g, p)
        /\ repo' = PutObject(repo, t, p, new)
        /\ op' = [op EXCEPT ![th].conflicts = @ \ {p}]
        /\ lost = (DOMAIN Rows(ResolveState(repo, t)[p]) \ DOMAIN Rows(AtCommit(repo, h)[p]))
                        \ DOMAIN Rows(new)
        /\ lostRows' = lostRows \cup {<<p, a>> : a \in lost}
  <2>1. PICK x \in op[th].conflicts :
          LET merged == ResolveSinglePath(repo, op[th].ours, op[th].theirs, x)
          IN  /\ repo' = PutObject(repo, op[th].txn, x, merged)
              /\ op' = [op EXCEPT ![th].conflicts = @ \ {x}]
              /\ lostRows' = lostRows \cup
                    {<<x, a>> : a \in (DOMAIN Rows(ResolveState(repo, op[th].txn)[x])
                                        \ DOMAIN Rows(AtCommit(repo, op[th].ours)[x]))
                                        \ DOMAIN Rows(merged)}
    BY DEF ResolvePut
  <2>2. QED
    BY <1>1, <2>1
<1>3. /\ op[th].pc = "resolve" /\ BranchExists(repo, t)
      /\ UNCHANGED <<cache, lock, snaps, outcome, parent, acked, before, merges, result>>
  BY <1>1 DEF ResolvePut
<1>4. /\ Base /\ RepoOK(repo) /\ UnbornSame /\ lostRows \subseteq lostRows'
  BY <1>2, <1>3 DEF UnbornSame, Hist, Base, Typed
<1>5. /\ op[th].pc \in CommitPcs /\ op[th] \in CommitOps /\ t \in Branches
      /\ h \in CommitIds(repo) /\ g \in CommitIds(repo) /\ p \in Indexes /\ p \in Paths
      /\ p \notin TxnIds /\ op[th].conflicts \subseteq Indexes
  BY <1>1, <1>2, <1>3, <1>4, ResolveShapes, IndexFacts
<1>6. PutAt(repo, repo', t, p, new)
  BY <1>2, <1>4, <1>5, PutAnyShape
<1>7. /\ RepoOK(repo') /\ repo'.head = repo.head /\ repo'.commits = repo.commits
      /\ repo'.staging[t][p] = new
      /\ \A x \in Paths : x # p => repo'.staging[t][x] = repo.staging[t][x]
      /\ \A b \in Branches \ {t} : repo'.staging[b] = repo.staging[b]
  BY <1>6 DEF PutAt, Kept
<1>8. new \in IndexObjects
  BY <1>2, <1>5, ResolvedPath
<1>9. \A b \in Branches : StagingFine(repo'.staging[b])
  <2>1. StagingFine(repo'.staging[t])
    BY <1>4, <1>5, <1>7, <1>8 DEF Base, StoreFine, StagingFine, StagedAt
  <2>2. QED
    BY <1>4, <1>7, <2>1 DEF Base, StoreFine
<1>10. RowsStaged(repo, t)'
  <2>1. SUFFICES ASSUME NEW a \in Payloads, NEW x \in Safe(a)', HeadAt(repo', t, x) \in RowSet(a),
                        repo'.staging[t][x] # Unstaged
                 PROVE  repo'.staging[t][x] \in RowSet(a)
    BY DEF RowsStaged
  <2>2. x \in Safe(a) /\ x \in Indexes /\ x \in Paths /\ <<x, a>> \notin lostRows'
    BY <1>4, IndexFacts DEF Safe
  <2>3. HeadAt(repo, t, x) \in RowSet(a)
    BY <1>7, <2>1 DEF HeadAt, AtCommit
  <2>4. CASE x # p
    BY <1>3, <1>4, <1>5, <1>7, <2>1, <2>2, <2>3, <2>4 DEF Base, StoreFine, RowsStaged
  <2>5. CASE x = p
    <3>1. a \notin lost
      BY <1>2, <2>2, <2>5
    <3>2. new \in RowSet(a)
      BY <1>2, <1>3, <1>5, <2>2, <2>3, <2>5, <3>1, ResolvePutRows
    <3>3. QED
      BY <1>7, <2>5, <3>2
  <2>6. QED
    BY <2>4, <2>5
<1>11. \A b \in Branches : StagesRows(b) \/ RowsStaged(repo, b)'
  BY <1>7, <1>10 DEF StagesRows
<1>12. StoreFine' /\ G!Extends(repo, repo') /\ CommitIds(repo') = CommitIds(repo)
  BY <1>4, <1>7, <1>9, <1>11, QuietStore DEF UnbornSame
<1>13. CalmStore(th) /\ QuietHeads
  BY <1>4, <1>7, <1>12 DEF CalmStore, QuietHeads, BranchExists, Base, Typed
<1>14. CalmTxns /\ CacheFine'
  <2>1. \A u \in Txns : outcome[u] = "open" => BranchExists(repo', u)
    BY <1>4, <1>7 DEF Base, OpenFine, BranchExists
  <2>2. QED
    BY <1>3, <1>4, <1>12, <2>1, TxnsSame, CacheSame
<1>15. PICK o \in CommitOps :
            /\ op' = [op EXCEPT ![th] = o]
            /\ o.pc = "resolve" /\ o.txn = op[th].txn /\ o.rec = op[th].rec
            /\ o.seen = op[th].seen /\ o.ours = h /\ o.theirs = g
            /\ o.conflicts = op[th].conflicts \ {p}
  <2>1. op \in [Threads -> Ops]
    BY <1>4 DEF Base, Typed
  <2>2. \E o \in CommitOps :
            /\ op' = [op EXCEPT ![th] = o]
            /\ o.pc = op[th].pc /\ o.txn = op[th].txn /\ o.rec = op[th].rec
            /\ o.seen = op[th].seen /\ o.ours = op[th].ours /\ o.theirs = op[th].theirs
            /\ o.conflicts = op[th].conflicts \ {p}
    BY <1>2, <1>5, <2>1, ResolvedStep
  <2>3. QED
    BY <1>1, <1>3, <2>2
<1>16. op' \in [Threads -> Ops] /\ op'[th] = o /\ \A x \in Threads \ {th} : op'[x] = op[x]
  <2>1. o \in Ops
    BY DEF Ops
  <2>2. QED
    BY <1>4, <1>15, <2>1, OpStep DEF Base
<1>17. QuietOps(th)
  <2>1. GoesOn(th, "resolve")
    BY <1>15, <1>16 DEF GoesOn
  <2>2. ResolvesFine(op'[th], repo')
    BY <1>5, <1>12, <1>15, <1>16 DEF ResolvesFine
  <2>3. lock' \in [Instances -> Threads \cup {None}] /\ "resolve" \in CommitPcs
    BY <1>3, <1>4 DEF Base, Typed, CommitPcs
  <2>4. BranchExists(repo', th) => BranchExists(repo, th)
    BY <1>7 DEF BranchExists
  <2>5. QED
    BY <1>3, <1>4, <1>5, <1>14, <2>1, <2>2, <2>3, <2>4, GoesOnQuiet
<1>18. QED
  BY <1>3, <1>13, <1>14, <1>17, QuietEnd

LEMMA ResolveCommitHist ==
    ASSUME Hist, NEW th \in Threads, ResolveCommit(th)
    PROVE  Hist' /\ G!Extends(repo, repo')
<1>1. op[th].pc = "resolve" /\ UNCHANGED <<cache, snaps, history>>
  BY DEF ResolveCommit
<1>2. /\ op[th].pc \in CommitPcs /\ Base
      /\ {"sleep", "restore"} \subseteq CommitPcs \ {"commit", "rollback", "merged", "resolve"}
  BY <1>1 DEF CommitPcs, Hist
<1>3. CASE /\ BranchExists(repo, op[th].txn) /\ repo' = Commit(repo, op[th].txn)
           /\ Goto(th, "sleep") /\ Unlock(th)
  <2>1. GoesOn(th, "sleep") /\ lock' \in [Instances -> Threads \cup {None}]
    BY <1>2, <1>3, GotoSeen, LockTyped, HomeShape DEF GoesOn, Unlock, Base
  <2>2. Moves(th)
    BY <1>2, <2>1 DEF Moves
  <2>3. QED
    BY <1>1, <1>2, <1>3, <2>2, CommittedHist
<1>4. CASE Goto(th, "restore") /\ UNCHANGED <<repo, lock>>
  <2>1. GoesOn(th, "restore") /\ lock' \in [Instances -> Threads \cup {None}]
    BY <1>2, <1>4, GotoSeen DEF GoesOn, Base, Typed
  <2>2. Moves(th)
    BY <1>2, <2>1 DEF Moves
  <2>3. CalmStore(th) /\ QuietHeads /\ repo'.head = repo.head
    BY <1>1, <1>2, <1>4, SameStore, HistoryKeeps
  <2>4. QED
    BY <1>1, <1>2, <1>4, <2>2, <2>3, CommitQuiet
<1>5. QED
  BY <1>3, <1>4 DEF ResolveCommit

(* What a transaction wrote is in the commit of its first merge.           *)
LEMMA MergeShows ==
    ASSUME Hist, MainSnapshots, NEW t \in Txns, NEW b \in Txns \cup {Main}, b = Upper(t),
           BranchExists(repo, t), BranchExists(repo, b), merges[t] = 0,
           NEW objs, Blend(repo, repo.head[t], repo.head[b], objs),
           NEW a \in Payloads, <<t, a>> \in acked
    PROVE  objs[a] \in Kin(t)
<1>1. AtCommit(repo, repo.head[t])[a] \in Kin(t)
  BY DEF Hist, OnBranch, Pending, HeadAt
<1>2. b \notin Kin(t) /\ Owner(b) = b /\ b \in Branches
  <2>1. b \in {parent[t], Main}
    BY Names DEF Upper
  <2>2. parent[t] \notin Kin(t)
    BY DEF Hist, Acyclic
  <2>3. Main \notin Kin(t)
    BY KinFacts, Names
  <2>4. QED
    BY <2>1, <2>2, <2>3, Names DEF Owner
<1>3. Private(repo, repo.head[b], Kin(t))
  BY <1>2 DEF Hist, Secluded, KinHidden
<1>4. QED
  BY <1>1, <1>3, ShownByMerge

LEMMA MergeTransactionDone ==
    ASSUME Hist, NEW th \in Threads, op[th].pc = "merge",
           CanMerge(repo, op[th].txn, Target(op[th].rec)),
           MergeConflicts(repo, op[th].txn, Target(op[th].rec)) = {},
           repo' = Merge(repo, op[th].txn, Target(op[th].rec)), Goto(th, "merged"),
           RecordMerge(op[th].txn, op[th].seen, GetBranchHead(repo', Target(op[th].rec))),
           Learn(Target(op[th].rec), GetBranchHead(repo', Target(op[th].rec))),
           UNCHANGED <<lock, cache, parent, acked, lostRows>>
    PROVE  Hist' /\ G!Extends(repo, repo')
<1>0. op[th].pc \in CommitPcs /\ "merged" \in CommitPcs /\ Base
  BY DEF CommitPcs, Hist
<1>1. PICK t \in Txns \cup {th}, b \in Txns \cup {Main} :
            /\ t = op[th].txn /\ b = Target(op[th].rec) /\ b = Upper(t) /\ Owner(t) = t
            /\ t \in Branches /\ b \in Branches
  BY <1>0, CommitShapes, TargetUpper, Names DEF Hist
<1> DEFINE g == repo.head[b]
           h == repo.head[t]
           n == NewId(repo)
<1>2. CanMerge(repo, t, b) /\ BranchExists(repo, t) /\ BranchExists(repo, b)
  BY <1>1 DEF CanMerge
<1>3. /\ RepoOK(repo) /\ G!GraphOK(repo)
      /\ h \in CommitIds(repo) /\ g \in CommitIds(repo)
  BY <1>0, <1>1, <1>2, RepoShape DEF Base, Typed
<1>4. PICK objs : GrownAt(repo, repo', b, {g, h}, objs) /\ Blend(repo, h, g, objs)
  BY <1>1, <1>2, <1>3, MergeGrown
<1> HIDE DEF g, h, n
<1>5. Grows(b, th, {g, h}, objs)
  BY <1>0, <1>1, <1>2, <1>3, <1>4, KeptStay, BlendFine, Names DEF Grows
<1>6. t \in Txns => outcome[t] # "unborn" /\ \A a \in op[th].seen : <<t, a>> \in acked
  BY <1>0, <1>1 DEF Base, OpsFine, OpFine, CommitFine
<1>7. repo'.head[b] = n
  BY <1>4 DEF GrownAt, Grown, n
<1>8. /\ t \in Txns => /\ outcome' = [outcome EXCEPT ![t] = "committed"]
                       /\ merges' = [merges EXCEPT ![t] = @ + 1]
                       /\ before' = [before EXCEPT ![t] = op[th].seen]
                       /\ result' = [result EXCEPT ![t] = n]
      /\ t \notin Txns => UNCHANGED <<outcome, merges, before, result>>
      /\ snaps' = IF b \in SnapshotSources THEN snaps \cup {n} ELSE snaps
  BY <1>1, <1>7 DEF RecordMerge, Learn, GetBranchHead
<1>9. /\ outcome \in [Txns -> {"unborn", "open", "committed", "rolledback"}]
      /\ merges \in [Txns -> Nat] /\ before \in [Txns -> SUBSET Payloads]
      /\ result \in [Txns -> Nat] /\ op[th].seen \subseteq Payloads /\ n \in Nat
  <2>1. op[th] \in CommitOps
    BY <1>0, CommitShapes
  <2>2. n \in Nat
    BY <1>3, RepoShape DEF n, NewId
  <2>3. QED
    BY <1>0, <2>1, <2>2 DEF Base, Typed, OpenFine, CommitOps
<1>10. UnbornSame
  BY <1>6, <1>8, <1>9 DEF UnbornSame
<1>11. /\ CalmStore(th) /\ G!Extends(repo, repo') /\ BranchExists(repo', b)
       /\ n \in CommitIds(repo') /\ CommitIds(repo) \subseteq CommitIds(repo')
       /\ AtCommit(repo', n) = objs
       /\ \A u \in Txns : BranchExists(repo, u) => BranchExists(repo', u)
  BY <1>0, <1>1, <1>5, <1>10, GrowsStore, OldAncestors DEF n
<1>12. CalmTxns /\ CacheFine'
  <2>1. outcome' \in [Txns -> {"unborn", "open", "committed", "rolledback"}]
        /\ merges' \in [Txns -> Nat]
    BY <1>8, <1>9
  <2>2. \A u \in Txns : outcome'[u] = "open" => outcome[u] = "open" /\ merges'[u] = merges[u]
    BY <1>8, <1>9
  <2>3. \A u \in Txns : outcome[u] = "unborn" => merges'[u] = merges[u]
    BY <1>6, <1>8, <1>9
  <2>4. ASSUME NEW u \in Txns, merges'[u] > 0 PROVE result'[u] \in CommitIds(repo')
    <3>1. CASE u = t
      BY <1>8, <1>9, <1>11, <3>1
    <3>2. CASE u # t
      BY <1>0, <1>8, <1>9, <1>11, <2>4, <3>2 DEF Base, OpenFine
    <3>3. QED
      BY <3>1, <3>2
  <2>5. before' \in [Txns -> SUBSET Payloads] /\ result' \in [Txns -> Nat]
    BY <1>3, <1>8, <1>9
  <2>6. CalmTxns
    BY <1>0, <1>10, <1>11, <2>1, <2>2, <2>3, <2>4, <2>5 DEF CalmTxns, UnbornSame, Base, OpenFine
  <2>7. QED
    BY <1>0, <1>10, <2>6, CacheSame
<1>13. QuietOps(th)
  <2>1. GoesOn(th, "merged")
    BY <1>0, GotoSeen DEF GoesOn
  <2>2. op[th].txn \in Txns => outcome'[op[th].txn] # "open"
    BY <1>1, <1>8, <1>9
  <2>3. BranchExists(repo', th) => BranchExists(repo, th)
    BY <1>5, <1>1, Names DEF Grows, OthersStay, BranchExists
  <2>4. lock' \in [Instances -> Threads \cup {None}]
    BY <1>0 DEF Base, Typed
  <2>5. QED
    BY <1>0, <1>12, <2>1, <2>2, <2>3, <2>4, GoesOnQuiet
<1>14. Calm(th) /\ PendingStep
  BY <1>11, <1>12, <1>13 DEF Calm, QuietOps
<1>15. \A u \in Txns : /\ merges'[u] = 0 => merges[u] = 0 /\ u # t
                       /\ u # t => /\ merges'[u] = merges[u] /\ before'[u] = before[u]
                                   /\ result'[u] = result[u]
  BY <1>8, <1>9
<1>16. Steady({b})
  <2>1. /\ \A x \in Threads \ {th} : op'[x] = op[x]
        /\ BranchExists(repo', th) =>
              /\ op'[th].pc = "write" <=> op[th].pc = "write"
              /\ op[th].pc = "write" => op'[th].txn = op[th].txn
    BY <1>13 DEF QuietOps, CalmOps
  <2>2. QED
    BY <1>1, <1>5, <1>15, <2>1, GrowsSteady
<1>17. \A u \in Txns : /\ b \in Kin(u) => t \in Kin(u)
                       /\ b \notin Kin(u) => t \notin Kin(u) \/ t = u
  <2>1. ASSUME NEW u \in Txns, b \in Kin(u) PROVE t \in Kin(u)
    <3>1. b \in Txns
      BY <2>1, KinFacts
    <3>2. t \in Txns /\ parent[t] = b
      BY <1>0, <1>1, <3>1, Names DEF Upper, CommitPcs
    <3>3. QED
      BY <2>1, <3>2, KinFacts
  <2>2. ASSUME NEW u \in Txns, t \in Kin(u), t # u PROVE b \in Kin(u)
    <3>1. t \in Txns /\ parent[t] \in Kin(u) /\ parent[t] \in Txns
      BY <2>2, KinFacts
    <3>2. b = parent[t]
      BY <1>1, <3>1, Names DEF Upper
    <3>3. QED
      BY <3>1, <3>2
  <2>3. QED
    BY <2>1, <2>2
<1>18. NewHead(b) /\ Sound(repo', n)
  <2>1. \A u \in Txns : b \in Kin(u) => Owner(t) \in Kin(u)
    BY <1>1, <1>17
  <2>2. \A u \in Txns : b \notin Kin(u) /\ merges'[u] = 0 => Owner(t) \notin Kin(u) /\ merges[u] = 0
    BY <1>1, <1>15, <1>17
  <2>3. QED
    BY <1>1, <1>2, <1>4, <1>5, <1>10, <2>1, <2>2, MergedHead DEF g, h, n
<1>19. ASSUME MainSnapshots PROVE MergesStep
  <2>1. ASSUME t \in Txns, merges'[t] = 1, NEW a \in before'[t]
        PROVE  AtCommit(repo', result'[t])[a] \in Kin(t)
    <3>1. merges[t] = 0 /\ <<t, a>> \in acked /\ a \in Payloads
      BY <1>6, <1>8, <1>9, <2>1
    <3>2. Blend(repo, repo.head[t], repo.head[b], objs)
      BY <1>4 DEF g, h
    <3>3. objs[a] \in Kin(t)
      BY <1>1, <1>2, <1>19, <2>1, <3>1, <3>2, MergeShows
    <3>4. result'[t] = n
      BY <1>8, <1>9, <2>1
    <3>5. QED
      BY <1>11, <3>3, <3>4
  <2>2. QED
    BY <1>15, <2>1 DEF MergesStep
<1>20. ASSUME MainSnapshots PROVE SnapsStep
  BY <1>7, <1>8, <1>20 DEF SnapsStep, MainSnapshots
<1>21. QED
  BY <1>1, <1>5, <1>14, <1>16, <1>18, <1>19, <1>20, GrowsHist DEF n

LEMMA MergeTransactionHist ==
    ASSUME Hist, NEW th \in Threads, MergeTransaction(th)
    PROVE  Hist' /\ G!Extends(repo, repo')
<1> DEFINE t == op[th].txn
           target == Target(op[th].rec)
           conflicts == MergeConflicts(repo, t, target)
<1>1. op[th].pc = "merge" /\ UNCHANGED <<cache, parent, acked, lostRows>>
  BY DEF MergeTransaction
<1>2. /\ op[th].pc \in CommitPcs /\ "resolve" \in CommitPcs /\ Base
      /\ "restore" \in CommitPcs \ {"commit", "rollback", "merged", "resolve"}
  BY <1>1 DEF CommitPcs, Hist
<1>3. CASE /\ CanMerge(repo, t, target) /\ conflicts = {}
           /\ repo' = Merge(repo, t, target) /\ Goto(th, "merged")
           /\ RecordMerge(t, op[th].seen, GetBranchHead(repo', target))
           /\ Learn(target, GetBranchHead(repo', target)) /\ UNCHANGED lock
  BY <1>1, <1>3, MergeTransactionDone
<1>4. CASE /\ CanMerge(repo, t, target) /\ Retryable(conflicts, op[th].attempts)
           /\ ToResolve(th, conflicts, target)
           /\ UNCHANGED <<repo, lock, snaps, outcome, merges, before, result>>
  <2>1. conflicts \in SUBSET Indexes
    BY <1>4, TransactionAssumption DEF Retryable
  <2>2. /\ RepoOK(repo) /\ op \in [Threads -> Ops] /\ op[th] \in CommitOps
        /\ t \in Branches /\ target \in Branches
    BY <1>2, CommitShapes, TargetUpper, Names DEF Base, Typed
  <2> HIDE DEF conflicts, target
  <2>3. repo.head[t] \in CommitIds(repo) /\ repo.head[target] \in CommitIds(repo)
    BY <1>4, <2>2, RepoShape DEF CanMerge
  <2>4. PICK o \in CommitOps :
              /\ op' = [op EXCEPT ![th] = o]
              /\ o.pc = "resolve" /\ o.txn = op[th].txn /\ o.rec = op[th].rec
              /\ o.seen = op[th].seen /\ o.conflicts = conflicts
              /\ o.ours = repo.head[op[th].txn] /\ o.theirs = repo.head[target]
    BY <1>4, <2>1, <2>2, ToResolveStep
  <2>5. op' \in [Threads -> Ops] /\ op'[th] = o /\ \A x \in Threads \ {th} : op'[x] = op[x]
    <3>1. o \in Ops
      BY DEF Ops
    <3>2. QED
      BY <1>2, <2>4, <3>1, OpStep DEF Base
  <2>6. UNCHANGED <<repo, cache, snaps, history>> /\ UnbornSame
    BY <1>1, <1>4 DEF history, UnbornSame
  <2>7. CalmStore(th) /\ QuietHeads /\ G!Extends(repo, repo')
    BY <1>2, <2>6, SameStore
  <2>8. CalmTxns /\ CacheFine' /\ UNCHANGED <<before, merges, result, acked>>
    BY <1>2, <2>6, <2>7, RestSame
  <2>9. QuietOps(th)
    <3>1. GoesOn(th, "resolve")
      BY <2>4, <2>5 DEF GoesOn
    <3>2. ResolvesFine(op'[th], repo')
      BY <2>1, <2>3, <2>4, <2>5, <2>6 DEF ResolvesFine
    <3>3. lock' \in [Instances -> Threads \cup {None}]
      BY <1>2, <1>4 DEF Base, Typed
    <3>4. BranchExists(repo', th) => BranchExists(repo, th)
      BY <2>6
    <3>5. QED
      BY <1>2, <2>8, <3>1, <3>2, <3>3, <3>4, GoesOnQuiet
  <2>10. QED
    BY <2>6, <2>7, <2>8, <2>9, QuietEnd
<1>5. CASE Goto(th, "restore") /\ UNCHANGED <<repo, lock, snaps, outcome, merges, before, result>>
  <2>1. GoesOn(th, "restore") /\ lock' \in [Instances -> Threads \cup {None}]
    BY <1>2, <1>5, GotoSeen DEF GoesOn, Base, Typed
  <2>2. Moves(th) /\ UNCHANGED <<cache, history, snaps>>
    BY <1>1, <1>2, <1>5, <2>1 DEF Moves, history
  <2>3. CalmStore(th) /\ QuietHeads /\ repo'.head = repo.head
    BY <1>2, <1>5, <2>2, SameStore, HistoryKeeps
  <2>4. QED
    BY <1>2, <2>2, <2>3, CommitQuiet
<1>6. QED
  BY <1>3, <1>4, <1>5 DEF MergeTransaction, ToResolve


-----------------------------------------------------------------------------
(* The creation of transactions.                                           *)

(* Transaction t with parent p is entered in the cache of instance i; the  *)
(* table may have been completed by the record of the parent.              *)
Enters(i, t, p, table) ==
    /\ p # t /\ (t \in Threads => p = None) /\ (p # None => table[p] # None)
    /\ table \in [TxnIds -> CachedRecords \cup {None}]
    /\ \A u \in TxnIds \ {p} : table[u] = cache[i][u]
    /\ cache' = [cache EXCEPT ![i] = Entered(table, t, p)]

(* The records that are cached then.                                       *)
Knows(i, t, p, table) ==
    /\ CacheOK(cache')
    /\ \A j \in Instances, u \in TxnIds : cache'[j][u] # None =>
          \/ j = i /\ u = t /\ cache'[j][u].parent = p
          \/ u = p /\ p # None /\ cache'[j][u].parent = table[p].parent
          \/ cache[j][u] # None /\ cache'[j][u] = cache[j][u]

LEMMA CacheEntered ==
    ASSUME CacheOK(cache), NEW i \in Instances, NEW t \in TxnIds,
           NEW p \in Txns \cup {None}, NEW table, Enters(i, t, p, table)
    PROVE  Knows(i, t, p, table)
<1>1. /\ p # t /\ (t \in Threads => p = None) /\ (p # None => table[p] # None)
      /\ table \in [TxnIds -> CachedRecords \cup {None}]
      /\ \A u \in TxnIds \ {p} : table[u] = cache[i][u]
      /\ cache' = [cache EXCEPT ![i] = Entered(table, t, p)]
  BY DEF Enters
<1>2. PICK new : new = Entered(table, t, p)
  OBVIOUS
<1>3. new[t] = [parent |-> p, children |-> {}]
  BY <1>2 DEF Entered
<1>4. new[t] \in CachedRecords /\ new[t].parent = p
  BY <1>3 DEF CachedRecords
<1>5. \A u \in TxnIds \ {t, p} : new[u] = cache[i][u]
  BY <1>1, <1>2 DEF Entered
<1>6. ASSUME p # None
      PROVE  new[p] \in CachedRecords /\ new[p].parent = table[p].parent
  <2>1. p \in TxnIds /\ table[p] \in CachedRecords
    BY <1>1, <1>6, Names
  <2>2. new[p] = [table[p] EXCEPT !.children = @ \cup {t}]
    BY <1>1, <1>2, <2>1 DEF Entered
  <2>3. QED
    BY <2>1, <2>2 DEF CachedRecords
<1>7. new \in [TxnIds -> CachedRecords \cup {None}]
  <2>1. \A u \in TxnIds : new[u] \in CachedRecords \cup {None}
    BY <1>1, <1>4, <1>5, <1>6, Names DEF TxnIds, CacheOK
  <2>2. new = [u \in TxnIds |-> new[u]]
    BY <1>2 DEF Entered
  <2>3. QED
    BY <2>1, <2>2
<1>8. \A th \in Threads : new[th] # None => new[th].parent = None
  BY <1>1, <1>4, <1>5, Names DEF CacheOK
<1>9. /\ cache' \in [Instances -> [TxnIds -> CachedRecords \cup {None}]]
      /\ cache'[i] = new /\ \A j \in Instances \ {i} : cache'[j] = cache[j]
  BY <1>1, <1>2, <1>7 DEF CacheOK
<1>10. CacheOK(cache')
  BY <1>8, <1>9 DEF CacheOK
<1>11. ASSUME NEW j \in Instances, NEW u \in TxnIds, cache'[j][u] # None
       PROVE  \/ j = i /\ u = t /\ cache'[j][u].parent = p
              \/ u = p /\ p # None /\ cache'[j][u].parent = table[p].parent
              \/ cache[j][u] # None /\ cache'[j][u] = cache[j][u]
  <2>1. CASE j # i
    BY <1>9, <1>11, <2>1
  <2>2. CASE j = i /\ u \notin {t, p}
    BY <1>5, <1>9, <1>11, <2>2
  <2>3. CASE j = i /\ u = t
    BY <1>4, <1>9, <2>3
  <2>4. CASE j = i /\ u = p
    <3>1. p # None
      BY <2>4, Names DEF TxnIds
    <3>2. QED
      BY <1>6, <1>9, <2>4, <3>1
  <2>5. QED
    BY <2>1, <2>2, <2>3, <2>4
<1>12. QED
  BY <1>10, <1>11 DEF Knows

(* A commit that adds a record to the objects of commit q.                 *)
Recorded(r, q, t, p, objs) ==
    /\ \A x \in Paths \ {t} : objs[x] = AtCommit(r, q)[x]
    /\ objs[t] \in {AtCommit(r, q)[t], [parent |-> p]}

LEMMA RecordedSame ==
    ASSUME NEW r, NEW q, NEW t \in TxnIds, NEW p, NEW objs, Recorded(r, q, t, p, objs)
    PROVE  \A x \in Payloads \cup Indexes : objs[x] = AtCommit(r, q)[x]
BY Names, IndexFacts DEF Recorded

LEMMA RecordedSound ==
    ASSUME NEW r, RepoOK(r), G!GraphOK(r), NEW s, NEW q \in CommitIds(r), NEW t \in TxnIds,
           NEW p, NEW objs, Grown(r, s, t, {q}, objs), Recorded(r, q, t, p, objs), Sound(r, q)
    PROVE  Sound(s, NewId(r))
<1>1. \A x \in Payloads \cup Indexes : objs[x] = AtCommit(r, q)[x]
  BY RecordedSame
<1>2. /\ \A a \in Payloads : AtCommit(r, q)[a] \in TxnIds => objs[a] \in TxnIds
      /\ \A a \in Payloads : \A x \in Safe(a) :
            AtCommit(r, q)[x] \in RowSet(a) => objs[x] \in RowSet(a)
      /\ \A a \in Payloads : \A x \in Safe(a) :
            objs[a] \in TxnIds => AtCommit(r, q)[a] \in TxnIds \/ objs[x] \in RowSet(a)
  BY <1>1 DEF Safe
<1>3. QED
  BY <1>2, SoundOne

(* The two commits of an implicit transaction.                             *)
LEMMA ImplicitStore ==
    ASSUME Base, NEW th \in Threads, NEW a \in Payloads, ImplicitWrite(th, a), Commits,
           NEW q, q = repo.head[Main], NEW n, n = repo'.head[th], UnbornSame
    PROVE  /\ CalmStore(th) /\ BranchExists(repo', th)
           /\ n \in CommitIds(repo') /\ q \in CommitIds(repo)
           /\ \A x \in Branches \ {th} : repo'.head[x] = repo.head[x]
           /\ \A c \in CommitIds(repo') \ CommitIds(repo) : Sound(repo', c)
           /\ \A K : th \notin K /\ Private(repo, q, K) => Private(repo', n, K)
<1>1. PICK u : /\ u = WithTxnMeta(CreateBranch(repo, th, q), th, [parent |-> None])
               /\ repo' = Commit(Staged(u, th, th, a), th)
  BY DEF ImplicitWrite, GetBranchHead
<1>2. /\ RepoOK(repo) /\ G!GraphOK(repo) /\ th \in TxnIds /\ th \in Branches
      /\ th \notin Txns /\ th # Main /\ q \in CommitIds(repo) /\ Sound(repo, q)
      /\ ObjectsFine(AtCommit(repo, q))
  BY Names, RepoShape DEF Base, Typed, Commits, StoreFine
<1>3. PICK one : GrownAt(repo, u, th, {q}, one) /\ Recorded(repo, q, th, None, one)
  BY <1>1, <1>2, RecordGrown DEF Recorded
<1> DEFINE m == NewId(repo)
<1>4. /\ G!Extends(repo, u) /\ G!GraphOK(u) /\ RepoOK(u) /\ m \in CommitIds(u)
      /\ CommitIds(u) = CommitIds(repo) \cup {m}
      /\ Grown(repo, u, th, {q}, one) /\ u.head[th] = m /\ u.staging[th] = NoStaging
      /\ AtCommit(u, m) = one
  BY <1>2, <1>3, GrownGraph DEF GrownAt, Grown
<1>5. PICK two : GrownAt(u, repo', th, {m}, two) /\ Written(one, two, th, a)
  <2>1. PICK x : x = u.head[th]
    OBVIOUS
  <2>2. \E two : GrownAt(u, repo', th, {x}, two) /\ Written(AtCommit(u, x), two, th, a)
    BY <1>1, <1>2, <1>4, <2>1, WriteGrown
  <2>3. QED
    BY <1>4, <2>1, <2>2
<1> HIDE DEF m
<1>6. /\ G!Extends(u, repo') /\ G!GraphOK(repo') /\ RepoOK(repo') /\ n = NewId(u)
      /\ n \in CommitIds(repo') /\ CommitIds(repo') = CommitIds(u) \cup {n}
      /\ Grown(u, repo', th, {m}, two) /\ repo'.staging[th] = NoStaging
      /\ AtCommit(repo', n) = two
  BY <1>4, <1>5, GrownGraph DEF GrownAt, Grown
<1>7. G!Extends(repo, repo')
  BY <1>4, <1>6 DEF G!Extends
<1>8. ObjectsFine(one)
  <2>1. [parent |-> None] \in StoredRecords
    BY DEF StoredRecords
  <2>2. [parent |-> None] \in ValuesAt(th)
    BY <1>2, <2>1, Names, IndexFacts DEF ValuesAt
  <2>3. QED
    BY <1>2, <1>3, <2>2 DEF ObjectsFine, Recorded
<1>9. /\ ObjectsFine(two) /\ two[a] = th
      /\ \A y \in Payloads \ {a} : two[y] = one[y]
      /\ \A x \in Indexes, y \in Payloads : two[x] \in RowSet(y) <=> y = a \/ one[x] \in RowSet(y)
  BY <1>2, <1>5, <1>8, WrittenFine
<1>10. Sound(u, m)
  BY <1>2, <1>3, <1>4, RecordedSound DEF m
<1>11. Sound(repo', n) /\ Sound(repo', m)
  <2>1. Sound(repo', n)
    BY <1>2, <1>4, <1>6, <1>9, <1>10, WrittenSound
  <2>2. QED
    BY <1>4, <1>6, <1>10, <2>1, OldSound
<1>12. \A x \in Branches \ {th} :
            repo'.head[x] = repo.head[x] /\ repo'.staging[x] = repo.staging[x]
  BY <1>3, <1>5 DEF GrownAt, Kept
<1>13. \A x \in Payloads \cup Indexes : one[x] = AtCommit(repo, q)[x]
  BY <1>2, <1>3, RecordedSame
<1>14. ASSUME NEW K, th \notin K, Private(repo, q, K) PROVE Private(repo', n, K)
  <2>1. \A y \in Payloads : one[y] \notin K
    BY <1>2, <1>13, <1>14, AncestorFacts DEF Private
  <2>2. Private(u, m, K)
    BY <1>2, <1>4, <1>14, <2>1, OneParent DEF m
  <2>3. \A y \in Payloads : two[y] \notin K
    BY <1>9, <1>14, <2>1
  <2>4. QED
    BY <1>4, <1>6, <2>2, <2>3, OneParent
<1>15. StoreFine'
  <2>1. \A c \in CommitIds(repo) : AtCommit(repo', c) = AtCommit(repo, c)
    BY <1>7, OldAncestors
  <2>2. AtCommit(repo', m) = one
    BY <1>4, <1>6, OldAncestors
  <2>3. \A c \in CommitIds(repo') : ObjectsFine(AtCommit(repo', c))
    BY <1>4, <1>6, <1>8, <1>9, <2>1, <2>2 DEF Base, StoreFine
  <2>4. \A x \in Branches : StagingFine(repo'.staging[x])
    BY <1>6, <1>12, NoStagingFine DEF Base, StoreFine
  <2>5. \A p : ValuesAt(p)' = ValuesAt(p) /\ StagedAt(p)' = StagedAt(p)
    BY ValuesSame DEF UnbornSame
  <2>6. \A x \in Branches : StagesRows(x)
    BY <1>6, <1>12, IndexFacts DEF StagesRows, NoStaging
  <2>7. \A x \in Branches : RowsStaged(repo, x)'
    BY <1>6, <1>7, <2>6, RowsStay DEF UnbornSame
  <2>8. QED
    BY <2>3, <2>4, <2>5, <2>7 DEF StoreFine, ObjectsFine, StagingFine
<1>16. CalmStore(th) /\ BranchExists(repo', th)
  <2>1. BranchExists(repo', th)
    BY <1>2, <1>6, RepoShape
  <2>2. \A x \in Branches \ {th} : BranchExists(repo', x) <=> BranchExists(repo, x)
    BY <1>12 DEF BranchExists
  <2>3. QED
    BY <1>2, <1>6, <1>7, <1>12, <1>15, <2>1, <2>2, Names DEF CalmStore, Base, Typed
<1>17. \A c \in CommitIds(repo') \ CommitIds(repo) : Sound(repo', c)
  BY <1>4, <1>6, <1>11
<1>18. QED
  BY <1>2, <1>6, <1>9, <1>12, <1>13, <1>14, <1>16, <1>17

LEMMA ImplicitWriteHist ==
    ASSUME Hist, NEW th \in Threads, NEW a \in Payloads, ImplicitWrite(th, a)
    PROVE  Hist' /\ G!Extends(repo, repo')
<1> DEFINE i == Home[th]
           q == repo.head[Main]
           n == repo'.head[th]
           o == [CommitOf(th, [parent |-> None, children |-> {}]) EXCEPT !.pc = "commit"]
<1>1. /\ op[th] = Idle /\ op' = [op EXCEPT ![th] = o]
      /\ cache' = [cache EXCEPT ![i] = Entered(cache[i], th, None)]
      /\ UNCHANGED <<lock, snaps, outcome, parent, acked, before, merges, result, lostRows>>
  BY HomeShape DEF ImplicitWrite, CanCall, history, Hist, Base, Typed, CacheOK
<1>2. /\ Base /\ Commits /\ UnbornSame /\ i \in Instances /\ th \in TxnIds /\ th \in Branches
      /\ th \notin Txns /\ th # Main /\ BranchExists(repo, Main) /\ None # th
  BY <1>1, HomeShape, Names DEF Hist, UnbornSame, Base, Typed
<1>3. /\ CalmStore(th) /\ BranchExists(repo', th)
      /\ n \in CommitIds(repo') /\ q \in CommitIds(repo)
      /\ \A x \in Branches \ {th} : repo'.head[x] = repo.head[x]
      /\ \A c \in CommitIds(repo') \ CommitIds(repo) : Sound(repo', c)
      /\ \A K : th \notin K /\ Private(repo, q, K) => Private(repo', n, K)
  BY <1>2, ImplicitStore
<1>4. G!Extends(repo, repo')
  BY <1>3 DEF CalmStore
<1> HIDE DEF i, q, n
<1>5. CalmTxns
  <2>1. \A t \in Txns : outcome[t] = "open" => BranchExists(repo', t)
    BY <1>2, <1>3, Names DEF Base, OpenFine, BranchExists
  <2>2. QED
    BY <1>1, <1>2, <1>4, <2>1, TxnsSame
<1>6. CacheFine'
  <2>1. CacheOK(cache) /\ cache[i] \in [TxnIds -> CachedRecords \cup {None}]
    BY <1>2 DEF Base, CacheFine, CacheOK
  <2>2. /\ CacheOK(cache')
        /\ \A j \in Instances, u \in TxnIds : cache'[j][u] # None =>
              \/ j = i /\ u = th /\ cache'[j][u].parent = None
              \/ cache[j][u] # None /\ cache'[j][u] = cache[j][u]
    <3>1. PICK p \in Txns \cup {None}, table \in {cache[i]} : table = cache[i] /\ p = None
      OBVIOUS
    <3>2. Enters(i, th, p, table)
      BY <1>1, <1>2, <2>1, <3>1 DEF Enters
    <3>3. Knows(i, th, p, table)
      BY <1>2, <2>1, <3>2, CacheEntered
    <3>4. QED
      BY <3>1, <3>3 DEF Knows
  <2>3. \A j \in Instances, u \in Txns : cache'[j][u] # None =>
            cache[j][u] # None /\ cache'[j][u] = cache[j][u]
    BY <1>2, <2>2, Names
  <2>4. QED
    BY <1>1, <1>2, <2>2, <2>3 DEF Base, CacheFine
<1>7. /\ o \in CommitOps /\ o.pc = "commit" /\ o.txn = th /\ o.rec.parent = None
  BY <1>2 DEF CommitOf, CommitOps, CommitPcs, NoBranch, CachedRecords
<1> HIDE DEF o
<1>8. op' \in [Threads -> Ops] /\ op'[th] = o /\ \A x \in Threads \ {th} : op'[x] = op[x]
  BY <1>1, <1>2, <1>7, OpStep DEF Ops, Base
<1>9. CalmOps(th)
  <2>1. OpFine(th, op[th])'
    BY <1>2, <1>7, <1>8 DEF OpFine, WriteFine, CommitFine, BranchFine, CommitPcs
  <2>2. QED
    BY <1>1, <1>2, <1>8, <2>1 DEF CalmOps, Base, Typed
<1>10. Base' /\ parent' = parent
  BY <1>1, <1>2, <1>3, <1>5, <1>6, <1>9, CalmBase DEF Calm
<1>11. Steady({th})
  <2>1. ASSUME NEW x \in Branches \ {th}
        PROVE  repo'.head[x] = repo.head[x] /\ Owner(x)' = Owner(x) /\ Upper(x)' = Upper(x)
    BY <1>1, <1>3, <1>8 DEF Owner, Upper
  <2>2. QED
    BY <1>1, <2>1 DEF Steady
<1>12. Owner(th)' = th /\ Upper(th)' = Main /\ Owner(Main) = Main
  BY <1>2, <1>7, <1>8, Names DEF Owner, Upper
<1>13. NewHead(th)
  <2>1. \A t \in Txns : th \notin Kin(t) /\ Main \notin Kin(t)
    BY <1>2, KinFacts, Names
  <2>2. ASSUME MainSnapshots, NEW t \in Txns, merges[t] = 0
        PROVE  Private(repo', n, Kin(t))
    <3>1. Private(repo, q, Kin(t))
      BY <1>2, <1>12, <2>1, <2>2, Names DEF Hist, Secluded, KinHidden, q
    <3>2. QED
      BY <1>3, <2>1, <3>1
  <2>3. th \notin Txns \cup {Main}
    BY <1>2
  <2>4. NewKin(th) /\ (MainSnapshots => NewHidden(th))
    BY <1>1, <1>12, <2>1, <2>2 DEF NewKin, NewHidden, n
  <2>5. QED
    BY <2>3, <2>4 DEF NewHead
<1>14. PendingStep
  BY <1>1, <1>7, <1>8 DEF PendingStep, Pending
<1>15. SnapsStep /\ MergesStep
  BY <1>1 DEF SnapsStep, MergesStep
<1>16. lostRows \subseteq lostRows'
  BY <1>1
<1>17. QED
  BY <1>3, <1>4, <1>10, <1>11, <1>13, <1>14, <1>15, <1>16, StepHist

(* Transaction t is created at commit c, as a child of p if there is one.  *)
CreatedFor(t, p) ==
    /\ outcome[t] = "unborn" /\ p # t
    /\ outcome' = [outcome EXCEPT ![t] = "open"] /\ parent' = [parent EXCEPT ![t] = p]
    /\ UNCHANGED <<lock, op, snaps, acked, before, merges, result, lostRows>>

CreatedFrom(t, p, c) ==
    /\ p # None => BranchExists(repo, p) /\ c = repo.head[p]
    /\ p = None => c \in snaps \cup {repo.head[Main]}
    /\ repo' = WithTxnMeta(CreateBranch(repo, t, c), t, [parent |-> p])

CachedThen(t, p) ==
    /\ CacheOK(cache')
    /\ \A j \in Instances, u \in Txns : cache'[j][u] # None =>
          \/ u = t /\ cache'[j][u].parent = p
          \/ outcome[u] # "unborn" /\ cache'[j][u].parent = parent[u]

LEMMA EntersCached ==
    ASSUME Base, NEW i \in Instances, NEW t \in Txns, NEW p \in Txns \cup {None}, NEW table,
           Enters(i, t, p, table),
           p # None => outcome[p] # "unborn" /\ table[p].parent = parent[p]
    PROVE  CachedThen(t, p)
<1>1. CacheOK(cache) /\ t \in TxnIds /\ Txns \subseteq TxnIds
  BY Names DEF Base, CacheFine
<1>2. Knows(i, t, p, table)
  BY <1>1, CacheEntered
<1>3. QED
  BY <1>1, <1>2 DEF Knows, CachedThen, Base, CacheFine

LEMMA CreateShape ==
    ASSUME Base, NEW th \in Threads, NEW t \in Txns, CreateTransaction(th, t)
    PROVE  \E p \in Txns \cup {None}, c \in CommitIds(repo) :
              CreatedFor(t, p) /\ CreatedFrom(t, p, c) /\ CachedThen(t, p)
<1> DEFINE i == Home[th]
<1>1. /\ outcome[t] = "unborn" /\ outcome' = [outcome EXCEPT ![t] = "open"]
      /\ UNCHANGED <<lock, op, snaps, acked, before, merges, result, lostRows>>
  BY DEF CreateTransaction
<1>2. /\ i \in Instances /\ ~BranchExists(repo, t) /\ t \in TxnIds /\ t \notin Threads
      /\ CacheOK(cache) /\ cache[i] \in [TxnIds -> CachedRecords \cup {None}]
      /\ None \notin Txns /\ Txns \subseteq TxnIds
  BY <1>1, HomeShape, Names DEF Base, UnbornFine, CacheFine, CacheOK
<1>3. \A b \in Txns \cup {Main} : BranchExists(repo, b) => repo.head[b] \in CommitIds(repo)
  BY RepoShape, Names DEF Base, Typed
<1> HIDE DEF i
<1>4. ASSUME cache' = [cache EXCEPT ![i] = Entered(cache[i], t, None)],
             parent' = [parent EXCEPT ![t] = None]
      PROVE  CreatedFor(t, None) /\ CachedThen(t, None)
  <2>1. PICK p \in Txns \cup {None}, table \in {cache[i]} : p = None
    OBVIOUS
  <2>2. Enters(i, t, p, table)
    BY <1>2, <1>4, <2>1 DEF Enters
  <2>3. CachedThen(t, p)
    BY <1>2, <2>1, <2>2, EntersCached
  <2>4. QED
    BY <1>1, <1>2, <1>4, <2>1, <2>3 DEF CreatedFor
<1>5. ASSUME NEW c \in CommitIds(repo) \cap (snaps \cup {repo.head[Main]}),
             repo' = WithTxnMeta(CreateBranch(repo, t, c), t, [parent |-> None]),
             cache' = [cache EXCEPT ![i] = Entered(cache[i], t, None)],
             parent' = [parent EXCEPT ![t] = None]
      PROVE  \E p \in Txns \cup {None}, x \in CommitIds(repo) :
                CreatedFor(t, p) /\ CreatedFrom(t, p, x) /\ CachedThen(t, p)
  <2>1. CreatedFrom(t, None, c)
    BY <1>5 DEF CreatedFrom
  <2>2. QED
    BY <1>4, <1>5, <2>1
<1>6. ASSUME NEW p \in Txns, BranchExists(repo, p), CanResolve(i, p),
             repo' = WithTxnMeta(CreateBranch(repo, t, repo.head[p]), t, [parent |-> p]),
             cache' = [cache EXCEPT ![i] =
                         Entered([cache[i] EXCEPT ![p] = Resolved(i, p)], t, p)],
             parent' = [parent EXCEPT ![t] = p]
      PROVE  \E q \in Txns \cup {None}, x \in CommitIds(repo) :
                CreatedFor(t, q) /\ CreatedFrom(t, q, x) /\ CachedThen(t, q)
  <2>1. p # t /\ p \in TxnIds /\ p # None
    BY <1>2, <1>6
  <2>2. Resolved(i, p) \in CachedRecords /\ Resolved(i, p).parent = parent[p]
        /\ outcome[p] # "unborn"
    BY <1>2, <1>6, ResolvedFine
  <2>3. PICK table : table = [cache[i] EXCEPT ![p] = Resolved(i, p)]
    OBVIOUS
  <2>4. /\ table \in [TxnIds -> CachedRecords \cup {None}] /\ table[p] = Resolved(i, p)
        /\ \A u \in TxnIds \ {p} : table[u] = cache[i][u]
    BY <1>2, <2>1, <2>2, <2>3
  <2>5. Enters(i, t, p, table)
    BY <1>2, <1>6, <2>1, <2>2, <2>3, <2>4, Names DEF Enters
  <2>6. CachedThen(t, p)
    BY <1>2, <2>2, <2>4, <2>5, EntersCached
  <2>7. CreatedFor(t, p) /\ CreatedFrom(t, p, repo.head[p])
    BY <1>1, <1>6, <2>1 DEF CreatedFor, CreatedFrom
  <2>8. QED
    BY <1>3, <1>6, <2>6, <2>7
<1>7. \/ /\ repo' = WithTxnMeta(CreateBranch(repo, t, repo.head[Main]), t, [parent |-> None])
         /\ cache' = [cache EXCEPT ![i] = Entered(cache[i], t, None)]
         /\ parent' = [parent EXCEPT ![t] = None]
      \/ \E c \in snaps :
            /\ CommitExists(repo, c)
            /\ repo' = WithTxnMeta(CreateBranch(repo, t, c), t, [parent |-> None])
            /\ cache' = [cache EXCEPT ![i] = Entered(cache[i], t, None)]
            /\ parent' = [parent EXCEPT ![t] = None]
      \/ \E p \in Txns :
            /\ BranchExists(repo, p) /\ CanResolve(i, p)
            /\ repo' = WithTxnMeta(CreateBranch(repo, t, repo.head[p]), t, [parent |-> p])
            /\ cache' = [cache EXCEPT ![i] =
                           Entered([cache[i] EXCEPT ![p] = Resolved(i, p)], t, p)]
            /\ parent' = [parent EXCEPT ![t] = p]
  BY DEF CreateTransaction, GetBranchHead, i
<1>8. BranchExists(repo, Main) /\ repo.head[Main] \in CommitIds(repo)
  BY <1>3 DEF Base, Typed
<1>9. QED
  BY <1>5, <1>6, <1>7, <1>8 DEF CommitExists

(* What is below a transaction once t was created as a child of p.         *)
KinOf(par, t) ==
    {u \in Txns : \A S \in SUBSET Txns :
        t \in S /\ (\A c \in Txns : par[c] \in S => c \in S) => u \in S}

LEMMA KinCreated ==
    ASSUME Base, NEW t \in Txns, NEW p \in Txns \cup {None}, CreatedFor(t, p), NEW u \in Txns
    PROVE  /\ Kin(u) \subseteq Kin(u)' /\ Kin(u)' \subseteq Kin(u) \cup {t}
           /\ t \in Kin(u)' <=> u = t \/ p \in Kin(u)
<1> DEFINE old == Kin(u)
           add == {x \in {t} : u = t \/ p \in old}
<1>1. /\ parent[t] = None /\ None \notin Txns /\ parent'[t] = p /\ p # t
      /\ \A c \in Txns \ {t} : parent'[c] = parent[c] /\ parent[c] # t
  BY Names DEF Base, Typed, UnbornFine, CreatedFor
<1>2. /\ u \in old /\ old \subseteq Txns
      /\ \A c \in Txns : parent[c] \in old => c \in old
      /\ \A c \in old \ {u} : parent[c] \in old
  BY KinFacts
<1>3. u # t => t \notin old
  BY <1>1, <1>2
<1>4. old = KinOf(parent, u)
  BY DEF Kin, KinOf
<1>5. PICK new : new = KinOf(parent', u)
  OBVIOUS
<1>6. Kin(u)' = new
  BY <1>5 DEF Kin, KinOf
<1> HIDE DEF old
<1>7. /\ u \in new /\ new \in SUBSET Txns
      /\ \A c \in Txns : parent'[c] \in new => c \in new
  BY <1>5 DEF KinOf
<1>8. old \subseteq new
  <2>1. \A c \in Txns : parent[c] \in new => c \in new
    BY <1>1, <1>7
  <2>2. QED
    BY <1>4, <1>7, <2>1 DEF KinOf
<1>9. new \subseteq old \cup add
  <2>1. \A c \in Txns : parent'[c] \in old \cup add => c \in old \cup add
    BY <1>1, <1>2
  <2>2. old \cup add \in SUBSET Txns /\ u \in old \cup add
    BY <1>2
  <2>3. QED
    BY <1>5, <2>1, <2>2 DEF KinOf
<1>10. u = t \/ p \in old => t \in new
  BY <1>1, <1>7, <1>8
<1>11. QED
  BY <1>3, <1>6, <1>8, <1>9, <1>10 DEF old

(* What the store is like after that: nobody has written for t.            *)
BornStore(t, c, objs) ==
    /\ Grown(repo, repo', t, {c}, objs) /\ G!Extends(repo, repo')
    /\ \A x \in Payloads \cup Indexes : objs[x] = AtCommit(repo, c)[x]
    /\ \A x \in Branches \ {t} :
          repo'.head[x] = repo.head[x] /\ repo'.staging[x] = repo.staging[x]
    /\ repo'.head[t] = NewId(repo) /\ BranchExists(repo', t)
    /\ CommitIds(repo') = CommitIds(repo) \cup {NewId(repo)}
    /\ \A x \in CommitIds(repo'), a \in Payloads : AtCommit(repo', x)[a] # t

LEMMA CreatedStore ==
    ASSUME Base, NEW t \in Txns, NEW p \in Txns \cup {None}, NEW c \in CommitIds(repo),
           CreatedFor(t, p), CreatedFrom(t, p, c)
    PROVE  \E objs : BornStore(t, c, objs) /\ Recorded(repo, c, t, p, objs)
<1>1. /\ RepoOK(repo) /\ G!GraphOK(repo) /\ t \in TxnIds /\ t \in Branches
      /\ outcome[t] = "unborn"
  BY Names DEF Base, Typed, CreatedFor
<1>2. PICK s : s = repo' /\ s = WithTxnMeta(CreateBranch(repo, t, c), t, [parent |-> p])
  BY DEF CreatedFrom
<1>3. PICK objs : GrownAt(repo, s, t, {c}, objs) /\ Recorded(repo, c, t, p, objs)
  BY <1>1, <1>2, RecordGrown DEF Recorded
<1>4. Grown(repo, s, t, {c}, objs) /\ RepoOK(s)
  BY <1>3 DEF GrownAt, Grown
<1>5. G!Extends(repo, s) /\ NewId(repo) \in CommitIds(s)
  BY <1>1, <1>4, GrownGraph
<1>6. /\ s.head[t] = NewId(repo) /\ CommitIds(s) = CommitIds(repo) \cup {NewId(repo)}
      /\ AtCommit(s, NewId(repo)) = objs
  BY <1>4 DEF Grown
<1>7. BranchExists(s, t)
  BY <1>1, <1>4, <1>5, <1>6, RepoShape
<1>8. \A x \in Payloads \cup Indexes : objs[x] = AtCommit(repo, c)[x]
  BY <1>1, <1>3, RecordedSame
<1>9. \A x \in CommitIds(repo), a \in Payloads : AtCommit(repo, x)[a] # t
  BY <1>1, Names DEF Base, StoreFine, ObjectsFine, ValuesAt
<1>10. \A x \in CommitIds(repo) : AtCommit(s, x) = AtCommit(repo, x)
  BY <1>5, OldAncestors
<1>11. \A x \in CommitIds(s), a \in Payloads : AtCommit(s, x)[a] # t
  BY <1>6, <1>8, <1>9, <1>10
<1>12. \A x \in Branches \ {t} : s.head[x] = repo.head[x] /\ s.staging[x] = repo.staging[x]
  BY <1>3 DEF GrownAt, Kept
<1>13. QED
  BY <1>2, <1>3, <1>4, <1>5, <1>6, <1>7, <1>8, <1>11, <1>12 DEF BornStore

LEMMA CreatedBase ==
    ASSUME Base, NEW t \in Txns, NEW p \in Txns \cup {None}, NEW c \in CommitIds(repo),
           CreatedFor(t, p), CreatedFrom(t, p, c), CachedThen(t, p), NEW objs,
           BornStore(t, c, objs), Recorded(repo, c, t, p, objs)
    PROVE  Base'
<1>1. /\ outcome[t] = "unborn" /\ outcome'[t] = "open" /\ parent'[t] = p /\ p # t
      /\ \A u \in Txns \ {t} : outcome'[u] = outcome[u] /\ parent'[u] = parent[u]
      /\ outcome' \in [Txns -> {"unborn", "open", "committed", "rolledback"}]
      /\ parent' \in [Txns -> Txns \cup {None}]
      /\ UNCHANGED <<lock, op, snaps, acked, before, merges, result, lostRows>>
  BY DEF CreatedFor, Base, Typed
<1>2. /\ RepoOK(repo') /\ G!GraphOK(repo') /\ G!Extends(repo, repo') /\ t \in Branches
      /\ t \notin Threads /\ t # Main /\ Main \in Branches /\ None \notin Txns
  BY Names DEF BornStore, Grown, G!Extends
<1>3. \A x \in Branches \ {t} :
            repo'.head[x] = repo.head[x] /\ (BranchExists(repo', x) <=> BranchExists(repo, x))
  BY DEF BornStore, BranchExists
<1>4. Typed'
  BY <1>1, <1>2, <1>3 DEF Base, Typed, CachedThen
<1>5. \A x : ValuesAt(x) \subseteq ValuesAt(x)' /\ StagedAt(x) \subseteq StagedAt(x)'
  <2>1. ASSUME NEW x PROVE ValuesAt(x) \subseteq ValuesAt(x)'
    <3>1. CASE x = t
      BY <1>1, <3>1, Names, IndexFacts DEF ValuesAt
    <3>2. CASE x # t
      BY <1>1, <3>2 DEF ValuesAt
    <3>3. QED
      BY <3>1, <3>2
  <2>2. QED
    BY <2>1 DEF StagedAt
<1>6. StoreFine'
  <2>1. [parent |-> p] \in ValuesAt(t)'
    BY <1>1, Names, IndexFacts DEF ValuesAt
  <2>2. \A x \in Paths : AtCommit(repo, c)[x] \in ValuesAt(x)'
    BY <1>5 DEF Base, StoreFine, ObjectsFine
  <2>3. \A x \in Paths : objs[x] \in ValuesAt(x)'
    BY <2>1, <2>2 DEF Recorded
  <2>4. ASSUME NEW y \in CommitIds(repo'), NEW x \in Paths
        PROVE  AtCommit(repo', y)[x] \in ValuesAt(x)'
    <3>1. CASE y \in CommitIds(repo)
      <4>1. AtCommit(repo', y) = AtCommit(repo, y)
        BY <1>2, <3>1, OldAncestors
      <4>2. QED
        BY <1>5, <3>1, <4>1 DEF Base, StoreFine, ObjectsFine
    <3>2. CASE y = NewId(repo)
      BY <2>3, <3>2 DEF BornStore, Grown
    <3>3. QED
      BY <3>1, <3>2 DEF BornStore
  <2>5. ASSUME NEW b \in Branches, NEW x \in Paths
        PROVE  repo'.staging[b][x] \in StagedAt(x)'
    <3>1. CASE b = t
      BY <3>1 DEF BornStore, Grown, NoStaging, StagedAt
    <3>2. CASE b # t
      <4>1. repo'.staging[b] = repo.staging[b]
        BY <3>2 DEF BornStore
      <4>2. QED
        BY <1>5, <4>1 DEF Base, StoreFine, StagingFine
    <3>3. QED
      BY <3>1, <3>2
  <2>6. ASSUME NEW b \in Branches PROVE RowsStaged(repo, b)'
    <3>1. repo'.staging[t] = NoStaging
      BY DEF BornStore, Grown
    <3>2. StagesRows(b)
      BY <3>1, IndexFacts DEF StagesRows, BornStore, NoStaging
    <3>3. QED
      BY <1>1, <1>2, <3>2, RowsStay
  <2>7. QED
    BY <2>4, <2>5, <2>6 DEF StoreFine, ObjectsFine, StagingFine
<1>7. OpsFine'
  <2>1. ASSUME NEW x \in Threads PROVE OpFine(x, op[x])'
    <3>1. OpFine(x, op[x]) /\ op[x] \in Ops /\ op' = op /\ x \in Branches \ {t}
      BY <1>1, <1>2, Names DEF Base, OpsFine, Typed
    <3>2. /\ repo'.head[x] = repo.head[x]
          /\ (BranchExists(repo', x) <=> BranchExists(repo, x))
      BY <1>3, <3>1
    <3>3. BranchExists(repo, x) =>
            AtCommit(repo', repo.head[x]) = AtCommit(repo, repo.head[x])
      BY <1>2, <3>1, RepoShape, OldAncestors DEF Base, Typed
    <3>4. WriteFine(x, op[x])'
      <4>1. op[x].pc \in {"write", "written"} => op[x].txn \in Txns \ {t}
        BY <1>1, <3>1, OpKinds DEF OpFine, WriteFine, WriteOps
      <4>2. QED
        BY <1>1, <3>1, <3>2, <3>3, <4>1 DEF OpFine, WriteFine, HeadAt
    <3>5. CommitFine(x, op[x])'
      <4>1. op[x].pc \in CommitPcs /\ op[x].txn \in Txns => op[x].txn \in Txns \ {t}
        BY <1>1, <3>1 DEF OpFine, CommitFine
      <4>2. CommitIds(repo) \subseteq CommitIds(repo')
        BY DEF BornStore
      <4>3. QED
        BY <1>1, <3>1, <4>1, <4>2 DEF OpFine, CommitFine, ResolvesFine
    <3>6. BranchFine(x, op[x])'
      BY <3>1, <3>2 DEF OpFine, BranchFine
    <3>7. QED
      BY <3>4, <3>5, <3>6 DEF OpFine
  <2>2. QED
    BY <2>1 DEF OpsFine
<1>8. UnbornFine'
  <2>1. ASSUME NEW u \in Txns, outcome'[u] = "unborn"
        PROVE  /\ ~BranchExists(repo', u) /\ parent'[u] = None /\ merges'[u] = 0
               /\ \A x \in Txns : parent'[x] # u
               /\ \A a : <<u, a>> \notin acked'
    <3>1. u # t /\ outcome[u] = "unborn" /\ u \in Branches
      BY <1>1, <2>1, Names
    <3>2. /\ ~BranchExists(repo, u) /\ parent[u] = None /\ merges[u] = 0
          /\ \A x \in Txns : parent[x] # u
          /\ \A a : <<u, a>> \notin acked
      BY <3>1 DEF Base, UnbornFine
    <3>3. p # u
      BY <1>2, <3>2 DEF CreatedFrom
    <3>4. QED
      BY <1>1, <1>3, <3>1, <3>2, <3>3
  <2>2. QED
    BY <2>1 DEF UnbornFine
<1>9. CacheFine'
  BY <1>1 DEF CachedThen, CacheFine
<1>10. OpenFine'
  <2>1. CommitIds(repo) \subseteq CommitIds(repo') /\ BranchExists(repo', t) /\ merges[t] = 0
    BY <1>1 DEF BornStore, Base, UnbornFine
  <2>2. \A u \in Txns \ {t} : BranchExists(repo, u) => BranchExists(repo', u)
    BY <1>3, Names
  <2>3. QED
    BY <1>1, <2>1, <2>2 DEF Base, OpenFine
<1>11. AckedFine'
  BY <1>1 DEF Base, AckedFine
<1>12. QED
  BY <1>2, <1>4, <1>6, <1>7, <1>8, <1>9, <1>10, <1>11 DEF Base

(* What the branches show is the same with t among those below u.          *)
LEMMA KinAlike ==
    ASSUME NEW r, NEW t, NEW y, NEW K, NEW L, K \subseteq L, L \subseteq K \cup {t},
           \A x \in CommitIds(r), a \in Payloads : AtCommit(r, x)[a] # t,
           Ancestors(r, y) \subseteq CommitIds(r), y \in CommitIds(r)
    PROVE  /\ Persistent(r, y, Payloads, K) => Persistent(r, y, Payloads, L)
           /\ Private(r, y, K) => Private(r, y, L)
<1>1. \A x \in Ancestors(r, y) \cup {y}, a \in Payloads :
            AtCommit(r, x)[a] \in K <=> AtCommit(r, x)[a] \in L
  OBVIOUS
<1>2. QED
  BY <1>1 DEF Persistent, Private

(* The branches other than that of t.                                      *)
LEMMA CreatedOthers ==
    ASSUME Hist, NEW t \in Txns, NEW p \in Txns \cup {None}, NEW c, CreatedFor(t, p),
           NEW objs, BornStore(t, c, objs), NEW b \in Branches \ {t}, BranchExists(repo', b)
    PROVE  /\ BranchExists(repo, b) /\ repo'.head[b] = repo.head[b]
           /\ repo.head[b] \in CommitIds(repo)
           /\ Owner(b)' = Owner(b) /\ Owner(b) # t /\ Upper(b)' = Upper(b) /\ Upper(b) # t
<1>1. /\ outcome[t] = "unborn" /\ op' = op
      /\ \A u \in Txns \ {t} : parent'[u] = parent[u] /\ parent[u] # t
  BY DEF CreatedFor, Hist, Base, Typed, UnbornFine
<1>2. repo'.head[b] = repo.head[b] /\ BranchExists(repo, b) /\ repo.head[b] \in CommitIds(repo)
  BY RepoShape DEF BornStore, BranchExists, Hist, Base, Typed
<1>3. b \in Threads /\ op[b].pc = "write" => op[b].txn # t
  BY <1>1 DEF Hist, Base, OpsFine, OpFine, WriteFine
<1>4. t # Main
  BY Names
<1>5. QED
  BY <1>1, <1>2, <1>3, <1>4 DEF Owner, Upper

LEMMA CreatedKin ==
    ASSUME Hist, Base', NEW t \in Txns, NEW p \in Txns \cup {None}, NEW c \in CommitIds(repo),
           CreatedFor(t, p), CreatedFrom(t, p, c), NEW objs, BornStore(t, c, objs)
    PROVE  KinStays' /\ (MainSnapshots => KinHidden')
<1> DEFINE n == NewId(repo)
<1>1. /\ RepoOK(repo) /\ G!GraphOK(repo) /\ G!GraphOK(repo') /\ G!Extends(repo, repo')
      /\ Grown(repo, repo', t, {c}, objs) /\ repo'.head[t] = n /\ n \in CommitIds(repo')
      /\ \A x \in CommitIds(repo'), a \in Payloads : AtCommit(repo', x)[a] # t
      /\ \A a \in Payloads : objs[a] = AtCommit(repo, c)[a]
      /\ UNCHANGED <<op, merges>> /\ c \in Ancestors(repo, c)
  BY AncestorFacts DEF Hist, Base, Typed, BornStore, CreatedFor
<1>2. \A x \in CommitIds(repo') : Ancestors(repo', x) \subseteq CommitIds(repo')
  BY <1>1, AncestorFacts
<1>3. Owner(t)' = t /\ Owner(t) = t /\ t \in Branches
  BY Names DEF Owner
<1> HIDE DEF n
<1>4. ASSUME NEW y \in CommitIds(repo'), NEW u \in Txns
      PROVE  /\ Persistent(repo', y, Payloads, Kin(u)) => Persistent(repo', y, Payloads, Kin(u)')
             /\ Private(repo', y, Kin(u)) => Private(repo', y, Kin(u)')
  <2>1. PICK K, L : K = Kin(u) /\ L = Kin(u)'
    OBVIOUS
  <2>2. K \subseteq L /\ L \subseteq K \cup {t}
    BY <2>1, KinCreated DEF Hist
  <2>3. /\ Persistent(repo', y, Payloads, K) => Persistent(repo', y, Payloads, L)
        /\ Private(repo', y, K) => Private(repo', y, L)
    BY <1>1, <1>2, <2>2, KinAlike
  <2>4. QED
    BY <2>1, <2>3
<1>5. ASSUME NEW b \in Branches, NEW u \in Txns, BranchExists(repo', b), Owner(b)' \in Kin(u)'
      PROVE  Persistent(repo', repo'.head[b], Payloads, Kin(u)')
  <2>1. CASE b # t
    <3>1. /\ BranchExists(repo, b) /\ repo'.head[b] = repo.head[b]
          /\ repo.head[b] \in CommitIds(repo) /\ Owner(b)' = Owner(b) /\ Owner(b) # t
      BY <1>5, <2>1, CreatedOthers
    <3>2. Owner(b) \in Kin(u)
      BY <1>5, <3>1, KinCreated DEF Hist
    <3>3. Persistent(repo, repo.head[b], Payloads, Kin(u))
      BY <3>1, <3>2 DEF Hist, KinStays
    <3>4. Persistent(repo', repo.head[b], Payloads, Kin(u)) /\ repo.head[b] \in CommitIds(repo')
      BY <1>1, <3>1, <3>3, OldCommits, OldAncestors
    <3>5. QED
      BY <1>4, <3>1, <3>4
  <2>2. CASE b = t /\ u # t
    <3>1. p \in Kin(u)
      BY <1>3, <1>5, <2>2, KinCreated DEF Hist
    <3>2. p \in Txns /\ p # None /\ p \in Branches /\ Owner(p) = p
      BY <3>1, KinFacts, Names DEF Owner
    <3>3. Persistent(repo, c, Payloads, Kin(u))
      BY <3>1, <3>2 DEF Hist, KinStays, CreatedFrom
    <3>4. \A a \in Payloads : AtCommit(repo, c)[a] \in Kin(u) => objs[a] \in Kin(u)
      BY <1>1
    <3>5. Persistent(repo', n, Payloads, Kin(u))
      BY <1>1, <3>3, <3>4, OneParent DEF n
    <3>6. QED
      BY <1>1, <1>4, <2>2, <3>5
  <2>3. CASE b = t /\ u = t
    <3>1. Kin(t)' \subseteq Kin(t) \cup {t}
      BY KinCreated DEF Hist
    <3>2. Kin(t) \subseteq {t}
      <4>1. {t} \in SUBSET Txns /\ \A x \in Txns : parent[x] \in {t} => x \in {t}
        BY DEF Hist, Base, UnbornFine, CreatedFor
      <4>2. QED
        BY <4>1 DEF Kin
    <3>3. Ancestors(repo', n) \subseteq CommitIds(repo')
      BY <1>1, <1>2
    <3>4. \A x \in Ancestors(repo', n), a \in Payloads : AtCommit(repo', x)[a] \notin Kin(t)'
      BY <1>1, <3>1, <3>2, <3>3
    <3>5. QED
      BY <1>1, <2>3, <3>4 DEF Persistent
  <2>4. QED
    BY <2>1, <2>2, <2>3
<1>6. ASSUME MainSnapshots, NEW b \in Branches, NEW u \in Txns, BranchExists(repo', b),
             Owner(b)' \notin Kin(u)', merges[u] = 0
      PROVE  Private(repo', repo'.head[b], Kin(u)')
  <2>1. Secluded
    BY <1>6 DEF Hist
  <2>2. CASE b # t
    <3>1. /\ BranchExists(repo, b) /\ repo'.head[b] = repo.head[b]
          /\ repo.head[b] \in CommitIds(repo) /\ Owner(b)' = Owner(b)
      BY <1>6, <2>2, CreatedOthers
    <3>2. Owner(b) \notin Kin(u)
      BY <1>6, <3>1, KinCreated DEF Hist
    <3>3. Private(repo, repo.head[b], Kin(u))
      BY <1>6, <2>1, <3>1, <3>2 DEF Secluded, KinHidden
    <3>4. Private(repo', repo.head[b], Kin(u)) /\ repo.head[b] \in CommitIds(repo')
      BY <1>1, <3>1, <3>3, OldCommits, OldAncestors
    <3>5. QED
      BY <1>4, <3>1, <3>4
  <2>3. CASE b = t
    <3>1. p \notin Kin(u) /\ Main \notin Kin(u)
      BY <1>3, <1>6, <2>3, KinCreated, KinFacts, Names DEF Hist
    <3>2. Private(repo, c, Kin(u))
      <4>1. CASE p # None
        <5>1. p \in Txns /\ p \in Branches /\ Owner(p) = p
          BY <4>1, Names DEF Owner
        <5>2. QED
          BY <1>6, <2>1, <3>1, <4>1, <5>1 DEF Secluded, KinHidden, CreatedFrom
      <4>2. CASE p = None
        <5>1. Main \in Branches /\ Owner(Main) = Main /\ BranchExists(repo, Main)
              /\ repo.head[Main] \in CommitIds(repo)
          BY Names, RepoShape DEF Owner, Hist, Base, Typed
        <5>2. Private(repo, repo.head[Main], Kin(u))
          BY <1>6, <2>1, <3>1, <5>1 DEF Secluded, KinHidden
        <5>3. c \in Ancestors(repo, repo.head[Main])
          BY <1>1, <2>1, <4>2, <5>1, AncestorFacts DEF Secluded, CreatedFrom
        <5>4. Ancestors(repo, c) \subseteq Ancestors(repo, repo.head[Main])
          BY <1>1, <5>1, <5>3, AncestorFacts
        <5>5. QED
          BY <5>2, <5>4 DEF Private
      <4>3. QED
        BY <4>1, <4>2
    <3>3. \A a \in Payloads : objs[a] \notin Kin(u)
      BY <1>1, <3>2 DEF Private
    <3>4. Private(repo', n, Kin(u))
      BY <1>1, <3>2, <3>3, OneParent DEF n
    <3>5. QED
      BY <1>1, <1>4, <2>3, <3>4
  <2>4. QED
    BY <2>2, <2>3
<1>7. QED
  BY <1>1, <1>5, <1>6 DEF KinStays, KinHidden

LEMMA CreateTransactionHist ==
    ASSUME Hist, NEW th \in Threads, NEW t \in Txns, CreateTransaction(th, t)
    PROVE  Hist' /\ G!Extends(repo, repo')
<1>1. PICK p \in Txns \cup {None}, c \in CommitIds(repo) :
            CreatedFor(t, p) /\ CreatedFrom(t, p, c) /\ CachedThen(t, p)
  BY CreateShape DEF Hist
<1>2. PICK objs : BornStore(t, c, objs) /\ Recorded(repo, c, t, p, objs)
  BY <1>1, CreatedStore DEF Hist
<1>3. Base'
  BY <1>1, <1>2, CreatedBase DEF Hist
<1>4. /\ RepoOK(repo) /\ G!GraphOK(repo) /\ G!Extends(repo, repo')
      /\ Grown(repo, repo', t, {c}, objs) /\ t \in TxnIds
      /\ CommitIds(repo') = CommitIds(repo) \cup {NewId(repo)}
  BY <1>2, Names DEF Hist, Base, Typed, BornStore
<1>5. /\ outcome[t] = "unborn" /\ parent'[t] = p /\ p # t /\ merges[t] = 0
      /\ UNCHANGED <<lock, op, snaps, acked, before, merges, result, lostRows>>
      /\ \A u \in Txns \ {t} : parent'[u] = parent[u] /\ parent[u] # t
  BY <1>1 DEF Hist, Base, UnbornFine, CreatedFor, Typed
<1>6. \A x \in CommitIds(repo) : AtCommit(repo', x) = AtCommit(repo, x)
  BY <1>4, OldAncestors
<1>7. Commits'
  <2>1. Sound(repo', NewId(repo))
    BY <1>2, <1>4, RecordedSound DEF Hist, Commits
  <2>2. QED
    BY <1>4, <1>5, <2>1, StepCommits DEF Hist
<1>8. KinStays' /\ (MainSnapshots => KinHidden')
  BY <1>1, <1>2, <1>3, CreatedKin
<1>9. \A u \in Txns : /\ Kin(u) \subseteq Kin(u)' /\ Kin(u)' \subseteq Kin(u) \cup {t}
                      /\ t \in Kin(u)' <=> u = t \/ p \in Kin(u)
  BY <1>1, KinCreated DEF Hist
<1>10. OnBranch'
  <2>1. ASSUME NEW u \in Txns, NEW a \in Payloads, Pending(u, a)', BranchExists(repo', u)
        PROVE  HeadAt(repo', u, a) \in Kin(u)'
    <3>1. Pending(u, a)
      BY <1>5, <2>1 DEF Pending
    <3>2. u # t
      BY <1>5, <3>1 DEF Pending, Hist, Base, UnbornFine, OpsFine, OpFine, WriteFine
    <3>3. /\ BranchExists(repo, u) /\ repo'.head[u] = repo.head[u]
          /\ repo.head[u] \in CommitIds(repo)
      BY <1>1, <1>2, <2>1, <3>2, CreatedOthers, Names
    <3>4. HeadAt(repo, u, a) \in Kin(u)
      BY <3>1, <3>3 DEF Hist, OnBranch
    <3>5. QED
      BY <1>6, <1>9, <3>3, <3>4 DEF HeadAt
  <2>2. QED
    BY <2>1 DEF OnBranch
<1>11. Acyclic'
  <2>1. ASSUME NEW u \in Txns PROVE parent'[u] \notin Kin(u)'
    <3>1. CASE u = t
      <4>1. Kin(t) \subseteq {t}
        <5>1. {t} \in SUBSET Txns /\ \A x \in Txns : parent[x] \in {t} => x \in {t}
          BY <1>5
        <5>2. QED
          BY <5>1 DEF Kin
      <4>2. QED
        BY <1>5, <1>9, <3>1, <4>1
    <3>2. CASE u # t
      BY <1>5, <1>9, <3>2 DEF Hist, Acyclic
    <3>3. QED
      BY <3>1, <3>2
  <2>2. QED
    BY <2>1 DEF Acyclic
<1>12. ASSUME MainSnapshots PROVE Secluded'
  <2>1. Secluded
    BY <1>12 DEF Hist
  <2>2. /\ repo'.head[Main] = repo.head[Main] /\ repo.head[Main] \in CommitIds(repo)
    BY <1>2, Names, RepoShape DEF BornStore, Hist, Base, Typed
  <2>3. ShownOnce'
    <3>1. ASSUME NEW u \in Txns, merges'[u] = 1, NEW a \in before'[u]
          PROVE  AtCommit(repo', result'[u])[a] \in Kin(u)'
      <4>1. AtCommit(repo, result[u])[a] \in Kin(u) /\ result[u] \in CommitIds(repo)
        BY <1>5, <2>1, <3>1 DEF Secluded, ShownOnce, Shows, Hist, Base, OpenFine
      <4>2. QED
        BY <1>5, <1>6, <1>9, <4>1
    <3>2. QED
      BY <3>1 DEF ShownOnce, Shows
  <2>4. snaps' \subseteq Ancestors(repo', repo'.head[Main])
    BY <1>4, <1>5, <2>1, <2>2, OldAncestors DEF Secluded
  <2>5. QED
    BY <1>8, <1>12, <2>3, <2>4 DEF Secluded
<1>13. QED
  BY <1>3, <1>4, <1>7, <1>8, <1>10, <1>11, <1>12 DEF Hist

-----------------------------------------------------------------------------
(* The invariant.                                                          *)

LEMMA InitHist == ASSUME Init PROVE Hist
<1>1. /\ repo = InitRepo /\ \A th \in Threads : op[th] = Idle /\ op[th].pc = "idle"
      /\ \A i \in Instances, t \in TxnIds : cache[i][t] = None
      /\ snaps = {} /\ acked = {}
      /\ \A t \in Txns : outcome[t] = "unborn" /\ parent[t] = None /\ merges[t] = 0
      /\ before \in [Txns -> SUBSET Payloads] /\ result \in [Txns -> Nat]
  BY DEF Init, Idle, NoBranch
<1>2. /\ RepoOK(repo) /\ BranchExists(repo, Main) /\ repo.head[Main] = Genesis
      /\ \A b \in TxnIds : ~BranchExists(repo, b)
      /\ AtCommit(repo, Genesis) = NoObjects
      /\ \A b \in Branches : repo.staging[b] = NoStaging
  BY <1>1, InitShape
<1>3. /\ CommitIds(repo) = {Genesis} /\ repo.commits[Genesis].parents = {}
  BY <1>1 DEF InitRepo, CommitIds, Genesis
<1>4. G!GraphOK(repo)
  BY <1>1, <1>3 DEF G!GraphOK, G!Parents, G!CommitIds, CommitIds, Genesis, G!Genesis, InitRepo
<1>5. Ancestors(repo, Genesis) = {Genesis}
  BY <1>3, <1>4, AncestorFacts
<1>6. \A p \in Paths : AtCommit(repo, Genesis)[p] = Absent
  BY <1>2 DEF NoObjects
<1>7. Typed
  BY InitInv DEF Inv
<1>8. StoreFine
  <2>1. \A b \in Branches : RowsStaged(repo, b)
    BY <1>2, IndexFacts DEF RowsStaged, Safe, NoStaging
  <2>2. QED
    BY <1>2, <1>3, <1>6, <2>1, NoStagingFine DEF StoreFine, ObjectsFine, ValuesAt
<1>9. OpsFine
  BY <1>1, <1>2, Names DEF OpsFine, OpFine, WriteFine, CommitFine, BranchFine, CommitPcs
<1>10. UnbornFine /\ OpenFine /\ AckedFine
  BY <1>1, <1>2, Names DEF UnbornFine, OpenFine, AckedFine
<1>11. CacheFine
  BY <1>1, <1>7, Names DEF CacheFine, Typed
<1>12. Base
  BY <1>4, <1>7, <1>8, <1>9, <1>10, <1>11 DEF Base
<1>13. /\ \A a \in Payloads : AtCommit(repo, Genesis)[a] = Absent /\ Absent \notin TxnIds
       /\ \A x \in Indexes : AtCommit(repo, Genesis)[x] = Absent
       /\ \A a : Absent \notin RowSet(a)
  BY <1>6, Names, IndexFacts DEF RowSet
<1>14. Commits
  BY <1>3, <1>5, <1>13 DEF Commits, Sound, Persistent, Safe
<1>15. \A t \in Txns : Absent \notin Kin(t)
  BY <1>13, KinFacts, Names
<1>16. \A b \in Branches : BranchExists(repo, b) => repo.head[b] = Genesis
  BY <1>2 DEF Branches
<1>17. KinStays
  BY <1>5, <1>13, <1>15, <1>16 DEF KinStays, Persistent
<1>18. OnBranch
  BY <1>2, Names DEF OnBranch
<1>19. Acyclic
  BY <1>1, KinFacts, Names DEF Acyclic
<1>20. Secluded
  <2>1. KinHidden
    BY <1>5, <1>13, <1>15, <1>16 DEF KinHidden, Private
  <2>2. ShownOnce
    BY <1>1 DEF ShownOnce
  <2>3. QED
    BY <1>1, <2>1, <2>2 DEF Secluded
<1>21. QED
  BY <1>12, <1>14, <1>17, <1>18, <1>19, <1>20 DEF Hist

LEMMA ActionHist == ASSUME Hist, Next PROVE Hist' /\ G!Extends(repo, repo')
<1>1. ASSUME NEW th \in Threads, Work(th) PROVE Hist' /\ G!Extends(repo, repo')
  BY <1>1, MergeWriteHist, AckWriteHist, ImplicitCommitHist, CleanStageHist,
     CleanCommitHist, MergeTransactionHist, ResolvePutHist, ResolveCommitHist, WakeHist,
     RestoreStageHist, RestoreCommitHist, ImplicitRollbackHist, FinishCommitHist DEF Work
<1>2. ASSUME NEW th \in Threads, NEW t \in Txns,
             \/ CreateTransaction(th, t) \/ RollbackTransaction(th, t)
             \/ BeginCommit(th, t) \/ \E a \in Payloads : BeginWrite(th, t, a)
      PROVE  Hist' /\ G!Extends(repo, repo')
  BY <1>2, CreateTransactionHist, RollbackTransactionHist, BeginCommitHist, BeginWriteHist
<1>3. ASSUME NEW th \in Threads,
             \/ \E b \in SnapshotSources : CreateSnapshot(th, b)
             \/ \E a \in Payloads : ImplicitWrite(th, a)
      PROVE  Hist' /\ G!Extends(repo, repo')
  BY <1>3, CreateSnapshotHist, ImplicitWriteHist
<1>4. ASSUME NEW i \in Instances, Crash(i) PROVE Hist' /\ G!Extends(repo, repo')
  BY <1>4, CrashHist
<1>5. QED
  BY <1>1, <1>2, <1>3, <1>4 DEF Next

LEMMA SpecHist == Spec => []Hist
<1>1. Init => Hist
  BY InitHist
<1>2. Hist /\ [Next]_vars => Hist'
  BY ActionHist, SameHist
<1>3. QED
  BY <1>1, <1>2, PTL DEF Spec

-----------------------------------------------------------------------------
(* The theorems.                                                           *)

(* "reads within a transaction see the transaction's own writes"           *)
(* (artifact_system_prd.md:573): a write that WriteExecutor acknowledged   *)
(* is on the transaction's branch as long as the transaction is open,      *)
(* whatever the other threads write and merge there, with any number of    *)
(* processes, crashes and failed commits.                                  *)
THEOREM WritesStayReadable == Spec => []ReadYourWrites
<1>1. ASSUME Hist PROVE ReadYourWrites
  <2>1. ASSUME NEW t \in Txns, NEW a \in Payloads, outcome[t] = "open", <<t, a>> \in acked
        PROVE  AtCommit(repo, repo.head[t])[a] \in Kin(t)
    <3>1. BranchExists(repo, t) /\ Pending(t, a)
      BY <1>1, <2>1 DEF Hist, Base, OpenFine, Pending
    <3>2. QED
      BY <1>1, <3>1 DEF Hist, OnBranch, HeadAt
  <2>2. QED
    BY <2>1 DEF ReadYourWrites, GetBranchHead
<1>2. QED
  BY <1>1, SpecHist, PTL

(* "each logical write is atomic (artifact + indexes are committed         *)
(* together)" (artifact_system_prd.md:535): where an artifact is, on the   *)
(* canonical branch or a transaction's, its row is in every index.  The    *)
(* three-way merge of ResolveSinglePath() loses none, though its base need *)
(* not be the latest common commit; only what other threads add to a       *)
(* branch while a resolver works on it may be overwritten.                 *)
THEOREM RowsAreKept == Spec => []KeepsRows
<1>1. ASSUME Hist PROVE KeepsRows
  <2>1. ASSUME NEW b \in {Main} \cup Txns, NEW x \in Indexes, NEW a \in Payloads, NEW g,
               g = repo.head[b], BranchExists(repo, b), AtCommit(repo, g)[a] # Absent,
               <<x, a>> \notin lostRows
        PROVE  a \in DOMAIN Rows(AtCommit(repo, g)[x])
    <3>1. g \in CommitIds(repo) /\ b \in Branches
      BY <1>1, <2>1, Names, RepoShape DEF Hist, Base, Typed
    <3>2. \A p \in Paths : AtCommit(repo, g)[p] \in ValuesAt(p)
      BY <1>1, <3>1 DEF Hist, Base, StoreFine, ObjectsFine
    <3>3. AtCommit(repo, g)[a] \in TxnIds /\ AtCommit(repo, g)[x] \in IndexObjects \cup {Absent}
      BY <2>1, <3>2, Names, IndexFacts DEF ValuesAt
    <3>4. AtCommit(repo, g)[x] \in RowSet(a)
      BY <1>1, <2>1, <3>1, <3>3 DEF Hist, Commits, Sound, Safe
    <3>5. QED
      BY <3>3, <3>4, RowsShape DEF IsIndex
  <2>2. QED
    BY <2>1 DEF KeepsRows, GetBranchHead
<1>2. QED
  BY <1>1, SpecHist, PTL

(* What was acknowledged before CommitTransaction() was called is in the   *)
(* commit it produced, whatever other processes write, merge or leave      *)
(* undone meanwhile, if clients take their snapshots of the canonical      *)
(* branch.                                                                 *)
THEOREM CommitsKeepWrites == ASSUME MainSnapshots PROVE Spec => []KeepsEarlierWrites
<1>1. Hist => KeepsEarlierWrites
  BY DEF Hist, Secluded, ShownOnce, KeepsEarlierWrites
<1>2. QED
  BY <1>1, SpecHist, PTL

-----------------------------------------------------------------------------
(* In one process no write is acknowledged once its transaction is merged. *)

(* Nothing is merged or acknowledged, but perhaps for open transactions.   *)
Settled ==
    \A t \in Txns : \A a : outcome'[t] = "committed" /\ <<t, a>> \in acked' =>
        outcome[t] = "committed" /\ <<t, a>> \in acked /\ result'[t] = result[t]

LEMMA KinStep ==
    ASSUME Base, parent' = parent \/ \E th \in Threads, t \in Txns : CreateTransaction(th, t)
    PROVE  \A u \in Txns : Kin(u) \subseteq Kin(u)'
<1>1. CASE parent' = parent
  BY <1>1, KinSame
<1>2. ASSUME NEW th \in Threads, NEW t \in Txns, CreateTransaction(th, t)
      PROVE  \A u \in Txns : Kin(u) \subseteq Kin(u)'
  <2>1. PICK p \in Txns \cup {None} : CreatedFor(t, p)
    BY <1>2, CreateShape
  <2>2. QED
    BY <2>1, KinCreated
<1>3. QED
  BY <1>1, <1>2

LEMMA SettledMerges ==
    ASSUME Inv, Hist, MergesAllWrites, Settled, G!Extends(repo, repo'),
           \A u \in Txns : Kin(u) \subseteq Kin(u)'
    PROVE  MergesAllWrites'
<1>1. ASSUME NEW t \in Txns, outcome'[t] = "committed", NEW a \in Payloads, <<t, a>> \in acked'
      PROVE  AtCommit(repo', result'[t])[a] \in Kin(t)'
  <2>1. outcome[t] = "committed" /\ <<t, a>> \in acked /\ result'[t] = result[t]
    BY <1>1 DEF Settled
  <2>2. AtCommit(repo, result[t])[a] \in Kin(t)
    BY <2>1 DEF MergesAllWrites, Shows
  <2>3. merges[t] = 1
    BY <2>1 DEF Inv, Merged
  <2>4. result[t] \in CommitIds(repo)
    BY <2>3 DEF Hist, Base, OpenFine
  <2>5. QED
    BY <2>1, <2>2, <2>4, OldAncestors
<1>2. QED
  BY <1>1 DEF MergesAllWrites, Shows

(* A transaction whose branch is there is not merged before the thread     *)
(* that merges it is about to delete the branch.                           *)
LEMMA NotMerged ==
    ASSUME OneInstance, Inv, NEW th \in Threads,
           lock[Home[th]] = None \/ op[th].pc = "merge",
           NEW t \in Txns, BranchExists(repo, t)
    PROVE  outcome[t] # "committed" /\ merges[t] = 0
<1>1. \A x \in Threads : op[x].pc # "merged"
  BY Alone DEF Inv, HeldPcs
<1>2. QED
  BY <1>1 DEF Inv, Merged

LEMMA AckSettled ==
    ASSUME OneInstance, Inv, NEW th \in Threads, AckWrite(th)
    PROVE  Settled
<1>1. /\ UNCHANGED <<outcome, result>> /\ lock[Home[th]] = None
      /\ \/ acked' = acked
         \/ BranchExists(repo, op[th].txn) /\ acked' = acked \cup {<<op[th].txn, op[th].artifact>>}
  BY DEF AckWrite
<1>2. BranchExists(repo, op[th].txn) /\ op[th].txn \in Txns => outcome[op[th].txn] # "committed"
  BY <1>1, NotMerged
<1>3. QED
  BY <1>1, <1>2 DEF Settled

LEMMA MergeAll ==
    ASSUME OneInstance, MainSnapshots, Inv, Hist, MergesAllWrites, NEW th \in Threads,
           MergeTransaction(th), G!Extends(repo, repo')
    PROVE  MergesAllWrites'
<1>1. op[th].pc = "merge" /\ UNCHANGED <<parent, acked>>
  BY DEF MergeTransaction
<1>2. op[th].pc \in CommitPcs /\ Base /\ \A u : Kin(u)' = Kin(u)
  BY <1>1, KinSame DEF CommitPcs, Hist
<1>3. PICK t \in Txns \cup {th}, b \in Txns \cup {Main} :
            /\ t = op[th].txn /\ b = Target(op[th].rec) /\ b = Upper(t)
            /\ t \in Branches /\ b \in Branches
  BY <1>2, CommitShapes, TargetUpper, Names
<1>4. CASE /\ t \in Txns /\ CanMerge(repo, t, b) /\ MergeConflicts(repo, t, b) = {}
           /\ repo' = Merge(repo, t, b) /\ RecordMerge(t, op[th].seen, GetBranchHead(repo', b))
  <2>1. BranchExists(repo, t) /\ BranchExists(repo, b)
    BY <1>3, <1>4 DEF CanMerge
  <2>2. merges[t] = 0
    BY <1>1, <1>4, <2>1, NotMerged
  <2>3. RepoOK(repo) /\ G!GraphOK(repo)
    BY <1>2 DEF Base, Typed
  <2>4. PICK objs : /\ GrownAt(repo, repo', b, {repo.head[b], repo.head[t]}, objs)
                    /\ Blend(repo, repo.head[t], repo.head[b], objs)
    BY <1>3, <1>4, <2>3, MergeGrown
  <2>5. AtCommit(repo', repo'.head[b]) = objs
    BY <2>4 DEF GrownAt, Grown
  <2>6. /\ result \in [Txns -> Nat] /\ outcome' = [outcome EXCEPT ![t] = "committed"]
        /\ result' = [result EXCEPT ![t] = repo'.head[b]]
        /\ outcome \in [Txns -> {"unborn", "open", "committed", "rolledback"}]
    BY <1>2, <1>4 DEF RecordMerge, GetBranchHead, Base, Typed, OpenFine
  <2>7. ASSUME NEW u \in Txns, outcome'[u] = "committed", NEW a \in Payloads, <<u, a>> \in acked'
        PROVE  AtCommit(repo', result'[u])[a] \in Kin(u)'
    <3>1. CASE u = t
      <4>1. objs[a] \in Kin(t)
        BY <1>1, <1>3, <1>4, <2>1, <2>2, <2>4, <2>7, <3>1, MergeShows
      <4>2. QED
        BY <1>2, <2>5, <2>6, <3>1, <4>1
    <3>2. CASE u # t
      <4>1. outcome[u] = "committed" /\ result'[u] = result[u] /\ <<u, a>> \in acked
        BY <1>1, <2>6, <2>7, <3>2
      <4>2. AtCommit(repo, result[u])[a] \in Kin(u) /\ result[u] \in CommitIds(repo)
        BY <4>1 DEF MergesAllWrites, Shows, Inv, Merged, Hist, Base, OpenFine
      <4>3. QED
        BY <1>2, <4>1, <4>2, OldAncestors
    <3>3. QED
      BY <3>1, <3>2
  <2>8. QED
    BY <2>7 DEF MergesAllWrites, Shows
<1>5. CASE UNCHANGED <<outcome, result>>
  BY <1>1, <1>2, <1>5, SettledMerges DEF Settled
<1>6. QED
  BY <1>3, <1>4, <1>5 DEF MergeTransaction, RecordMerge

LEMMA NextMerges ==
    ASSUME OneInstance, MainSnapshots, Inv, Hist, MergesAllWrites, Next
    PROVE  MergesAllWrites'
<1>1. G!Extends(repo, repo')
  BY ActionHist
<1>2. ASSUME UNCHANGED history PROVE MergesAllWrites'
  <2>1. UNCHANGED <<outcome, parent, acked, result>>
    BY <1>2 DEF history
  <2>2. QED
    BY <1>1, <2>1, KinStep, SettledMerges DEF Settled, Hist
<1>3. ASSUME NEW th \in Threads, Work(th) PROVE MergesAllWrites'
  <2>1. CASE AckWrite(th)
    <3>1. parent' = parent
      BY <2>1 DEF AckWrite
    <3>2. QED
      BY <1>1, <2>1, <3>1, AckSettled, KinStep, SettledMerges DEF Hist
  <2>2. CASE MergeTransaction(th)
    BY <1>1, <2>2, MergeAll
  <2>3. CASE ResolvePut(th)
    <3>1. UNCHANGED <<outcome, parent, acked, result>>
      BY <2>3 DEF ResolvePut
    <3>2. QED
      BY <1>1, <3>1, KinStep, SettledMerges DEF Settled, Hist
  <2>4. CASE ~AckWrite(th) /\ ~MergeTransaction(th) /\ ~ResolvePut(th)
    <3>1. UNCHANGED history
      BY <1>3, <2>4 DEF Work, MergeWrite, ImplicitCommit, CleanStage, CleanCommit, ResolveCommit,
         Wake, RestoreStage, RestoreCommit, ImplicitRollback, FinishCommit
    <3>2. QED
      BY <1>2, <3>1
  <2>5. QED
    BY <2>1, <2>2, <2>3, <2>4
<1>4. ASSUME NEW th \in Threads, NEW t \in Txns,
             BeginCommit(th, t) \/ \E a \in Payloads : BeginWrite(th, t, a)
      PROVE  MergesAllWrites'
  BY <1>2, <1>4 DEF BeginCommit, BeginWrite
<1>5. ASSUME NEW th \in Threads,
             \/ \E b \in SnapshotSources : CreateSnapshot(th, b)
             \/ \E a \in Payloads : ImplicitWrite(th, a)
      PROVE  MergesAllWrites'
  BY <1>2, <1>5 DEF CreateSnapshot, ImplicitWrite
<1>6. ASSUME NEW th \in Threads, NEW t \in Txns,
             CreateTransaction(th, t) \/ RollbackTransaction(th, t)
      PROVE  MergesAllWrites'
  <2>1. /\ outcome' = [outcome EXCEPT ![t] = "open"] \/ outcome' = [outcome EXCEPT ![t] = "rolledback"]
        /\ UNCHANGED <<acked, result>>
        /\ parent' = parent \/ CreateTransaction(th, t)
    BY <1>6 DEF CreateTransaction, RollbackTransaction
  <2>2. Settled
    BY <2>1 DEF Settled, Inv, Typed
  <2>3. QED
    BY <1>1, <2>1, <2>2, KinStep, SettledMerges DEF Hist
<1>7. ASSUME NEW i \in Instances, Crash(i) PROVE MergesAllWrites'
  BY <1>2, <1>7 DEF Crash
<1>8. QED
  BY <1>3, <1>4, <1>5, <1>6, <1>7 DEF Next

(* "All writes in a transaction are merged atomically on Artifact Layer    *)
(* transaction commit" (artifact_system_prd.md:583): in one process, also  *)
(* those writes that are acknowledged while CommitTransactionImpl() goes   *)
(* on are in the commit.  A later one waits for mutex_ and then finds the  *)
(* branch gone, so that it is answered with an error.                      *)
THEOREM CommitsMergeAllWrites ==
    ASSUME OneInstance, MainSnapshots PROVE Spec => []MergesAllWrites
<1>1. Init => MergesAllWrites
  BY DEF Init, MergesAllWrites
<1>2. ASSUME Inv, Hist, MergesAllWrites, [Next]_vars PROVE MergesAllWrites'
  <2>1. CASE UNCHANGED vars
    <3>1. UNCHANGED <<repo, outcome, parent, acked, result>>
      BY <2>1 DEF vars, history
    <3>2. QED
      BY <1>2, <3>1, KinSame DEF MergesAllWrites, Shows
  <2>2. QED
    BY <1>2, <2>1, NextMerges
<1>3. QED
  BY <1>1, <1>2, SpecInv, SpecHist, PTL DEF Spec
=============================================================================

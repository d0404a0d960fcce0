------------------------- MODULE MemoryStorageProofs -------------------------
(***************************************************************************)
(* The operators of the versioned store: what the search for ancestors and *)
(* for a merge base finds in a graph of commits of any size, and what each *)
(* operation keeps of a repository.                                        *)
(*                                                                         *)
(* Induction is over sets of numbers: a set that is not empty has a least  *)
(* element, which the library states with sets only.                       *)
(***************************************************************************)
EXTENDS MemoryStorage, TLAPS, WellFoundedInduction

-----------------------------------------------------------------------------
(* Numbers.                                                                *)

LEMMA LeastNumber ==
    ASSUME NEW T \in SUBSET Nat, T # {}
    PROVE  \E x \in T : \A y \in T : x <= y
<1> DEFINE R == {ss \in Nat \X Nat : ss[1] < ss[2]}
<1>1. IsWellFoundedOn(R, Nat)
  BY NatLessThanWellFounded, Zenon DEF OpToRel
<1>2. PICK x \in T : \A y \in T : <<y, x>> \notin R
  <2> HIDE DEF R
  <2>1. QED
    BY <1>1, WFMin
<1>3. \A y \in T : ~(y < x)
  BY <1>2
<1>4. QED
  BY <1>3

LEMMA SetInduction ==
    ASSUME NEW S, 0 \in S, \A n \in Nat : n \in S => n + 1 \in S
    PROVE  Nat \subseteq S
<1>1. SUFFICES ASSUME Nat \ S # {} PROVE FALSE
  OBVIOUS
<1>2. PICK x \in Nat \ S : \A y \in Nat \ S : x <= y
  BY <1>1, LeastNumber
<1>3. x # 0 /\ x - 1 \in Nat /\ x - 1 \in S
  BY <1>2
<1>4. QED
  BY <1>2, <1>3

(* A step function can be iterated from any start.                         *)
Iterates(f, n, x0, step) ==
    f[0] = x0 /\ \A i \in 0 .. n - 1 : f[i + 1] = step[f[i]]

LEMMA IterationExists ==
    ASSUME NEW X, NEW x0 \in X, NEW step \in [X -> X]
    PROVE  \E f \in [Nat -> X] : f[0] = x0 /\ \A n \in Nat : f[n + 1] = step[f[n]]
<1> DEFINE S == {n \in Nat : \E f \in [Nat -> X] : Iterates(f, n, x0, step)}
<1>1. 0 \in S
  <2>1. [i \in Nat |-> x0] \in [Nat -> X] /\ Iterates([i \in Nat |-> x0], 0, x0, step)
    BY DEF Iterates
  <2>2. QED
    BY <2>1
<1>2. ASSUME NEW n \in Nat, n \in S
      PROVE  n + 1 \in S
  <2>1. PICK f \in [Nat -> X] : Iterates(f, n, x0, step)
    BY <1>2
  <2> DEFINE g == [i \in Nat |-> IF i = n + 1 THEN step[f[n]] ELSE f[i]]
  <2>2. g \in [Nat -> X] /\ Iterates(g, n + 1, x0, step)
    BY <2>1 DEF Iterates
  <2>3. QED
    BY <2>2
<1>3. Nat \subseteq S
  <2> HIDE DEF S
  <2>1. QED
    BY <1>1, <1>2, SetInduction
<1>4. PICK F : \A n \in Nat : F[n] \in [Nat -> X] /\ Iterates(F[n], n, x0, step)
  <2> DEFINE F == [n \in Nat |-> CHOOSE f \in [Nat -> X] : Iterates(f, n, x0, step)]
  <2>1. ASSUME NEW n \in Nat
        PROVE  F[n] \in [Nat -> X] /\ Iterates(F[n], n, x0, step)
    <3>1. \E f \in [Nat -> X] : Iterates(f, n, x0, step)
      BY <1>3
    <3>2. QED
      BY <3>1
  <2> HIDE DEF F
  <2>2. QED
    BY <2>1
(* Two iterations agree as far as both go.                                 *)
<1>5. ASSUME NEW m \in Nat, NEW n \in Nat
      PROVE  \A i \in Nat : i <= m /\ i <= n => F[m][i] = F[n][i]
  <2> DEFINE T == {i \in Nat : i <= m /\ i <= n => F[m][i] = F[n][i]}
  <2>1. 0 \in T
    BY <1>4 DEF Iterates
  <2>2. ASSUME NEW i \in Nat, i \in T
        PROVE  i + 1 \in T
    <3>1. SUFFICES ASSUME i + 1 <= m, i + 1 <= n PROVE F[m][i + 1] = F[n][i + 1]
      OBVIOUS
    <3>2. F[m][i] = F[n][i] /\ i \in 0 .. m - 1 /\ i \in 0 .. n - 1
      BY <2>2, <3>1
    <3>3. F[m][i + 1] = step[F[m][i]] /\ F[n][i + 1] = step[F[n][i]]
      BY <1>4, <3>2 DEF Iterates
    <3>4. QED
      BY <3>2, <3>3
  <2>3. Nat \subseteq T
    <3> HIDE DEF T
    <3>1. QED
      BY <2>1, <2>2, SetInduction
  <2>4. QED
    BY <2>3
<1> DEFINE f == [n \in Nat |-> F[n][n]]
<1>6. f \in [Nat -> X] /\ f[0] = x0
  BY <1>4 DEF Iterates
<1>7. ASSUME NEW n \in Nat
      PROVE  f[n + 1] = step[f[n]]
  <2>1. F[n + 1][n + 1] = step[F[n + 1][n]]
    BY <1>4 DEF Iterates
  <2>2. F[n + 1][n] = F[n][n]
    BY <1>5
  <2>3. QED
    BY <2>1, <2>2
<1>8. QED
  BY <1>6, <1>7

-----------------------------------------------------------------------------
(* The graph: the commits are numbered, every one but the first has        *)
(* parents, and parents have smaller numbers.                              *)

Parents(r, c) == r.commits[c].parents

GraphOK(r) ==
    /\ Len(r.commits) \in Nat
    /\ CommitIds(r) = 1 .. Len(r.commits)
    /\ \A c \in CommitIds(r) :
        Parents(r, c) \subseteq 1 .. c - 1 /\ (c # Genesis => Parents(r, c) # {})

(* The set of commits that are in S or are parents of one in S.            *)
Wider(r, S) == S \cup UNION {Parents(r, x) : x \in S}

(* Within() is what its recursive definition says.                         *)
LEMMA WithinSteps ==
    ASSUME NEW r, GraphOK(r), NEW c \in CommitIds(r)
    PROVE  /\ \A k \in Nat : Within(r, c, k) \subseteq CommitIds(r)
           /\ Within(r, c, 0) = {c}
           /\ \A k \in Nat : Within(r, c, k + 1) = Wider(r, Within(r, c, k))
<1> DEFINE X == SUBSET CommitIds(r)
           step == [S \in X |-> Wider(r, S)]
           def(W) == [i \in Nat |->
                        IF i = 0 THEN {c}
                        ELSE W[i - 1] \cup UNION {r.commits[x].parents : x \in W[i - 1]}]
           W == CHOOSE W : W = def(W)
<1>1. step \in [X -> X]
  BY DEF GraphOK, Wider
<1>2. PICK f \in [Nat -> X] : f[0] = {c} /\ \A n \in Nat : f[n + 1] = step[f[n]]
  <2>1. {c} \in X
    OBVIOUS
  <2> HIDE DEF step, X
  <2>2. QED
    BY <1>1, <2>1, IterationExists
<1>3. \A n \in Nat : f[n + 1] = Wider(r, f[n])
  BY <1>2
<1>4. f = def(f)
  <2>1. ASSUME NEW i \in Nat
        PROVE  f[i] = def(f)[i]
    <3>1. CASE i = 0
      BY <1>2, <3>1
    <3>2. CASE i # 0
      <4>1. i - 1 \in Nat /\ (i - 1) + 1 = i
        BY <3>2
      <4>2. f[i] = Wider(r, f[i - 1])
        BY <1>3, <4>1
      <4>3. QED
        BY <3>2, <4>2 DEF Wider, Parents
    <3>3. QED
      BY <3>1, <3>2
  <2>2. QED
    BY <1>2, <2>1
<1>5. W = def(W)
  <2> HIDE DEF def
  <2>1. QED
    BY <1>4
<1>6. \A k \in Nat : Within(r, c, k) = W[k]
  BY DEF Within
<1> HIDE DEF W
<1>7. W[0] = {c}
  BY <1>5
<1>8. ASSUME NEW k \in Nat
      PROVE  W[k + 1] = Wider(r, W[k])
  <2>1. k + 1 \in Nat /\ k + 1 # 0 /\ (k + 1) - 1 = k
    OBVIOUS
  <2>2. W[k + 1] = W[k] \cup UNION {r.commits[x].parents : x \in W[k]}
    BY <1>5, <2>1
  <2>3. QED
    BY <2>2 DEF Wider, Parents
<1>9. \A k \in Nat : W[k] \in X
  <2> DEFINE S == {k \in Nat : W[k] \in X}
  <2>1. 0 \in S
    BY <1>7
  <2>2. \A k \in Nat : k \in S => k + 1 \in S
    BY <1>8 DEF Wider, GraphOK
  <2>3. Nat \subseteq S
    <3> HIDE DEF S
    <3>1. QED
      BY <2>1, <2>2, SetInduction
  <2>4. QED
    BY <2>3
<1>10. QED
  BY <1>6, <1>7, <1>8, <1>9

LEMMA WithinGrows ==
    ASSUME NEW r, GraphOK(r), NEW c \in CommitIds(r)
    PROVE  \A j, k \in Nat : j <= k => Within(r, c, j) \subseteq Within(r, c, k)
<1> DEFINE S == {k \in Nat : \A j \in Nat : j <= k =>
                                Within(r, c, j) \subseteq Within(r, c, k)}
<1>1. 0 \in S
  <2>1. \A j \in Nat : j <= 0 => j = 0
    OBVIOUS
  <2>2. QED
    BY <2>1
<1>2. ASSUME NEW k \in Nat, k \in S
      PROVE  k + 1 \in S
  <2>1. Within(r, c, k) \subseteq Within(r, c, k + 1)
    BY WithinSteps DEF Wider
  <2>2. \A j \in Nat : j <= k + 1 => j <= k \/ j = k + 1
    OBVIOUS
  <2>3. QED
    BY <1>2, <2>1, <2>2
<1>3. Nat \subseteq S
  <2> HIDE DEF S
  <2>1. QED
    BY <1>1, <1>2, SetInduction
<1>4. QED
  BY <1>3

(* What is new after k links has a number that is smaller by k at least.   *)
LEMMA WithinDescends ==
    ASSUME NEW r, GraphOK(r), NEW c \in CommitIds(r)
    PROVE  \A k \in Nat : \A x \in Within(r, c, k + 1) \ Within(r, c, k) : x + k + 1 <= c
<1> DEFINE W(k) == Within(r, c, k)
           S == {k \in Nat : \A x \in W(k + 1) \ W(k) : x + k + 1 <= c}
<1>1. /\ \A k \in Nat : W(k) \subseteq CommitIds(r) /\ W(k + 1) = Wider(r, W(k))
      /\ W(0) = {c}
  BY WithinSteps
<1>2. \A x \in CommitIds(r) : x \in Nat /\ \A y \in Parents(r, x) : y \in Nat /\ y + 1 <= x
  BY DEF GraphOK
<1>3. \A k \in Nat : \A x \in W(k + 1) \ W(k) : \E y \in W(k) : x \in Parents(r, y)
  BY <1>1 DEF Wider
<1>4. \A k \in Nat : \A y \in W(k) : Parents(r, y) \subseteq W(k + 1)
  BY <1>1 DEF Wider
<1> HIDE DEF W
<1>5. 0 \in S
  <2>1. ASSUME NEW x \in W(0 + 1) \ W(0)
        PROVE  x + 0 + 1 <= c
    <3>1. x \in Parents(r, c)
      BY <1>1, <1>3
    <3>2. QED
      BY <1>2, <3>1
  <2>2. QED
    BY <2>1
<1>6. ASSUME NEW k \in Nat, k \in S
      PROVE  k + 1 \in S
  <2>1. ASSUME NEW x \in W((k + 1) + 1) \ W(k + 1)
        PROVE  x + (k + 1) + 1 <= c
    <3>1. PICK y \in W(k + 1) : x \in Parents(r, y)
      BY <1>3
    <3>2. y \notin W(k)
      BY <1>4, <2>1, <3>1
    <3>3. y + k + 1 <= c
      BY <1>6, <3>2
    <3>4. y \in CommitIds(r) /\ c \in Nat
      BY <1>1, <1>2
    <3>5. x \in Nat /\ y \in Nat /\ x + 1 <= y
      BY <1>2, <3>1, <3>4
    <3>6. QED
      BY <3>3, <3>4, <3>5
  <2>2. QED
    BY <2>1
<1>7. Nat \subseteq S
  <2> HIDE DEF S
  <2>1. QED
    BY <1>5, <1>6, SetInduction
<1>8. \A k \in Nat : \A x \in W(k + 1) \ W(k) : x + k + 1 <= c
  BY <1>7
<1>9. QED
  BY <1>8 DEF W

(* The ancestors of c are the least set that has c and, with a commit, its *)
(* parents.                                                                *)
Closed(r, S) == \A x \in S : Parents(r, x) \subseteq S

LEMMA AncestorsLeast ==
    ASSUME NEW r, GraphOK(r), NEW c \in CommitIds(r), NEW S, c \in S,
           \A x \in S \cap CommitIds(r) : Parents(r, x) \subseteq S
    PROVE  Ancestors(r, c) \subseteq S
<1> DEFINE T == {k \in Nat : Within(r, c, k) \subseteq S}
<1>1. 0 \in T
  BY WithinSteps
<1>2. ASSUME NEW k \in Nat, k \in T
      PROVE  k + 1 \in T
  <2>1. Within(r, c, k) \subseteq S \cap CommitIds(r)
    BY <1>2, WithinSteps
  <2>2. Within(r, c, k + 1) = Wider(r, Within(r, c, k))
    BY WithinSteps
  <2>3. QED
    BY <2>1, <2>2 DEF Wider
<1>3. Nat \subseteq T
  <2> HIDE DEF T
  <2>1. QED
    BY <1>1, <1>2, SetInduction
<1>4. QED
  BY <1>3 DEF Ancestors, GraphOK

LEMMA AncestorsClosed ==
    ASSUME NEW r, GraphOK(r), NEW c \in CommitIds(r)
    PROVE  /\ c \in Ancestors(r, c)
           /\ Closed(r, Ancestors(r, c))
           /\ \A k \in Nat : Within(r, c, k) \subseteq Ancestors(r, c)
<1> DEFINE n == Len(r.commits)
<1>1. n \in Nat /\ c <= n /\ c \in Nat
  BY DEF GraphOK
<1>2. Ancestors(r, c) = Within(r, c, n)
  BY DEF Ancestors
<1> HIDE DEF n
<1>3. Within(r, c, n + 1) = Wider(r, Within(r, c, n))
  BY <1>1, WithinSteps
<1>4. Within(r, c, n + 1) \subseteq Within(r, c, n)
  <2>1. SUFFICES ASSUME NEW x \in Within(r, c, n + 1) \ Within(r, c, n) PROVE FALSE
    OBVIOUS
  <2>2. x + n + 1 <= c
    BY <1>1, <2>1, WithinDescends
  <2>3. x \in CommitIds(r)
    BY <1>1, <2>1, WithinSteps
  <2>4. x \in Nat
    BY <2>3 DEF GraphOK
  <2>5. QED
    BY <1>1, <2>2, <2>4
<1>5. Closed(r, Ancestors(r, c))
  BY <1>2, <1>3, <1>4 DEF Closed, Wider
<1>6. c \in Ancestors(r, c)
  <2>1. c \in Within(r, c, 0)
    BY WithinSteps
  <2>2. QED
    BY <1>1, <1>2, <2>1, WithinGrows
<1>7. ASSUME NEW k \in Nat
      PROVE  Within(r, c, k) \subseteq Ancestors(r, c)
  <2> DEFINE T == {j \in Nat : Within(r, c, j) \subseteq Ancestors(r, c)}
  <2>1. 0 \in T
    BY <1>6, WithinSteps
  <2>2. \A j \in Nat : j \in T => j + 1 \in T
    BY <1>5, WithinSteps DEF Closed, Wider
  <2>3. Nat \subseteq T
    <3> HIDE DEF T
    <3>1. QED
      BY <2>1, <2>2, SetInduction
  <2>4. QED
    BY <2>3
<1>8. QED
  BY <1>5, <1>6, <1>7

LEMMA AncestorsBelow ==
    ASSUME NEW r, GraphOK(r), NEW c \in CommitIds(r)
    PROVE  Ancestors(r, c) \subseteq 1 .. c /\ Ancestors(r, c) \subseteq CommitIds(r)
<1>1. c \in Nat /\ 1 .. c \subseteq CommitIds(r) /\ c \in 1 .. c
  BY DEF GraphOK
<1>2. \A x \in (1 .. c) \cap CommitIds(r) : Parents(r, x) \subseteq 1 .. c
  BY <1>1 DEF GraphOK
<1>3. QED
  BY <1>1, <1>2, AncestorsLeast

LEMMA AncestorsNest ==
    ASSUME NEW r, GraphOK(r), NEW c \in CommitIds(r), NEW x \in Ancestors(r, c)
    PROVE  x \in CommitIds(r) /\ Ancestors(r, x) \subseteq Ancestors(r, c)
<1>1. x \in CommitIds(r)
  BY AncestorsBelow
<1>2. \A y \in Ancestors(r, c) \cap CommitIds(r) : Parents(r, y) \subseteq Ancestors(r, c)
  BY AncestorsClosed DEF Closed
<1>3. QED
  BY <1>1, <1>2, AncestorsLeast

(* One generation at a time.                                               *)
LEMMA AncestorsOfParents ==
    ASSUME NEW r, GraphOK(r), NEW c \in CommitIds(r), NEW x \in Ancestors(r, c), x # c
    PROVE  \E y \in Parents(r, c) : x \in Ancestors(r, y)
<1> DEFINE S == {c} \cup UNION {Ancestors(r, y) : y \in Parents(r, c)}
<1>1. Parents(r, c) \subseteq CommitIds(r)
  BY DEF GraphOK
<1>2. ASSUME NEW z \in S
      PROVE  Parents(r, z) \subseteq S
  <2>1. CASE z = c
    BY <1>1, <2>1, AncestorsClosed
  <2>2. CASE \E y \in Parents(r, c) : z \in Ancestors(r, y)
    BY <1>1, <2>2, AncestorsClosed DEF Closed
  <2>3. QED
    BY <2>1, <2>2
<1>3. Ancestors(r, c) \subseteq S
  <2>1. c \in S /\ \A z \in S \cap CommitIds(r) : Parents(r, z) \subseteq S
    BY <1>2
  <2> HIDE DEF S
  <2>2. QED
    BY <2>1, AncestorsLeast
<1>4. QED
  BY <1>3

(* All descend from the first commit.                                      *)
LEMMA GenesisIsAncestor ==
    ASSUME NEW r, GraphOK(r), NEW c \in CommitIds(r)
    PROVE  Genesis \in Ancestors(r, c)
<1>1. Ancestors(r, c) \in SUBSET Nat /\ Ancestors(r, c) # {}
  <2>1. CommitIds(r) \subseteq Nat
    BY DEF GraphOK
  <2>2. QED
    BY <2>1, AncestorsBelow, AncestorsClosed
<1>2. PICK x \in Ancestors(r, c) : \A y \in Ancestors(r, c) : x <= y
  BY <1>1, LeastNumber
<1>3. x \in CommitIds(r) /\ Parents(r, x) \subseteq Ancestors(r, c)
  BY AncestorsBelow, AncestorsClosed DEF Closed
<1>4. \A y \in Parents(r, x) : y \in Nat /\ x \in Nat /\ y < x
  BY <1>3 DEF GraphOK
<1>5. Parents(r, x) = {}
  BY <1>2, <1>3, <1>4
<1>6. QED
  BY <1>3, <1>5 DEF GraphOK

-----------------------------------------------------------------------------
(* Depths and merge bases.                                                 *)

(* Depth k of commit x below c: the first k for which x is within reach.   *)
DepthIs(r, c, x, k) == x \in Within(r, c, k) /\ (k > 0 => x \notin Within(r, c, k - 1))

LEMMA DepthExists ==
    ASSUME NEW r, GraphOK(r), NEW c \in CommitIds(r), NEW x \in Ancestors(r, c)
    PROVE  /\ \E k \in 0 .. Len(r.commits) : DepthIs(r, c, x, k)
           /\ \A j, k \in Nat : DepthIs(r, c, x, j) /\ DepthIs(r, c, x, k) => j = k
<1> DEFINE S == {k \in Nat : x \in Within(r, c, k)}
           n == Len(r.commits)
<1>1. n \in Nat /\ n \in S
  BY DEF Ancestors, GraphOK
<1> HIDE DEF n
<1>2. PICK k \in S : \A j \in S : k <= j
  <2>1. S \in SUBSET Nat /\ S # {}
    BY <1>1
  <2> HIDE DEF S
  <2>2. QED
    BY <2>1, LeastNumber
<1>3. k \in 0 .. n /\ DepthIs(r, c, x, k)
  <2>1. k \in 0 .. n
    BY <1>1, <1>2
  <2>2. k > 0 => k - 1 \in Nat /\ k - 1 \notin S
    BY <1>2
  <2>3. QED
    BY <1>2, <2>1, <2>2 DEF DepthIs
<1>4. ASSUME NEW i \in Nat, NEW j \in Nat, i < j, DepthIs(r, c, x, i), DepthIs(r, c, x, j)
      PROVE  FALSE
  <2>1. j > 0 /\ j - 1 \in Nat /\ i <= j - 1
    BY <1>4
  <2>2. Within(r, c, i) \subseteq Within(r, c, j - 1)
    BY <2>1, WithinGrows
  <2>3. QED
    BY <1>4, <2>1, <2>2 DEF DepthIs
<1>5. \A i, j \in Nat : DepthIs(r, c, x, i) /\ DepthIs(r, c, x, j) => i = j
  <2>1. SUFFICES ASSUME NEW i \in Nat, NEW j \in Nat,
                        DepthIs(r, c, x, i), DepthIs(r, c, x, j)
                 PROVE  i = j
    OBVIOUS
  <2>2. ~(i < j) /\ ~(j < i)
    BY <1>4, <2>1
  <2>3. QED
    BY <2>2
<1>6. QED
  BY <1>3, <1>5 DEF n

(* AncestorDepths() gives the depth of every ancestor.                     *)
LEMMA DepthsAre ==
    ASSUME NEW r, GraphOK(r), NEW c \in CommitIds(r)
    PROVE  /\ AncestorDepths(r, c) \in [Ancestors(r, c) -> Nat]
           /\ \A x \in Ancestors(r, c) : DepthIs(r, c, x, AncestorDepths(r, c)[x])
<1> DEFINE n == Len(r.commits)
           near == [k \in 0 .. n |-> Within(r, c, k)]
           depth(x) == CHOOSE k \in DOMAIN near :
                            x \in near[k] /\ (k > 0 => x \notin near[k - 1])
<1>1. AncestorDepths(r, c) = [x \in Ancestors(r, c) |-> depth(x)]
  BY DEF AncestorDepths
<1>2. n \in Nat
  BY DEF GraphOK
<1>3. ASSUME NEW x \in Ancestors(r, c)
      PROVE  depth(x) \in Nat /\ DepthIs(r, c, x, depth(x))
  <2> HIDE DEF n
  <2>1. PICK k \in 0 .. n : DepthIs(r, c, x, k)
    BY DepthExists DEF n
  <2>2. ASSUME NEW j \in 0 .. n
        PROVE  (x \in near[j] /\ (j > 0 => x \notin near[j - 1])) <=> DepthIs(r, c, x, j)
    <3>1. j > 0 => j - 1 \in 0 .. n
      BY <1>2
    <3>2. QED
      BY <3>1 DEF DepthIs
  <2>3. DOMAIN near = 0 .. n
    OBVIOUS
  <2> HIDE DEF near
  <2>4. /\ depth(x) \in DOMAIN near
        /\ x \in near[depth(x)] /\ (depth(x) > 0 => x \notin near[depth(x) - 1])
    BY <2>1, <2>2, <2>3
  <2> HIDE DEF depth
  <2>5. QED
    BY <2>2, <2>3, <2>4
<1> HIDE DEF depth
<1>4. QED
  BY <1>1, <1>3

LEMMA IdOrderInjective ==
    ASSUME NEW x \in Nat \ {0}, NEW y \in Nat \ {0}, IdOrder(x) = IdOrder(y)
    PROVE  x = y
BY DEF IdOrder

(* The search for a merge base finds a common ancestor.                    *)
LEMMA MergeBaseIsCommon ==
    ASSUME NEW r, GraphOK(r), NEW a \in CommitIds(r), NEW b \in CommitIds(r)
    PROVE  FindMergeBase(r, a, b) \in CommonAncestors(r, a, b)
<1> DEFINE da == AncestorDepths(r, a)
           db == AncestorDepths(r, b)
           C == DOMAIN da \cap DOMAIN db
           rank(x) == <<MaxOf(da[x], db[x]), da[x] + db[x], IdOrder(x), x>>
           ranks == {rank(x) : x \in C}
           closer(p, q) == \/ p[1] < q[1]
                           \/ p[1] = q[1] /\ p[2] < q[2]
                           \/ p[1] = q[1] /\ p[2] = q[2] /\ p[3] < q[3]
           best == CHOOSE p \in ranks : \A q \in ranks \ {p} : closer(p, q)
<1>1. FindMergeBase(r, a, b) = IF a = b THEN a ELSE best[4]
  BY DEF FindMergeBase
<1>2. C = CommonAncestors(r, a, b)
  BY DepthsAre DEF CommonAncestors
<1>3. Genesis \in C
  BY <1>2, GenesisIsAncestor DEF CommonAncestors
<1>4. C \subseteq Nat \ {0}
  <2>1. CommitIds(r) \subseteq Nat \ {0}
    BY DEF GraphOK
  <2>2. QED
    BY <1>2, <2>1, AncestorsBelow DEF CommonAncestors
<1>5. \A x \in C : MaxOf(da[x], db[x]) \in Nat /\ da[x] + db[x] \in Nat /\ IdOrder(x) \in Nat
  <2>1. \A x \in C : da[x] \in Nat /\ db[x] \in Nat
    BY DepthsAre
  <2> HIDE DEF da, db, C
  <2>2. QED
    BY <1>4, <2>1 DEF MaxOf, IdOrder
<1>6. CASE a = b
  BY <1>1, <1>6, AncestorsClosed DEF CommonAncestors
<1>7. CASE a # b
  <2> DEFINE f1 == [x \in C |-> MaxOf(da[x], db[x])]
             f2 == [x \in C |-> da[x] + db[x]]
             f3 == [x \in C |-> IdOrder(x)]
  <2>1. f1 \in [C -> Nat] /\ f2 \in [C -> Nat] /\ f3 \in [C -> Nat]
    <3> HIDE DEF C, da, db
    <3>1. QED
      BY <1>5
  <2>2. \A x \in C : rank(x) = <<f1[x], f2[x], f3[x], x>>
    OBVIOUS
  <2>3. \A x, y \in C : f3[x] = f3[y] => x = y
    <3> HIDE DEF C
    <3>1. QED
      BY <1>4, IdOrderInjective
  <2> HIDE DEF C, f1, f2, f3, rank
  <2>4. PICK x \in C : \A y \in C \ {x} :
                \/ f1[x] < f1[y]
                \/ f1[x] = f1[y] /\ f2[x] < f2[y]
                \/ f1[x] = f1[y] /\ f2[x] = f2[y] /\ f3[x] < f3[y]
    <3> DEFINE S1 == {f1[y] : y \in C}
    <3>1. PICK n1 \in S1 : \A m \in S1 : n1 <= m
      <4>1. S1 \in SUBSET Nat /\ S1 # {}
        BY <1>3, <2>1
      <4> HIDE DEF S1
      <4>2. QED
        BY <4>1, LeastNumber
    <3> DEFINE C2 == {y \in C : f1[y] = n1}
               S2 == {f2[y] : y \in C2}
    <3>2. PICK n2 \in S2 : \A m \in S2 : n2 <= m
      <4>1. S2 \in SUBSET Nat /\ S2 # {}
        BY <2>1, <3>1
      <4> HIDE DEF S2
      <4>2. QED
        BY <4>1, LeastNumber
    <3> DEFINE C3 == {y \in C2 : f2[y] = n2}
               S3 == {f3[y] : y \in C3}
    <3>3. PICK n3 \in S3 : \A m \in S3 : n3 <= m
      <4>1. S3 \in SUBSET Nat /\ S3 # {}
        BY <2>1, <3>2
      <4> HIDE DEF S3
      <4>2. QED
        BY <4>1, LeastNumber
    <3>4. PICK x \in C3 : f3[x] = n3
      BY <3>3
    <3>5. x \in C /\ f1[x] = n1 /\ f2[x] = n2 /\ f3[x] = n3
      BY <3>4
    <3>6. ASSUME NEW y \in C \ {x}
          PROVE  \/ f1[x] < f1[y]
                 \/ f1[x] = f1[y] /\ f2[x] < f2[y]
                 \/ f1[x] = f1[y] /\ f2[x] = f2[y] /\ f3[x] < f3[y]
      <4>1. f3[x] # f3[y]
        BY <2>3, <3>5
      <4>2. n1 <= f1[y]
        BY <3>1
      <4>3. f1[y] = n1 => n2 <= f2[y]
        BY <3>2
      <4>4. f1[y] = n1 /\ f2[y] = n2 => n3 <= f3[y]
        BY <3>3
      <4>5. f1[y] \in Nat /\ f2[y] \in Nat /\ f3[y] \in Nat
            /\ n1 \in Nat /\ n2 \in Nat /\ n3 \in Nat
        BY <2>1, <3>5
      <4>6. QED
        BY <3>5, <4>1, <4>2, <4>3, <4>4, <4>5
    <3>7. QED
      BY <3>5, <3>6
  <2>5. ASSUME NEW q \in ranks \ {rank(x)}
        PROVE  closer(rank(x), q)
    <3>1. PICK y \in C : q = rank(y)
      BY <2>5
    <3>2. y # x
      BY <2>5, <3>1
    <3>3. rank(x) = <<f1[x], f2[x], f3[x], x>> /\ q = <<f1[y], f2[y], f3[y], y>>
      BY <2>2, <3>1
    <3>4. QED
      BY <2>4, <3>2, <3>3
  <2>6. rank(x) \in ranks
    OBVIOUS
  <2> HIDE DEF ranks, closer
  <2>7. best \in ranks
    BY <2>5, <2>6
  <2>8. best[4] \in C
    <3>1. PICK y \in C : best = rank(y)
      BY <2>7 DEF ranks
    <3> HIDE DEF best
    <3>2. QED
      BY <2>2, <3>1
  <2>9. QED
    BY <1>1, <1>2, <1>7, <2>8
<1>8. QED
  BY <1>6, <1>7

-----------------------------------------------------------------------------
(* Commits are immutable: new ones change nothing below the old ones.      *)

Extends(r, s) ==
    /\ GraphOK(r) /\ GraphOK(s)
    /\ CommitIds(r) \subseteq CommitIds(s)
    /\ \A c \in CommitIds(r) : s.commits[c] = r.commits[c]

LEMMA WithinKept ==
    ASSUME NEW r, NEW s, Extends(r, s), NEW c \in CommitIds(r)
    PROVE  \A k \in Nat : Within(s, c, k) = Within(r, c, k)
<1> DEFINE S == {k \in Nat : Within(s, c, k) = Within(r, c, k)}
<1>1. GraphOK(r) /\ GraphOK(s) /\ c \in CommitIds(s)
  BY DEF Extends
<1>2. 0 \in S
  BY <1>1, WithinSteps
<1>3. ASSUME NEW k \in Nat, k \in S
      PROVE  k + 1 \in S
  <2>1. Within(r, c, k) \subseteq CommitIds(r)
    BY <1>1, WithinSteps
  <2>2. \A x \in Within(r, c, k) : Parents(s, x) = Parents(r, x)
    BY <2>1 DEF Extends, Parents
  <2>3. Wider(s, Within(r, c, k)) = Wider(r, Within(r, c, k))
    BY <2>2 DEF Wider
  <2>4. QED
    BY <1>1, <1>3, <2>3, WithinSteps
<1>4. Nat \subseteq S
  <2> HIDE DEF S
  <2>1. QED
    BY <1>2, <1>3, SetInduction
<1>5. QED
  BY <1>4

LEMMA AncestorsKept ==
    ASSUME NEW r, NEW s, Extends(r, s), NEW c \in CommitIds(r)
    PROVE  Ancestors(s, c) = Ancestors(r, c)
<1>1. GraphOK(r) /\ GraphOK(s) /\ c \in CommitIds(s)
  BY DEF Extends
<1>2. Len(r.commits) \in Nat /\ Len(s.commits) \in Nat
  BY <1>1 DEF GraphOK
<1>3. Ancestors(s, c) = Within(r, c, Len(s.commits))
  BY <1>2, WithinKept DEF Ancestors
<1>4. Ancestors(r, c) = Within(s, c, Len(r.commits))
  BY <1>2, WithinKept DEF Ancestors
<1>5. Ancestors(s, c) \subseteq Ancestors(r, c) /\ Ancestors(r, c) \subseteq Ancestors(s, c)
  BY <1>1, <1>2, <1>3, <1>4, AncestorsClosed
<1>6. QED
  BY <1>5

LEMMA MergeBaseKept ==
    ASSUME NEW r, NEW s, Extends(r, s), NEW a \in CommitIds(r), NEW b \in CommitIds(r)
    PROVE  FindMergeBase(s, a, b) = FindMergeBase(r, a, b)
<1>1. GraphOK(r) /\ GraphOK(s) /\ CommitIds(r) \subseteq CommitIds(s)
  BY DEF Extends
<1>2. ASSUME NEW c \in CommitIds(r)
      PROVE  AncestorDepths(s, c) = AncestorDepths(r, c)
  <2>1. Ancestors(s, c) = Ancestors(r, c)
    BY <1>2, AncestorsKept
  <2>2. /\ AncestorDepths(r, c) \in [Ancestors(r, c) -> Nat]
        /\ AncestorDepths(s, c) \in [Ancestors(r, c) -> Nat]
    BY <1>1, <1>2, <2>1, DepthsAre
  <2>3. ASSUME NEW x \in Ancestors(r, c)
        PROVE  AncestorDepths(s, c)[x] = AncestorDepths(r, c)[x]
    <3>1. /\ DepthIs(r, c, x, AncestorDepths(r, c)[x])
          /\ DepthIs(s, c, x, AncestorDepths(s, c)[x])
      BY <1>1, <1>2, <2>1, DepthsAre
    <3>2. \A k \in Nat : DepthIs(s, c, x, k) <=> DepthIs(r, c, x, k)
      <4>1. SUFFICES ASSUME NEW k \in Nat
                     PROVE  DepthIs(s, c, x, k) <=> DepthIs(r, c, x, k)
        OBVIOUS
      <4>2. /\ Within(s, c, k) = Within(r, c, k)
            /\ k > 0 => Within(s, c, k - 1) = Within(r, c, k - 1)
        BY <1>2, WithinKept
      <4>3. QED
        BY <4>2 DEF DepthIs
    <3>3. AncestorDepths(r, c)[x] \in Nat /\ AncestorDepths(s, c)[x] \in Nat
      BY <2>2
    <3>4. DepthIs(r, c, x, AncestorDepths(s, c)[x])
      BY <3>1, <3>2, <3>3
    <3>5. QED
      BY <1>1, <1>2, <3>1, <3>3, <3>4, DepthExists
  <2>4. QED
    BY <2>2, <2>3
<1>3. AncestorDepths(s, a) = AncestorDepths(r, a) /\ AncestorDepths(s, b) = AncestorDepths(r, b)
  BY <1>2
<1> DEFINE ranks(da, db) == {<<MaxOf(da[x], db[x]), da[x] + db[x], IdOrder(x), x>> :
                               x \in DOMAIN da \cap DOMAIN db}
           closer(p, q) == \/ p[1] < q[1]
                           \/ p[1] = q[1] /\ p[2] < q[2]
                           \/ p[1] = q[1] /\ p[2] = q[2] /\ p[3] < q[3]
           base(da, db) == IF a = b THEN a
                           ELSE (CHOOSE p \in ranks(da, db) :
                                    \A q \in ranks(da, db) \ {p} : closer(p, q))[4]
<1>4. /\ FindMergeBase(r, a, b) = base(AncestorDepths(r, a), AncestorDepths(r, b))
      /\ FindMergeBase(s, a, b) = base(AncestorDepths(s, a), AncestorDepths(s, b))
  BY DEF FindMergeBase
<1> HIDE DEF base
<1>5. QED
  BY <1>3, <1>4

-----------------------------------------------------------------------------
(* The repository.                                                         *)

(* The inductive invariant: the repository has its type, and a branch      *)
(* points to a commit or does not exist.                                   *)
RepoOK(r) ==
    /\ r \in Repository
    /\ \A b \in Branches : r.head[b] \in CommitIds(r) \cup {NoBranch}

(* What the two repositories before and after an operation on branch b     *)
(* have in common: all commits there were, and every other branch.         *)
OnlyTouches(r, s, b) ==
    /\ Len(r.commits) <= Len(s.commits)
    /\ \A c \in CommitIds(r) : s.commits[c] = r.commits[c]
    /\ \A x \in Branches \ {b} : s.head[x] = r.head[x] /\ s.staging[x] = r.staging[x]

LEMMA RepoShape ==
    ASSUME NEW r \in Repository
    PROVE  /\ r.commits \in Seq(CommitData)
           /\ r.head \in [Branches -> Nat]
           /\ r.staging \in [Branches -> Staging]
           /\ CommitIds(r) = 1 .. Len(r.commits)
           /\ Len(r.commits) \in Nat
BY DEF Repository, CommitIds

(* The objects of a commit and of a branch are objects.                    *)
LEMMA ObjectsShape ==
    ASSUME NEW r \in Repository
    PROVE  /\ \A c \in CommitIds(r) : AtCommit(r, c) \in Objects
           /\ \A b \in Branches : r.head[b] \in CommitIds(r) => ResolveState(r, b) \in Objects
<1>1. ASSUME NEW c \in CommitIds(r)
      PROVE  AtCommit(r, c) \in Objects
  <2>1. r.commits[c] \in CommitData
    BY RepoShape
  <2>2. QED
    BY <2>1 DEF AtCommit, CommitData
<1>2. ASSUME NEW b \in Branches, r.head[b] \in CommitIds(r)
      PROVE  ResolveState(r, b) \in Objects
  <2>1. AtCommit(r, r.head[b]) \in Objects /\ r.staging[b] \in Staging
    BY <1>1, <1>2, RepoShape
  <2>2. QED
    BY <2>1 DEF ResolveState, Objects, Staging
<1>3. QED
  BY <1>1, <1>2

LEMMA NoStagingShape == NoStaging \in Staging
BY DEF NoStaging, Staging

(* Staging a change.                                                       *)
LEMMA StageShape ==
    ASSUME NEW r, RepoOK(r), NEW b \in Branches, NEW p \in Paths,
           NEW v \in Values \cup {Absent}
    PROVE  LET s == PutObject(r, b, p, v)
           IN  /\ RepoOK(s) /\ OnlyTouches(r, s, b)
               /\ s.head = r.head /\ s.commits = r.commits
               /\ s.staging[b] = [r.staging[b] EXCEPT ![p] = v]
<1> DEFINE s == PutObject(r, b, p, v)
           new == [r.staging EXCEPT ![b] = [r.staging[b] EXCEPT ![p] = v]]
<1>1. r \in Repository
  BY DEF RepoOK
<1>2. s = [r EXCEPT !.staging = new]
  BY <1>1, RepoShape DEF PutObject
<1>3. new \in [Branches -> Staging]
  BY <1>1, RepoShape DEF Staging
<1>4. /\ \A x \in Branches \ {b} : new[x] = r.staging[x]
      /\ new[b] = [r.staging[b] EXCEPT ![p] = v]
  BY <1>1, RepoShape
<1> HIDE DEF new, s
<1>5. s \in Repository /\ s.commits = r.commits /\ s.head = r.head /\ s.staging = new
  BY <1>1, <1>2, <1>3 DEF Repository
<1>6. QED
  BY <1>4, <1>5, RepoShape DEF RepoOK, OnlyTouches, CommitIds, s

(* Creating and deleting a branch: its head moves, its staging is cleared. *)
LEMMA PointShape ==
    ASSUME NEW r, RepoOK(r), NEW b \in Branches,
           NEW c \in CommitIds(r) \cup {NoBranch}
    PROVE  LET s == CreateBranch(r, b, c)
           IN  /\ RepoOK(s) /\ OnlyTouches(r, s, b) /\ s.commits = r.commits
               /\ s.head[b] = c /\ s.staging[b] = NoStaging
<1> DEFINE s == CreateBranch(r, b, c)
           heads == [r.head EXCEPT ![b] = c]
           new == [r.staging EXCEPT ![b] = NoStaging]
<1>1. r \in Repository /\ r.head \in [Branches -> Nat]
      /\ r.staging \in [Branches -> Staging] /\ c \in Nat
  BY RepoShape DEF RepoOK, NoBranch
<1>2. s = [r EXCEPT !.head = heads, !.staging = new]
  BY <1>1 DEF CreateBranch, Repository
<1>3. new \in [Branches -> Staging] /\ heads \in [Branches -> Nat]
  BY <1>1, NoStagingShape
<1>4. /\ new[b] = NoStaging /\ heads[b] = c
      /\ \A x \in Branches \ {b} : new[x] = r.staging[x] /\ heads[x] = r.head[x]
  BY <1>1
<1> HIDE DEF s, new, heads
<1>5. s \in Repository /\ s.commits = r.commits /\ s.head = heads /\ s.staging = new
  BY <1>1, <1>2, <1>3 DEF Repository
<1>6. CommitIds(s) = CommitIds(r)
  BY <1>5 DEF CommitIds
<1>7. RepoOK(s)
  BY <1>4, <1>5, <1>6 DEF RepoOK
<1>8. OnlyTouches(r, s, b)
  BY <1>1, <1>4, <1>5, RepoShape DEF OnlyTouches
<1>9. QED
  BY <1>4, <1>5, <1>7, <1>8 DEF s

(* A new commit at the head of a branch.                                   *)
LEMMA AdvanceShape ==
    ASSUME NEW r, RepoOK(r), NEW b \in Branches,
           NEW ps \in SUBSET Nat, NEW objs \in Objects
    PROVE  LET s == Advance(r, b, ps, objs)
               n == Len(r.commits) + 1
           IN  /\ RepoOK(s) /\ OnlyTouches(r, s, b)
               /\ CommitIds(s) = CommitIds(r) \cup {n} /\ s.head[b] = n
               /\ s.commits[n] = [parents |-> ps, objects |-> objs]
               /\ s.staging[b] = NoStaging
<1> DEFINE s == Advance(r, b, ps, objs)
           new == [parents |-> ps, objects |-> objs]
           n == Len(r.commits) + 1
           heads == [r.head EXCEPT ![b] = n]
           stage == [r.staging EXCEPT ![b] = NoStaging]
           log == Append(r.commits, new)
<1>1. r \in Repository /\ r.head \in [Branches -> Nat]
      /\ r.staging \in [Branches -> Staging]
      /\ r.commits \in Seq(CommitData) /\ Len(r.commits) \in Nat
  BY RepoShape DEF RepoOK
<1>2. s = [r EXCEPT !.commits = log, !.head = heads, !.staging = stage]
  BY <1>1 DEF Advance, Repository
<1>3. new \in CommitData
  BY DEF CommitData
<1> HIDE DEF new
<1>4. /\ log \in Seq(CommitData) /\ Len(log) = n /\ log[n] = new
      /\ \A c \in 1 .. Len(r.commits) : log[c] = r.commits[c]
  BY <1>1, <1>3
<1>5. stage \in [Branches -> Staging] /\ heads \in [Branches -> Nat]
  BY <1>1, NoStagingShape
<1>6. /\ heads[b] = n /\ stage[b] = NoStaging
      /\ \A x \in Branches \ {b} : stage[x] = r.staging[x] /\ heads[x] = r.head[x]
  BY <1>1
<1> HIDE DEF s, log, heads, stage
<1>7. s \in Repository /\ s.commits = log /\ s.head = heads /\ s.staging = stage
  BY <1>1, <1>2, <1>4, <1>5 DEF Repository
<1>8. CommitIds(r) = 1 .. Len(r.commits) /\ CommitIds(s) = 1 .. n
  BY <1>1, <1>4, <1>7, RepoShape
<1>9. RepoOK(s)
  BY <1>1, <1>6, <1>7, <1>8 DEF RepoOK
<1>10. OnlyTouches(r, s, b)
  BY <1>1, <1>4, <1>6, <1>7, <1>8 DEF OnlyTouches
<1>11. CommitIds(s) = CommitIds(r) \cup {n}
  BY <1>1, <1>8
<1>12. QED
  BY <1>4, <1>6, <1>7, <1>9, <1>10, <1>11 DEF s, new

(* What Merge() writes to a path is the source's value or the target's:    *)
(* the base is only written where the source has it too.                   *)
LEMMA MergeShape ==
    ASSUME NEW r, RepoOK(r), NEW a \in Branches, NEW b \in Branches,
           BranchExists(r, a), BranchExists(r, b)
    PROVE  LET s == Merge(r, a, b)
               n == Len(r.commits) + 1
               h == r.head[a]
               k == r.head[b]
           IN  /\ h \in CommitIds(r) /\ k \in CommitIds(r)
               /\ RepoOK(s) /\ OnlyTouches(r, s, b)
               /\ CommitIds(s) = CommitIds(r) \cup {n} /\ s.head[b] = n
               /\ s.staging[b] = NoStaging
               /\ Parents(s, n) = {h, k}
               /\ \A p \in Paths : AtCommit(s, n)[p] =
                     PathMerge(AtCommit(r, FindMergeBase(r, h, k))[p],
                               AtCommit(r, h)[p], AtCommit(r, k)[p])
<1> DEFINE base == AtCommit(r, MergeBase(r, a, b))
           src  == AtCommit(r, r.head[a])
           tgt  == AtCommit(r, r.head[b])
           objs == [p \in Paths |-> PathMerge(base[p], src[p], tgt[p])]
           ps   == {r.head[b], r.head[a]}
           s    == Merge(r, a, b)
           n    == Len(r.commits) + 1
<1>1. /\ r \in Repository /\ r.head \in [Branches -> Nat]
      /\ r.head[a] \in CommitIds(r) /\ r.head[b] \in CommitIds(r)
  BY RepoShape DEF RepoOK, BranchExists
<1>2. src \in Objects /\ tgt \in Objects
  BY <1>1, ObjectsShape
<1>3. \A p \in Paths : PathMerge(base[p], src[p], tgt[p]) \in {src[p], tgt[p]}
  BY DEF PathMerge
<1>4. objs \in Objects
  <2> HIDE DEF base, src, tgt
  <2>1. QED
    BY <1>2, <1>3 DEF Objects
<1>5. ps \in SUBSET Nat
  BY <1>1
<1>6. s = Advance(r, b, ps, objs)
  BY DEF Merge
<1>7. /\ RepoOK(s) /\ OnlyTouches(r, s, b)
      /\ CommitIds(s) = CommitIds(r) \cup {n} /\ s.head[b] = n
      /\ s.commits[n] = [parents |-> ps, objects |-> objs]
      /\ s.staging[b] = NoStaging
  <2> HIDE DEF ps, objs, s
  <2>1. QED
    BY <1>4, <1>5, <1>6, AdvanceShape
<1>8. Parents(s, n) = ps /\ AtCommit(s, n) = objs
  <2> HIDE DEF ps, objs, s
  <2>1. QED
    BY <1>7 DEF Parents, AtCommit
<1>9. \A p \in Paths : AtCommit(s, n)[p] = PathMerge(base[p], src[p], tgt[p])
  <2> HIDE DEF s, base, src, tgt
  <2>1. QED
    BY <1>8
<1>10. QED
  <2> HIDE DEF s
  <2>1. QED
    BY <1>1, <1>7, <1>8, <1>9 DEF MergeBase, s

(* A repository with at most one commit more, whose parents are older.     *)
LEMMA GraphGrows ==
    ASSUME NEW r, NEW s, RepoOK(r), RepoOK(s), GraphOK(r), NEW n,
           n = Len(r.commits) + 1,
           CommitIds(s) \in {CommitIds(r), CommitIds(r) \cup {n}},
           \A c \in CommitIds(r) : s.commits[c] = r.commits[c],
           n \in CommitIds(s) => Parents(s, n) \subseteq CommitIds(r) /\ Parents(s, n) # {}
    PROVE  GraphOK(s) /\ Extends(r, s)
<1>1. /\ CommitIds(r) = 1 .. Len(r.commits) /\ Len(r.commits) \in Nat
      /\ CommitIds(s) = 1 .. Len(s.commits) /\ Len(s.commits) \in Nat
  BY RepoShape DEF RepoOK
<1>2. \A c \in CommitIds(s) : c \in CommitIds(r) \/ c = n
  OBVIOUS
<1>3. ASSUME NEW c \in CommitIds(s)
      PROVE  Parents(s, c) \subseteq 1 .. c - 1 /\ (c # Genesis => Parents(s, c) # {})
  <2>1. CASE c \in CommitIds(r)
    BY <1>1, <2>1 DEF GraphOK, Parents
  <2>2. CASE c = n
    <3>1. 1 .. n - 1 = CommitIds(r)
      BY <1>1
    <3>2. QED
      BY <2>2, <3>1
  <2>3. QED
    BY <1>2, <2>1, <2>2
<1>4. GraphOK(s)
  BY <1>1, <1>3 DEF GraphOK
<1>5. QED
  BY <1>1, <1>4 DEF Extends
=============================================================================

------------------------ MODULE ArtifactStoreProofs ------------------------
(***************************************************************************)
(* Proofs about creating, updating and deleting artifacts, for any number  *)
(* of clients, instances, artifacts, reference fields and requests.        *)
(***************************************************************************)
EXTENDS ArtifactStore, FiniteSetTheorems, TLAPS

(* The lemmas on numbers of MemoryStorageProofs.                           *)
G == INSTANCE MemoryStorageProofs WITH
        Branches <- StoreBranches, Paths <- ObjectPaths, Values <- StoredValues

LEMMA StoreNames ==
    /\ Main \in StoreBranches
    /\ Absent \notin StoredValues
    /\ Unstaged \notin StoredValues \cup {Absent}
BY ArtifactStoreAssumption DEF StoreBranches

LEMMA SetInduction ==
    ASSUME NEW S, 0 \in S, \A n \in Nat : n \in S => n + 1 \in S
    PROVE  Nat \subseteq S
BY StoreNames, G!SetInduction

-----------------------------------------------------------------------------
(* Folds over finite sets.                                                 *)

(* A property of subsets that one gets by adding elements.                 *)
LEMMA SubsetInduction ==
    ASSUME NEW S, IsFiniteSet(S), NEW Good, {} \in Good,
           \A s \in (SUBSET S) \ {{}} : \E x \in s : s \ {x} \in Good => s \in Good
    PROVE  SUBSET S \subseteq Good
<1> DEFINE N == {n \in Nat : \A s \in SUBSET S : Cardinality(s) = n => s \in Good}
<1>1. \A s \in SUBSET S : IsFiniteSet(s) /\ Cardinality(s) \in Nat
  BY FS_Subset, FS_CardinalityType
<1>2. 0 \in N
  <2>1. \A s \in SUBSET S : Cardinality(s) = 0 => s = {}
    BY <1>1, FS_EmptySet
  <2>2. QED
    BY <2>1
<1>3. ASSUME NEW n \in Nat, n \in N
      PROVE  n + 1 \in N
  <2>1. ASSUME NEW s \in SUBSET S, Cardinality(s) = n + 1
        PROVE  s \in Good
    <3>1. Cardinality(s) # 0 /\ s # {}
      <4>1. n + 1 # 0
        OBVIOUS
      <4>2. QED
        BY <2>1, <4>1, FS_EmptySet
    <3>2. PICK x \in s : s \ {x} \in Good => s \in Good
      BY <3>1
    <3>3. Cardinality(s \ {x}) = n
      <4>1. Cardinality(s \ {x}) = Cardinality(s) - 1
        BY <1>1, FS_RemoveElement
      <4>2. QED
        BY <2>1, <4>1
    <3>4. s \ {x} \in Good
      <4>1. s \ {x} \in SUBSET S
        OBVIOUS
      <4>2. QED
        BY <1>3, <3>3, <4>1
    <3>5. QED
      BY <3>2, <3>4
  <2>2. QED
    BY <2>1
<1>4. Nat \subseteq N
  <2> HIDE DEF N
  <2>1. QED
    BY <1>2, <1>3, SetInduction
<1>5. QED
  BY <1>1, <1>4

(* The recursive function behind a fold: step is applied to one element    *)
(* after the other, where ch says which one is the last.                   *)
Folding(f, S, base, step, ch) ==
    f = [s \in SUBSET S |-> IF s = {} THEN base ELSE step[<<ch[s], f[s \ {ch[s]}]>>]]

LEMMA FoldExists ==
    ASSUME NEW S, IsFiniteSet(S), NEW X, NEW base \in X, NEW step \in [S \X X -> X],
           NEW ch \in [SUBSET S -> S \cup {S}], \A s \in (SUBSET S) \ {{}} : ch[s] \in s
    PROVE  \E f \in [SUBSET S -> X] : Folding(f, S, base, step, ch)
<1> DEFINE FX == [SUBSET S -> X]
           next(f) == [s \in SUBSET S |->
                        IF s = {} THEN base ELSE step[<<ch[s], f[s \ {ch[s]}]>>]]
           go == [f \in FX |-> next(f)]
           f0 == [s \in SUBSET S |-> base]
<1>1. f0 \in FX
  OBVIOUS
<1>2. ASSUME NEW f \in FX
      PROVE  next(f) \in FX
  <2>1. \A s \in SUBSET S : s # {} => step[<<ch[s], f[s \ {ch[s]}]>>] \in X
    <3>1. SUFFICES ASSUME NEW s \in SUBSET S, s # {}
                   PROVE  step[<<ch[s], f[s \ {ch[s]}]>>] \in X
      OBVIOUS
    <3>2. ch[s] \in S /\ s \ {ch[s]} \in SUBSET S
      BY <3>1
    <3>3. f[s \ {ch[s]}] \in X
      BY <3>2
    <3>4. QED
      BY <3>2, <3>3
  <2>2. QED
    BY <2>1
<1>3. go \in [FX -> FX]
  BY <1>2
<1>4. PICK F \in [Nat -> FX] : F[0] = f0 /\ \A n \in Nat : F[n + 1] = go[F[n]]
  <2> HIDE DEF FX, go, f0
  <2>1. QED
    BY <1>1, <1>3, StoreNames, G!IterationExists
<1>5. \A n \in Nat : F[n] \in FX /\ F[n + 1] = next(F[n])
  BY <1>4
<1> HIDE DEF FX, go, f0
<1> DEFINE N == {n \in Nat : \A s \in SUBSET S : Cardinality(s) <= n => F[n + 1][s] = F[n][s]}
<1>6. \A s \in SUBSET S : IsFiniteSet(s) /\ Cardinality(s) \in Nat
  BY FS_Subset, FS_CardinalityType
<1>7. 0 \in N
  <2>1. \A s \in SUBSET S : Cardinality(s) <= 0 => s = {}
    BY <1>6, FS_EmptySet
  <2>2. F[0 + 1][{}] = base /\ F[0][{}] = base
    <3>1. F[0 + 1] = next(F[0])
      BY <1>5
    <3>2. QED
      BY <1>4, <3>1 DEF f0
  <2>3. QED
    BY <2>1, <2>2
<1>8. ASSUME NEW n \in Nat, n \in N
      PROVE  n + 1 \in N
  <2>1. ASSUME NEW s \in SUBSET S, Cardinality(s) <= n + 1
        PROVE  F[(n + 1) + 1][s] = F[n + 1][s]
    <3>1. F[(n + 1) + 1] = next(F[n + 1]) /\ F[n + 1] = next(F[n])
      <4>1. n + 1 \in Nat
        OBVIOUS
      <4>2. QED
        BY <1>5, <4>1
    <3>2. CASE s = {}
      BY <3>1, <3>2
    <3>3. CASE s # {}
      <4>1. ch[s] \in s
        BY <3>3
      <4>2. s \ {ch[s]} \in SUBSET S /\ Cardinality(s \ {ch[s]}) = Cardinality(s) - 1
        BY <1>6, <4>1, FS_RemoveElement
      <4>3. Cardinality(s \ {ch[s]}) <= n
        BY <1>6, <2>1, <4>2
      <4>4. F[n + 1][s \ {ch[s]}] = F[n][s \ {ch[s]}]
        BY <1>8, <4>3
      <4>5. s \in SUBSET S
        OBVIOUS
      <4>6. /\ F[(n + 1) + 1][s] = step[<<ch[s], F[n + 1][s \ {ch[s]}]>>]
            /\ F[n + 1][s] = step[<<ch[s], F[n][s \ {ch[s]}]>>]
        BY <3>1, <3>3
      <4>7. QED
        BY <4>4, <4>6
    <3>4. QED
      BY <3>2, <3>3
  <2>2. QED
    BY <2>1
<1>9. Nat \subseteq N
  <2> HIDE DEF N
  <2>1. QED
    BY <1>7, <1>8, SetInduction
<1> DEFINE m == Cardinality(S)
<1>10. m \in Nat /\ \A s \in SUBSET S : Cardinality(s) <= m
  BY <1>6, FS_Subset, FS_CardinalityType
<1>11. \A s \in SUBSET S : F[m + 1][s] = F[m][s]
  BY <1>9, <1>10
<1> HIDE DEF m
<1>12. F[m] \in FX /\ F[m + 1] = next(F[m]) /\ F[m + 1] \in FX
  <2>1. m + 1 \in Nat
    BY <1>10
  <2>2. QED
    BY <1>5, <1>10, <2>1
<1>13. F[m] = next(F[m])
  BY <1>11, <1>12 DEF FX
<1>14. QED
  BY <1>12, <1>13 DEF Folding, FX

(* What the steps never leave, the fold does not leave; and it gets to     *)
(* where the step for one element leads from anywhere, if no step leads    *)
(* out of there.                                                           *)
Attracts(Y, S, X, step, b) ==
    /\ Y \subseteq X
    /\ \A o \in X : step[<<b, o>>] \in Y
    /\ \A o \in Y, d \in S : step[<<d, o>>] \in Y

Folded(f, S, X, base, step, ch) ==
    /\ f[{}] = base
    /\ \A s \in (SUBSET S) \ {{}} :
        /\ ch[s] \in s
        /\ f[s \ {ch[s]}] \in X => f[s] = step[<<ch[s], f[s \ {ch[s]}]>>]

LEMMA FoldReaches ==
    ASSUME NEW S, IsFiniteSet(S), NEW X, NEW base \in X, NEW step \in [S \X X -> X],
           NEW ch, NEW f, Folded(f, S, X, base, step, ch)
    PROVE  /\ f[S] \in X
           /\ \A b \in S : \A Y : Attracts(Y, S, X, step, b) => f[S] \in Y
<1>1. ASSUME NEW b, NEW Y, b \in S => Attracts(Y, S, X, step, b)
      PROVE  \A s \in SUBSET S : f[s] \in X /\ (b \in s => f[s] \in Y)
  <2> DEFINE Good == {s \in SUBSET S : f[s] \in X /\ (b \in s => f[s] \in Y)}
  <2>1. {} \in Good
    BY DEF Folded
  <2>2. ASSUME NEW s \in (SUBSET S) \ {{}}, s \ {ch[s]} \in Good
        PROVE  s \in Good
    <3> DEFINE x == ch[s]
               o == f[s \ {x}]
    <3>1. x \in s /\ o \in X /\ f[s] = step[<<x, o>>] /\ <<x, o>> \in S \X X
      BY <2>2 DEF Folded
    <3>2. b \in s => b = x \/ o \in Y
      BY <2>2
    <3> HIDE DEF x, o
    <3>3. b \in s => f[s] \in Y
      BY <1>1, <3>1, <3>2 DEF Attracts
    <3>4. QED
      BY <3>1, <3>3
  <2>3. \A s \in (SUBSET S) \ {{}} : \E x \in s : s \ {x} \in Good => s \in Good
    <3> HIDE DEF Good
    <3>1. QED
      BY <2>2 DEF Folded
  <2>4. SUBSET S \subseteq Good
    <3> HIDE DEF Good
    <3>1. QED
      BY <2>1, <2>3, SubsetInduction
  <2>5. QED
    BY <2>4
<1>2. f[S] \in X
  <2>1. \A b \in S : Attracts(X, S, X, step, b)
    BY DEF Attracts
  <2>2. QED
    BY <1>1, <2>1
<1>3. QED
  BY <1>1, <1>2

LEMMA FiniteEffects ==
    /\ \A S \in SUBSET Ids : IsFiniteSet(S)
    /\ \A S \in SUBSET (Ids \X Fields \X Ids) : IsFiniteSet(S)
<1>1. IsFiniteSet(Ids) /\ IsFiniteSet(Fields)
  BY ReferenceAssumption
<1> DEFINE P == (Ids \X Fields) \X Ids
           T == Ids \X Fields \X Ids
           f == [z \in P |-> <<z[1][1], z[1][2], z[2]>>]
<1>2. IsFiniteSet(P)
  BY <1>1, FS_Product
<1>3. f \in Surjection(P, T)
  <2>1. f \in [P -> T]
    OBVIOUS
  <2>2. ASSUME NEW t \in T
        PROVE  \E z \in P : f[z] = t
    <3>1. <<<<t[1], t[2]>>, t[3]>> \in P
      OBVIOUS
    <3>2. f[<<<<t[1], t[2]>>, t[3]>>] = t
      BY <3>1
    <3>3. QED
      BY <3>1, <3>2
  <2>3. QED
    BY <2>1, <2>2 DEF Surjection
<1>4. IsFiniteSet(T)
  <2> HIDE DEF P, T, f
  <2>1. QED
    BY <1>2, <1>3, FS_Surjection
<1>5. QED
  BY <1>1, <1>4, FS_Subset

LEMMA CascadesReach ==
    ASSUME NEW S \in SUBSET Ids, NEW X, NEW o0 \in X,
           \A b \in S, o \in X : ApplyCascadeEffect(o, b) \in X
    PROVE  /\ ApplyCascades(o0, S) \in X
           /\ \A b \in S, Y \in SUBSET X :
                /\ \A o \in X : ApplyCascadeEffect(o, b) \in Y
                /\ \A o \in Y, d \in S : ApplyCascadeEffect(o, d) \in Y
                => ApplyCascades(o0, S) \in Y
<1> DEFINE pick(s) == CHOOSE x \in s : TRUE
           body(i) == [s \in SUBSET S |->
                        IF s = {} THEN o0
                        ELSE ApplyCascadeEffect(i[s \ {pick(s)}], pick(s))]
           I == CHOOSE i : i = body(i)
           step == [z \in S \X X |-> ApplyCascadeEffect(z[2], z[1])]
           ch == [s \in SUBSET S |-> IF s = {} THEN S ELSE pick(s)]
<1>1. ApplyCascades(o0, S) = I[S]
  BY DEF ApplyCascades, FoldSet, MapThenFoldSet
<1>2. IsFiniteSet(S)
  BY FiniteEffects
<1>3. step \in [S \X X -> X]
  OBVIOUS
<1>4. \A b \in S, o \in X : step[<<b, o>>] = ApplyCascadeEffect(o, b)
  OBVIOUS
<1>5. \A s \in (SUBSET S) \ {{}} : ch[s] \in s /\ ch[s] = pick(s)
  <2>1. \A s \in (SUBSET S) \ {{}} : ch[s] = pick(s)
    OBVIOUS
  <2>2. ASSUME NEW s, s # {}
        PROVE  pick(s) \in s
    <3>1. \E x \in s : TRUE
      BY <2>2
    <3>2. QED
      BY <3>1, Zenon
  <2> HIDE DEF ch, pick
  <2>3. QED
    BY <2>1, <2>2
<1>6. ch \in [SUBSET S -> S \cup {S}]
  BY <1>5
<1> HIDE DEF step, ch, pick
<1>7. PICK f \in [SUBSET S -> X] : Folding(f, S, o0, step, ch)
  BY <1>2, <1>3, <1>5, <1>6, FoldExists
<1>8. f = body(f)
  <2>1. ASSUME NEW s \in SUBSET S
        PROVE  f[s] = body(f)[s]
    <3>1. f[s] = IF s = {} THEN o0 ELSE step[<<ch[s], f[s \ {ch[s]}]>>]
      BY <1>7 DEF Folding
    <3>2. CASE s = {}
      BY <3>1, <3>2
    <3>3. CASE s # {}
      <4>1. f[s \ {ch[s]}] \in X /\ ch[s] \in S
        BY <1>5, <3>3
      <4>2. QED
        BY <1>4, <1>5, <3>1, <3>3, <4>1
    <3>4. QED
      BY <3>2, <3>3
  <2>2. QED
    BY <2>1
<1>9. I = body(I)
  <2> HIDE DEF body
  <2>1. QED
    BY <1>8
<1> HIDE DEF I
<1>10. I[{}] = o0
  BY <1>9
<1>11. \A s \in (SUBSET S) \ {{}} : I[s \ {ch[s]}] \in X =>
            I[s] = step[<<ch[s], I[s \ {ch[s]}]>>]
  <2>1. ASSUME NEW s \in (SUBSET S) \ {{}}, I[s \ {ch[s]}] \in X
        PROVE  I[s] = step[<<ch[s], I[s \ {ch[s]}]>>]
    <3>1. I[s] = ApplyCascadeEffect(I[s \ {pick(s)}], pick(s))
      <4>1. I[s] = body(I)[s] /\ s \in SUBSET S /\ s # {}
        BY <1>9, <2>1, Zenon
      <4>2. body(I)[s] = ApplyCascadeEffect(I[s \ {pick(s)}], pick(s))
        BY <4>1
      <4> HIDE DEF body
      <4>3. QED
        BY <4>1, <4>2
    <3>2. ch[s] = pick(s) /\ ch[s] \in S
      BY <1>5
    <3>3. QED
      BY <1>4, <2>1, <3>1, <3>2
  <2>2. QED
    BY <2>1
<1>12. /\ I[S] \in X
       /\ \A b \in S : \A Y : Attracts(Y, S, X, step, b) => I[S] \in Y
  <2>1. Folded(I, S, X, o0, step, ch)
    BY <1>5, <1>10, <1>11 DEF Folded
  <2> HIDE DEF body
  <2>2. QED
    BY <1>2, <1>3, <2>1, FoldReaches
<1>13. \A b \in S, Y \in SUBSET X :
            /\ \A o \in X : ApplyCascadeEffect(o, b) \in Y
            /\ \A o \in Y, d \in S : ApplyCascadeEffect(o, d) \in Y
            => Attracts(Y, S, X, step, b)
  BY <1>4 DEF Attracts
<1>14. QED
  BY <1>1, <1>12, <1>13

LEMMA SetNullsReach ==
    ASSUME NEW S \in SUBSET (Ids \X Fields \X Ids), NEW X, NEW o0 \in X,
           \A n \in S, o \in X : ApplySetNullEffect(o, n) \in X
    PROVE  /\ ApplySetNulls(o0, S) \in X
           /\ \A n \in S, Y \in SUBSET X :
                /\ \A o \in X : ApplySetNullEffect(o, n) \in Y
                /\ \A o \in Y, d \in S : ApplySetNullEffect(o, d) \in Y
                => ApplySetNulls(o0, S) \in Y
<1> DEFINE pick(s) == CHOOSE x \in s : TRUE
           body(i) == [s \in SUBSET S |->
                        IF s = {} THEN o0
                        ELSE ApplySetNullEffect(i[s \ {pick(s)}], pick(s))]
           I == CHOOSE i : i = body(i)
           step == [z \in S \X X |-> ApplySetNullEffect(z[2], z[1])]
           ch == [s \in SUBSET S |-> IF s = {} THEN S ELSE pick(s)]
<1>1. ApplySetNulls(o0, S) = I[S]
  BY DEF ApplySetNulls, FoldSet, MapThenFoldSet
<1>2. IsFiniteSet(S)
  BY FiniteEffects
<1>3. step \in [S \X X -> X]
  OBVIOUS
<1>4. \A b \in S, o \in X : step[<<b, o>>] = ApplySetNullEffect(o, b)
  OBVIOUS
<1>5. \A s \in (SUBSET S) \ {{}} : ch[s] \in s /\ ch[s] = pick(s)
  <2>1. \A s \in (SUBSET S) \ {{}} : ch[s] = pick(s)
    OBVIOUS
  <2>2. ASSUME NEW s, s # {}
        PROVE  pick(s) \in s
    <3>1. \E x \in s : TRUE
      BY <2>2
    <3>2. QED
      BY <3>1, Zenon
  <2> HIDE DEF ch, pick
  <2>3. QED
    BY <2>1, <2>2
<1>6. ch \in [SUBSET S -> S \cup {S}]
  BY <1>5
<1> HIDE DEF step, ch, pick
<1>7. PICK f \in [SUBSET S -> X] : Folding(f, S, o0, step, ch)
  BY <1>2, <1>3, <1>5, <1>6, FoldExists
<1>8. f = body(f)
  <2>1. ASSUME NEW s \in SUBSET S
        PROVE  f[s] = body(f)[s]
    <3>1. f[s] = IF s = {} THEN o0 ELSE step[<<ch[s], f[s \ {ch[s]}]>>]
      BY <1>7 DEF Folding
    <3>2. CASE s = {}
      BY <3>1, <3>2
    <3>3. CASE s # {}
      <4>1. f[s \ {ch[s]}] \in X /\ ch[s] \in S
        BY <1>5, <3>3
      <4>2. QED
        BY <1>4, <1>5, <3>1, <3>3, <4>1
    <3>4. QED
      BY <3>2, <3>3
  <2>2. QED
    BY <2>1
<1>9. I = body(I)
  <2> HIDE DEF body
  <2>1. QED
    BY <1>8
<1> HIDE DEF I
<1>10. I[{}] = o0
  BY <1>9
<1>11. \A s \in (SUBSET S) \ {{}} : I[s \ {ch[s]}] \in X =>
            I[s] = step[<<ch[s], I[s \ {ch[s]}]>>]
  <2>1. ASSUME NEW s \in (SUBSET S) \ {{}}, I[s \ {ch[s]}] \in X
        PROVE  I[s] = step[<<ch[s], I[s \ {ch[s]}]>>]
    <3>1. I[s] = ApplySetNullEffect(I[s \ {pick(s)}], pick(s))
      <4>1. I[s] = body(I)[s] /\ s \in SUBSET S /\ s # {}
        BY <1>9, <2>1, Zenon
      <4>2. body(I)[s] = ApplySetNullEffect(I[s \ {pick(s)}], pick(s))
        BY <4>1
      <4> HIDE DEF body
      <4>3. QED
        BY <4>1, <4>2
    <3>2. ch[s] = pick(s) /\ ch[s] \in S
      BY <1>5
    <3>3. QED
      BY <1>4, <2>1, <3>1, <3>2
  <2>2. QED
    BY <2>1
<1>12. /\ I[S] \in X
       /\ \A b \in S : \A Y : Attracts(Y, S, X, step, b) => I[S] \in Y
  <2>1. Folded(I, S, X, o0, step, ch)
    BY <1>5, <1>10, <1>11 DEF Folded
  <2> HIDE DEF body
  <2>2. QED
    BY <1>2, <1>3, <2>1, FoldReaches
<1>13. \A b \in S, Y \in SUBSET X :
            /\ \A o \in X : ApplySetNullEffect(o, b) \in Y
            /\ \A o \in Y, d \in S : ApplySetNullEffect(o, d) \in Y
            => Attracts(Y, S, X, step, b)
  BY <1>4 DEF Attracts
<1>14. QED
  BY <1>1, <1>12, <1>13

-----------------------------------------------------------------------------
(* The objects of a commit: artifacts and index objects at their paths.    *)

ObjectsOK(o) ==
    /\ o \in [ObjectPaths -> StoredValues \cup {Absent}]
    /\ \A a \in Ids : ReadStoredArtifact(o, a) \in StoredArtifacts \cup {Absent}
    /\ \A p \in IndexPaths : o[p] \in IndexObjects \cup {Absent}

HasRow(o, a, p) == a \in DOMAIN Rows(o[p])

Derives(o, a, p) ==
    Exists(o, a) /\ p \in DeriveIndexEntries(ReadStoredArtifact(o, a))

(* Index object p shows artifact a if and only if it should.               *)
Covers(o, a, p) == HasRow(o, a, p) <=> Derives(o, a, p)

LEMMA PathsApart ==
    /\ \A a \in Ids : ArtifactPath(a) \in ObjectPaths /\ ArtifactPath(a) \notin IndexPaths
    /\ \A a, b \in Ids : ArtifactPath(a) = ArtifactPath(b) => a = b
    /\ IndexPaths \subseteq ObjectPaths
    /\ \A p \in ObjectPaths : p \in IndexPaths \/ \E a \in Ids : p = ArtifactPath(a)
BY ReferenceAssumption DEF ArtifactPath, ArtifactPaths, IndexPaths, ObjectPaths

LEMMA RowsShape ==
    ASSUME NEW x \in IndexObjects \cup {Absent}
    PROVE  Rows(x) \in [DOMAIN Rows(x) -> {0}] /\ DOMAIN Rows(x) \subseteq Ids
<1>1. CASE x = Absent
  BY <1>1 DEF Rows, NoRows
<1>2. CASE x # Absent
  <2>1. PICK D \in SUBSET Ids : x \in [D -> {0}]
    BY <1>2 DEF IndexObjects
  <2>2. QED
    BY <1>2, <2>1 DEF Rows
<1>3. QED
  BY <1>1, <1>2

LEMMA RowUpdates ==
    ASSUME NEW x \in IndexObjects \cup {Absent}, NEW a \in Ids
    PROVE  /\ WithRow(x, a, 0) \in IndexObjects
           /\ DOMAIN Rows(WithRow(x, a, 0)) = DOMAIN Rows(x) \cup {a}
           /\ WithoutRow(x, a) \in IndexObjects
           /\ DOMAIN Rows(WithoutRow(x, a)) = DOMAIN Rows(x) \ {a}
<1>1. Rows(x) \in [DOMAIN Rows(x) -> {0}] /\ DOMAIN Rows(x) \subseteq Ids
  BY RowsShape
<1> DEFINE D == DOMAIN Rows(x)
<1>2. WithRow(x, a, 0) \in [D \cup {a} -> {0}] /\ D \cup {a} \in SUBSET Ids
  BY <1>1 DEF WithRow
<1>3. WithoutRow(x, a) \in [D \ {a} -> {0}] /\ D \ {a} \in SUBSET Ids
  BY <1>1 DEF WithoutRow
<1>4. \A E \in SUBSET Ids : [E -> {0}] \subseteq IndexObjects
  BY DEF IndexObjects
<1>5. Absent \notin IndexObjects
  BY ArtifactStoreAssumption DEF StoredValues
<1> HIDE DEF D
<1>6. WithRow(x, a, 0) \in IndexObjects /\ WithoutRow(x, a) \in IndexObjects
  BY <1>2, <1>3, <1>4
<1>7. /\ Rows(WithRow(x, a, 0)) = WithRow(x, a, 0)
      /\ Rows(WithoutRow(x, a)) = WithoutRow(x, a)
  BY <1>5, <1>6 DEF Rows
<1>8. QED
  BY <1>2, <1>3, <1>6, <1>7 DEF D

(* From o to n only artifact a is written, to s, its rows at the paths in  *)
(* old go and those at the paths in new come.                              *)
Rewrites(o, n, a, s, old, new) ==
    /\ ObjectsOK(n)
    /\ \A b \in Ids : ReadStoredArtifact(n, b) = IF b = a THEN s ELSE ReadStoredArtifact(o, b)
    /\ \A b \in Ids, p \in IndexPaths :
        HasRow(n, b, p) <=> IF b = a THEN p \in new \/ (HasRow(o, a, p) /\ p \notin old)
                            ELSE HasRow(o, b, p)

LEMMA PutShape ==
    ASSUME NEW o, ObjectsOK(o), NEW a \in Ids, NEW s \in StoredArtifacts
    PROVE  Rewrites(o, Put(o, a, s), a, s, {}, {})
<1> DEFINE n == Put(o, a, s)
<1>1. /\ n \in [ObjectPaths -> StoredValues \cup {Absent}]
      /\ n[ArtifactPath(a)] = s
      /\ \A p \in ObjectPaths : p # ArtifactPath(a) => n[p] = o[p]
  BY PathsApart DEF Put, ObjectsOK, StoredValues
<1> HIDE DEF n
<1>2. \A b \in Ids : n[ArtifactPath(b)] = IF b = a THEN s ELSE o[ArtifactPath(b)]
  BY <1>1, PathsApart
<1>3. \A p \in IndexPaths : n[p] = o[p]
  BY <1>1, PathsApart
<1>4. ObjectsOK(n)
  BY <1>1, <1>2, <1>3 DEF ObjectsOK, ReadStoredArtifact
<1>5. QED
  BY <1>2, <1>3, <1>4 DEF Rewrites, HasRow, ReadStoredArtifact, n

LEMMA AddRowsShape ==
    ASSUME NEW o, ObjectsOK(o), NEW a \in Ids, NEW new \in SUBSET IndexPaths
    PROVE  Rewrites(o, AddRows(o, a, new), a, ReadStoredArtifact(o, a), {}, new)
<1> DEFINE n == AddRows(o, a, new)
<1>1. \A p \in ObjectPaths : n[p] = IF p \in new THEN WithRow(o[p], a, 0) ELSE o[p]
  BY DEF AddRows
<1>2. n = [p \in ObjectPaths |-> n[p]]
  BY DEF AddRows
<1> HIDE DEF n
<1>3. \A b \in Ids : n[ArtifactPath(b)] = o[ArtifactPath(b)]
  BY <1>1, PathsApart
<1>4. ASSUME NEW p \in IndexPaths
      PROVE  /\ n[p] \in IndexObjects \cup {Absent}
             /\ \A b \in Ids : HasRow(n, b, p) <=> HasRow(o, b, p) \/ (b = a /\ p \in new)
  <2> DEFINE x == o[p]
  <2>1. x \in IndexObjects \cup {Absent} /\ p \in ObjectPaths
    BY PathsApart DEF ObjectsOK
  <2>2. n[p] = IF p \in new THEN WithRow(x, a, 0) ELSE x
    BY <1>1, <2>1
  <2>3. /\ WithRow(x, a, 0) \in IndexObjects
        /\ DOMAIN Rows(WithRow(x, a, 0)) = DOMAIN Rows(x) \cup {a}
    <3> HIDE DEF x
    <3>1. QED
      BY <2>1, RowUpdates
  <2>4. CASE p \in new
    <3>1. n[p] = WithRow(x, a, 0)
      BY <2>2, <2>4
    <3>2. DOMAIN Rows(n[p]) = DOMAIN Rows(x) \cup {a} /\ n[p] \in IndexObjects
      BY <2>3, <3>1
    <3>3. QED
      BY <2>4, <3>2 DEF HasRow
  <2>5. CASE p \notin new
    BY <2>1, <2>2, <2>5 DEF HasRow
  <2>6. QED
    BY <2>4, <2>5
<1>5. \A p \in ObjectPaths : n[p] \in StoredValues \cup {Absent}
  <2>1. \A b \in Ids : o[ArtifactPath(b)] \in StoredValues \cup {Absent}
    BY PathsApart DEF ObjectsOK
  <2>2. QED
    BY <1>3, <1>4, <2>1, PathsApart DEF StoredValues
<1>6. ObjectsOK(n)
  BY <1>2, <1>3, <1>4, <1>5 DEF ObjectsOK, ReadStoredArtifact
<1>7. QED
  BY <1>3, <1>4, <1>6 DEF Rewrites, ReadStoredArtifact, n

LEMMA RemoveRowsShape ==
    ASSUME NEW o, ObjectsOK(o), NEW a \in Ids, NEW old \in SUBSET IndexPaths
    PROVE  Rewrites(o, RemoveRows(o, a, old), a, ReadStoredArtifact(o, a), old, {})
<1> DEFINE n == RemoveRows(o, a, old)
<1>1. \A p \in ObjectPaths :
        n[p] = IF p \in old /\ o[p] # Absent THEN WithoutRow(o[p], a) ELSE o[p]
  BY DEF RemoveRows
<1>2. n = [p \in ObjectPaths |-> n[p]]
  BY DEF RemoveRows
<1> HIDE DEF n
<1>3. \A b \in Ids : n[ArtifactPath(b)] = o[ArtifactPath(b)]
  BY <1>1, PathsApart
<1>4. ASSUME NEW p \in IndexPaths
      PROVE  /\ n[p] \in IndexObjects \cup {Absent}
             /\ \A b \in Ids : HasRow(n, b, p) <=> HasRow(o, b, p) /\ ~(b = a /\ p \in old)
  <2> DEFINE x == o[p]
  <2>1. x \in IndexObjects \cup {Absent} /\ p \in ObjectPaths
    BY PathsApart DEF ObjectsOK
  <2>2. x = Absent => DOMAIN Rows(x) = {}
    BY DEF Rows, NoRows
  <2>3. n[p] = IF p \in old /\ x # Absent THEN WithoutRow(x, a) ELSE x
    BY <1>1, <2>1
  <2>4. /\ WithoutRow(x, a) \in IndexObjects
        /\ DOMAIN Rows(WithoutRow(x, a)) = DOMAIN Rows(x) \ {a}
    <3> HIDE DEF x
    <3>1. QED
      BY <2>1, RowUpdates
  <2>5. CASE p \in old /\ x # Absent
    <3>1. n[p] = WithoutRow(x, a)
      BY <2>3, <2>5
    <3>2. DOMAIN Rows(n[p]) = DOMAIN Rows(x) \ {a} /\ n[p] \in IndexObjects
      BY <2>4, <3>1
    <3>3. QED
      BY <2>5, <3>2 DEF HasRow
  <2>6. CASE ~(p \in old /\ x # Absent)
    <3>1. n[p] = x
      BY <2>3, <2>6
    <3>2. QED
      BY <2>1, <2>2, <2>6, <3>1 DEF HasRow
  <2>7. QED
    BY <2>5, <2>6
<1>5. \A p \in ObjectPaths : n[p] \in StoredValues \cup {Absent}
  <2>1. \A b \in Ids : o[ArtifactPath(b)] \in StoredValues \cup {Absent}
    BY PathsApart DEF ObjectsOK
  <2>2. QED
    BY <1>3, <1>4, <2>1, PathsApart DEF StoredValues
<1>6. ObjectsOK(n)
  BY <1>2, <1>3, <1>4, <1>5 DEF ObjectsOK, ReadStoredArtifact
<1>7. QED
  BY <1>3, <1>4, <1>6 DEF Rewrites, ReadStoredArtifact, n

(* One rewrite of artifact a after another.                                *)
LEMMA RewritesTwice ==
    ASSUME NEW a \in Ids, NEW o, NEW n, NEW m, NEW s, NEW t,
           NEW old, NEW new, NEW older, NEW newer,
           Rewrites(o, n, a, s, old, new), Rewrites(n, m, a, t, older, newer),
           new = {} \/ older = {}
    PROVE  Rewrites(o, m, a, t, old \cup older, new \cup newer)
BY DEF Rewrites

LEMMA EntriesAreIndexes ==
    ASSUME NEW s PROVE DeriveIndexEntries(s) \in SUBSET IndexPaths
BY DEF DeriveIndexEntries

LEMMA TombstoneShape ==
    ASSUME NEW s \in StoredArtifacts
    PROVE  /\ Tombstone(s) \in StoredArtifacts /\ EmptyPayload(Tombstone(s))
           /\ Tombstone(s).type = s.type /\ DeriveIndexEntries(Tombstone(s)) = {}
<1> DEFINE none == NoRefs
           bare == [s EXCEPT !.body = NoBody]
           gone == [s EXCEPT !.body = NoBody, !.refs = none]
<1>0. /\ gone = [type |-> s.type, body |-> NoBody, refs |-> none]
      /\ s.type \in Types
  <2> HIDE DEF none
  <2>1. /\ bare = [type |-> s.type, body |-> NoBody, refs |-> s.refs]
        /\ s.type \in Types
    BY DEF StoredArtifacts
  <2>2. gone = [bare EXCEPT !.refs = none]
    OBVIOUS
  <2> HIDE DEF bare, gone
  <2>3. bare \in [type : Types, body : {NoBody}, refs : {s.refs}] /\ bare.type = s.type
    BY <2>1
  <2>4. gone = [type |-> bare.type, body |-> bare.body, refs |-> none]
    BY <2>2, <2>3
  <2>5. QED
    BY <2>1, <2>3, <2>4
<1>1. /\ Tombstone(s) = [type |-> s.type, body |-> NoBody, refs |-> NoRefs]
      /\ Tombstone(s).type = s.type /\ Tombstone(s).body = NoBody
      /\ Tombstone(s).refs = NoRefs
  <2>1. Tombstone(s) = gone
    BY DEF Tombstone
  <2> HIDE DEF none, gone
  <2>2. Tombstone(s) = [type |-> s.type, body |-> NoBody, refs |-> none]
    BY <1>0, <2>1
  <2>3. QED
    BY <2>2 DEF none
<1>2. NoRefs \in [Fields -> SUBSET Ids] /\ \A f \in Fields : NoRefs[f] = {}
  BY DEF NoRefs
<1>3. \A p \in IndexPaths : p[1] \in Fields
  BY DEF IndexPaths
<1> HIDE DEF NoRefs
<1>4. DeriveIndexEntries(Tombstone(s)) = {}
  <2>1. \A p \in IndexPaths : p[2] \notin Tombstone(s).refs[p[1]]
    BY <1>1, <1>2, <1>3
  <2>2. QED
    BY <2>1 DEF DeriveIndexEntries
<1>5. QED
  <2>1. NoRefs \in [Fields -> SUBSET Ids]
    BY <1>2
  <2>2. Tombstone(s) \in StoredArtifacts
    BY <1>0, <1>1, <2>1 DEF StoredArtifacts
  <2>3. QED
    BY <1>1, <1>4, <2>2 DEF EmptyPayload

LEMMA StageShapes ==
    ASSUME NEW o, ObjectsOK(o), NEW a \in Ids, NEW s \in StoredArtifacts
    PROVE  /\ Rewrites(o, StageCreate(o, a, s), a, s, {}, DeriveIndexEntries(s))
           /\ Rewrites(o, StageUpdate(o, a, s), a, s,
                       DeriveIndexEntries(ReadStoredArtifact(o, a)), DeriveIndexEntries(s))
           /\ Rewrites(o, StageDelete(o, a, s), a, Tombstone(s), DeriveIndexEntries(s), {})
<1> DEFINE new == DeriveIndexEntries(s)
           old == DeriveIndexEntries(ReadStoredArtifact(o, a))
<1>1. new \in SUBSET IndexPaths /\ old \in SUBSET IndexPaths
  BY EntriesAreIndexes
<1> HIDE DEF new, old
<1>2. Rewrites(o, StageCreate(o, a, s), a, s, {}, new)
  <2>1. Rewrites(o, Put(o, a, s), a, s, {}, {})
    BY PutShape
  <2>2. ObjectsOK(Put(o, a, s)) /\ ReadStoredArtifact(Put(o, a, s), a) = s
    BY <2>1 DEF Rewrites
  <2>3. Rewrites(Put(o, a, s), StageCreate(o, a, s), a, s, {}, new)
    BY <1>1, <2>2, AddRowsShape DEF StageCreate, new
  <2>4. QED
    BY <2>1, <2>3 DEF Rewrites
<1>3. Rewrites(o, StageUpdate(o, a, s), a, s, old, new)
  <2> DEFINE x == OldRowsRemoved(o, a)
             y == Put(x, a, s)
  <2>1. Rewrites(o, x, a, ReadStoredArtifact(o, a), old, {})
    BY <1>1, RemoveRowsShape DEF OldRowsRemoved, old
  <2>2. Rewrites(x, y, a, s, {}, {})
    BY <2>1, PutShape DEF Rewrites
  <2>3. ObjectsOK(y) /\ ReadStoredArtifact(y, a) = s
    BY <2>2 DEF Rewrites
  <2>4. Rewrites(y, StageUpdate(o, a, s), a, s, {}, new)
    BY <1>1, <2>3, AddRowsShape DEF StageUpdate, new
  <2> HIDE DEF x, y
  <2>5. QED
    BY <2>1, <2>2, <2>4 DEF Rewrites
<1>4. Rewrites(o, StageDelete(o, a, s), a, Tombstone(s), new, {})
  <2> DEFINE y == Put(o, a, Tombstone(s))
  <2>1. Rewrites(o, y, a, Tombstone(s), {}, {})
    BY PutShape, TombstoneShape
  <2>2. ObjectsOK(y) /\ ReadStoredArtifact(y, a) = Tombstone(s)
    BY <2>1 DEF Rewrites
  <2>3. Rewrites(y, StageDelete(o, a, s), a, Tombstone(s), new, {})
    BY <1>1, <2>2, RemoveRowsShape DEF StageDelete, new
  <2> HIDE DEF y
  <2>4. QED
    BY <2>1, <2>3 DEF Rewrites
<1>5. QED
  BY <1>2, <1>3, <1>4 DEF new, old

-----------------------------------------------------------------------------
(* The side effects of a delete.                                           *)

(* Payload t has the type of payload s, and no reference s does not have.  *)
Trims(s, t) == t.type = s.type /\ \A f \in Fields : t.refs[f] \subseteq s.refs[f]

KeepsCovers(o, n) ==
    \A a \in Ids, p \in IndexPaths : Covers(o, a, p) => Covers(n, a, p)

(* From o to n artifacts that are live have been deleted, those in C, or   *)
(* trimmed, those in B.                                                    *)
Affects(o, n, C, B) ==
    \A b \in Ids : ReadStoredArtifact(n, b) # ReadStoredArtifact(o, b) =>
        /\ Live(o, b) /\ Exists(n, b)
        /\ Trims(ReadStoredArtifact(o, b), ReadStoredArtifact(n, b))
        /\ (b \in C /\ ~Live(n, b)) \/ b \in B

(* An effect on one artifact.                                              *)
Effect(o, n, C, B) == ObjectsOK(n) /\ Affects(o, n, C, B) /\ KeepsCovers(o, n)

LEMMA EffectsCompose ==
    ASSUME NEW o, NEW n, NEW m, NEW C, NEW B, Effect(o, n, C, B), Effect(n, m, C, B)
    PROVE  Effect(o, m, C, B)
<1>1. ASSUME NEW b \in Ids, ReadStoredArtifact(m, b) # ReadStoredArtifact(o, b)
      PROVE  /\ Live(o, b) /\ Exists(m, b)
             /\ Trims(ReadStoredArtifact(o, b), ReadStoredArtifact(m, b))
             /\ (b \in C /\ ~Live(m, b)) \/ b \in B
  <2>1. CASE ReadStoredArtifact(m, b) = ReadStoredArtifact(n, b)
    BY <1>1, <2>1 DEF Effect, Affects, Live, Exists
  <2>2. CASE ReadStoredArtifact(o, b) = ReadStoredArtifact(n, b)
    BY <1>1, <2>2 DEF Effect, Affects, Live, Exists
  <2>3. CASE /\ ReadStoredArtifact(m, b) # ReadStoredArtifact(n, b)
             /\ ReadStoredArtifact(o, b) # ReadStoredArtifact(n, b)
    <3>1. /\ Live(o, b) /\ Trims(ReadStoredArtifact(o, b), ReadStoredArtifact(n, b))
          /\ (b \in C /\ ~Live(n, b)) \/ b \in B
      BY <2>3 DEF Effect, Affects
    <3>2. /\ Live(n, b) /\ Exists(m, b)
          /\ Trims(ReadStoredArtifact(n, b), ReadStoredArtifact(m, b))
      BY <2>3 DEF Effect, Affects
    <3>3. Trims(ReadStoredArtifact(o, b), ReadStoredArtifact(m, b))
      BY <3>1, <3>2 DEF Trims
    <3>4. QED
      BY <3>1, <3>2, <3>3
  <2>4. QED
    BY <2>1, <2>2, <2>3
<1>2. KeepsCovers(o, m)
  BY DEF Effect, KeepsCovers
<1>3. QED
  BY <1>1, <1>2 DEF Effect, Affects

LEMMA NoEffect ==
    ASSUME NEW o, ObjectsOK(o), NEW C, NEW B PROVE Effect(o, o, C, B)
BY DEF Effect, Affects, KeepsCovers

(* Rewriting an artifact by its rows keeps the index as good as it was.    *)
LEMMA RewriteCovers ==
    ASSUME NEW a \in Ids, NEW o, NEW n, NEW s, s # Absent,
           Rewrites(o, n, a, s, DeriveIndexEntries(ReadStoredArtifact(o, a)),
                    DeriveIndexEntries(s)),
           Exists(o, a)
    PROVE  KeepsCovers(o, n)
<1> SUFFICES ASSUME NEW b \in Ids, NEW p \in IndexPaths, Covers(o, b, p)
             PROVE  Covers(n, b, p)
  BY DEF KeepsCovers
<1>1. CASE b = a
  BY <1>1 DEF Covers, Derives, Rewrites, Exists
<1>2. CASE b # a
  BY <1>2 DEF Covers, Derives, Rewrites, Exists
<1>3. QED
  BY <1>1, <1>2

LEMMA StoredNotAbsent ==
    /\ Absent \notin StoredArtifacts
    /\ \A o, a : ObjectsOK(o) /\ a \in Ids /\ Exists(o, a) =>
            ReadStoredArtifact(o, a) \in StoredArtifacts
BY ArtifactStoreAssumption DEF StoredValues, ObjectsOK, Exists

LEMMA CascadeShape ==
    ASSUME NEW o, ObjectsOK(o), NEW b \in Ids, NEW C, b \in C, NEW B
    PROVE  /\ Effect(o, ApplyCascadeEffect(o, b), C, B)
           /\ ~Live(ApplyCascadeEffect(o, b), b)
<1> DEFINE s == ReadStoredArtifact(o, b)
           n == StageDelete(o, b, s)
<1>1. CASE ~Live(o, b)
  BY <1>1, NoEffect DEF ApplyCascadeEffect
<1>2. CASE Live(o, b)
  <2>1. Exists(o, b) /\ s \in StoredArtifacts
    BY <1>2, StoredNotAbsent DEF Live
  <2>2. Rewrites(o, n, b, Tombstone(s), DeriveIndexEntries(s), {})
    <3> HIDE DEF s
    <3>1. QED
      BY <2>1, StageShapes
  <2>3. /\ Tombstone(s) \in StoredArtifacts /\ EmptyPayload(Tombstone(s))
        /\ Tombstone(s).type = s.type /\ DeriveIndexEntries(Tombstone(s)) = {}
    <3> HIDE DEF s
    <3>1. QED
      BY <2>1, TombstoneShape
  <2>4. KeepsCovers(o, n)
    <3> HIDE DEF n
    <3>1. QED
      BY <2>1, <2>2, <2>3, RewriteCovers, StoredNotAbsent
  <2>5. Trims(s, Tombstone(s))
    <3>1. Tombstone(s).refs = NoRefs
      BY <2>3 DEF EmptyPayload
    <3>2. \A f \in Fields : Tombstone(s).refs[f] = {}
      BY <3>1 DEF NoRefs
    <3>3. QED
      BY <2>3, <3>2 DEF Trims
  <2>6. n = ApplyCascadeEffect(o, b)
    BY <1>2 DEF ApplyCascadeEffect
  <2> HIDE DEF n
  <2>7. ReadStoredArtifact(n, b) = Tombstone(s) /\ ~Live(n, b) /\ Exists(n, b)
    BY <2>2, <2>3, StoredNotAbsent DEF Rewrites, Live, Exists
  <2>8. Affects(o, n, C, B)
    BY <1>2, <2>2, <2>5, <2>7 DEF Affects, Rewrites
  <2>9. QED
    BY <2>2, <2>4, <2>6, <2>7, <2>8 DEF Effect, Rewrites
<1>3. QED
  BY <1>1, <1>2

(* An artifact with other values in one reference field.                   *)
LEMMA RefsUpdate ==
    ASSUME NEW s \in StoredArtifacts, NEW f \in Fields, NEW v \in SUBSET Ids
    PROVE  LET t == [s EXCEPT !.refs[f] = v]
           IN  /\ t \in StoredArtifacts /\ t.type = s.type /\ t.refs[f] = v
               /\ \A g \in Fields \ {f} : t.refs[g] = s.refs[g]
<1> DEFINE r == [s.refs EXCEPT ![f] = v]
           t == [s EXCEPT !.refs[f] = v]
<1>1. s.refs \in [Fields -> SUBSET Ids] /\ s.type \in Types /\ s.body \in Bodies \cup {NoBody}
  BY DEF StoredArtifacts
<1>2. r \in [Fields -> SUBSET Ids] /\ r[f] = v /\ \A g \in Fields \ {f} : r[g] = s.refs[g]
  BY <1>1
<1>3. t = [s EXCEPT !.refs = r]
  OBVIOUS
<1> HIDE DEF r, t
<1>4. t = [type |-> s.type, body |-> s.body, refs |-> r]
  BY <1>3 DEF StoredArtifacts
<1>5. t \in StoredArtifacts /\ t.type = s.type /\ t.refs = r
  BY <1>1, <1>2, <1>4 DEF StoredArtifacts
<1>6. QED
  BY <1>2, <1>5 DEF t

LEMMA SetNullShape ==
    ASSUME NEW o, ObjectsOK(o), NEW z \in Ids \X Fields \X Ids, NEW C, NEW B, z[1] \in B
    PROVE  LET n == ApplySetNullEffect(o, z)
           IN  /\ Effect(o, n, C, B)
               /\ z[2] \notin Nested /\ Live(n, z[1]) =>
                    z[3] \notin ReadStoredArtifact(n, z[1]).refs[z[2]]
<1> DEFINE b == z[1]
           f == z[2]
           s == ReadStoredArtifact(o, b)
           v == IF f \in Repeated THEN s.refs[f] \ {z[3]} ELSE {}
           t == [s EXCEPT !.refs[f] = v]
           n == StageUpdate(o, b, t)
<1>1. b \in Ids /\ f \in Fields
  OBVIOUS
<1>2. ApplySetNullEffect(o, z) = IF Live(o, b) /\ f \notin Nested THEN n ELSE o
  <2>1. t = [s EXCEPT !.refs[f] = IF f \in Repeated THEN @ \ {z[3]} ELSE {}]
    OBVIOUS
  <2> HIDE DEF t, s
  <2>2. QED
    BY <2>1 DEF ApplySetNullEffect, s
<1>3. CASE ~(Live(o, b) /\ f \notin Nested)
  <2> HIDE DEF n
  <2>1. QED
    BY <1>2, <1>3, NoEffect
<1>4. CASE Live(o, b) /\ f \notin Nested
  <2>1. Exists(o, b) /\ s \in StoredArtifacts
    BY <1>1, <1>4, StoredNotAbsent DEF Live
  <2>2. v \in SUBSET Ids /\ v \subseteq s.refs[f] /\ z[3] \notin v
    <3>1. s.refs[f] \in SUBSET Ids
      BY <1>1, <2>1 DEF StoredArtifacts
    <3>2. QED
      BY <3>1
  <2> HIDE DEF v, s
  <2>3. /\ t \in StoredArtifacts /\ t.type = s.type /\ t.refs[f] = v
        /\ \A g \in Fields \ {f} : t.refs[g] = s.refs[g]
    BY <1>1, <2>1, <2>2, RefsUpdate
  <2> HIDE DEF t
  <2>4. Rewrites(o, n, b, t, DeriveIndexEntries(s), DeriveIndexEntries(t))
    BY <1>1, <2>3, StageShapes DEF s
  <2> HIDE DEF n
  <2>5. KeepsCovers(o, n)
    BY <1>1, <2>1, <2>3, <2>4, RewriteCovers, StoredNotAbsent DEF s
  <2>6. Trims(s, t)
    BY <2>2, <2>3 DEF Trims
  <2>7. ReadStoredArtifact(n, b) = t /\ Exists(n, b)
    BY <1>1, <2>3, <2>4, StoredNotAbsent DEF Rewrites, Exists
  <2>8. Affects(o, n, C, B)
    BY <1>4, <2>4, <2>6, <2>7 DEF Affects, Rewrites, s
  <2>9. n = ApplySetNullEffect(o, z)
    BY <1>2, <1>4
  <2>10. QED
    BY <2>2, <2>3, <2>4, <2>5, <2>7, <2>8, <2>9 DEF Effect, Rewrites
<1>5. QED
  BY <1>3, <1>4

(* All of them, in any order.                                              *)
AllEffects ==
    [cascades : SUBSET Ids, nulls : SUBSET (Ids \X Fields \X Ids)]

LEMMA AllCascadesShape ==
    ASSUME NEW o, ObjectsOK(o), NEW C \in SUBSET Ids, NEW B
    PROVE  LET n == ApplyCascades(o, C)
           IN  Effect(o, n, C, B) /\ \A b \in C : ~Live(n, b)
<1> DEFINE U == [ObjectPaths -> StoredValues \cup {Absent}]
           X == {x \in U : Effect(o, x, C, B)}
           n == ApplyCascades(o, C)
<1>1. \A x : Effect(o, x, C, B) => x \in X
  BY DEF Effect, ObjectsOK
<1>2. o \in X
  BY <1>1, NoEffect
<1>3. \A b \in C, x \in X :
        LET y == ApplyCascadeEffect(x, b)
        IN  y \in X /\ Effect(x, y, C, B) /\ ~Live(y, b)
  <2> TAKE b \in C, x \in X
  <2> DEFINE y == ApplyCascadeEffect(x, b)
  <2>1. Effect(o, x, C, B) /\ ObjectsOK(x)
    BY DEF Effect
  <2>2. Effect(x, y, C, B) /\ ~Live(y, b)
    BY <2>1, CascadeShape
  <2> HIDE DEF X, y
  <2>3. QED
    BY <1>1, <2>1, <2>2, EffectsCompose DEF y
<1>4. ASSUME NEW b \in C
      PROVE  ~Live(n, b)
  <2> DEFINE Y == {x \in X : ~Live(x, b)}
  <2>1. \A x \in X : ApplyCascadeEffect(x, b) \in Y
    BY <1>3
  <2>2. ASSUME NEW x \in Y, NEW d \in C
        PROVE  ApplyCascadeEffect(x, d) \in Y
    <3> DEFINE y == ApplyCascadeEffect(x, d)
    <3>1. x \in X /\ ~Live(x, b)
      OBVIOUS
    <3>2. y \in X /\ Effect(x, y, C, B)
      BY <1>3, <3>1
    <3>3. ReadStoredArtifact(y, b) = ReadStoredArtifact(x, b)
      BY <3>1, <3>2 DEF Effect, Affects
    <3>4. ~Live(y, b)
      BY <3>1, <3>3 DEF Live, Exists
    <3>5. QED
      BY <3>2, <3>4
  <2>3. n \in Y
    <3>1. Y \in SUBSET X
      OBVIOUS
    <3>2. \A b_1 \in C, x \in X : ApplyCascadeEffect(x, b_1) \in X
      BY <1>3
    <3> HIDE DEF X, Y
    <3>3. QED
      BY <1>2, <2>1, <2>2, <3>1, <3>2, CascadesReach
  <2>4. QED
    BY <2>3
<1>5. n \in X
  <2>1. \A b \in C, x \in X : ApplyCascadeEffect(x, b) \in X
    BY <1>3
  <2> HIDE DEF X
  <2>2. QED
    BY <1>2, <2>1, CascadesReach
<1>6. QED
  BY <1>4, <1>5

LEMMA AllSetNullsShape ==
    ASSUME NEW o, ObjectsOK(o), NEW S \in SUBSET (Ids \X Fields \X Ids), NEW C, NEW B,
           \A z \in S : z[1] \in B
    PROVE  LET n == ApplySetNulls(o, S)
           IN  /\ Effect(o, n, C, B)
               /\ \A z \in S : z[2] \notin Nested /\ Live(n, z[1]) =>
                    z[3] \notin ReadStoredArtifact(n, z[1]).refs[z[2]]
<1> DEFINE U == [ObjectPaths -> StoredValues \cup {Absent}]
           X == {x \in U : Effect(o, x, C, B)}
           n == ApplySetNulls(o, S)
           Cleared(x, z) == z[2] \notin Nested /\ Live(x, z[1]) =>
                                z[3] \notin ReadStoredArtifact(x, z[1]).refs[z[2]]
<1>1. \A x : Effect(o, x, C, B) => x \in X
  BY DEF Effect, ObjectsOK
<1>2. o \in X
  BY <1>1, NoEffect
<1>3. \A z \in S, x \in X :
        LET y == ApplySetNullEffect(x, z)
        IN  y \in X /\ Effect(x, y, C, B) /\ Cleared(y, z)
  <2> TAKE z \in S, x \in X
  <2> DEFINE y == ApplySetNullEffect(x, z)
  <2>1. Effect(o, x, C, B) /\ ObjectsOK(x)
    BY DEF Effect
  <2>2. Effect(x, y, C, B) /\ Cleared(y, z)
    BY <2>1, SetNullShape
  <2> HIDE DEF X, y, Cleared
  <2>3. QED
    BY <1>1, <2>1, <2>2, EffectsCompose DEF y
<1>4. ASSUME NEW z \in S
      PROVE  Cleared(n, z)
  <2> DEFINE Y == {x \in X : Cleared(x, z)}
  <2>1. \A x \in X : ApplySetNullEffect(x, z) \in Y
    BY <1>3
  <2>2. ASSUME NEW x \in Y, NEW d \in S
        PROVE  ApplySetNullEffect(x, d) \in Y
    <3> DEFINE y == ApplySetNullEffect(x, d)
               b == z[1]
               f == z[2]
    <3>1. x \in X /\ Cleared(x, z) /\ b \in Ids /\ f \in Fields
      OBVIOUS
    <3>2. y \in X /\ Effect(x, y, C, B)
      BY <1>3, <3>1
    <3> HIDE DEF y
    <3>3. CASE ReadStoredArtifact(y, b) = ReadStoredArtifact(x, b)
      BY <3>1, <3>2, <3>3 DEF Live, Exists, y
    <3>4. CASE ReadStoredArtifact(y, b) # ReadStoredArtifact(x, b)
      <4>1. Live(x, b) /\ ReadStoredArtifact(y, b).refs[f]
                            \subseteq ReadStoredArtifact(x, b).refs[f]
        BY <3>1, <3>2, <3>4 DEF Effect, Affects, Trims
      <4>2. QED
        BY <3>1, <3>2, <4>1 DEF y
    <3>5. QED
      BY <3>3, <3>4
  <2>3. n \in Y
    <3>1. Y \in SUBSET X
      OBVIOUS
    <3>2. \A z_1 \in S, x \in X : ApplySetNullEffect(x, z_1) \in X
      BY <1>3
    <3> HIDE DEF X, Y
    <3>3. QED
      BY <1>2, <2>1, <2>2, <3>1, <3>2, SetNullsReach
  <2>4. QED
    BY <2>3
<1>5. n \in X
  <2>1. \A z \in S, x \in X : ApplySetNullEffect(x, z) \in X
    BY <1>3
  <2> HIDE DEF X
  <2>2. QED
    BY <1>2, <2>1, SetNullsReach
<1>6. QED
  BY <1>4, <1>5

Nulled(e) == {z[1] : z \in e.nulls}

LEMMA EffectsShape ==
    ASSUME NEW o, ObjectsOK(o), NEW e \in AllEffects
    PROVE  LET n == StageEffects(o, e)
           IN  /\ Effect(o, n, e.cascades, Nulled(e))
               /\ \A b \in e.cascades : ~Live(n, b)
               /\ \A z \in e.nulls : z[2] \notin Nested /\ Live(n, z[1]) =>
                    z[3] \notin ReadStoredArtifact(n, z[1]).refs[z[2]]
<1> DEFINE C == e.cascades
           B == Nulled(e)
           m == ApplyCascades(o, C)
           n == ApplySetNulls(m, e.nulls)
<1>1. C \in SUBSET Ids /\ e.nulls \in SUBSET (Ids \X Fields \X Ids) /\ \A z \in e.nulls : z[1] \in B
  BY DEF AllEffects, Nulled
<1>2. n = StageEffects(o, e)
  BY DEF StageEffects
<1> HIDE DEF C, B
<1>3. Effect(o, m, C, B) /\ \A b \in C : ~Live(m, b)
  BY <1>1, AllCascadesShape
<1> HIDE DEF m
<1>4. /\ Effect(m, n, C, B)
      /\ \A z \in e.nulls : z[2] \notin Nested /\ Live(n, z[1]) =>
            z[3] \notin ReadStoredArtifact(n, z[1]).refs[z[2]]
  <2>1. ObjectsOK(m)
    BY <1>3 DEF Effect
  <2>2. QED
    BY <1>1, <2>1, AllSetNullsShape
<1> HIDE DEF n
<1>5. \A b \in C : ~Live(n, b)
  BY <1>1, <1>3, <1>4 DEF Effect, Affects, Live, Exists
<1>6. Effect(o, n, C, B)
  BY <1>3, <1>4, EffectsCompose
<1>7. QED
  BY <1>2, <1>4, <1>5, <1>6 DEF B, C

-----------------------------------------------------------------------------
(* What a request leaves on its branch.                                    *)

Kinds == {"create", "update", "delete"}

RequestOK(r) ==
    r.kind \in Kinds /\ r.id \in Ids /\ r.artifact \in StoredArtifacts /\ r.effects \in AllEffects

(* The rows it writes for its own artifact are right: that is created, it  *)
(* is there, or it is what was read for the delete.                        *)
Fits(o, r) ==
    /\ r.kind = "create" => ~Exists(o, r.id)
    /\ r.kind = "update" => Exists(o, r.id)
    /\ r.kind = "delete" => ReadStoredArtifact(o, r.id) = r.artifact

Deletes(o, n, r) ==
    /\ ReadStoredArtifact(n, r.id) = Tombstone(r.artifact)
    /\ \A b \in Ids \ {r.id} : ReadStoredArtifact(n, b) # ReadStoredArtifact(o, b) =>
        /\ Live(o, b) /\ Exists(n, b)
        /\ Trims(ReadStoredArtifact(o, b), ReadStoredArtifact(n, b))
        /\ (b \in r.effects.cascades /\ ~Live(n, b)) \/ b \in Nulled(r.effects)
    /\ \A b \in {r.id} \cup r.effects.cascades : ~Live(n, b)
    /\ \A z \in r.effects.nulls : z[2] \notin Nested /\ Live(n, z[1]) =>
            z[3] \notin ReadStoredArtifact(n, z[1]).refs[z[2]]

Writes(o, n, r) ==
    \A b \in Ids : ReadStoredArtifact(n, b) =
                    IF b = r.id THEN r.artifact ELSE ReadStoredArtifact(o, b)

LEMMA StagedShape ==
    ASSUME NEW o, ObjectsOK(o), NEW r, RequestOK(r)
    PROVE  LET n == Staged(o, r)
           IN  /\ ObjectsOK(n)
               /\ r.kind # "delete" => Writes(o, n, r)
               /\ r.kind = "delete" => Deletes(o, n, r)
               /\ \A a \in Ids, p \in IndexPaths :
                    Covers(o, a, p) /\ (a = r.id => Fits(o, r)) => Covers(n, a, p)
<1> DEFINE n == Staged(o, r)
           s == r.artifact
<1>1. r.id \in Ids /\ s \in StoredArtifacts /\ s # Absent /\ r.effects \in AllEffects
  BY StoredNotAbsent DEF RequestOK
<1> HIDE DEF s
<1>2. CASE r.kind = "create"
  <2>1. n = StageCreate(o, r.id, s)
    BY <1>2 DEF Staged, s
  <2> HIDE DEF n
  <2>2. Rewrites(o, n, r.id, s, {}, DeriveIndexEntries(s))
    BY <1>1, <2>1, StageShapes
  <2>3. Writes(o, n, r)
    BY <2>2 DEF Rewrites, Writes, s
  <2>4. ASSUME NEW a \in Ids, NEW p \in IndexPaths, Covers(o, a, p), a = r.id => Fits(o, r)
        PROVE  Covers(n, a, p)
    <3>1. CASE a = r.id
      <4>1. ~HasRow(o, a, p)
        BY <1>2, <2>4, <3>1 DEF Fits, Covers, Derives
      <4>2. HasRow(n, a, p) <=> p \in DeriveIndexEntries(s)
        BY <1>1, <2>2, <3>1, <4>1 DEF Rewrites
      <4>3. ReadStoredArtifact(n, a) = s /\ Exists(n, a)
        BY <1>1, <2>2, <3>1 DEF Rewrites, Exists
      <4>4. QED
        BY <4>2, <4>3 DEF Covers, Derives
    <3>2. CASE a # r.id
      BY <2>2, <2>4, <3>2 DEF Rewrites, Covers, Derives, Exists
    <3>3. QED
      BY <3>1, <3>2
  <2>5. QED
    BY <1>2, <2>2, <2>3, <2>4 DEF Rewrites, n
<1>3. CASE r.kind = "update"
  <2> DEFINE old == DeriveIndexEntries(ReadStoredArtifact(o, r.id))
  <2>1. n = StageUpdate(o, r.id, s)
    BY <1>3 DEF Staged, s
  <2> HIDE DEF n
  <2>2. Rewrites(o, n, r.id, s, old, DeriveIndexEntries(s))
    BY <1>1, <2>1, StageShapes
  <2>3. Writes(o, n, r)
    BY <2>2 DEF Rewrites, Writes, s
  <2>4. ASSUME NEW a \in Ids, NEW p \in IndexPaths, Covers(o, a, p), a = r.id => Fits(o, r)
        PROVE  Covers(n, a, p)
    <3>1. CASE a = r.id
      <4>1. Exists(o, r.id)
        BY <1>3, <2>4, <3>1 DEF Fits
      <4>2. KeepsCovers(o, n)
        BY <1>1, <2>2, <4>1, RewriteCovers
      <4>3. QED
        BY <2>4, <4>2 DEF KeepsCovers
    <3>2. CASE a # r.id
      BY <2>2, <2>4, <3>2 DEF Rewrites, Covers, Derives, Exists
    <3>3. QED
      BY <3>1, <3>2
  <2>5. QED
    BY <1>3, <2>2, <2>3, <2>4 DEF Rewrites, n
<1>4. CASE r.kind = "delete"
  <2> DEFINE m == StageDelete(o, r.id, s)
             e == r.effects
             t == Tombstone(s)
  <2>1. n = StageEffects(m, e)
    BY <1>4 DEF Staged, s
  <2>2. Rewrites(o, m, r.id, t, DeriveIndexEntries(s), {})
    BY <1>1, StageShapes
  <2>3. t \in StoredArtifacts /\ EmptyPayload(t) /\ DeriveIndexEntries(t) = {} /\ t # Absent
    BY <1>1, TombstoneShape, StoredNotAbsent
  <2> HIDE DEF n, m, t
  <2>4. /\ Effect(m, n, e.cascades, Nulled(e))
        /\ \A b \in e.cascades : ~Live(n, b)
        /\ \A z \in e.nulls : z[2] \notin Nested /\ Live(n, z[1]) =>
                    z[3] \notin ReadStoredArtifact(n, z[1]).refs[z[2]]
    BY <1>1, <2>1, <2>2, EffectsShape DEF Rewrites
  <2>5. ReadStoredArtifact(m, r.id) = t /\ ~Live(m, r.id)
    BY <1>1, <2>2, <2>3 DEF Rewrites, Live
  <2>6. ReadStoredArtifact(n, r.id) = t /\ ~Live(n, r.id)
    BY <1>1, <2>4, <2>5 DEF Effect, Affects, Live, Exists
  <2>7. ASSUME NEW b \in Ids \ {r.id}, ReadStoredArtifact(n, b) # ReadStoredArtifact(o, b)
        PROVE  /\ Live(o, b) /\ Exists(n, b)
               /\ Trims(ReadStoredArtifact(o, b), ReadStoredArtifact(n, b))
               /\ (b \in e.cascades /\ ~Live(n, b)) \/ b \in Nulled(e)
    <3>1. ReadStoredArtifact(m, b) = ReadStoredArtifact(o, b)
      BY <2>2 DEF Rewrites
    <3>2. QED
      BY <2>4, <2>7, <3>1 DEF Effect, Affects, Live, Exists
  <2>8. Deletes(o, n, r)
    BY <2>4, <2>6, <2>7 DEF Deletes, t, s
  <2>9. ASSUME NEW a \in Ids, NEW p \in IndexPaths, Covers(o, a, p), a = r.id => Fits(o, r)
        PROVE  Covers(n, a, p)
    <3>1. Covers(m, a, p)
      <4>1. CASE a = r.id
        <5>1. Exists(o, a) /\ ReadStoredArtifact(o, a) = s
          BY <1>1, <1>4, <2>9, <4>1 DEF Fits, Exists, s
        <5>2. KeepsCovers(o, m)
          BY <1>1, <2>2, <2>3, <4>1, <5>1, RewriteCovers
        <5>3. QED
          BY <2>9, <5>2 DEF KeepsCovers
      <4>2. CASE a # r.id
        BY <2>2, <2>9, <4>2 DEF Rewrites, Covers, Derives, Exists
      <4>3. QED
        BY <4>1, <4>2
    <3>2. QED
      BY <2>4, <3>1 DEF Effect, KeepsCovers
  <2>10. QED
    BY <1>4, <2>4, <2>8, <2>9 DEF Effect, n
<1>5. QED
  BY <1>2, <1>3, <1>4 DEF RequestOK, Kinds

-----------------------------------------------------------------------------
(* The three-way merge, of branch objects s that grew out of base f with   *)
(* the objects n of the canonical branch.                                  *)

Merges(f, s, n, m) ==
    \A p \in ObjectPaths :
        /\ m[p] = IF s[p] # f[p] THEN s[p] ELSE n[p]
        /\ s[p] # f[p] => n[p] \in {f[p], s[p]}

(* What the resolver makes of the row of an artifact is what the branch    *)
(* has made of it, if it has.                                              *)
ResolvedRow(f, s, p, x) ==
    \A a \in Ids : (a \in DOMAIN Rows(s[p])) # (a \in DOMAIN Rows(f[p])) =>
        (a \in DOMAIN Rows(x) <=> a \in DOMAIN Rows(s[p]))

LEMMA ResolvedShape ==
    ASSUME NEW f, ObjectsOK(f), NEW s, ObjectsOK(s), NEW n, ObjectsOK(n),
           NEW p \in IndexPaths,
           NEW x, x = Object!MergeIndexObjects(Object!Rows(f[p]), Object!Rows(s[p]), Object!Rows(n[p]))
    PROVE  x \in IndexObjects /\ ResolvedRow(f, s, p, x)
<1> DEFINE b == Rows(f[p])
           o == Rows(s[p])
           t == Rows(n[p])
           mine == Object!Adds(b, o)
           them == Object!Adds(b, t)
           kept == DOMAIN b \ (Object!Removes(b, o) \cup Object!Removes(b, t))
           D == kept \cup mine \cup them
<1>1. \A y : Object!Rows(y) = Rows(y)
  BY DEF Object!Rows, Rows, Object!NoRows, NoRows
<1>2. /\ b \in [DOMAIN b -> {0}] /\ DOMAIN b \subseteq Ids
      /\ o \in [DOMAIN o -> {0}] /\ DOMAIN o \subseteq Ids
      /\ t \in [DOMAIN t -> {0}] /\ DOMAIN t \subseteq Ids
  BY RowsShape DEF ObjectsOK
<1>3. x = Object!MergeIndexObjects(b, o, t)
  BY <1>1
<1> HIDE DEF b, o, t
<1>4. x = [a \in D |-> IF a \in mine \cap them THEN Object!Smaller(o[a], t[a])
                       ELSE IF a \in mine THEN o[a]
                       ELSE IF a \in them THEN t[a]
                       ELSE b[a]]
  BY <1>3 DEF Object!MergeIndexObjects
<1>5. /\ mine = DOMAIN o \ DOMAIN b /\ them = DOMAIN t \ DOMAIN b
      /\ Object!Removes(b, o) = DOMAIN b \ DOMAIN o
  BY <1>2 DEF Object!Adds, Object!Removes
<1>6. kept \subseteq DOMAIN b /\ kept \subseteq DOMAIN o /\ DOMAIN o \ DOMAIN b \subseteq D
      /\ \A a \in DOMAIN b \ DOMAIN o : a \notin D
  BY <1>5
<1>7. \A a \in mine : o[a] = 0
  BY <1>2, <1>5
<1>8. \A a \in them : t[a] = 0
  BY <1>2, <1>5
<1>9. \A a \in kept : b[a] = 0
  BY <1>2
<1>10. Object!Smaller(0, 0) = 0
  BY DEF Object!Smaller
<1>11. D \in SUBSET Ids
  BY <1>2, <1>5
<1> HIDE DEF mine, them, kept
<1>12. x \in [D -> {0}]
  BY <1>4, <1>7, <1>8, <1>9, <1>10
<1>13. x \in IndexObjects
  BY <1>11, <1>12 DEF IndexObjects
<1>14. x # Absent
  BY <1>13, ArtifactStoreAssumption DEF StoredValues
<1>15. DOMAIN Rows(x) = D
  BY <1>12, <1>14 DEF Rows
<1>16. QED
  BY <1>6, <1>13, <1>15 DEF ResolvedRow, b, o

(* A row and the artifact it is about end up together on one side, or on   *)
(* sides that agree about them; a row that went through the resolver ends  *)
(* up as the canonical branch has it.                                      *)
LEMMA MergeCovers ==
    ASSUME NEW a \in Ids, NEW p \in IndexPaths,
           NEW f, NEW s, NEW t, NEW n, NEW m, Merges(f, s, n, m),
           Covers(f, a, p), Covers(t, a, p), Covers(n, a, p),
           ReadStoredArtifact(s, a) = ReadStoredArtifact(t, a),
           \/ s[p] = t[p]
           \/ /\ m[p] = n[p]
              /\ HasRow(t, a, p) # HasRow(f, a, p) => HasRow(s, a, p) = HasRow(t, a, p)
    PROVE  Covers(m, a, p)
<1> DEFINE q == ArtifactPath(a)
<1>1. q \in ObjectPaths /\ p \in ObjectPaths
  BY PathsApart
<1>2. /\ m[q] = IF t[q] # f[q] THEN t[q] ELSE n[q]
      /\ t[q] # f[q] => n[q] \in {f[q], t[q]}
  BY <1>1 DEF Merges, ReadStoredArtifact
<1>3. /\ m[p] = IF s[p] # f[p] THEN s[p] ELSE n[p]
      /\ s[p] # f[p] => n[p] \in {f[p], s[p]}
  BY <1>1 DEF Merges
<1> DEFINE D(x) == x # Absent /\ p \in DeriveIndexEntries(x)
           R(x) == a \in DOMAIN Rows(x)
<1>4. \A x : Covers(x, a, p) <=> (R(x[p]) <=> D(x[q]))
  BY DEF Covers, HasRow, Derives, Exists, ReadStoredArtifact
<1>5. \A x : HasRow(x, a, p) <=> R(x[p])
  BY DEF HasRow
<1> HIDE DEF D, R, q
<1>6. /\ R(f[p]) <=> D(f[q])
      /\ R(t[p]) <=> D(t[q])
      /\ R(n[p]) <=> D(n[q])
  BY <1>4
<1>7. R(m[p]) <=> D(m[q])
  <2>1. CASE s[p] = t[p]
    BY <1>2, <1>3, <1>6, <2>1
  <2>2. CASE /\ m[p] = n[p]
             /\ HasRow(t, a, p) # HasRow(f, a, p) => HasRow(s, a, p) = HasRow(t, a, p)
    <3>1. (R(t[p]) <=> ~R(f[p])) => (R(s[p]) <=> R(t[p]))
      BY <1>5, <2>2
    <3>2. QED
      BY <1>2, <1>3, <1>6, <2>2, <3>1
  <2>3. QED
    BY <2>1, <2>2
<1>8. QED
  BY <1>4, <1>7

-----------------------------------------------------------------------------
(* The repository.                                                         *)

StoreOK(r) ==
    /\ G!RepoOK(r) /\ G!GraphOK(r)
    /\ \A x \in CommitIds(r) : ObjectsOK(AtCommit(r, x))
    /\ GetBranchHead(r, Main) \in CommitIds(r)

Clean(r) == \A b \in StoreBranches : r.staging[b] = NoStaging

(* From r to s all commits are kept, and all branches but b.               *)
KeepsCommits(r, s) ==
    /\ CommitIds(r) \subseteq CommitIds(s)
    /\ \A x \in CommitIds(r) : AtCommit(s, x) = AtCommit(r, x)

Moved(r, s, b) ==
    /\ StoreOK(s) /\ Clean(s) /\ KeepsCommits(r, s)
    /\ \A x \in StoreBranches \ {b} : s.head[x] = r.head[x]

(* A new commit that shows these objects, at the head of branch b.         *)
Grown(r, s, b, objects) ==
    /\ Moved(r, s, b)
    /\ s.head[b] \in CommitIds(s) /\ AtCommit(s, s.head[b]) = objects
    /\ \A x \in CommitIds(r) : x < s.head[b]

LEMMA StoreShape ==
    ASSUME NEW r, StoreOK(r)
    PROVE  /\ CommitIds(r) = 1 .. Len(r.commits) /\ Len(r.commits) \in Nat
           /\ NoBranch \notin CommitIds(r)
           /\ \A b \in StoreBranches : r.head[b] \in CommitIds(r) \cup {NoBranch}
           /\ r.head \in [StoreBranches -> Nat]
           /\ r.staging \in [StoreBranches -> G!Staging]
<1>1. G!RepoOK(r) /\ r \in G!Repository
  BY DEF StoreOK, G!RepoOK
<1>2. /\ r.head \in [StoreBranches -> Nat] /\ r.staging \in [StoreBranches -> G!Staging]
      /\ G!CommitIds(r) = 1 .. Len(r.commits) /\ Len(r.commits) \in Nat
  BY <1>1, StoreNames, G!RepoShape
<1>3. CommitIds(r) = G!CommitIds(r)
  BY DEF CommitIds, G!CommitIds
<1>4. \A b \in StoreBranches : r.head[b] \in CommitIds(r) \cup {NoBranch}
  BY <1>1, <1>3 DEF G!RepoOK, G!NoBranch, NoBranch
<1>5. NoBranch \notin CommitIds(r)
  BY <1>2, <1>3 DEF NoBranch
<1>6. QED
  BY <1>2, <1>3, <1>4, <1>5

LEMMA ObjectsTyped ==
    /\ \A o : ObjectsOK(o) => o \in G!Objects
    /\ \A p \in ObjectPaths : NoStaging[p] = Unstaged
BY DEF ObjectsOK, G!Objects, NoStaging

LEMMA AdvanceStore ==
    ASSUME NEW r, StoreOK(r), NEW b \in StoreBranches,
           NEW ps \in SUBSET CommitIds(r), ps # {}, NEW o, ObjectsOK(o),
           NEW s, s = Advance(r, b, ps, o),
           \A x \in StoreBranches \ {b} : r.staging[x] = NoStaging
    PROVE  Grown(r, s, b, o)
<1> DEFINE n == Len(r.commits) + 1
<1>1. CommitIds(r) = 1 .. Len(r.commits) /\ Len(r.commits) \in Nat /\ ps \in SUBSET Nat
  BY StoreShape
<1>2. s = G!Advance(r, b, ps, o)
  BY DEF Advance, G!Advance, NoStaging, G!NoStaging
<1>3. G!RepoOK(r) /\ G!GraphOK(r) /\ o \in G!Objects
  BY ObjectsTyped DEF StoreOK
<1>4. /\ G!RepoOK(s) /\ G!OnlyTouches(r, s, b)
      /\ G!CommitIds(s) = G!CommitIds(r) \cup {n} /\ s.head[b] = n
      /\ s.commits[n] = [parents |-> ps, objects |-> o]
      /\ s.staging[b] = G!NoStaging
  <2> HIDE DEF n
  <2>1. LET t == G!Advance(r, b, ps, o)
            m == Len(r.commits) + 1
        IN  /\ G!RepoOK(t) /\ G!OnlyTouches(r, t, b)
            /\ G!CommitIds(t) = G!CommitIds(r) \cup {m} /\ t.head[b] = m
            /\ t.commits[m] = [parents |-> ps, objects |-> o]
            /\ t.staging[b] = G!NoStaging
    BY <1>1, <1>3, StoreNames, G!AdvanceShape
  <2>2. QED
    BY <1>2, <2>1 DEF n
<1>5. /\ CommitIds(s) = CommitIds(r) \cup {n} /\ s.staging[b] = NoStaging
      /\ G!CommitIds(s) = CommitIds(s) /\ G!CommitIds(r) = CommitIds(r)
  BY <1>4 DEF CommitIds, G!CommitIds, NoStaging, G!NoStaging
<1>6. /\ \A x \in CommitIds(r) : s.commits[x] = r.commits[x]
      /\ \A x \in StoreBranches \ {b} : s.head[x] = r.head[x] /\ s.staging[x] = r.staging[x]
  BY <1>4, <1>5 DEF G!OnlyTouches
<1>7. G!Parents(s, n) = ps /\ AtCommit(s, n) = o
  BY <1>4 DEF G!Parents, AtCommit
<1> HIDE DEF n
<1>8. G!GraphOK(s)
  <2>1. G!Parents(s, n) \subseteq G!CommitIds(r) /\ G!Parents(s, n) # {}
    BY <1>5, <1>7
  <2>2. n = Len(r.commits) + 1
    BY DEF n
  <2>3. /\ G!CommitIds(s) \in {G!CommitIds(r), G!CommitIds(r) \cup {n}}
        /\ \A x \in G!CommitIds(r) : s.commits[x] = r.commits[x]
    BY <1>4, <1>5, <1>6
  <2>4. QED
    BY <1>3, <1>4, <2>1, <2>2, <2>3, StoreNames, G!GraphGrows
<1>9. KeepsCommits(r, s)
  BY <1>5, <1>6 DEF KeepsCommits, AtCommit
<1>10. \A x \in CommitIds(s) : ObjectsOK(AtCommit(s, x))
  BY <1>5, <1>7, <1>9 DEF KeepsCommits, StoreOK
<1>11. GetBranchHead(s, Main) \in CommitIds(s)
  BY <1>4, <1>5, <1>6, StoreNames DEF StoreOK, GetBranchHead
<1>12. StoreOK(s) /\ Clean(s)
  BY <1>4, <1>5, <1>6, <1>8, <1>10, <1>11 DEF StoreOK, Clean
<1>13. \A x \in CommitIds(r) : x < n
  BY <1>1 DEF n
<1>14. QED
  BY <1>4, <1>5, <1>6, <1>7, <1>9, <1>12, <1>13 DEF Grown, Moved

LEMMA PointStore ==
    ASSUME NEW r, StoreOK(r), Clean(r), NEW b \in Clients,
           NEW x \in CommitIds(r) \cup {NoBranch}, NEW s, s = CreateBranch(r, b, x)
    PROVE  Moved(r, s, b) /\ s.head[b] = x /\ s.commits = r.commits
<1>1. b \in StoreBranches /\ b # Main
  BY ArtifactStoreAssumption DEF StoreBranches
<1>2. s = G!CreateBranch(r, b, x) /\ x \in G!CommitIds(r) \cup {G!NoBranch}
  BY DEF CreateBranch, G!CreateBranch, NoStaging, G!NoStaging, CommitIds, G!CommitIds,
         NoBranch, G!NoBranch
<1>3. /\ G!RepoOK(s) /\ G!OnlyTouches(r, s, b) /\ s.commits = r.commits
      /\ s.head[b] = x /\ s.staging[b] = G!NoStaging
  <2>1. LET t == G!CreateBranch(r, b, x)
        IN  /\ G!RepoOK(t) /\ G!OnlyTouches(r, t, b) /\ t.commits = r.commits
            /\ t.head[b] = x /\ t.staging[b] = G!NoStaging
    BY <1>1, <1>2, StoreNames, G!PointShape DEF StoreOK
  <2>2. QED
    BY <1>2, <2>1
<1>4. \A y \in StoreBranches \ {b} : s.head[y] = r.head[y] /\ s.staging[y] = r.staging[y]
  BY <1>3 DEF G!OnlyTouches
<1>5. G!GraphOK(s)
  BY <1>3 DEF StoreOK, G!GraphOK, G!CommitIds, G!Parents
<1>6. /\ CommitIds(s) = CommitIds(r)
      /\ \A y \in CommitIds(r) : AtCommit(s, y) = AtCommit(r, y)
  BY <1>3 DEF CommitIds, AtCommit
<1>7. StoreOK(s) /\ Clean(s)
  BY <1>1, <1>3, <1>4, <1>5, <1>6, StoreNames
  DEF StoreOK, Clean, GetBranchHead, NoStaging, G!NoStaging
<1>8. QED
  BY <1>3, <1>4, <1>6, <1>7 DEF Moved, KeepsCommits

LEMMA DeleteStore ==
    ASSUME NEW r, StoreOK(r), Clean(r), NEW b \in Clients, NEW s, s = DeleteBranch(r, b)
    PROVE  Moved(r, s, b) /\ s.commits = r.commits
<1>1. s = CreateBranch(r, b, NoBranch)
  BY DEF CreateBranch, DeleteBranch
<1>2. QED
  BY <1>1, PointStore

(* Without staged changes a branch shows its head, and a commit repeats it. *)
LEMMA CommitStore ==
    ASSUME NEW r, StoreOK(r), Clean(r), NEW b \in StoreBranches, BranchExists(r, b),
           NEW s, s = Commit(r, b)
    PROVE  Grown(r, s, b, AtCommit(r, r.head[b]))
<1> DEFINE o == AtCommit(r, r.head[b])
<1>1. r.head[b] \in CommitIds(r) /\ ObjectsOK(o)
  BY StoreShape DEF BranchExists, StoreOK
<1>2. ResolveState(r, b) = o
  <2>1. ResolveState(r, b) = [p \in ObjectPaths |-> o[p]]
    BY ObjectsTyped DEF ResolveState, Clean
  <2>2. o = [p \in ObjectPaths |-> o[p]]
    BY <1>1 DEF ObjectsOK
  <2>3. QED
    BY <2>1, <2>2
<1> HIDE DEF o
<1>3. s = Advance(r, b, {r.head[b]}, o)
  BY <1>2 DEF Commit
<1>4. Grown(r, s, b, o)
  BY <1>1, <1>3, AdvanceStore DEF Clean
<1>5. QED
  BY <1>4 DEF o

LEMMA GrownTwice ==
    ASSUME NEW r, NEW s, NEW t, NEW b, NEW o, Moved(r, s, b), Grown(s, t, b, o)
    PROVE  Grown(r, t, b, o)
BY DEF Grown, Moved, KeepsCommits

LEMMA BaseIsCommit ==
    ASSUME NEW r, StoreOK(r), NEW b \in StoreBranches, BranchExists(r, b)
    PROVE  MergeBase(r, b, Main) \in CommitIds(r)
<1>1. \A c : Ancestors(r, c) = G!Ancestors(r, c)
  BY DEF Ancestors, Within, G!Ancestors, G!Within
<1>2. \A x, y : FindMergeBase(r, x, y) = G!FindMergeBase(r, x, y)
  BY DEF FindMergeBase, AncestorDepths, MaxOf, IdOrder, Ancestors, Within,
         G!FindMergeBase, G!AncestorDepths, G!MaxOf, G!IdOrder, G!Ancestors, G!Within
<1>3. /\ G!GraphOK(r) /\ CommitIds(r) = G!CommitIds(r)
      /\ r.head[b] \in G!CommitIds(r) /\ r.head[Main] \in G!CommitIds(r)
  BY StoreShape DEF StoreOK, BranchExists, GetBranchHead, CommitIds, G!CommitIds
<1>4. G!FindMergeBase(r, r.head[b], r.head[Main])
        \in G!CommonAncestors(r, r.head[b], r.head[Main])
  BY <1>3, StoreNames, G!MergeBaseIsCommon
<1>5. G!Ancestors(r, r.head[b]) \subseteq G!CommitIds(r)
  BY <1>3, StoreNames, G!AncestorsBelow
<1>6. QED
  BY <1>2, <1>3, <1>4, <1>5 DEF MergeBase, G!CommonAncestors

LEMMA MergeStore ==
    ASSUME NEW r, StoreOK(r), Clean(r), NEW b \in Clients, BranchExists(r, b),
           MergeConflicts(r, b, Main) = {},
           NEW t, t = Merge(r, b, Main), NEW s, s = DeleteBranch(t, b),
           NEW m, m = AtCommit(t, GetBranchHead(t, Main))
    PROVE  /\ StoreOK(s) /\ Clean(s) /\ KeepsCommits(r, s)
           /\ \A x \in StoreBranches \ {b, Main} : s.head[x] = r.head[x]
           /\ s.head[Main] \in CommitIds(s) /\ \A x \in CommitIds(r) : x < s.head[Main]
           /\ AtCommit(s, s.head[Main]) = m /\ ObjectsOK(m)
           /\ Merges(AtCommit(r, MergeBase(r, b, Main)), AtCommit(r, r.head[b]),
                     AtCommit(r, r.head[Main]), m)
<1> DEFINE base == AtCommit(r, MergeBase(r, b, Main))
           src  == AtCommit(r, r.head[b])
           tgt  == AtCommit(r, r.head[Main])
           o == [p \in ObjectPaths |-> PathMerge(base[p], src[p], tgt[p])]
           ps == {r.head[Main], r.head[b]}
<1>1. /\ b \in StoreBranches /\ Main \in StoreBranches /\ b # Main
      /\ r.head[b] \in CommitIds(r) /\ r.head[Main] \in CommitIds(r)
  BY StoreShape, StoreNames, ArtifactStoreAssumption
  DEF StoreBranches, BranchExists, StoreOK, GetBranchHead
<1>2. ObjectsOK(src) /\ ObjectsOK(tgt)
  BY <1>1 DEF StoreOK
<1>3. t = Advance(r, Main, ps, o)
  BY DEF Merge
<1>4. \A p \in ObjectPaths : ~PathConflict(base[p], src[p], tgt[p])
  BY DEF MergeConflicts
<1> HIDE DEF base, src, tgt
<1>5. \A p \in ObjectPaths :
        /\ o[p] = IF src[p] # base[p] THEN src[p] ELSE tgt[p]
        /\ src[p] # base[p] => tgt[p] \in {base[p], src[p]}
  BY <1>4 DEF PathConflict, PathMerge
<1>6. Merges(base, src, tgt, o)
  BY <1>5 DEF Merges
<1>7. o = [p \in ObjectPaths |-> o[p]]
  OBVIOUS
<1> HIDE DEF o
<1>8. ObjectsOK(o)
  <2>1. \A p \in ObjectPaths : o[p] \in {src[p], tgt[p]}
    BY <1>5
  <2>2. QED
    BY <1>2, <1>7, <2>1, PathsApart DEF ObjectsOK, ReadStoredArtifact
<1>9. Grown(r, t, Main, o)
  <2>1. ps \in SUBSET CommitIds(r) /\ ps # {}
    BY <1>1
  <2> HIDE DEF ps
  <2>2. QED
    BY <1>1, <1>3, <1>8, <2>1, AdvanceStore DEF Clean
<1>10. Moved(t, s, b) /\ s.commits = t.commits
  BY <1>9, DeleteStore DEF Grown, Moved
<1>11. s.head[Main] = t.head[Main] /\ m = o
  BY <1>1, <1>9, <1>10 DEF Moved, Grown, GetBranchHead
<1>12. QED
  BY <1>1, <1>6, <1>8, <1>9, <1>10, <1>11
  DEF Grown, Moved, KeepsCommits, base, src, tgt

LEMMA ResolveStore ==
    ASSUME NEW r, StoreOK(r), Clean(r), NEW b \in Clients, BranchExists(r, b),
           NEW conflicts \in SUBSET IndexPaths,
           NEW s, s = ResolveConflicts(r, b, Main, conflicts)
    PROVE  LET f == AtCommit(r, MergeBase(r, b, Main))
               o == AtCommit(r, r.head[b])
           IN  \E x : /\ Grown(r, s, b, x) /\ ObjectsOK(x)
                      /\ \A p \in ObjectPaths \ conflicts : x[p] = o[p]
                      /\ \A p \in conflicts : ResolvedRow(f, o, p, x[p])
<1> DEFINE f == AtCommit(r, MergeBase(r, b, Main))
           o == AtCommit(r, r.head[b])
           n == AtCommit(r, r.head[Main])
           new(p) == ResolveSinglePath(r, GetBranchHead(r, b), GetBranchHead(r, Main), p)
           merged == [p \in ObjectPaths |->
                        IF p \in conflicts THEN new(p) ELSE r.staging[b][p]]
           t == [r EXCEPT !.staging[b] = merged]
           x == [p \in ObjectPaths |-> IF p \in conflicts THEN new(p) ELSE o[p]]
<1>1. /\ b \in StoreBranches /\ Main \in StoreBranches /\ b # Main
      /\ r.head[b] \in CommitIds(r) /\ r.head[Main] \in CommitIds(r)
  BY StoreShape, StoreNames, ArtifactStoreAssumption
  DEF StoreBranches, BranchExists, StoreOK, GetBranchHead
<1>2. ObjectsOK(f) /\ ObjectsOK(o) /\ ObjectsOK(n)
  BY <1>1, BaseIsCommit DEF StoreOK
<1>3. \A p \in conflicts : new(p) \in IndexObjects /\ ResolvedRow(f, o, p, new(p))
  <2> TAKE p \in conflicts
  <2>1. new(p) = Object!MergeIndexObjects(Object!Rows(f[p]), Object!Rows(o[p]), Object!Rows(n[p]))
    BY DEF ResolveSinglePath, GetBranchHead, MergeBase
  <2> HIDE DEF new, f, o, n
  <2>2. QED
    BY <1>2, <2>1, ResolvedShape
<1>4. s = Commit(t, b)
  BY DEF ResolveConflicts
<1> HIDE DEF new, f, o, n
<1>5. \A p \in ObjectPaths : x[p] = IF p \in conflicts THEN new(p) ELSE o[p]
  OBVIOUS
<1>6. x = [p \in ObjectPaths |-> x[p]]
  OBVIOUS
<1>7. ObjectsOK(x)
  <2> HIDE DEF x
  <2>1. \A p \in ObjectPaths : x[p] \in StoredValues \cup {Absent}
    BY <1>2, <1>3, <1>5 DEF ObjectsOK, StoredValues
  <2>2. \A a \in Ids : ReadStoredArtifact(x, a) = ReadStoredArtifact(o, a)
    BY <1>5, PathsApart DEF ReadStoredArtifact
  <2>3. \A p \in IndexPaths : x[p] \in IndexObjects \cup {Absent}
    BY <1>2, <1>3, <1>5, PathsApart DEF ObjectsOK
  <2>4. QED
    BY <1>2, <1>6, <2>1, <2>2, <2>3 DEF ObjectsOK
<1>8. /\ t.commits = r.commits /\ t.head = r.head /\ t.staging[b] = merged
      /\ \A y \in StoreBranches \ {b} : t.staging[y] = r.staging[y]
      /\ G!RepoOK(t)
  <2> DEFINE st == [r.staging EXCEPT ![b] = merged]
  <2>1. r \in G!Repository /\ r.staging \in [StoreBranches -> G!Staging]
    BY StoreShape DEF StoreOK, G!RepoOK
  <2>2. merged \in G!Staging
    <3>1. r.staging[b] \in G!Staging
      BY <1>1, <2>1
    <3>2. \A p \in conflicts : new(p) \in StoredValues
      BY <1>3 DEF StoredValues
    <3>3. QED
      BY <3>1, <3>2 DEF G!Staging
  <2> HIDE DEF merged
  <2>3. st \in [StoreBranches -> G!Staging]
    BY <2>1, <2>2
  <2>4. st[b] = merged /\ \A y \in StoreBranches \ {b} : st[y] = r.staging[y]
    BY <1>1, <2>1
  <2>5. t = [r EXCEPT !.staging = st]
    OBVIOUS
  <2> HIDE DEF st, t
  <2>6. t \in G!Repository /\ t.commits = r.commits /\ t.head = r.head /\ t.staging = st
    BY <2>1, <2>3, <2>5 DEF G!Repository
  <2>7. G!RepoOK(t)
    BY <2>6 DEF G!RepoOK, G!CommitIds, StoreOK
  <2>8. QED
    BY <2>4, <2>6, <2>7
<1>9. ResolveState(t, b) = x
  <2>1. \A p \in conflicts : new(p) # Unstaged
    BY <1>3, StoreNames DEF StoredValues
  <2>2. \A p \in ObjectPaths : merged[p] = IF p \in conflicts THEN new(p) ELSE Unstaged
    BY <1>1, ObjectsTyped DEF Clean
  <2>3. AtCommit(t, t.head[b]) = o
    BY <1>8 DEF AtCommit, o
  <2>4. ResolveState(t, b) = [p \in ObjectPaths |-> IF merged[p] = Unstaged THEN o[p] ELSE merged[p]]
    BY <1>8, <2>3 DEF ResolveState
  <2> HIDE DEF merged, t
  <2>5. QED
    BY <2>1, <2>2, <2>4
<1>10. StoreOK(t)
  BY <1>8 DEF StoreOK, G!GraphOK, G!CommitIds, G!Parents, CommitIds, AtCommit, GetBranchHead
<1> HIDE DEF t, x
<1>11. Grown(t, s, b, x)
  <2>1. s = Advance(t, b, {t.head[b]}, x)
    BY <1>4, <1>9 DEF Commit
  <2>2. {t.head[b]} \in SUBSET CommitIds(t)
    BY <1>1, <1>8 DEF CommitIds
  <2>3. QED
    BY <1>1, <1>7, <1>8, <1>10, <2>1, <2>2, AdvanceStore DEF Clean
<1>12. Grown(r, s, b, x)
  BY <1>8, <1>11 DEF Grown, Moved, KeepsCommits, CommitIds, AtCommit
<1>13. \A p \in conflicts : x[p] = new(p)
  BY <1>5, PathsApart
<1>14. QED
  BY <1>3, <1>5, <1>7, <1>12, <1>13 DEF f, o
-----------------------------------------------------------------------------
(* What a request that is merged does to the artifacts.  It was checked    *)
(* against the objects R, staged on the objects f of its fork, and is      *)
(* merged over n; artifacts come and keep their type.                      *)

Older(o, n) ==
    \A a \in Ids : Exists(o, a) =>
        /\ Exists(n, a)
        /\ ReadStoredArtifact(n, a).type = ReadStoredArtifact(o, a).type

(* Its first read was of the objects R.                                    *)
CheckedAt(r, R) ==
    /\ RequestOK(r)
    /\ r.kind # "delete" => ~EmptyPayload(r.artifact)
    /\ r.kind = "update" => /\ Live(R, r.id)
                            /\ ReadStoredArtifact(R, r.id).type = r.artifact.type
    /\ r.kind = "delete" => /\ Live(R, r.id)
                            /\ r.artifact = ReadStoredArtifact(R, r.id)

(* What it refers to is there, under the type it asks for.                 *)
Points(refs, n) ==
    \A z \in refs : Exists(n, z[2]) /\ ReadStoredArtifact(n, z[2]).type = To[z[1]]

Valid(refs, n) == \A z \in refs : ValidateSingleReference(n, z[1], z[2])

(* What goes with a delete.  An effect takes care of the reference of      *)
(* artifact b to artifact y by field f.                                    *)
Goes(r) == {r.id} \cup r.effects.cascades

Effected(r, f, y, b) ==
    b \in Goes(r) \/ (OnDelete[f] = "SET_NULL" /\ <<b, f, y>> \in r.effects.nulls)

(* Nothing has changed since the first read of the checks: what they have  *)
(* found holds of the objects R they were made of.                         *)
Fresh(r, R) ==
    /\ r.kind # "delete" => Valid(References(r.artifact), R)
    /\ r.kind = "delete" /\ r.informed =>
        \A y \in Goes(r), f \in Fields, b \in Ids :
            /\ y = r.id \/ Live(R, y)
            /\ ReadStoredArtifact(R, y).type = To[f]
            /\ HasRow(R, b, <<f, y>>)
            => Effected(r, f, y, b)

RefsTyped(o) ==
    \A a \in Ids, f \in Fields : Exists(o, a) =>
        \A x \in ReadStoredArtifact(o, a).refs[f] :
            Exists(o, x) /\ ReadStoredArtifact(o, x).type = To[f]

SameArtifacts(s, t) == \A b \in Ids : ReadStoredArtifact(s, b) = ReadStoredArtifact(t, b)

Outcome(n, m, r) ==
    \A b \in Ids :
        \/ ReadStoredArtifact(m, b) = ReadStoredArtifact(n, b)
        \/ r.kind # "delete" /\ b = r.id /\ ReadStoredArtifact(m, b) = r.artifact
        \/ r.kind = "delete" /\ b = r.id /\ ReadStoredArtifact(m, b) = Tombstone(r.artifact)
        \/ /\ r.kind = "delete" /\ b # r.id /\ Live(n, b) /\ Exists(m, b)
           /\ Trims(ReadStoredArtifact(n, b), ReadStoredArtifact(m, b))
           /\ (b \in r.effects.cascades /\ ~Live(m, b)) \/ b \in Nulled(r.effects)

LEMMA MergeOutcome ==
    ASSUME NEW f, ObjectsOK(f), NEW r, RequestOK(r), NEW s, SameArtifacts(s, Staged(f, r)),
           NEW n, NEW m, Merges(f, s, n, m)
    PROVE  /\ Outcome(n, m, r)
           /\ SameArtifacts(n, f) => SameArtifacts(m, Staged(f, r))
<1> DEFINE t == Staged(f, r)
<1>1. /\ r.kind # "delete" => Writes(f, t, r)
      /\ r.kind = "delete" => Deletes(f, t, r)
  BY StagedShape
<1> HIDE DEF t
<1>2. ASSUME NEW b \in Ids
      PROVE  LET p == ArtifactPath(b)
             IN  /\ m[p] = IF t[p] # f[p] THEN t[p] ELSE n[p]
                 /\ t[p] # f[p] => n[p] \in {f[p], t[p]}
  <2>1. ArtifactPath(b) \in ObjectPaths /\ s[ArtifactPath(b)] = t[ArtifactPath(b)]
    BY PathsApart DEF SameArtifacts, ReadStoredArtifact, t
  <2>2. QED
    BY <2>1 DEF Merges
<1>3. ASSUME NEW b \in Ids, ReadStoredArtifact(m, b) # ReadStoredArtifact(n, b)
      PROVE  /\ ReadStoredArtifact(n, b) = ReadStoredArtifact(f, b)
             /\ ReadStoredArtifact(m, b) = ReadStoredArtifact(t, b)
             /\ ReadStoredArtifact(t, b) # ReadStoredArtifact(f, b)
  BY <1>2, <1>3 DEF ReadStoredArtifact
<1>4. CASE r.kind # "delete"
  <2>1. Outcome(n, m, r)
    BY <1>1, <1>3, <1>4 DEF Writes, Outcome
  <2>2. QED
    BY <1>2, <2>1 DEF SameArtifacts, ReadStoredArtifact, t
<1>5. CASE r.kind = "delete"
  <2>1. ASSUME NEW b \in Ids, ReadStoredArtifact(m, b) # ReadStoredArtifact(n, b), b # r.id
        PROVE  /\ Live(n, b) /\ Exists(m, b)
               /\ Trims(ReadStoredArtifact(n, b), ReadStoredArtifact(m, b))
               /\ (b \in r.effects.cascades /\ ~Live(m, b)) \/ b \in Nulled(r.effects)
    <3>1. /\ Live(f, b) /\ Exists(t, b)
          /\ Trims(ReadStoredArtifact(f, b), ReadStoredArtifact(t, b))
          /\ (b \in r.effects.cascades /\ ~Live(t, b)) \/ b \in Nulled(r.effects)
      BY <1>1, <1>3, <1>5, <2>1 DEF Deletes
    <3>2. /\ Live(n, b) <=> Live(f, b)
          /\ Live(m, b) <=> Live(t, b)
          /\ Exists(m, b) <=> Exists(t, b)
      BY <1>3, <2>1 DEF Live, Exists
    <3>3. QED
      BY <1>3, <2>1, <3>1, <3>2
  <2>2. Outcome(n, m, r)
    BY <1>1, <1>3, <1>5, <2>1 DEF Deletes, Outcome
  <2>3. QED
    BY <1>2, <2>2 DEF SameArtifacts, ReadStoredArtifact, t
<1>6. QED
  BY <1>4, <1>5

LEMMA OlderChain ==
    ASSUME NEW o, NEW n, NEW m, Older(o, n), Older(n, m)
    PROVE  Older(o, m)
BY DEF Older

(* (Artifacts stay and keep their type, and only a creation adds one.)     *)
LEMMA OutcomeOlder ==
    ASSUME NEW n, NEW m, NEW r, Outcome(n, m, r),
           NEW R, ObjectsOK(R), CheckedAt(r, R), Older(R, n),
           r.kind = "create" => ~Exists(n, r.id)
    PROVE  /\ Older(n, m)
           /\ \A b \in Ids : Exists(m, b) => Exists(n, b) \/ (r.kind = "create" /\ b = r.id)
<1>1. /\ r.kind \in Kinds /\ r.id \in Ids /\ r.artifact \in StoredArtifacts
      /\ Absent \notin StoredArtifacts
  BY StoredNotAbsent DEF CheckedAt, RequestOK
<1>2. /\ Tombstone(r.artifact) \in StoredArtifacts
      /\ Tombstone(r.artifact).type = r.artifact.type
  BY <1>1, TombstoneShape
<1>3. r.kind # "create" => /\ Exists(R, r.id) /\ Exists(n, r.id)
                           /\ ReadStoredArtifact(n, r.id).type = r.artifact.type
  BY <1>1 DEF CheckedAt, Live, Older, Kinds
<1>4. ASSUME NEW b \in Ids
      PROVE  /\ Exists(n, b) => /\ Exists(m, b)
                                /\ ReadStoredArtifact(m, b).type = ReadStoredArtifact(n, b).type
             /\ Exists(m, b) => Exists(n, b) \/ (r.kind = "create" /\ b = r.id)
  <2>1. CASE ReadStoredArtifact(m, b) = ReadStoredArtifact(n, b)
    BY <2>1 DEF Exists
  <2>2. CASE r.kind # "delete" /\ b = r.id /\ ReadStoredArtifact(m, b) = r.artifact
    BY <1>1, <1>3, <2>2 DEF Exists
  <2>3. CASE r.kind = "delete" /\ b = r.id /\ ReadStoredArtifact(m, b) = Tombstone(r.artifact)
    BY <1>1, <1>2, <1>3, <2>3 DEF Exists
  <2>4. CASE /\ r.kind = "delete" /\ b # r.id /\ Live(n, b) /\ Exists(m, b)
             /\ Trims(ReadStoredArtifact(n, b), ReadStoredArtifact(m, b))
    BY <2>4 DEF Live, Trims
  <2>5. QED
    BY <2>1, <2>2, <2>3, <2>4 DEF Outcome
<1>5. QED
  BY <1>4 DEF Older

(* (References keep pointing at artifacts of the type they ask for.)       *)
LEMMA OutcomeTyped ==
    ASSUME NEW n, NEW m, NEW r, Outcome(n, m, r), Older(n, m), RefsTyped(n),
           RequestOK(r), r.kind # "delete" => Points(References(r.artifact), n), ObjectsOK(m)
    PROVE  RefsTyped(m)
<1>1. ASSUME NEW a \in Ids, NEW f \in Fields, Exists(m, a),
             NEW x \in ReadStoredArtifact(m, a).refs[f]
      PROVE  Exists(m, x) /\ ReadStoredArtifact(m, x).type = To[f]
  <2>1. x \in Ids
    BY <1>1, StoredNotAbsent DEF StoredArtifacts
  <2>2. ASSUME Exists(n, x), ReadStoredArtifact(n, x).type = To[f]
        PROVE  Exists(m, x) /\ ReadStoredArtifact(m, x).type = To[f]
    BY <2>1, <2>2 DEF Older
  <2>3. CASE ReadStoredArtifact(m, a) = ReadStoredArtifact(n, a)
    <3>1. Exists(n, a)
      BY <1>1, <2>3 DEF Exists
    <3>2. QED
      BY <1>1, <2>2, <2>3, <3>1 DEF RefsTyped
  <2>4. CASE r.kind # "delete" /\ a = r.id /\ ReadStoredArtifact(m, a) = r.artifact
    <3> DEFINE z == <<f, x>>
    <3>1. z \in References(r.artifact) /\ z[1] = f /\ z[2] = x
      BY <1>1, <2>1, <2>4 DEF References
    <3>2. Exists(n, x) /\ ReadStoredArtifact(n, x).type = To[f]
      BY <2>4, <3>1 DEF Points
    <3>3. QED
      BY <2>2, <3>2
  <2>5. CASE r.kind = "delete" /\ a = r.id /\ ReadStoredArtifact(m, a) = Tombstone(r.artifact)
    <3>1. r.artifact \in StoredArtifacts
      BY DEF RequestOK
    <3>2. DeriveIndexEntries(Tombstone(r.artifact)) = {}
      BY <3>1, TombstoneShape
    <3>3. <<f, x>> \in DeriveIndexEntries(Tombstone(r.artifact))
      BY <1>1, <2>1, <2>5 DEF DeriveIndexEntries, IndexPaths
    <3>4. QED
      BY <3>2, <3>3
  <2>6. CASE /\ r.kind = "delete" /\ a # r.id /\ Live(n, a)
             /\ Trims(ReadStoredArtifact(n, a), ReadStoredArtifact(m, a))
    <3>1. x \in ReadStoredArtifact(n, a).refs[f] /\ Exists(n, a)
      BY <1>1, <2>6 DEF Trims, Live
    <3>2. QED
      BY <2>2, <3>1 DEF RefsTyped
  <2>7. QED
    BY <2>3, <2>4, <2>5, <2>6 DEF Outcome
<1>2. QED
  BY <1>1 DEF RefsTyped

(* References that dangle are excused: ReferencesHold, of some objects and *)
(* some history.                                                           *)
Excused(a, f, x, st, lo, em, out) ==
    \/ a \in st
    \/ x \in lo \cup em \/ <<f, x>> \in out
    \/ OnDelete[f] = "SET_NULL" /\ f \in Nested

RefersTo(o, a, f, x) == Live(o, a) /\ x \in ReadStoredArtifact(o, a).refs[f]

RefsHold(o, st, lo, em, out) ==
    \A a, x \in Ids, f \in Fields :
        RefersTo(o, a, f, x) /\ ~Live(o, x) => Excused(a, f, x, st, lo, em, out)

LEMMA ExcusedGrows ==
    ASSUME NEW a, NEW f, NEW x, NEW st, NEW lo, NEW em, NEW out,
           Excused(a, f, x, st, lo, em, out),
           NEW st1, st \subseteq st1, NEW lo1, lo \subseteq lo1,
           NEW em1, em \subseteq em1, NEW out1, out \subseteq out1
    PROVE  Excused(a, f, x, st1, lo1, em1, out1)
BY DEF Excused

(* (An artifact with a reference has a payload, whatever it is trimmed     *)
(* from.)                                                                  *)
LEMMA ReferringIsLive ==
    ASSUME NEW s \in StoredArtifacts, NEW f \in Fields, NEW x \in s.refs[f]
    PROVE  ~EmptyPayload(s)
<1>1. NoRefs[f] = {}
  BY DEF NoRefs
<1>2. QED
  BY <1>1 DEF EmptyPayload

(* (A write brings in the references it was checked with.)                 *)
LEMMA WriteRefs ==
    ASSUME NEW n, NEW m, NEW r, Outcome(n, m, r), r.kind # "delete",
           NEW R, CheckedAt(r, R),
           NEW st, NEW lo, NEW em, NEW out, RefsHold(n, st, lo, em, out),
           NEW lo1, lo \subseteq lo1,
           Fresh(r, n) \/ UNION {r.artifact.refs[f] : f \in Fields} \subseteq lo1
    PROVE  RefsHold(m, st, lo1, em, out)
<1>1. ~EmptyPayload(r.artifact)
      /\ r.id \in Ids /\ r.artifact # Absent
  BY StoredNotAbsent DEF CheckedAt, RequestOK
<1>2. \A b \in Ids : \/ ReadStoredArtifact(m, b) = ReadStoredArtifact(n, b)
                     \/ b = r.id /\ ReadStoredArtifact(m, b) = r.artifact
  BY DEF Outcome
<1>3. \A b \in Ids : Live(n, b) => Live(m, b)
  BY <1>1, <1>2 DEF Live, Exists
<1>4. ASSUME NEW a \in Ids, NEW x \in Ids, NEW f \in Fields,
             RefersTo(m, a, f, x), ~Live(m, x)
      PROVE  Excused(a, f, x, st, lo1, em, out)
  <2>1. CASE ReadStoredArtifact(m, a) = ReadStoredArtifact(n, a)
    <3>1. RefersTo(n, a, f, x) /\ ~Live(n, x)
      BY <1>3, <1>4, <2>1 DEF RefersTo, Live, Exists
    <3>2. Excused(a, f, x, st, lo, em, out)
      BY <3>1 DEF RefsHold
    <3>3. QED
      BY <3>2, ExcusedGrows
  <2>2. CASE a = r.id /\ ReadStoredArtifact(m, a) = r.artifact
    <3>1. x \in r.artifact.refs[f]
      BY <1>1, <1>4, <2>2 DEF RefersTo
    <3>2. ~Fresh(r, n)
      <4> SUFFICES ASSUME Fresh(r, n) PROVE Live(n, x)
        BY <1>3, <1>4
      <4> DEFINE z == <<f, x>>
      <4>1. z \in References(r.artifact) /\ z[1] = f /\ z[2] = x
        BY <3>1 DEF References
      <4>2. QED
        BY <4>1 DEF Fresh, Valid, ValidateSingleReference
    <3>3. x \in lo1
      BY <3>1, <3>2
    <3>4. QED
      BY <3>3 DEF Excused
  <2>3. QED
    BY <1>2, <2>1, <2>2
<1>5. QED
  BY <1>4 DEF RefsHold

(* (A delete whose artifacts need not be held.)                            *)
LEMMA LooseRefs ==
    ASSUME NEW n, NEW m, NEW r, Outcome(n, m, r), r.kind = "delete", ObjectsOK(n), ObjectsOK(m),
           NEW R, CheckedAt(r, R), r.artifact \in StoredArtifacts,
           NEW st, NEW lo, NEW em, NEW out, RefsHold(n, st, lo, em, out),
           NEW lo1, lo \cup {r.id} \cup r.effects.cascades \subseteq lo1,
           NEW em1, em \cup {b \in Nulled(r.effects) : Tombstoned(m, b)} \subseteq em1
    PROVE  RefsHold(m, st, lo1, em1, out)
<1>1. ASSUME NEW a \in Ids, NEW x \in Ids, NEW f \in Fields,
             RefersTo(m, a, f, x), ~Live(m, x)
      PROVE  Excused(a, f, x, st, lo1, em1, out)
  <2>1. RefersTo(n, a, f, x)
    <3>1. CASE ReadStoredArtifact(m, a) = ReadStoredArtifact(n, a)
      BY <1>1, <3>1 DEF RefersTo, Live, Exists
    <3>2. CASE a = r.id /\ ReadStoredArtifact(m, a) = Tombstone(r.artifact)
      <4>1. EmptyPayload(Tombstone(r.artifact))
        BY TombstoneShape
      <4>2. QED
        BY <1>1, <3>2, <4>1 DEF RefersTo, Live
    <3>3. CASE Live(n, a) /\ Trims(ReadStoredArtifact(n, a), ReadStoredArtifact(m, a))
      BY <1>1, <3>3 DEF RefersTo, Trims
    <3>4. QED
      BY <3>1, <3>2, <3>3 DEF Outcome
  <2>2. CASE ~Live(n, x)
    <3>1. Excused(a, f, x, st, lo, em, out)
      BY <2>1, <2>2 DEF RefsHold
    <3>2. QED
      BY <3>1, ExcusedGrows
  <2>3. CASE Live(n, x)
    <3>1. ReadStoredArtifact(m, x) # ReadStoredArtifact(n, x)
      BY <1>1, <2>3 DEF Live, Exists
    <3>2. x \in lo1 \/ (Exists(m, x) /\ x \in Nulled(r.effects))
      BY <3>1 DEF Outcome
    <3>3. Exists(m, x) => Tombstoned(m, x)
      BY <1>1 DEF Live, Tombstoned
    <3>4. QED
      BY <3>2, <3>3 DEF Excused
  <2>4. QED
    BY <2>2, <2>3
<1>2. QED
  BY <1>1 DEF RefsHold

(* (A delete that is merged into what it was checked against, on an        *)
(* instance that knows all indexes: what refers to an artifact that goes   *)
(* has a row, the search has found the row, and the effect is applied.)    *)
LEMMA TightRefs ==
    ASSUME NEW n, ObjectsOK(n), NEW r, CheckedAt(r, n), Fresh(r, n),
           r.kind = "delete", r.informed,
           NEW m, SameArtifacts(m, Staged(n, r)), RefsTyped(n),
           NEW st, NEW lo, NEW em, NEW out, RefsHold(n, st, lo, em, out),
           \A a \in Ids \ st, p \in IndexPaths \ out : Covers(n, a, p),
           NEW em1, em \cup {b \in Nulled(r.effects) : Tombstoned(m, b)} \subseteq em1
    PROVE  RefsHold(m, st, lo, em1, out)
<1> DEFINE t == Staged(n, r)
           e == r.effects
<1>1. RequestOK(r) /\ r.id \in Ids /\ r.artifact \in StoredArtifacts /\ e \in AllEffects
      /\ r.artifact = ReadStoredArtifact(n, r.id)
  BY DEF CheckedAt, RequestOK
<1>2. Deletes(n, t, r)
  BY <1>1, StagedShape
<1> HIDE DEF t, e
<1>4. \A b \in Ids : /\ ReadStoredArtifact(m, b) = ReadStoredArtifact(t, b)
                     /\ Live(m, b) <=> Live(t, b)
                     /\ Exists(m, b) <=> Exists(t, b)
  BY DEF SameArtifacts, Live, Exists, t
<1>5. ASSUME NEW a \in Ids, NEW x \in Ids, NEW f \in Fields,
             RefersTo(m, a, f, x), ~Live(m, x)
      PROVE  Excused(a, f, x, st, lo, em1, out)
  <2>1. a \notin {r.id} \cup e.cascades
    BY <1>2, <1>4, <1>5 DEF RefersTo, Deletes, e
  <2>2. RefersTo(n, a, f, x)
    <3>1. CASE ReadStoredArtifact(t, a) = ReadStoredArtifact(n, a)
      BY <1>4, <1>5, <3>1 DEF RefersTo, Live, Exists
    <3>2. CASE ReadStoredArtifact(t, a) # ReadStoredArtifact(n, a)
      <4>1. Live(n, a) /\ Trims(ReadStoredArtifact(n, a), ReadStoredArtifact(t, a))
        BY <1>2, <2>1, <3>2 DEF Deletes
      <4>2. QED
        BY <1>4, <1>5, <4>1 DEF RefersTo, Trims
    <3>3. QED
      BY <3>1, <3>2
  <2>3. CASE ~Live(n, x)
    <3>1. Excused(a, f, x, st, lo, em, out)
      BY <2>2, <2>3 DEF RefsHold
    <3>2. QED
      BY <3>1, ExcusedGrows
  <2>4. CASE Live(n, x) /\ x \notin {r.id} \cup e.cascades
    <3>1. ReadStoredArtifact(t, x) # ReadStoredArtifact(n, x)
      BY <1>4, <1>5, <2>4 DEF Live, Exists
    <3>2. Exists(m, x) /\ x \in Nulled(e)
      BY <1>2, <1>4, <2>4, <3>1 DEF Deletes, e
    <3>3. x \in em1
      BY <1>5, <3>2 DEF Tombstoned, Live, e
    <3>4. QED
      BY <3>3 DEF Excused
  <2>5. CASE Live(n, x) /\ x \in {r.id} \cup e.cascades
    <3>1. SUFFICES ASSUME a \notin st, <<f, x>> \notin out,
                          ~(OnDelete[f] = "SET_NULL" /\ f \in Nested)
                   PROVE  FALSE
      BY DEF Excused
    <3> DEFINE p == <<f, x>>
    <3>2. p \in IndexPaths /\ p \in DeriveIndexEntries(ReadStoredArtifact(n, a)) /\ Exists(n, a)
      BY <2>2 DEF IndexPaths, DeriveIndexEntries, RefersTo, Live
    <3>3. HasRow(n, a, p)
      <4>1. Covers(n, a, p)
        BY <3>1, <3>2
      <4>2. QED
        BY <3>2, <4>1 DEF Covers, Derives
    <3>4. ReadStoredArtifact(n, x).type = To[f]
      BY <2>2 DEF RefersTo, Live, RefsTyped
    <3>5. Effected(r, f, x, a)
      BY <2>5, <3>3, <3>4 DEF Fresh, Goes, e
    <3>8. OnDelete[f] = "SET_NULL" /\ <<a, f, x>> \in e.nulls
      BY <2>1, <3>5 DEF Effected, Goes, e
    <3>9. f \notin Nested /\ Live(t, a)
      BY <1>4, <1>5, <3>1, <3>8 DEF RefersTo
    <3>10. x \notin ReadStoredArtifact(t, a).refs[f]
      <4> DEFINE z == <<a, f, x>>
      <4>1. z \in e.nulls /\ z[1] = a /\ z[2] = f /\ z[3] = x
        BY <3>8
      <4>2. z[2] \notin Nested /\ Live(t, z[1])
        BY <3>9, <4>1
      <4> HIDE DEF z
      <4>3. z[3] \notin ReadStoredArtifact(t, z[1]).refs[z[2]]
        BY <1>2, <4>1, <4>2 DEF Deletes, e
      <4>4. QED
        BY <4>1, <4>3
    <3>11. QED
      BY <1>4, <1>5, <3>10 DEF RefersTo
  <2>6. QED
    BY <2>3, <2>4, <2>5
<1>6. QED
  BY <1>5 DEF RefsHold

-----------------------------------------------------------------------------
(* The artifacts that depend on one: the iteration of DependsOn() ends     *)
(* with the least set that is closed.                                      *)

Referrers(o, S) == {e[1] : e \in {e \in o : e[2] \in S}}

Grows(g, o, id) ==
    g = [k \in Nat |-> IF k = 0 THEN {id} ELSE g[k - 1] \cup Referrers(o, g[k - 1])]

LEMMA GrowsExists ==
    ASSUME NEW o, o \in SUBSET (Ids \X Ids), NEW id \in Ids
    PROVE  \E g : Grows(g, o, id)
<1> DEFINE X == SUBSET Ids
           step == [S \in X |-> S \cup Referrers(o, S)]
           x0 == {id}
<1>1. x0 \in X /\ step \in [X -> X]
  BY DEF Referrers
<1>2. PICK f \in [Nat -> X] : f[0] = x0 /\ \A n \in Nat : f[n + 1] = step[f[n]]
  <2> HIDE DEF X, step, x0
  <2>1. QED
    BY ONLY <1>1, StoreNames, G!IterationExists
<1>3. \A k \in Nat \ {0} : f[k] = f[k - 1] \cup Referrers(o, f[k - 1])
  <2> SUFFICES ASSUME NEW k \in Nat \ {0}
               PROVE  f[k] = f[k - 1] \cup Referrers(o, f[k - 1])
    OBVIOUS
  <2>1. k - 1 \in Nat /\ (k - 1) + 1 = k
    OBVIOUS
  <2>2. f[k] = step[f[k - 1]] /\ f[k - 1] \in X
    BY <1>2, <2>1
  <2>3. QED
    BY <2>2
<1>4. Grows(f, o, id)
  BY <1>2, <1>3 DEF Grows
<1>5. QED
  BY <1>4

Growth(g, o, id) ==
    /\ g \in [Nat -> SUBSET Ids] /\ g[0] = {id}
    /\ \A k \in Nat : g[k + 1] = g[k] \cup Referrers(o, g[k])

LEMMA GrowsSteps ==
    ASSUME NEW o, o \in SUBSET (Ids \X Ids), NEW id \in Ids, NEW g, Grows(g, o, id)
    PROVE  Growth(g, o, id)
<1>1. \A k \in Nat : g[k] = IF k = 0 THEN {id} ELSE g[k - 1] \cup Referrers(o, g[k - 1])
  BY DEF Grows
<1>2. DOMAIN g = Nat /\ g = [k \in Nat |-> g[k]]
  BY DEF Grows
<1>3. g[0] = {id}
  BY <1>1
<1>4. ASSUME NEW k \in Nat
      PROVE  g[k + 1] = g[k] \cup Referrers(o, g[k])
  <2>1. k + 1 \in Nat /\ k + 1 # 0 /\ (k + 1) - 1 = k
    OBVIOUS
  <2>2. QED
    BY <1>1, <2>1
<1> DEFINE N == {k \in Nat : g[k] \subseteq Ids}
<1>5. Nat \subseteq N
  <2>1. 0 \in N
    BY <1>3
  <2>2. ASSUME NEW k \in Nat, k \in N
        PROVE  k + 1 \in N
    <3>1. Referrers(o, g[k]) \subseteq Ids
      BY DEF Referrers
    <3>2. QED
      BY <1>4, <2>2, <3>1
  <2> HIDE DEF N
  <2>3. QED
    BY <2>1, <2>2, SetInduction
<1>6. QED
  BY <1>2, <1>3, <1>4, <1>5 DEF Growth

LEMMA LimitIsLeast ==
    ASSUME NEW o, o \in SUBSET (Ids \X Ids), NEW id \in Ids, NEW g, Grows(g, o, id), NEW D, D = g[Cardinality(Ids)]
    PROVE  /\ D \in SUBSET Ids /\ id \in D /\ Referrers(o, D) \subseteq D
           /\ \A Z \in SUBSET Ids : id \in Z /\ Referrers(o, Z) \subseteq Z => D \subseteq Z
<1> DEFINE N == Cardinality(Ids)
<1>2. /\ g \in [Nat -> SUBSET Ids] /\ g[0] = {id}
      /\ \A k \in Nat : g[k + 1] = g[k] \cup Referrers(o, g[k])
  <2>1. Growth(g, o, id)
    BY GrowsSteps
  <2>2. QED
    BY <2>1 DEF Growth
<1>3. N \in Nat /\ IsFiniteSet(Ids)
  BY FS_CardinalityType, ReferenceAssumption
<1>4. \A k \in Nat : IsFiniteSet(g[k]) /\ Cardinality(g[k]) \in Nat /\ Cardinality(g[k]) <= N
  BY <1>2, <1>3, FS_Subset, FS_CardinalityType
<1> DEFINE M == {k \in Nat : id \in g[k] /\ (g[k + 1] = g[k] \/ Cardinality(g[k]) >= k + 1)}
<1>5. Nat \subseteq M
  <2>1. 0 \in M
    <3>0. Cardinality({id}) = 1
      BY FS_Singleton, Zenon
    <3>1. Cardinality(g[0]) >= 0 + 1
      BY <1>2, <3>0
    <3>2. QED
      BY <1>2, <3>1
  <2>2. ASSUME NEW k \in Nat, k \in M
        PROVE  k + 1 \in M
    <3>1. k + 1 \in Nat /\ g[(k + 1) + 1] = g[k + 1] \cup Referrers(o, g[k + 1])
          /\ g[k + 1] = g[k] \cup Referrers(o, g[k])
      BY <1>2
    <3>2. CASE g[k + 1] = g[k]
      BY <2>2, <3>1, <3>2
    <3>3. CASE g[k + 1] # g[k]
      <4>1. g[k] \subseteq g[k + 1] /\ Cardinality(g[k]) >= k + 1
        BY <2>2, <3>1, <3>3
      <4>2. Cardinality(g[k]) # Cardinality(g[k + 1]) /\ Cardinality(g[k]) <= Cardinality(g[k + 1])
        <5> DEFINE A == g[k]
                   B == g[k + 1]
        <5>1. IsFiniteSet(B) /\ A \in SUBSET B /\ A # B
          BY <1>4, <3>1, <3>3, <4>1
        <5> HIDE DEF A, B
        <5>2. Cardinality(A) # Cardinality(B) /\ Cardinality(A) <= Cardinality(B)
          BY ONLY <5>1, FS_Subset
        <5>3. QED
          BY <5>2 DEF A, B
      <4>3. Cardinality(g[k + 1]) >= (k + 1) + 1
        <5> DEFINE i == Cardinality(g[k])
                   j == Cardinality(g[k + 1])
        <5>1. i \in Nat /\ j \in Nat
          BY <1>4, <3>1
        <5>2. i >= k + 1 /\ i # j /\ i <= j
          BY <4>1, <4>2
        <5> HIDE DEF i, j
        <5>3. j >= (k + 1) + 1
          BY <5>1, <5>2
        <5>4. QED
          BY <5>3 DEF j
      <4>4. QED
        BY <2>2, <3>1, <4>3
    <3>4. QED
      BY <3>2, <3>3
  <2> HIDE DEF M
  <2>3. QED
    BY <2>1, <2>2, SetInduction
<1>6. g[N + 1] = g[N] /\ id \in g[N] /\ g[N + 1] = g[N] \cup Referrers(o, g[N])
      /\ g[N] \in SUBSET Ids
  BY <1>2, <1>3, <1>4, <1>5
<1>7. ASSUME NEW Z \in SUBSET Ids, id \in Z, Referrers(o, Z) \subseteq Z
      PROVE  g[N] \subseteq Z
  <2> DEFINE K == {k \in Nat : g[k] \subseteq Z}
  <2>1. 0 \in K
    BY <1>2, <1>7
  <2>2. ASSUME NEW k \in Nat, k \in K
        PROVE  k + 1 \in K
    <3>1. Referrers(o, g[k]) \subseteq Referrers(o, Z)
      BY <2>2 DEF Referrers
    <3>2. QED
      BY <1>2, <1>7, <2>2, <3>1
  <2> HIDE DEF K
  <2>3. Nat \subseteq K
    BY <2>1, <2>2, SetInduction
  <2>4. QED
    BY <1>3, <2>3 DEF K
<1>8. QED
  BY <1>6, <1>7

LEMMA DependsIsLeast ==
    ASSUME NEW o \in SUBSET (Ids \X Ids), NEW id \in Ids, NEW D, D = DependsOn(o, id)
    PROVE  /\ D \in SUBSET Ids /\ id \in D /\ Referrers(o, D) \subseteq D
           /\ \A Z \in SUBSET Ids : id \in Z /\ Referrers(o, Z) \subseteq Z => D \subseteq Z
<1> DEFINE g == CHOOSE h : Grows(h, o, id)
<1>1. D = g[Cardinality(Ids)]
  BY Zenon DEF DependsOn, Grows, Referrers
<1>2. Grows(g, o, id)
  BY GrowsExists
<1> HIDE DEF g
<1>3. QED
  BY <1>1, <1>2, LimitIsLeast

-----------------------------------------------------------------------------
(* The checks.  What a request q has found in the objects S it has read:   *)
(* the references that are validated, and what the search of a delete has  *)
(* come to, whose calls are on the stack.                                  *)

CallRecords ==
    [id : Ids, defs : SUBSET Fields, queue : SUBSET Ids,
     given : SUBSET Ids, scheduled : SUBSET Ids, found : SUBSET Ids]

Members(s) == {s[j] : j \in 1 .. Len(s)}
Frames(q) == Members(q.stack)

FrameOK(E, k) ==
    /\ k \in CallRecords /\ k.id \in E /\ k.queue \subseteq E
    /\ k.given \subseteq E /\ k.scheduled \subseteq E /\ k.found \subseteq E

(* One of the calls F still has to look at the referrers of y by f.        *)
Pending(F, id, y, f) ==
    \E k \in F : (k.id = y /\ f \in k.defs) \/ (y # id /\ y \in k.queue)

(* Someone might refer to y by f, as far as the reads tell.                *)
Asks(q, S, y, f) ==
    IF y = q.id THEN q.artifact.type = To[f]
    ELSE \A o \in S : Live(o, y) /\ ReadStoredArtifact(o, y).type = To[f]

Handled(q, S, y, f) ==
    \A b \in Ids : (\A o \in S : HasRow(o, b, <<f, y>>)) => Effected(q, f, y, b)

Complete(q, F, S) ==
    \A y \in Goes(q), f \in Fields :
        Asks(q, S, y, f) => Pending(F, q.id, y, f) \/ Handled(q, S, y, f)

(* Z holds what refers to it by CASCADE, according to the indexes.         *)
Closed(Z, S) ==
    \A o \in S, f \in Fields, y \in Z, b \in Ids :
        OnDelete[f] = "CASCADE" /\ HasRow(o, b, <<f, y>>) => b \in Z

Justified(q, S) ==
    \A Z \in SUBSET Ids : q.id \in Z /\ Closed(Z, S) => q.effects.cascades \subseteq Z

Validated(q, S) ==
    \A z \in References(q.artifact) \ q.todo :
        \E o \in S : ValidateSingleReference(o, z[1], z[2])

SearchOK(q, S) ==
    /\ q.kind # "delete" => q.stack = <<>> /\ Validated(q, S)
    /\ q.kind = "delete" =>
        /\ \A k \in Frames(q) : FrameOK(Goes(q), k)
        /\ q.informed => Complete(q, Frames(q), S)
        /\ Justified(q, S)

(* What stays the same while a request is being checked.                   *)
Kin(q, r) ==
    /\ q.kind = r.kind /\ q.id = r.id /\ q.artifact = r.artifact
    /\ q.read = r.read /\ q.informed = r.informed

LEMMA CallUpdates ==
    ASSUME NEW i, NEW d, NEW x, NEW g, NEW s, NEW y, NEW z, NEW k,
           k = [id |-> i, defs |-> d, queue |-> x, given |-> g, scheduled |-> s, found |-> y]
    PROVE  /\ [k EXCEPT !.scheduled = z] =
                [id |-> i, defs |-> d, queue |-> x, given |-> g, scheduled |-> z, found |-> y]
           /\ [k EXCEPT !.found = z] =
                [id |-> i, defs |-> d, queue |-> x, given |-> g, scheduled |-> s, found |-> z]
OBVIOUS

LEMMA CallShapes ==
    ASSUME NEW k \in CallRecords
    PROVE  /\ \A f \in Fields, R \in SUBSET Ids :
                /\ Found(k, f, R) \in CallRecords /\ Found(k, f, R).id = k.id
                /\ Found(k, f, R).defs = k.defs \ {f}
                /\ Found(k, f, R).queue = Deleted(f, R) /\ Found(k, f, R).given = k.given
                /\ Found(k, f, R).scheduled = k.given \cup Deleted(f, R)
                /\ Found(k, f, R).found = k.found \cup Deleted(f, R)
           /\ \A R \in SUBSET Ids :
                /\ Returned(k, R) \in CallRecords /\ Returned(k, R).id = k.id
                /\ Returned(k, R).defs = k.defs
                /\ Returned(k, R).queue = k.queue /\ Returned(k, R).given = k.given
                /\ Returned(k, R).scheduled = k.scheduled \cup R
                /\ Returned(k, R).found = k.found \cup R
<1> DEFINE rec(d, x, s, y) == [id |-> k.id, defs |-> d, queue |-> x, given |-> k.given,
                               scheduled |-> s, found |-> y]
<1>0. k = rec(k.defs, k.queue, k.scheduled, k.found)
  BY DEF CallRecords
<1>1. ASSUME NEW f \in Fields, NEW R \in SUBSET Ids
      PROVE  Found(k, f, R) = [id |-> k.id, defs |-> k.defs \ {f}, queue |-> Deleted(f, R),
                               given |-> k.given, scheduled |-> k.given \cup Deleted(f, R),
                               found |-> k.found \cup Deleted(f, R)]
  <2> DEFINE k1 == [k EXCEPT !.defs = k.defs \ {f}]
             k2 == [k1 EXCEPT !.queue = Deleted(f, R)]
             k3 == [k2 EXCEPT !.scheduled = k.given \cup Deleted(f, R)]
             k4 == [k3 EXCEPT !.found = k.found \cup Deleted(f, R)]
  <2>1. k1 = rec(k.defs \ {f}, k.queue, k.scheduled, k.found)
    BY <1>0
  <2> HIDE DEF k1
  <2>2. k2 = rec(k.defs \ {f}, Deleted(f, R), k.scheduled, k.found)
    BY <2>1
  <2> DEFINE D == Deleted(f, R)
             d == k.defs \ {f}
             G1 == k.given \cup D
             F1 == k.found \cup D
  <2> HIDE DEF k2, D, d, G1, F1
  <2>3. [k2 EXCEPT !.scheduled = G1] = rec(d, D, G1, k.found)
    <3>1. k2 = rec(d, D, k.scheduled, k.found)
      BY <2>2 DEF D, d
    <3>2. QED
      BY <3>1, CallUpdates
  <2>4. [rec(d, D, G1, k.found) EXCEPT !.found = F1] = rec(d, D, G1, F1)
    OBVIOUS
  <2>a. k4 = rec(d, D, G1, F1)
    BY <2>3, <2>4 DEF G1, F1, D
  <2>5. Found(k, f, R) = k4
    BY DEF Found, k1, k2
  <2>6. QED
    BY <2>a, <2>5 DEF G1, F1, D, d
<1>2. ASSUME NEW R \in SUBSET Ids
      PROVE  Returned(k, R) = [id |-> k.id, defs |-> k.defs, queue |-> k.queue,
                               given |-> k.given, scheduled |-> k.scheduled \cup R,
                               found |-> k.found \cup R]
  <2> DEFINE k1 == [k EXCEPT !.scheduled = k.scheduled \cup R]
             k2 == [k1 EXCEPT !.found = k.found \cup R]
  <2>1. k1 = rec(k.defs, k.queue, k.scheduled \cup R, k.found)
    BY <1>0
  <2> HIDE DEF k1
  <2>2. k2 = rec(k.defs, k.queue, k.scheduled \cup R, k.found \cup R)
    BY <2>1
  <2>3. Returned(k, R) = k2
    BY DEF Returned, k1
  <2>4. QED
    BY <2>2, <2>3
<1>3. \A f, R : Deleted(f, R) \subseteq R
  BY DEF Deleted
<1>4. /\ k.id \in Ids /\ k.defs \in SUBSET Fields /\ k.queue \in SUBSET Ids
      /\ k.given \in SUBSET Ids /\ k.scheduled \in SUBSET Ids /\ k.found \in SUBSET Ids
  BY DEF CallRecords
<1>5. QED
  BY <1>1, <1>2, <1>3, <1>4 DEF CallRecords

LEMMA CallShape ==
    ASSUME NEW a \in Ids, NEW type, NEW given \in SUBSET Ids
    PROVE  /\ Call(a, type, given) \in CallRecords /\ Call(a, type, given).id = a
           /\ Call(a, type, given).defs = {f \in Fields : To[f] = type}
           /\ Call(a, type, given).queue = {} /\ Call(a, type, given).found = {}
           /\ Call(a, type, given).given = given /\ Call(a, type, given).scheduled = given
BY DEF Call, CallRecords

(* (A read more tells less about what is there throughout, and more about  *)
(* what is there sometime.)                                                *)
LEMMA MoreSeen ==
    ASSUME NEW q, NEW S, NEW o, NEW y, NEW f
    PROVE  /\ Asks(q, S \cup {o}, y, f) => Asks(q, S, y, f)
           /\ Handled(q, S, y, f) => Handled(q, S \cup {o}, y, f)
BY DEF Asks, Handled

LEMMA MoreJustified ==
    ASSUME NEW q, NEW r, q.id = r.id, NEW S, NEW o, NEW C,
           Justified(r, S), q.effects.cascades \subseteq r.effects.cascades \cup C,
           \A Z \in SUBSET Ids : Goes(r) \subseteq Z /\ Closed(Z, S \cup {o}) => C \subseteq Z
    PROVE  Justified(q, S \cup {o})
<1>1. ASSUME NEW Z \in SUBSET Ids, q.id \in Z, Closed(Z, S \cup {o})
      PROVE  q.effects.cascades \subseteq Z
  <2>1. Closed(Z, S)
    BY <1>1 DEF Closed
  <2>2. r.effects.cascades \subseteq Z
    BY <1>1, <2>1 DEF Justified
  <2>3. Goes(r) \subseteq Z
    BY <1>1, <2>2 DEF Goes
  <2>4. QED
    BY <1>1, <2>2, <2>3
<1>2. QED
  BY <1>1 DEF Justified

(* (A target is validated.)                                                *)
LEMMA SearchValidates ==
    ASSUME NEW r, NEW q, NEW S, NEW o, NEW n, SearchOK(r, S), Kin(q, r),
           q.effects = r.effects, q.stack = r.stack, q.todo = r.todo \ {n},
           ValidateSingleReference(o, n[1], n[2])
    PROVE  SearchOK(q, S \cup {o})
<1>1. CASE q.kind # "delete"
  <2>1. Validated(r, S) /\ q.stack = <<>>
    BY <1>1 DEF SearchOK, Kin
  <2>2. ASSUME NEW z \in References(q.artifact) \ q.todo
        PROVE  \E x \in S \cup {o} : ValidateSingleReference(x, z[1], z[2])
    <3>1. CASE z = n
      BY <3>1
    <3>2. CASE z # n
      <4>1. z \in References(r.artifact) \ r.todo
        BY <3>2 DEF Kin
      <4>2. QED
        BY <2>1, <4>1 DEF Validated
    <3>3. QED
      BY <3>1, <3>2
  <2>3. QED
    BY <1>1, <2>1, <2>2 DEF SearchOK, Validated
<1>2. CASE q.kind = "delete"
  <2>1. /\ \A k \in Frames(r) : FrameOK(Goes(r), k)
        /\ r.informed => Complete(r, Frames(r), S)
        /\ Justified(r, S)
    BY <1>2 DEF SearchOK, Kin
  <2>2. Frames(q) = Frames(r) /\ Goes(q) = Goes(r)
    BY DEF Frames, Goes, Kin
  <2>3. Justified(q, S \cup {o})
    <3>1. \A Z \in SUBSET Ids : Goes(r) \subseteq Z /\ Closed(Z, S \cup {o}) => {} \subseteq Z
      OBVIOUS
    <3>2. QED
      BY <2>1, <3>1, MoreJustified DEF Kin
  <2>4. \A y, f : /\ Asks(q, S, y, f) <=> Asks(r, S, y, f)
                  /\ Handled(q, S, y, f) <=> Handled(r, S, y, f)
    BY <2>2 DEF Asks, Handled, Kin, Effected
  <2>5. q.informed => Complete(q, Frames(q), S \cup {o})
    BY <2>1, <2>2, <2>4, MoreSeen DEF Complete, Kin
  <2>6. QED
    BY <1>2, <2>1, <2>2, <2>3, <2>5 DEF SearchOK
<1>3. QED
  BY <1>1, <1>2

(* (A call looks at a reference definition: the effects on the artifacts   *)
(* with a row are there then, and those it cascades to are in its queue.)  *)
Finding(r, q, S, o, k, f, K, R) ==
    /\ ObjectsOK(o) /\ SearchOK(r, S) /\ Kin(q, r)
    /\ q.todo = r.todo /\ r.kind = "delete" /\ r.id \in Ids /\ r.effects \in AllEffects
    /\ k \in Frames(r) /\ k.queue = {} /\ (r.informed => K = Fields)
    /\ R = FindActiveReferencingArtifacts(o, K, f, k.id, k.given)
    /\ ~(OnDelete[f] = "RESTRICT" /\ R # {})
    /\ q.effects = Entail(r.effects, f, k.id, R)
    /\ Frames(r) \ {k} \subseteq Frames(q) /\ Found(k, f, R) \in Frames(q)
    /\ Frames(q) \subseteq Frames(r) \cup {Found(k, f, R)}

LEMMA SearchFinds ==
    ASSUME NEW r, NEW q, NEW S, NEW o, NEW k, NEW f \in Fields, NEW K, NEW R,
           Finding(r, q, S, o, k, f, K, R)
    PROVE  SearchOK(q, S \cup {o})
<1> USE DEF Finding
<1> DEFINE w == Found(k, f, R)
           C == Deleted(f, R)
<1>1. /\ \A x \in Frames(r) : FrameOK(Goes(r), x)
      /\ r.informed => Complete(r, Frames(r), S)
      /\ Justified(r, S)
  BY DEF SearchOK
<1>2. k \in CallRecords /\ k.id \in Goes(r) /\ k.given \subseteq Goes(r) /\ k.found \subseteq Goes(r)
  BY <1>1 DEF FrameOK
<1>3. R \in SUBSET Ids /\ C \subseteq R
      /\ (\A b \in R : HasRow(o, b, <<f, k.id>>))
      /\ (r.informed => \A b \in Ids : HasRow(o, b, <<f, k.id>>) => b \in R \cup k.given \cup {k.id})
  <2>1. k.id \in Ids
    BY <1>2 DEF CallRecords
  <2> DEFINE p == <<f, k.id>>
  <2>2. o[p] \in IndexObjects \cup {Absent}
    BY <2>1 DEF ObjectsOK, IndexPaths
  <2>3. DOMAIN Rows(o[p]) \subseteq Ids
    BY <2>2, RowsShape
  <2>4. R = IF f \in K THEN DOMAIN Rows(o[p]) \ (k.given \cup {k.id}) ELSE {}
    BY DEF FindActiveReferencingArtifacts, ReadIndexArtifactIds
  <2>5. C \subseteq R
    BY DEF Deleted
  <2>6. \A b : HasRow(o, b, p) <=> b \in DOMAIN Rows(o[p])
    BY DEF HasRow
  <2> HIDE DEF p, C
  <2>7. R \in SUBSET Ids /\ (\A b \in R : HasRow(o, b, p))
    BY <2>3, <2>4, <2>6
  <2>8. r.informed => \A b \in Ids : HasRow(o, b, p) => b \in R \cup k.given \cup {k.id}
    BY <2>4, <2>6
  <2>9. QED
    BY <2>5, <2>7, <2>8 DEF p
<1>4. /\ w \in CallRecords /\ w.id = k.id /\ w.defs = k.defs \ {f} /\ w.queue = C
      /\ w.given = k.given /\ w.scheduled = k.given \cup C /\ w.found = k.found \cup C
  BY <1>2, <1>3, CallShapes
<1>5. /\ q.effects.cascades = r.effects.cascades \cup C
      /\ q.effects.nulls = r.effects.nulls \cup
            {<<b, f, k.id>> : b \in IF OnDelete[f] = "SET_NULL" THEN R ELSE {}}
      /\ Goes(q) = Goes(r) \cup C
  BY DEF Entail, Goes, Kin
<1> HIDE DEF w
<1>6. \A x \in Frames(q) : FrameOK(Goes(q), x)
  <2>1. \A x : FrameOK(Goes(r), x) => FrameOK(Goes(q), x)
    BY <1>5 DEF FrameOK
  <2>2. FrameOK(Goes(q), w)
    BY <1>2, <1>4, <1>5 DEF FrameOK
  <2>3. QED
    BY <1>1, <2>1, <2>2 DEF w
<1>7. Justified(q, S \cup {o})
  <2>1. ASSUME NEW Z \in SUBSET Ids, Goes(r) \subseteq Z, Closed(Z, S \cup {o})
        PROVE  C \subseteq Z
    <3>1. k.id \in Z
      BY <1>2, <2>1
    <3>2. OnDelete[f] # "CASCADE" => C = {}
      BY DEF Deleted
    <3> HIDE DEF C
    <3>3. ASSUME NEW b \in C PROVE b \in Z
      <4>1. OnDelete[f] = "CASCADE" /\ HasRow(o, b, <<f, k.id>>) /\ b \in Ids
        BY <1>3, <3>2
      <4>2. QED
        BY <2>1, <3>1, <4>1 DEF Closed
    <3>4. QED
      BY <3>3
  <2> HIDE DEF C
  <2>2. QED
    BY <1>1, <1>5, <2>1, MoreJustified DEF Kin
<1>8. ASSUME q.informed, NEW y \in Goes(q), NEW g \in Fields, Asks(q, S \cup {o}, y, g)
      PROVE  Pending(Frames(q), q.id, y, g) \/ Handled(q, S \cup {o}, y, g)
  <2>1. r.informed /\ q.id = r.id
    BY <1>8 DEF Kin
  <2>2. CASE y = k.id /\ g = f
    <3>1. ASSUME NEW b \in Ids, \A x \in S \cup {o} : HasRow(x, b, <<f, k.id>>)
          PROVE  Effected(q, f, k.id, b)
      <4>1. b \in R \cup k.given \cup {k.id}
        BY <1>3, <2>1, <3>1
      <4>2. CASE b \in k.given \cup {k.id}
        BY <1>2, <1>5, <4>2 DEF Effected
      <4>3. CASE b \in R
        <5>1. OnDelete[f] \in {"RESTRICT", "CASCADE", "SET_NULL"} /\ OnDelete[f] # "RESTRICT"
          BY <4>3, ReferenceAssumption
        <5>2. CASE OnDelete[f] = "CASCADE"
          BY <1>5, <4>3, <5>2 DEF Deleted, Effected
        <5>3. CASE OnDelete[f] = "SET_NULL"
          BY <1>5, <4>3, <5>3 DEF Effected
        <5>4. QED
          BY <5>1, <5>2, <5>3
      <4>4. QED
        BY <4>1, <4>2, <4>3
    <3>2. QED
      BY <2>2, <3>1 DEF Handled
  <2>3. CASE ~(y = k.id /\ g = f) /\ y \in Goes(r)
    <3>1. Asks(r, S, y, g)
      BY <1>8, MoreSeen DEF Asks, Kin
    <3>2. Pending(Frames(r), r.id, y, g) \/ Handled(r, S, y, g)
      BY <1>1, <2>1, <2>3, <3>1 DEF Complete
    <3>3. CASE Handled(r, S, y, g)
      <4>1. \A b : Effected(r, g, y, b) => Effected(q, g, y, b)
        BY <1>5 DEF Effected
      <4>2. Handled(q, S, y, g)
        BY <3>3, <4>1 DEF Handled
      <4>3. QED
        BY <4>2, MoreSeen
    <3>4. CASE Pending(Frames(r), r.id, y, g)
      <4>1. PICK x \in Frames(r) : (x.id = y /\ g \in x.defs) \/ (y # r.id /\ y \in x.queue)
        BY <3>4 DEF Pending
      <4>2. CASE x # k
        BY <2>1, <4>1, <4>2 DEF Pending
      <4>3. CASE x = k
        <5>1. w.id = y /\ g \in w.defs
          BY <1>4, <2>3, <4>1, <4>3
        <5>2. QED
          BY <5>1 DEF Pending, w
      <4>4. QED
        BY <4>2, <4>3
    <3>5. QED
      BY <3>2, <3>3, <3>4
  <2>4. CASE y \notin Goes(r)
    <3>1. y \in C /\ y # q.id
      BY <1>5, <1>8, <2>1, <2>4 DEF Goes
    <3>2. y \in w.queue
      BY <1>4, <3>1
    <3>3. QED
      BY <3>1, <3>2 DEF Pending, w
  <2>5. QED
    BY <2>2, <2>3, <2>4
<1>9. QED
  BY <1>6, <1>7, <1>8 DEF SearchOK, Complete, Kin

(* (A call goes on to an artifact of its queue: one that is gone needs no  *)
(* search.)                                                                *)
Recursing(r, q, S, o, k, b, w, v) ==
    /\ SearchOK(r, S) /\ Kin(q, r)
    /\ q.todo = r.todo /\ q.effects = r.effects /\ r.kind = "delete"
    /\ k \in Frames(r) /\ b \in k.queue
    /\ w = [k EXCEPT !.queue = @ \ {b}] /\ w \in Frames(q)
    /\ v = Call(b, ReadStoredArtifact(o, b).type, k.scheduled)
    /\ (Live(o, b) => v \in Frames(q))
    /\ Frames(r) \ {k} \subseteq Frames(q) /\ Frames(q) \subseteq Frames(r) \cup {w, v}

LEMMA SearchRecurses ==
    ASSUME NEW r, NEW q, NEW S, NEW o, NEW k, NEW b, NEW w, NEW v,
           Recursing(r, q, S, o, k, b, w, v)
    PROVE  SearchOK(q, S \cup {o})
<1> USE DEF Recursing
<1>1. /\ \A x \in Frames(r) : FrameOK(Goes(r), x)
      /\ r.informed => Complete(r, Frames(r), S)
      /\ Justified(r, S)
  BY DEF SearchOK
<1>2. /\ k \in CallRecords /\ k.queue \subseteq Goes(r) /\ k.scheduled \subseteq Goes(r)
      /\ b \in Ids /\ k.scheduled \in SUBSET Ids
  BY <1>1 DEF FrameOK, CallRecords
<1>3. /\ w \in CallRecords /\ w.id = k.id /\ w.defs = k.defs /\ w.queue = k.queue \ {b}
      /\ w.given = k.given /\ w.scheduled = k.scheduled /\ w.found = k.found
  BY <1>2 DEF CallRecords
<1>4. /\ v \in CallRecords /\ v.id = b /\ v.queue = {} /\ v.found = {}
      /\ v.given = k.scheduled /\ v.scheduled = k.scheduled
      /\ v.defs = {f \in Fields : To[f] = ReadStoredArtifact(o, b).type}
  BY <1>2, CallShape
<1>5. Goes(q) = Goes(r) /\ q.id = r.id /\ q.informed = r.informed /\ q.kind = "delete"
  BY DEF Goes, Kin
<1>6. \A x \in Frames(q) : FrameOK(Goes(q), x)
  <2>1. FrameOK(Goes(r), w)
    BY <1>1, <1>3 DEF FrameOK
  <2>2. FrameOK(Goes(r), v)
    BY <1>2, <1>4 DEF FrameOK
  <2>3. QED
    BY <1>1, <1>5, <2>1, <2>2
<1>7. Justified(q, S \cup {o})
  <2>1. \A Z \in SUBSET Ids : Goes(r) \subseteq Z /\ Closed(Z, S \cup {o}) => {} \subseteq Z
    OBVIOUS
  <2>2. QED
    BY <1>1, <1>5, <2>1, MoreJustified
<1>8. ASSUME q.informed, NEW y \in Goes(q), NEW g \in Fields, Asks(q, S \cup {o}, y, g)
      PROVE  Pending(Frames(q), q.id, y, g) \/ Handled(q, S \cup {o}, y, g)
  <2>1. Asks(r, S, y, g)
    BY <1>8, MoreSeen DEF Asks, Kin
  <2>2. Pending(Frames(r), r.id, y, g) \/ Handled(r, S, y, g)
    BY <1>1, <1>5, <1>8, <2>1 DEF Complete
  <2>3. CASE Handled(r, S, y, g)
    <3>1. Handled(q, S, y, g)
      BY <2>3, <1>5 DEF Handled, Effected
    <3>2. QED
      BY <3>1, MoreSeen
  <2>4. CASE Pending(Frames(r), r.id, y, g)
    <3>1. PICK x \in Frames(r) : (x.id = y /\ g \in x.defs) \/ (y # r.id /\ y \in x.queue)
      BY <2>4 DEF Pending
    <3>2. CASE x # k
      BY <1>5, <3>1, <3>2 DEF Pending
    <3>3. CASE x = k /\ ((k.id = y /\ g \in k.defs) \/ (y # r.id /\ y \in k.queue \ {b}))
      BY <1>3, <1>5, <3>3 DEF Pending
    <3>4. CASE y # r.id /\ y = b
      <4>1. Live(o, b) /\ ReadStoredArtifact(o, b).type = To[g]
        BY <1>5, <1>8, <3>4 DEF Asks
      <4>2. v.id = y /\ g \in v.defs /\ v \in Frames(q)
        BY <1>4, <3>4, <4>1
      <4>3. QED
        BY <4>2 DEF Pending
    <3>5. QED
      BY <3>1, <3>2, <3>3, <3>4
  <2>5. QED
    BY <2>2, <2>3, <2>4
<1>9. QED
  BY <1>5, <1>6, <1>7, <1>8 DEF SearchOK, Complete

(* (A call that returns has nothing left to look at.)                      *)
LEMMA SearchReturns ==
    ASSUME NEW r, NEW q, NEW S, SearchOK(r, S), Kin(q, r),
           q.todo = r.todo, q.effects = r.effects, r.kind = "delete",
           NEW k, k \in Frames(r), k.queue = {}, k.defs = {},
           \/ Frames(r) = {k} /\ Frames(q) = {}
           \/ \E w \in Frames(r) :
                /\ Frames(r) \ {k, w} \subseteq Frames(q)
                /\ Returned(w, k.found) \in Frames(q)
                /\ Frames(q) \subseteq Frames(r) \cup {Returned(w, k.found)}
    PROVE  SearchOK(q, S)
<1>1. /\ \A x \in Frames(r) : FrameOK(Goes(r), x)
      /\ r.informed => Complete(r, Frames(r), S)
      /\ Justified(r, S)
  BY DEF SearchOK
<1>2. Goes(q) = Goes(r) /\ q.id = r.id /\ q.informed = r.informed /\ q.kind = "delete"
  BY DEF Goes, Kin
<1>3. Justified(q, S)
  BY <1>1, <1>2 DEF Justified
<1>4. \A y, f : /\ Asks(q, S, y, f) <=> Asks(r, S, y, f)
                /\ Handled(q, S, y, f) <=> Handled(r, S, y, f)
  BY <1>2 DEF Asks, Handled, Kin, Effected
<1>5. /\ \A x \in Frames(q) : FrameOK(Goes(q), x)
      /\ \A y, f : Pending(Frames(r), r.id, y, f) => Pending(Frames(q), q.id, y, f)
  <2>1. CASE Frames(r) = {k} /\ Frames(q) = {}
    <3>1. \A y, f : ~Pending(Frames(r), r.id, y, f)
      BY <2>1 DEF Pending
    <3>2. QED
      BY <2>1, <3>1
  <2>2. ASSUME NEW w \in Frames(r), Frames(r) \ {k, w} \subseteq Frames(q),
               Returned(w, k.found) \in Frames(q),
               Frames(q) \subseteq Frames(r) \cup {Returned(w, k.found)}
        PROVE  /\ \A x \in Frames(q) : FrameOK(Goes(q), x)
               /\ \A y, f : Pending(Frames(r), r.id, y, f) => Pending(Frames(q), q.id, y, f)
    <3> DEFINE v == Returned(w, k.found)
    <3>1. w \in CallRecords /\ k.found \in SUBSET Ids /\ k.found \subseteq Goes(r) /\ FrameOK(Goes(r), w)
      BY <1>1, <2>2 DEF FrameOK, CallRecords
    <3>2. /\ v \in CallRecords /\ v.id = w.id /\ v.defs = w.defs /\ v.queue = w.queue
          /\ v.given = w.given /\ v.scheduled = w.scheduled \cup k.found
          /\ v.found = w.found \cup k.found
      BY <3>1, CallShapes
    <3> HIDE DEF v
    <3>3. FrameOK(Goes(r), v)
      BY <3>1, <3>2 DEF FrameOK
    <3>4. \A x \in Frames(q) : FrameOK(Goes(q), x)
      BY <1>1, <1>2, <2>2, <3>3 DEF v
    <3>5. ASSUME NEW y, NEW f, Pending(Frames(r), r.id, y, f)
          PROVE  Pending(Frames(q), q.id, y, f)
      <4>1. PICK x \in Frames(r) : (x.id = y /\ f \in x.defs) \/ (y # r.id /\ y \in x.queue)
        BY <3>5 DEF Pending
      <4>2. x # k
        BY <4>1
      <4>3. CASE x = w
        <5>1. (v.id = y /\ f \in v.defs) \/ (y # q.id /\ y \in v.queue)
          BY <1>2, <3>2, <4>1, <4>3
        <5>2. v \in Frames(q)
          BY <2>2 DEF v
        <5>3. QED
          BY <5>1, <5>2 DEF Pending
      <4>4. CASE x # w
        BY <1>2, <2>2, <4>1, <4>2, <4>4 DEF Pending
      <4>5. QED
        BY <4>3, <4>4
    <3>6. QED
      BY <3>4, <3>5
  <2>3. QED
    BY <2>1, <2>2
<1>6. q.informed => Complete(q, Frames(q), S)
  BY <1>1, <1>2, <1>4, <1>5 DEF Complete
<1>7. QED
  BY <1>2, <1>3, <1>5, <1>6 DEF SearchOK

(* (Who has read nothing but R has found what there is in it.)             *)
LEMMA SearchEnds ==
    ASSUME NEW q, NEW R, CheckedAt(q, R), SearchOK(q, {R}), Passed(q)
    PROVE  Fresh(q, R)
<1>1. q.todo = {} /\ q.stack = <<>>
  BY DEF Passed
<1>2. CASE q.kind # "delete"
  <2>1. Validated(q, {R})
    BY <1>2 DEF SearchOK
  <2>2. Valid(References(q.artifact), R)
    BY <1>1, <2>1 DEF Validated, Valid
  <2>3. QED
    BY <1>2, <2>2 DEF Fresh
<1>3. CASE q.kind = "delete"
  <2>1. ASSUME q.informed, NEW y \in Goes(q), NEW f \in Fields, NEW b \in Ids,
               y = q.id \/ Live(R, y), ReadStoredArtifact(R, y).type = To[f],
               HasRow(R, b, <<f, y>>)
        PROVE  Effected(q, f, y, b)
    <3>1. Complete(q, Frames(q), {R})
      BY <1>3, <2>1 DEF SearchOK
    <3>2. Asks(q, {R}, y, f)
      BY <1>3, <2>1 DEF Asks, CheckedAt
    <3>3. Frames(q) = {}
      BY <1>1 DEF Frames, Members
    <3>4. Handled(q, {R}, y, f)
      BY <2>1, <3>1, <3>2, <3>3 DEF Complete, Pending
    <3>5. QED
      BY <2>1, <3>4 DEF Handled
  <2>2. QED
    BY <1>3, <2>1 DEF Fresh
<1>4. QED
  BY <1>2, <1>3

-----------------------------------------------------------------------------
(* The states.  CheckOps and MergeOps are the records of clients at work   *)
(* (op).                                                                   *)

CheckOps ==
    [pc : {"check"}, kind : Kinds, id : Ids, artifact : StoredArtifacts,
     effects : AllEffects, todo : SUBSET (Fields \X Ids), stack : Seq(CallRecords),
     read : Nat, seen : SUBSET Nat, informed : BOOLEAN]

MergeOps ==
    [pc : {"merge"}, fork : Nat, attempts : Nat, resolved : SUBSET IndexPaths,
     kind : Kinds, id : Ids, artifact : StoredArtifacts,
     effects : AllEffects, read : Nat, informed : BOOLEAN]

TypeOK ==
    /\ op \in [Clients -> {Idle} \cup CheckOps \cup MergeOps]
    /\ known \in [Instances -> SUBSET Fields]
    /\ used \in SUBSET Ids /\ stale \in SUBSET Ids
    /\ loose \in SUBSET Ids /\ emptied \in SUBSET Ids
    /\ outdated \in SUBSET IndexPaths /\ misbased \in BOOLEAN

MainObjects(r) == AtCommit(r, r.head[Main])

(* What a request that is being checked has read: the objects of the       *)
(* commits the branch had at each of its reads.                            *)
Seen(r, q) == {AtCommit(r, h) : h \in q.seen}

SeenOK(r, q) ==
    /\ q.seen \subseteq CommitIds(r) /\ q.read \in q.seen
    /\ \A h \in q.seen : q.read <= h /\ h <= r.head[Main]

(* A request was checked against commits that are there, and its branch    *)
(* shows the artifacts it was staged with.  When it is merged into the     *)
(* commit of its first read, what it has found still holds.                *)
ReadOK(r, q) ==
    /\ q.read \in CommitIds(r) /\ q.read <= r.head[Main]
    /\ CheckedAt(q, AtCommit(r, q.read))
    /\ q.pc = "check" => SeenOK(r, q) /\ SearchOK(q, Seen(r, q))
    /\ q.pc = "merge" /\ q.read = r.head[Main] => Fresh(q, AtCommit(r, q.read))

BranchOK(r, c, q) ==
    /\ r.head[c] \in CommitIds(r) /\ q.fork \in CommitIds(r)
    /\ q.read <= q.fork /\ q.fork <= r.head[Main]
    /\ SameArtifacts(AtCommit(r, r.head[c]), Staged(AtCommit(r, q.fork), q))

RequestsOK ==
    \A c \in Clients :
        /\ op[c].pc # "idle" => ReadOK(repo, op[c])
        /\ op[c].pc = "merge" => BranchOK(repo, c, op[c])

(* A search that was informed when it started still is.                    *)
KnownOK(c) == op[c].pc = "check" /\ op[c].informed => known[Home[c]] = Fields

GraphInv ==
    /\ TypeOK /\ StoreOK(repo) /\ Clean(repo) /\ RequestsOK
    /\ \A c \in Clients : KnownOK(c)

LEMMA OpShape ==
    ASSUME TypeOK, NEW c \in Clients
    PROVE  /\ op[c].pc = "idle" => op[c] = Idle
           /\ op[c].pc = "check" => op[c] \in CheckOps
           /\ op[c].pc = "merge" => op[c] \in MergeOps
           /\ op[c].pc \in {"idle", "check", "merge"}
<1>1. op[c] \in {Idle} \cup CheckOps \cup MergeOps
  BY DEF TypeOK
<1>2. Idle.pc = "idle"
  BY DEF Idle
<1>3. (\A q \in CheckOps : q.pc = "check") /\ (\A q \in MergeOps : q.pc = "merge")
  BY DEF CheckOps, MergeOps
<1>4. QED
  BY <1>1, <1>2, <1>3

SameRequest(q, r) ==
    /\ q.kind = r.kind /\ q.id = r.id /\ q.artifact = r.artifact
    /\ q.effects = r.effects /\ q.read = r.read /\ q.informed = r.informed

LEMMA SameRequestStaged ==
    ASSUME NEW q, NEW r, SameRequest(q, r)
    PROVE  /\ \A o : Staged(o, q) = Staged(o, r)
           /\ \A o : CheckedAt(q, o) <=> CheckedAt(r, o)
           /\ \A o : Fresh(q, o) <=> Fresh(r, o)
<1>1. \A o : Staged(o, q) = Staged(o, r)
  BY DEF SameRequest, Staged
<1>2. \A o : CheckedAt(q, o) <=> CheckedAt(r, o)
  BY DEF SameRequest, CheckedAt, RequestOK
<1>3. \A o : Fresh(q, o) <=> Fresh(r, o)
  BY DEF SameRequest, Fresh, Goes, Effected
<1>4. QED
  BY <1>1, <1>2, <1>3

(* What the actions do, in these terms.                                    *)
CheckStep(c, q) ==
    /\ op[c] = Idle /\ op' = [op EXCEPT ![c] = q]
    /\ UNCHANGED <<repo, known, history>>
    /\ q.read = MainHead /\ CheckedAt(q, Now)
    /\ q.seen = {MainHead} /\ SearchOK(q, {Now})
    /\ q.informed = (known[Home[c]] = Fields)
    /\ \/ q.kind = "create" /\ q.id \notin used /\ used' = used \cup {q.id}
       \/ q.kind # "create" /\ used' = used

ProceedStep(c, q) ==
    /\ op[c].pc = "check" /\ op' = [op EXCEPT ![c] = q]
    /\ UNCHANGED <<repo, known, used, history>>
    /\ Kin(q, op[c]) /\ q.seen \in {op[c].seen, op[c].seen \cup {MainHead}}
    /\ SearchOK(q, Seen(repo, q))

StageStep(c, q) ==
    /\ Passed(op[c]) /\ UNCHANGED <<known, used, history>>
    /\ Grown(repo, repo', c, Staged(Now, op[c]))
    /\ op' = [op EXCEPT ![c] = q]
    /\ SameRequest(q, op[c]) /\ q.fork = MainHead /\ q.resolved = {}

GiveUpStep(c) ==
    /\ UNCHANGED <<known, used, history>> /\ op' = [op EXCEPT ![c] = Idle]
    /\ Moved(repo, repo', c)

ResolveStep(c, q, conflicts, x) ==
    /\ op[c].pc = "merge" /\ UNCHANGED <<known, used, stale, loose, emptied, outdated>>
    /\ misbased' = (misbased \/ TakesOtherBase(c))
    /\ op' = [op EXCEPT ![c] = q]
    /\ SameRequest(q, op[c]) /\ q.fork = op[c].fork
    /\ q.resolved = op[c].resolved \cup conflicts /\ conflicts \in SUBSET IndexPaths
    /\ Grown(repo, repo', c, x) /\ ObjectsOK(x)
    /\ \A p \in ObjectPaths \ conflicts : x[p] = AtCommit(repo, repo.head[c])[p]
    /\ \A p \in conflicts :
        ResolvedRow(AtCommit(repo, MergeBase(repo, c, Main)), AtCommit(repo, repo.head[c]), p, x[p])

MergedStep(c, m) ==
    /\ op[c].pc = "merge" /\ UNCHANGED <<known, used>>
    /\ op' = [op EXCEPT ![c] = Idle]
    /\ StoreOK(repo') /\ Clean(repo') /\ KeepsCommits(repo, repo')
    /\ \A x \in StoreBranches \ {c, Main} : repo'.head[x] = repo.head[x]
    /\ repo'.head[Main] \in CommitIds(repo')
    /\ \A x \in CommitIds(repo) : x < repo'.head[Main]
    /\ AtCommit(repo', repo'.head[Main]) = m /\ ObjectsOK(m)
    /\ Merges(AtCommit(repo, MergeBase(repo, c, Main)), AtCommit(repo, repo.head[c]), Now, m)
    /\ stale' = IF op[c].kind = "delete" /\ op[c].read # op[c].fork
                THEN stale \cup {op[c].id} ELSE stale
    /\ loose' = IF op[c].read # MainHead \/ (op[c].kind = "delete" /\ ~op[c].informed)
                THEN loose \cup Concerned(op[c]) ELSE loose
    /\ emptied' = emptied \cup {b \in {z[1] : z \in op[c].effects.nulls} : Tombstoned(m, b)}
    /\ outdated' = outdated \cup {p \in op[c].resolved : m[p] # Now[p]}
    /\ misbased' = (misbased \/ TakesOtherBase(c))

RestartStep(its) ==
    /\ op' = [c \in Clients |-> IF c \in its THEN Idle ELSE op[c]]
    /\ its \in SUBSET Clients /\ known' \in [Instances -> SUBSET Fields]
    /\ \A c \in Clients \ its : known'[Home[c]] = known[Home[c]]
    /\ UNCHANGED <<used, history>>
    /\ StoreOK(repo') /\ Clean(repo') /\ repo'.commits = repo.commits
    /\ \A b \in StoreBranches \ its : repo'.head[b] = repo.head[b]

Checks(c, q, kind, a, s, todo, stack) ==
    /\ q \in CheckOps /\ q.read = MainHead /\ q.kind = kind /\ q.id = a
    /\ q.artifact = s /\ q.effects = NoEffects /\ q.todo = todo /\ q.stack = stack
    /\ q.seen = {MainHead} /\ q.informed = (known[Home[c]] = Fields)
    /\ RequestOK(q)
    /\ op[c] = Idle /\ op' = [op EXCEPT ![c] = q]
    /\ UNCHANGED <<repo, known, history>>

LEMMA CheckShape ==
    ASSUME GraphInv, NEW c \in Clients, NEW kind \in Kinds, NEW a \in Ids,
           NEW s \in StoredArtifacts, NEW todo \in SUBSET (Fields \X Ids),
           NEW stack \in Seq(CallRecords), Check(c, kind, a, s, todo, stack),
           NEW q, q = [pc |-> "check", kind |-> kind, id |-> a, artifact |-> s,
                       effects |-> NoEffects, todo |-> todo, stack |-> stack,
                       read |-> MainHead, seen |-> {MainHead},
                       informed |-> known[Home[c]] = Fields]
    PROVE  Checks(c, q, kind, a, s, todo, stack)
<1>1. MainHead \in Nat
  BY StoreShape DEF GraphInv, StoreOK, MainHead, GetBranchHead
<1>2. op[c] = Idle /\ op' = [op EXCEPT ![c] = q] /\ UNCHANGED <<repo, known, history>>
  BY DEF Check
<1>3. NoEffects \in AllEffects
  BY DEF NoEffects, AllEffects
<1>4. q \in CheckOps
  BY <1>1, <1>3 DEF CheckOps
<1>5. RequestOK(q)
  BY <1>3 DEF RequestOK
<1>6. QED
  BY <1>2, <1>4, <1>5 DEF Checks

LEMMA CheckSteps ==
    ASSUME GraphInv, NEW c \in Clients, NEW a \in Ids,
           \/ CheckDelete(c, a)
           \/ \E s \in Inputs : CheckCreate(c, a, s) \/ CheckUpdate(c, a, s)
    PROVE  \E q \in CheckOps : CheckStep(c, q)
<1>1. ObjectsOK(Now) /\ Inputs \subseteq StoredArtifacts
  BY ArtifactStoreAssumption DEF GraphInv, StoreOK, Now, MainHead
<1>2. ASSUME NEW s \in Inputs, NEW kind \in Kinds, kind # "delete",
             CheckCreate(c, a, s) \/ CheckUpdate(c, a, s),
             Check(c, kind, a, s, References(s), <<>>), ~EmptyPayload(s),
             kind = "update" => Live(Now, a) /\ ReadStoredArtifact(Now, a).type = s.type,
             \/ kind = "create" /\ a \notin used /\ used' = used \cup {a}
             \/ kind # "create" /\ used' = used
      PROVE  \E q \in CheckOps : CheckStep(c, q)
  <2> DEFINE q == [pc |-> "check", kind |-> kind, id |-> a, artifact |-> s,
                   effects |-> NoEffects, todo |-> References(s), stack |-> <<>>,
                   read |-> MainHead, seen |-> {MainHead},
                   informed |-> known[Home[c]] = Fields]
  <2>1. References(s) \in SUBSET (Fields \X Ids) /\ <<>> \in Seq(CallRecords) /\ s \in StoredArtifacts
    BY <1>1 DEF References
  <2>b. q = [pc |-> "check", kind |-> kind, id |-> a, artifact |-> s,
             effects |-> NoEffects, todo |-> References(s), stack |-> <<>>,
             read |-> MainHead, seen |-> {MainHead},
             informed |-> known[Home[c]] = Fields]
    OBVIOUS
  <2> HIDE DEF q
  <2>2. /\ q \in CheckOps /\ q.read = MainHead /\ q.kind = kind /\ q.id = a
        /\ q.artifact = s /\ q.todo = References(s) /\ q.stack = <<>>
        /\ q.seen = {MainHead} /\ q.informed = (known[Home[c]] = Fields)
        /\ RequestOK(q)
        /\ op[c] = Idle /\ op' = [op EXCEPT ![c] = q]
        /\ UNCHANGED <<repo, known, history>>
    <3>1. Checks(c, q, kind, a, s, References(s), <<>>)
      BY <1>2, <2>1, <2>b, CheckShape
    <3>2. QED
      BY <3>1 DEF Checks
  <2>3. CheckedAt(q, Now)
    BY <1>2, <2>2 DEF CheckedAt
  <2>4. SearchOK(q, {Now})
    BY <1>2, <2>2 DEF SearchOK, Validated
  <2>5. QED
    BY <1>2, <2>2, <2>3, <2>4 DEF CheckStep
<1>3. ASSUME NEW s \in Inputs, CheckCreate(c, a, s)
      PROVE  \E q \in CheckOps : CheckStep(c, q)
  <2>1. /\ Check(c, "create", a, s, References(s), <<>>) /\ "create" \in Kinds
        /\ ~EmptyPayload(s) /\ a \notin used /\ used' = used \cup {a}
    BY <1>3 DEF CheckCreate, ValidateCreateOrUpdate, Kinds
  <2>2. QED
    BY <1>2, <1>3, <2>1
<1>4. ASSUME NEW s \in Inputs, CheckUpdate(c, a, s)
      PROVE  \E q \in CheckOps : CheckStep(c, q)
  <2>1. /\ Check(c, "update", a, s, References(s), <<>>) /\ "update" \in Kinds
        /\ ~EmptyPayload(s) /\ used' = used
        /\ Live(Now, a) /\ ReadStoredArtifact(Now, a).type = s.type
    BY <1>4 DEF CheckUpdate, ValidateCreateOrUpdate, Kinds, Now
  <2>2. QED
    BY <1>2, <1>4, <2>1
<1>5. ASSUME CheckDelete(c, a)
      PROVE  \E q \in CheckOps : CheckStep(c, q)
  <2> DEFINE s == ReadStoredArtifact(Now, a)
             k == Call(a, s.type, {a})
             q == [pc |-> "check", kind |-> "delete", id |-> a, artifact |-> s,
                   effects |-> NoEffects, todo |-> {}, stack |-> <<k>>,
                   read |-> MainHead, seen |-> {MainHead},
                   informed |-> known[Home[c]] = Fields]
  <2>1. /\ Check(c, "delete", a, s, {}, <<k>>) /\ used' = used /\ Live(Now, a)
    BY <1>5 DEF CheckDelete, Now
  <2>2. s \in StoredArtifacts /\ "delete" \in Kinds
    BY <1>1, <2>1, StoredNotAbsent DEF Live, Kinds
  <2>3. /\ k \in CallRecords /\ k.id = a /\ k.defs = {f \in Fields : To[f] = s.type}
        /\ k.queue = {} /\ k.found = {} /\ k.given = {a} /\ k.scheduled = {a}
    BY CallShape
  <2> HIDE DEF s, k
  <2>b. q = [pc |-> "check", kind |-> "delete", id |-> a, artifact |-> s,
             effects |-> NoEffects, todo |-> {}, stack |-> <<k>>,
             read |-> MainHead, seen |-> {MainHead},
             informed |-> known[Home[c]] = Fields]
    OBVIOUS
  <2> HIDE DEF q
  <2>4. /\ q \in CheckOps /\ q.read = MainHead /\ q.kind = "delete" /\ q.id = a
        /\ q.artifact = s /\ q.effects = NoEffects /\ q.stack = <<k>>
        /\ q.seen = {MainHead} /\ q.informed = (known[Home[c]] = Fields)
        /\ RequestOK(q)
        /\ op[c] = Idle /\ op' = [op EXCEPT ![c] = q]
        /\ UNCHANGED <<repo, known, history>>
    <3>1. <<k>> \in Seq(CallRecords) /\ {} \in SUBSET (Fields \X Ids)
      BY <2>3
    <3>2. Checks(c, q, "delete", a, s, {}, <<k>>)
      BY <2>1, <2>2, <2>b, <3>1, CheckShape
    <3>3. QED
      BY <3>2 DEF Checks
  <2>5. CheckedAt(q, Now)
    BY <2>1, <2>4 DEF CheckedAt, s
  <2>6. Frames(q) = {k} /\ Goes(q) = {a} /\ q.effects.cascades = {}
    BY <2>4 DEF Frames, Members, Goes, NoEffects
  <2>7. FrameOK(Goes(q), k)
    BY <2>3, <2>6 DEF FrameOK
  <2>8. Complete(q, Frames(q), {Now})
    BY <2>3, <2>4, <2>6 DEF Complete, Asks, Pending
  <2>9. SearchOK(q, {Now})
    BY <2>4, <2>6, <2>7, <2>8 DEF SearchOK, Justified
  <2>10. QED
    BY <2>1, <2>4, <2>5, <2>9 DEF CheckStep
<1>6. QED
  BY <1>3, <1>4, <1>5

(* What a request that is being checked is, before a step.                 *)
LEMMA Checking ==
    ASSUME GraphInv, NEW c \in Clients, op[c].pc = "check"
    PROVE  /\ op[c] \in CheckOps /\ SearchOK(op[c], Seen(repo, op[c]))
           /\ ObjectsOK(Now) /\ MainHead \in Nat
           /\ op[c].informed => known[Home[c]] = Fields
           /\ \A q : q.seen = op[c].seen \cup {MainHead} =>
                        Seen(repo, q) = Seen(repo, op[c]) \cup {Now}
           /\ \A q : q.seen = op[c].seen => Seen(repo, q) = Seen(repo, op[c])
           /\ Moved(repo, repo, c)
<1>1. op[c] \in CheckOps
  BY OpShape DEF GraphInv
<1>2. ReadOK(repo, op[c]) /\ KnownOK(c) /\ StoreOK(repo) /\ Clean(repo)
  BY DEF GraphInv, RequestsOK
<1>3. SearchOK(op[c], Seen(repo, op[c]))
  BY <1>2 DEF ReadOK
<1>4. ObjectsOK(Now) /\ MainHead \in Nat
  BY <1>2, StoreShape DEF StoreOK, Now, MainHead, GetBranchHead
<1>5. Moved(repo, repo, c)
  BY <1>2 DEF Moved, KeepsCommits
<1>6. ASSUME NEW q, q.seen = op[c].seen \cup {MainHead}
      PROVE  Seen(repo, q) = Seen(repo, op[c]) \cup {Now}
  BY <1>6 DEF Seen, Now
<1>7. QED
  BY <1>1, <1>2, <1>3, <1>4, <1>5, <1>6 DEF KnownOK, Seen

LEMMA ValidateSteps ==
    ASSUME GraphInv, NEW c \in Clients, NEW n \in Fields \X Ids, ValidateReference(c, n)
    PROVE  (\E q \in CheckOps : ProceedStep(c, q)) \/ GiveUpStep(c)
<1> DEFINE r == op[c]
           q1 == [r EXCEPT !.todo = @ \ {n}]
           q == [q1 EXCEPT !.seen = @ \cup {MainHead}]
<1>1. /\ r.pc = "check" /\ UNCHANGED <<repo, known, used, history>>
      /\ \/ ValidateSingleReference(Now, n[1], n[2]) /\ op' = [op EXCEPT ![c] = q]
         \/ op' = [op EXCEPT ![c] = Idle]
  <2>1. /\ r.pc = "check" /\ UNCHANGED <<repo, known, used, history>>
        /\ op' = [op EXCEPT ![c] = IF ValidateSingleReference(Now, n[1], n[2])
                                    THEN q ELSE Idle]
    BY DEF ValidateReference, Proceed, Answer, Now
  <2>2. CASE ValidateSingleReference(Now, n[1], n[2])
    BY <2>1, <2>2
  <2>3. CASE ~ValidateSingleReference(Now, n[1], n[2])
    BY <2>1, <2>3
  <2>4. QED
    BY <2>1, <2>2, <2>3
<1>2. /\ r \in CheckOps /\ SearchOK(r, Seen(repo, r)) /\ MainHead \in Nat
      /\ \A x : x.seen = r.seen \cup {MainHead} => Seen(repo, x) = Seen(repo, r) \cup {Now}
      /\ Moved(repo, repo, c)
  BY <1>1, Checking
<1>3. CASE ValidateSingleReference(Now, n[1], n[2]) /\ op' = [op EXCEPT ![c] = q]
  <2>1. /\ q1 \in CheckOps /\ q1.todo = r.todo \ {n} /\ q1.effects = r.effects
        /\ q1.stack = r.stack /\ Kin(q1, r) /\ q1.seen = r.seen
    BY <1>2 DEF CheckOps, Kin
  <2> HIDE DEF q1
  <2>2. /\ q \in CheckOps /\ q.todo = q1.todo /\ q.effects = q1.effects
        /\ q.stack = q1.stack /\ Kin(q, q1) /\ q.seen = q1.seen \cup {MainHead}
    BY <1>2, <2>1 DEF CheckOps, Kin
  <2> HIDE DEF q
  <2>3. Kin(q, r) /\ q.seen = r.seen \cup {MainHead}
    BY <2>1, <2>2 DEF Kin
  <2>4. Seen(repo, q) = Seen(repo, r) \cup {Now}
    BY <1>2, <2>3
  <2> HIDE DEF r
  <2>5. SearchOK(q, Seen(repo, q))
    <3>1. q.effects = r.effects /\ q.stack = r.stack /\ q.todo = r.todo \ {n}
      BY <2>1, <2>2
    <3>2. SearchOK(q, Seen(repo, r) \cup {Now})
      BY <1>2, <1>3, <2>3, <3>1, SearchValidates
    <3>3. QED
      BY <2>4, <3>2
  <2>6. ProceedStep(c, q)
    BY <1>1, <1>3, <2>3, <2>5 DEF ProceedStep, r
  <2>7. QED
    BY <2>2, <2>6
<1>4. CASE op' = [op EXCEPT ![c] = Idle]
  BY <1>1, <1>2, <1>4 DEF GiveUpStep
<1>5. QED
  BY <1>1, <1>3, <1>4

(* The calls on the stack when those of dropped are replaced by new ones.  *)
Swaps(s, t, dropped, new) ==
    /\ t \in Seq(CallRecords) /\ Members(s) \ dropped \subseteq Members(t)
    /\ new \subseteq Members(t) /\ Members(t) \subseteq Members(s) \cup new

LEMMA StackTop ==
    ASSUME NEW s \in Seq(CallRecords), s # <<>>, NEW n, n = Len(s)
    PROVE  /\ n \in Nat \ {0} /\ s[n] \in Members(s) /\ s[n] \in CallRecords
           /\ \A w \in CallRecords : Swaps(s, [s EXCEPT ![n] = w], {s[n]}, {w})
           /\ \A w, v \in CallRecords :
                Swaps(s, Append([s EXCEPT ![n] = w], v), {s[n]}, {w, v})
<1>1. n \in Nat \ {0} /\ \A j \in 1 .. n : s[j] \in CallRecords
  OBVIOUS
<1>2. ASSUME NEW w \in CallRecords
      PROVE  LET t == [s EXCEPT ![n] = w]
             IN  /\ t \in Seq(CallRecords) /\ Len(t) = n
                 /\ t[n] = w /\ \A j \in 1 .. n - 1 : t[j] = s[j]
  BY <1>1
<1>3. ASSUME NEW w \in CallRecords PROVE Swaps(s, [s EXCEPT ![n] = w], {s[n]}, {w})
  <2> DEFINE t == [s EXCEPT ![n] = w]
  <2>1. /\ t \in Seq(CallRecords) /\ Len(t) = n
        /\ t[n] = w /\ \A j \in 1 .. n - 1 : t[j] = s[j]
    BY <1>2
  <2> HIDE DEF t
  <2>2. \A j \in 1 .. n : j = n \/ j \in 1 .. n - 1
    BY <1>1
  <2>3. Swaps(s, t, {s[n]}, {w})
    BY <1>1, <2>1, <2>2 DEF Swaps, Members
  <2>4. QED
    BY <2>3 DEF t
<1>4. ASSUME NEW w \in CallRecords, NEW v \in CallRecords
      PROVE  Swaps(s, Append([s EXCEPT ![n] = w], v), {s[n]}, {w, v})
  <2> DEFINE t == [s EXCEPT ![n] = w]
             u == Append(t, v)
  <2>1. t \in Seq(CallRecords) /\ Len(t) = n /\ Swaps(s, t, {s[n]}, {w})
    BY <1>2, <1>3
  <2> HIDE DEF t
  <2>2. /\ u \in Seq(CallRecords) /\ Len(u) = n + 1
        /\ u[n + 1] = v /\ \A j \in 1 .. n : u[j] = t[j]
    BY <2>1
  <2> HIDE DEF u
  <2>3. Members(u) = Members(t) \cup {v}
    <3>1. \A j \in 1 .. n + 1 : j = n + 1 \/ j \in 1 .. n
      BY <1>1
    <3>2. n + 1 \in 1 .. n + 1 /\ \A j \in 1 .. n : j \in 1 .. n + 1
      BY <1>1
    <3>3. QED
      BY <2>1, <2>2, <3>1, <3>2 DEF Members
  <2>4. Swaps(s, u, {s[n]}, {w, v})
    BY <2>1, <2>2, <2>3 DEF Swaps
  <2>5. QED
    BY <2>4 DEF u, t
<1>5. QED
  <2>1. n \in 1 .. Len(s)
    BY <1>1
  <2>2. s[n] \in Members(s) /\ s[n] \in CallRecords
    BY <1>1, <2>1 DEF Members
  <2>3. QED
    BY <1>1, <1>3, <1>4, <2>2

LEMMA StackBelow ==
    ASSUME NEW s \in Seq(CallRecords), s # <<>>, NEW n, n = Len(s),
           NEW below, below = SubSeq(s, 1, n - 1)
    PROVE  /\ below = <<>> => Members(s) = {s[n]}
           /\ below # <<>> =>
                /\ s[n - 1] \in Members(s) /\ below[n - 1] = s[n - 1]
                /\ \A w \in CallRecords :
                    Swaps(s, [below EXCEPT ![n - 1] = w], {s[n], s[n - 1]}, {w})
<1>1. n \in Nat \ {0} /\ \A j \in 1 .. n : s[j] \in CallRecords
  OBVIOUS
<1>2. /\ below \in Seq(CallRecords) /\ Len(below) = n - 1
      /\ \A j \in 1 .. n - 1 : below[j] = s[j]
  BY <1>1
<1>3. ASSUME below = <<>> PROVE Members(s) = {s[n]}
  <2>1. n = 1
    <3>1. Len(<<>>) = 0
      OBVIOUS
    <3>2. n - 1 = 0
      BY <1>2, <1>3, <3>1
    <3>3. QED
      BY <1>1, <3>2
  <2>2. QED
    BY <2>1 DEF Members
<1>4. ASSUME below # <<>>
      PROVE  /\ s[n - 1] \in Members(s) /\ below[n - 1] = s[n - 1]
             /\ \A w \in CallRecords :
                    Swaps(s, [below EXCEPT ![n - 1] = w], {s[n], s[n - 1]}, {w})
  <2>1. n - 1 \in Nat \ {0}
    BY <1>1, <1>2, <1>4
  <2>2. n - 1 \in 1 .. n /\ n - 1 \in 1 .. n - 1
    BY <1>1, <2>1
  <2>3. s[n - 1] \in Members(s) /\ below[n - 1] = s[n - 1]
    BY <1>2, <2>2 DEF Members
  <2>4. /\ Members(s) = Members(below) \cup {s[n]}
        /\ \A w \in CallRecords :
            Swaps(below, [below EXCEPT ![n - 1] = w], {below[n - 1]}, {w})
    <3>1. \A j \in 1 .. n : j = n \/ j \in 1 .. n - 1
      BY <1>1
    <3>2. n \in 1 .. n /\ \A j \in 1 .. n - 1 : j \in 1 .. n
      BY <1>1
    <3>3. Members(s) = Members(below) \cup {s[n]}
      BY <1>2, <3>1, <3>2 DEF Members
    <3>4. QED
      BY <1>2, <1>4, <3>3, StackTop
  <2>5. \A w \in CallRecords : Swaps(s, [below EXCEPT ![n - 1] = w], {s[n], s[n - 1]}, {w})
    BY <2>3, <2>4 DEF Swaps
  <2>6. QED
    BY <2>3, <2>5
<1>5. QED
  BY <1>3, <1>4

(* (The innermost call of a delete.)                                       *)
LEMMA EnforcingShape ==
    ASSUME GraphInv, NEW c \in Clients, Enforcing(c)
    PROVE  /\ op[c].pc = "check" /\ op[c].kind = "delete" /\ op[c] \in CheckOps
           /\ op[c].stack \in Seq(CallRecords) /\ op[c].stack # <<>>
           /\ Top(c) \in Frames(op[c]) /\ Top(c) \in CallRecords
           /\ Top(c) = op[c].stack[Depth(c)] /\ Depth(c) = Len(op[c].stack)
<1>1. op[c].pc = "check" /\ op[c].stack # <<>>
  BY DEF Enforcing
<1>2. op[c] \in CheckOps /\ SearchOK(op[c], Seen(repo, op[c]))
  BY <1>1, Checking
<1>3. op[c].stack \in Seq(CallRecords)
  BY <1>2 DEF CheckOps
<1>4. op[c].kind = "delete"
  BY <1>1, <1>2 DEF SearchOK
<1>5. QED
  BY <1>1, <1>2, <1>3, <1>4, StackTop DEF Top, Depth, Frames

LEMMA FindSteps ==
    ASSUME GraphInv, NEW c \in Clients, NEW f \in Fields, FindReferrers(c, f)
    PROVE  (\E q \in CheckOps : ProceedStep(c, q)) \/ GiveUpStep(c)
<1> DEFINE r == op[c]
           k == Top(c)
           d == Depth(c)
           K == known[Home[c]]
           R == FindActiveReferencingArtifacts(Now, K, f, k.id, k.given)
           t == [r.stack EXCEPT ![d] = Found(k, f, R)]
           e == Entail(r.effects, f, k.id, R)
           q1 == [r EXCEPT !.stack = t]
           q2 == [q1 EXCEPT !.effects = e]
           q == [q2 EXCEPT !.seen = @ \cup {MainHead}]
<1>1. /\ Enforcing(c) /\ k.queue = {} /\ UNCHANGED <<repo, known, used, history>>
      /\ \/ ~(OnDelete[f] = "RESTRICT" /\ R # {}) /\ op' = [op EXCEPT ![c] = q]
         \/ op' = [op EXCEPT ![c] = Idle]
  <2>1. /\ Enforcing(c) /\ k.queue = {} /\ UNCHANGED <<repo, known, used, history>>
        /\ op' = [op EXCEPT ![c] = IF OnDelete[f] = "RESTRICT" /\ R # {} THEN Idle ELSE q]
    BY DEF FindReferrers, Proceed, Answer, Now
  <2>2. CASE OnDelete[f] = "RESTRICT" /\ R # {}
    BY <2>1, <2>2
  <2>3. CASE ~(OnDelete[f] = "RESTRICT" /\ R # {})
    BY <2>1, <2>3
  <2>4. QED
    BY <2>1, <2>2, <2>3
<1>2. /\ r.pc = "check" /\ r.kind = "delete" /\ r \in CheckOps
      /\ r.stack \in Seq(CallRecords) /\ r.stack # <<>>
      /\ k \in Frames(r) /\ k \in CallRecords /\ k = r.stack[d] /\ d = Len(r.stack)
  BY <1>1, EnforcingShape
<1>3. /\ SearchOK(r, Seen(repo, r)) /\ MainHead \in Nat /\ ObjectsOK(Now)
      /\ r.informed => K = Fields
      /\ \A x : x.seen = r.seen \cup {MainHead} => Seen(repo, x) = Seen(repo, r) \cup {Now}
      /\ Moved(repo, repo, c)
  BY <1>2, Checking
<1>4. CASE ~(OnDelete[f] = "RESTRICT" /\ R # {}) /\ op' = [op EXCEPT ![c] = q]
  <2>1. R \in SUBSET Ids
    <3>1. k.id \in Ids
      BY <1>2 DEF CallRecords
    <3> DEFINE p == <<f, k.id>>
    <3>2. Now[p] \in IndexObjects \cup {Absent}
      BY <1>3, <3>1 DEF ObjectsOK, IndexPaths
    <3>3. DOMAIN Rows(Now[p]) \subseteq Ids
      BY <3>2, RowsShape
    <3> HIDE DEF p
    <3>4. R = IF f \in K THEN DOMAIN Rows(Now[p]) \ (k.given \cup {k.id}) ELSE {}
      BY DEF FindActiveReferencingArtifacts, ReadIndexArtifactIds, p
    <3>5. QED
      BY <3>3, <3>4
  <2> HIDE DEF R, K
  <2>2. e \in AllEffects
    <3>1. Deleted(f, R) \in SUBSET Ids
      BY <2>1 DEF Deleted
    <3>2. k.id \in Ids /\ r.effects.cascades \in SUBSET Ids
          /\ r.effects.nulls \in SUBSET (Ids \X Fields \X Ids)
      BY <1>2 DEF CallRecords, CheckOps, AllEffects
    <3>3. {<<b, f, k.id>> : b \in IF OnDelete[f] = "SET_NULL" THEN R ELSE {}}
            \in SUBSET (Ids \X Fields \X Ids)
      BY <2>1, <3>2
    <3>4. QED
      BY <3>1, <3>2, <3>3 DEF Entail, AllEffects
  <2>3. Found(k, f, R) \in CallRecords
    BY <1>2, <2>1, CallShapes
  <2>4. Swaps(r.stack, t, {k}, {Found(k, f, R)})
    BY <1>2, <2>3, StackTop
  <2>5. t \in Seq(CallRecords)
    BY <2>4 DEF Swaps
  <2> HIDE DEF t, e, k, d
  <2>6. /\ q1 \in CheckOps /\ q1.todo = r.todo /\ q1.effects = r.effects
        /\ q1.stack = t /\ Kin(q1, r) /\ q1.seen = r.seen
    BY <1>2, <2>5 DEF CheckOps, Kin
  <2> HIDE DEF q1
  <2>7. /\ q2 \in CheckOps /\ q2.todo = q1.todo /\ q2.effects = e
        /\ q2.stack = q1.stack /\ Kin(q2, q1) /\ q2.seen = q1.seen
    BY <2>2, <2>6 DEF CheckOps, Kin
  <2> HIDE DEF q2
  <2>8. /\ q \in CheckOps /\ q.todo = q2.todo /\ q.effects = q2.effects
        /\ q.stack = q2.stack /\ Kin(q, q2) /\ q.seen = q2.seen \cup {MainHead}
    BY <1>3, <2>7 DEF CheckOps, Kin
  <2> HIDE DEF q
  <2>9. /\ Kin(q, r) /\ q.seen = r.seen \cup {MainHead} /\ q.todo = r.todo
        /\ q.effects = e /\ q.stack = t
    BY <2>6, <2>7, <2>8 DEF Kin
  <2>10. Seen(repo, q) = Seen(repo, r) \cup {Now}
    BY <1>3, <2>9
  <2>11. r.id \in Ids /\ r.effects \in AllEffects
    BY <1>2 DEF CheckOps
  <2> HIDE DEF r
  <2>12. /\ Frames(r) \ {k} \subseteq Frames(q) /\ Found(k, f, R) \in Frames(q)
         /\ Frames(q) \subseteq Frames(r) \cup {Found(k, f, R)}
    BY <2>4, <2>9 DEF Swaps, Frames
  <2>13. R = FindActiveReferencingArtifacts(Now, K, f, k.id, k.given)
    BY DEF R
  <2>14. q.effects = Entail(r.effects, f, k.id, R)
    BY <2>9 DEF e
  <2>15. SearchOK(q, Seen(repo, q))
    <3>1. k.queue = {} /\ ~(OnDelete[f] = "RESTRICT" /\ R # {})
      BY <1>1, <1>4
    <3>2. Finding(r, q, Seen(repo, r), Now, k, f, K, R)
      BY <1>2, <1>3, <2>9, <2>11, <2>12, <2>13, <2>14, <3>1 DEF Finding
    <3>3. SearchOK(q, Seen(repo, r) \cup {Now})
      BY <3>2, SearchFinds
    <3>4. QED
      BY <2>10, <3>3
  <2>16. ProceedStep(c, q)
    BY <1>1, <1>2, <1>4, <2>9, <2>15 DEF ProceedStep, r
  <2>17. QED
    BY <2>8, <2>16
<1>5. CASE op' = [op EXCEPT ![c] = Idle]
  BY <1>1, <1>3, <1>5 DEF GiveUpStep
<1>6. QED
  BY <1>1, <1>4, <1>5

LEMMA RecurseSteps ==
    ASSUME GraphInv, NEW c \in Clients, Recurse(c)
    PROVE  \E q \in CheckOps : ProceedStep(c, q)
<1> DEFINE r == op[c]
           k == Top(c)
           d == Depth(c)
           b == Min(k.queue)
           w == [k EXCEPT !.queue = @ \ {b}]
           v == Call(b, ReadStoredArtifact(Now, b).type, k.scheduled)
           rest == [r.stack EXCEPT ![d] = w]
           t == IF Live(Now, b) THEN Append(rest, v) ELSE rest
           q1 == [r EXCEPT !.stack = t]
           q == [q1 EXCEPT !.seen = @ \cup {MainHead}]
<1>1. /\ Enforcing(c) /\ k.queue # {} /\ UNCHANGED <<repo, known, used, history>>
      /\ op' = [op EXCEPT ![c] = q]
  BY DEF Recurse, Proceed, Now
<1>2. /\ r.pc = "check" /\ r.kind = "delete" /\ r \in CheckOps
      /\ r.stack \in Seq(CallRecords) /\ r.stack # <<>>
      /\ k \in Frames(r) /\ k \in CallRecords /\ k = r.stack[d] /\ d = Len(r.stack)
  BY <1>1, EnforcingShape
<1>3. /\ SearchOK(r, Seen(repo, r)) /\ MainHead \in Nat
      /\ \A x : x.seen = r.seen \cup {MainHead} => Seen(repo, x) = Seen(repo, r) \cup {Now}
  BY <1>2, Checking
<1>4. b \in k.queue /\ b \in Ids /\ k.scheduled \in SUBSET Ids
  <2>1. k.queue \in SUBSET Ids /\ k.scheduled \in SUBSET Ids /\ k.queue \in SUBSET Nat
    BY <1>2, ReferenceAssumption DEF CallRecords
  <2>2. \E x \in k.queue : \A y \in k.queue : x <= y
    BY <1>1, <2>1, StoreNames, G!LeastNumber
  <2> HIDE DEF k
  <2>3. b \in k.queue
    BY <2>2 DEF Min
  <2>4. QED
    BY <2>1, <2>3
<1> HIDE DEF b
<1>5. w \in CallRecords /\ v \in CallRecords
  <2>1. w \in CallRecords
    BY <1>2 DEF CallRecords
  <2>2. QED
    BY <1>4, <2>1, CallShape
<1>6. /\ Swaps(r.stack, rest, {k}, {w})
      /\ Swaps(r.stack, Append(rest, v), {k}, {w, v})
  <2> HIDE DEF w, v
  <2>1. QED
    BY <1>2, <1>5, StackTop
<1>7. /\ t \in Seq(CallRecords) /\ Members(r.stack) \ {k} \subseteq Members(t)
      /\ w \in Members(t) /\ (Live(Now, b) => v \in Members(t))
  BY <1>6 DEF Swaps
<1>8. Members(t) \subseteq Members(r.stack) \cup {w, v}
  BY <1>6 DEF Swaps
<1> HIDE DEF t, rest
<1>9. /\ q1 \in CheckOps /\ q1.todo = r.todo /\ q1.effects = r.effects
      /\ q1.stack = t /\ Kin(q1, r) /\ q1.seen = r.seen
  BY <1>2, <1>7 DEF CheckOps, Kin
<1> HIDE DEF q1
<1>10. /\ q \in CheckOps /\ q.todo = q1.todo /\ q.effects = q1.effects
       /\ q.stack = q1.stack /\ Kin(q, q1) /\ q.seen = q1.seen \cup {MainHead}
  BY <1>3, <1>9 DEF CheckOps, Kin
<1> HIDE DEF q
<1>11. /\ Kin(q, r) /\ q.seen = r.seen \cup {MainHead} /\ q.todo = r.todo
       /\ q.effects = r.effects /\ q.stack = t
  BY <1>9, <1>10 DEF Kin
<1>12. Seen(repo, q) = Seen(repo, r) \cup {Now}
  BY <1>3, <1>11
<1> HIDE DEF w, v
<1>13. /\ Frames(r) \ {k} \subseteq Frames(q) /\ w \in Frames(q)
       /\ (Live(Now, b) => v \in Frames(q))
       /\ Frames(q) \subseteq Frames(r) \cup {w, v}
  <2> HIDE DEF r, k
  <2>1. Frames(q) = Members(t) /\ Frames(r) = Members(r.stack)
    BY <1>11 DEF Frames
  <2>2. QED
    BY <1>7, <1>8, <2>1
<1> HIDE DEF r, k
<1>14. w = [k EXCEPT !.queue = @ \ {b}] /\ v = Call(b, ReadStoredArtifact(Now, b).type, k.scheduled)
  BY DEF w, v
<1> HIDE DEF d
<1>15. SearchOK(q, Seen(repo, q))
  <2>1. Recursing(r, q, Seen(repo, r), Now, k, b, w, v)
    BY <1>2, <1>3, <1>4, <1>11, <1>13, <1>14 DEF Recursing
  <2>2. SearchOK(q, Seen(repo, r) \cup {Now})
    BY <2>1, SearchRecurses
  <2>3. QED
    BY <1>12, <2>2
<1>16. ProceedStep(c, q)
  BY <1>1, <1>2, <1>11, <1>15 DEF ProceedStep, r
<1>17. QED
  BY <1>10, <1>16

LEMMA ReturnSteps ==
    ASSUME GraphInv, NEW c \in Clients, Return(c)
    PROVE  \E q \in CheckOps : ProceedStep(c, q)
<1> DEFINE r == op[c]
           k == Top(c)
           d == Depth(c)
           below == SubSeq(r.stack, 1, d - 1)
           w == Returned(below[d - 1], k.found)
           t == IF below = <<>> THEN <<>> ELSE [below EXCEPT ![d - 1] = w]
           q == [r EXCEPT !.stack = t]
<1>1. /\ Enforcing(c) /\ k.queue = {} /\ k.defs = {} /\ UNCHANGED <<repo, known, used, history>>
      /\ op' = [op EXCEPT ![c] = q]
  BY DEF Return
<1>2. /\ r.pc = "check" /\ r.kind = "delete" /\ r \in CheckOps
      /\ r.stack \in Seq(CallRecords) /\ r.stack # <<>>
      /\ k \in Frames(r) /\ k \in CallRecords /\ k = r.stack[d] /\ d = Len(r.stack)
  BY <1>1, EnforcingShape
<1>3. /\ SearchOK(r, Seen(repo, r))
      /\ \A x : x.seen = r.seen => Seen(repo, x) = Seen(repo, r)
  BY <1>2, Checking
<1>4. /\ below = <<>> => Members(r.stack) = {k}
      /\ below # <<>> =>
            /\ r.stack[d - 1] \in Members(r.stack) /\ below[d - 1] = r.stack[d - 1]
            /\ \A x \in CallRecords :
                Swaps(r.stack, [below EXCEPT ![d - 1] = x], {k, r.stack[d - 1]}, {x})
  BY <1>2, StackBelow
<1>5. ASSUME below # <<>>
      PROVE  /\ below[d - 1] \in Frames(r) /\ w \in CallRecords
             /\ Swaps(r.stack, t, {k, below[d - 1]}, {w})
  <2>1. below[d - 1] \in Frames(r) /\ below[d - 1] \in CallRecords /\ k.found \in SUBSET Ids
    <3>1. below[d - 1] \in Frames(r)
      BY <1>4, <1>5 DEF Frames
    <3>2. \A x \in Frames(r) : x \in CallRecords
      BY <1>2 DEF Frames, Members
    <3>3. QED
      BY <1>2, <3>1, <3>2 DEF CallRecords
  <2>2. w \in CallRecords
    BY <2>1, CallShapes
  <2>3. t = [below EXCEPT ![d - 1] = w]
    BY <1>5
  <2> HIDE DEF w, t, below
  <2>4. QED
    BY <1>4, <1>5, <2>1, <2>2, <2>3
<1>6. t \in Seq(CallRecords)
  <2>1. CASE below = <<>>
    BY <2>1
  <2>2. CASE below # <<>>
    <3> HIDE DEF t
    <3>1. QED
      BY <1>5, <2>2 DEF Swaps
  <2>3. QED
    BY <2>1, <2>2
<1>7. \/ Frames(r) = {k} /\ Members(t) = {}
      \/ \E x \in Frames(r) :
            /\ Frames(r) \ {k, x} \subseteq Members(t)
            /\ Returned(x, k.found) \in Members(t)
            /\ Members(t) \subseteq Frames(r) \cup {Returned(x, k.found)}
  <2>1. CASE below = <<>>
    BY <1>4, <2>1 DEF Frames, Members
  <2>2. CASE below # <<>>
    <3> DEFINE x == below[d - 1]
    <3>1. x \in Frames(r) /\ Swaps(r.stack, t, {k, x}, {Returned(x, k.found)})
      BY <1>5, <2>2
    <3> HIDE DEF x, t
    <3>2. QED
      BY <3>1 DEF Swaps, Frames
  <2>3. QED
    BY <2>1, <2>2
<1> HIDE DEF t
<1>8. /\ q \in CheckOps /\ q.todo = r.todo /\ q.effects = r.effects
      /\ q.stack = t /\ Kin(q, r) /\ q.seen = r.seen
  BY <1>2, <1>6 DEF CheckOps, Kin
<1> HIDE DEF q
<1>9. Seen(repo, q) = Seen(repo, r)
  BY <1>3, <1>8
<1> HIDE DEF r, k
<1>10. \/ Frames(r) = {k} /\ Frames(q) = {}
       \/ \E x \in Frames(r) :
            /\ Frames(r) \ {k, x} \subseteq Frames(q)
            /\ Returned(x, k.found) \in Frames(q)
            /\ Frames(q) \subseteq Frames(r) \cup {Returned(x, k.found)}
  BY <1>7, <1>8 DEF Frames
<1>11. SearchOK(q, Seen(repo, r))
  BY <1>1, <1>2, <1>3, <1>8, <1>10, SearchReturns
<1>12. ProceedStep(c, q)
  BY <1>1, <1>2, <1>8, <1>9, <1>11 DEF ProceedStep, r
<1>13. QED
  BY <1>8, <1>12

LEMMA StageSteps ==
    ASSUME GraphInv, NEW c \in Clients, Stage(c)
    PROVE  (\E q \in MergeOps : StageStep(c, q)) \/ GiveUpStep(c)
<1> DEFINE r1 == CreateBranch(repo, c, MainHead)
           begun == Commit(r1, c)
           o == Staged(Now, op[c])
           written == Advance(begun, c, {GetBranchHead(begun, c)}, o)
           s == Commit(written, c)
           q == [pc |-> "merge", fork |-> MainHead, attempts |-> 1, resolved |-> {},
                 kind |-> op[c].kind, id |-> op[c].id, artifact |-> op[c].artifact,
                 effects |-> op[c].effects, read |-> op[c].read,
                 informed |-> op[c].informed]
<1>1. /\ Passed(op[c]) /\ op[c].pc = "check" /\ UNCHANGED <<known, used, history>>
      /\ \/ CanStage(Now, op[c]) /\ repo' = s /\ op' = [op EXCEPT ![c] = q]
         \/ repo' = repo /\ op' = [op EXCEPT ![c] = Idle]
  BY DEF Stage, Passed, Now
<1>2. /\ StoreOK(repo) /\ Clean(repo) /\ MainHead \in CommitIds(repo) /\ ObjectsOK(Now)
      /\ op[c] \in CheckOps
  BY <1>1, OpShape DEF GraphInv, StoreOK, Now, MainHead
<1>3. Moved(repo, repo, c)
  BY <1>2 DEF Moved, KeepsCommits
<1>4. CASE repo' = s /\ op' = [op EXCEPT ![c] = q]
  <2>1. q \in MergeOps
    <3>1. MainHead \in Nat
      BY <1>2, StoreShape
    <3>2. QED
      BY <1>2, <3>1 DEF MergeOps, CheckOps
  <2>2. SameRequest(q, op[c]) /\ q.fork = MainHead /\ q.resolved = {}
    BY DEF SameRequest
  <2> HIDE DEF q
  <2>3. ObjectsOK(o)
    <3>1. RequestOK(op[c])
      BY <1>1 DEF GraphInv, RequestsOK, ReadOK, CheckedAt
    <3>2. QED
      BY <1>2, <3>1, StagedShape
  <2> HIDE DEF o
  <2>4. Moved(repo, r1, c) /\ r1.head[c] = MainHead /\ r1.commits = repo.commits
    <3> HIDE DEF r1
    <3>1. r1 = CreateBranch(repo, c, MainHead)
      BY DEF r1
    <3>2. QED
      BY <1>2, <3>1, PointStore
  <2>5. Grown(r1, begun, c, AtCommit(r1, r1.head[c]))
    <3> HIDE DEF r1
    <3>1. StoreOK(r1) /\ Clean(r1) /\ c \in StoreBranches
      BY <2>4 DEF Moved, StoreBranches
    <3>2. BranchExists(r1, c)
      BY <1>2, <2>4, StoreShape DEF BranchExists
    <3> HIDE DEF begun
    <3>3. begun = Commit(r1, c)
      BY DEF begun
    <3>4. QED
      BY <3>1, <3>2, <3>3, CommitStore
  <2> HIDE DEF r1, begun
  <2>6. Grown(begun, written, c, o)
    <3>1. StoreOK(begun) /\ Clean(begun) /\ c \in StoreBranches
      BY <2>5 DEF Grown, Moved, StoreBranches
    <3>2. {GetBranchHead(begun, c)} \in SUBSET CommitIds(begun)
      BY <2>5 DEF Grown, GetBranchHead
    <3> HIDE DEF written
    <3>3. written = Advance(begun, c, {GetBranchHead(begun, c)}, o)
      BY DEF written
    <3>4. QED
      BY <2>3, <3>1, <3>2, <3>3, AdvanceStore DEF Clean
  <2> HIDE DEF written
  <2>7. Grown(written, s, c, AtCommit(written, written.head[c]))
    <3>1. StoreOK(written) /\ Clean(written) /\ c \in StoreBranches
      BY <2>6 DEF Grown, Moved, StoreBranches
    <3>2. BranchExists(written, c)
      BY <2>6, <3>1, StoreShape DEF BranchExists, Grown
    <3> HIDE DEF s
    <3>3. s = Commit(written, c)
      BY DEF s
    <3>4. QED
      BY <3>1, <3>2, <3>3, CommitStore
  <2> HIDE DEF s
  <2>8. AtCommit(written, written.head[c]) = o
    BY <2>6 DEF Grown
  <2>9. Grown(written, s, c, o)
    BY <2>7, <2>8
  <2>10. Moved(begun, written, c) /\ Moved(r1, begun, c)
    BY <2>5, <2>6 DEF Grown
  <2>11. Grown(begun, s, c, o)
    BY <2>9, <2>10, GrownTwice
  <2>12. Grown(r1, s, c, o)
    BY <2>10, <2>11, GrownTwice
  <2>13. Grown(repo, s, c, o)
    BY <2>4, <2>12, GrownTwice
  <2>14. StageStep(c, q)
    BY <1>1, <1>4, <2>2, <2>13 DEF StageStep, o
  <2>15. QED
    BY <2>1, <2>14
<1>5. CASE repo' = repo /\ op' = [op EXCEPT ![c] = Idle]
  BY <1>1, <1>3, <1>5 DEF GiveUpStep
<1>6. QED
  BY <1>1, <1>4, <1>5

LEMMA MergeSteps ==
    ASSUME GraphInv, NEW c \in Clients, MergeWrite(c)
    PROVE  \/ \E m : MergedStep(c, m)
           \/ \E q \in MergeOps : \E conflicts, x : ResolveStep(c, q, conflicts, x)
           \/ GiveUpStep(c)
<1> DEFINE r == op[c]
           conflicts == MergeConflicts(repo, c, Main)
           merged == Merge(repo, c, Main)
           m == AtCommit(merged, GetBranchHead(merged, Main))
<1>1. /\ op[c].pc = "merge" /\ UNCHANGED <<known, used, left>>
  BY DEF MergeWrite
<1>2. /\ StoreOK(repo) /\ Clean(repo) /\ op[c] \in MergeOps /\ BranchExists(repo, c)
      /\ repo.head[c] \in CommitIds(repo)
  BY <1>1, OpShape, StoreShape
  DEF GraphInv, RequestsOK, BranchOK, BranchExists, StoreBranches
<1>3. CASE /\ conflicts = {}
           /\ repo' = DeleteBranch(merged, c)
           /\ op' = [op EXCEPT ![c] = Idle]
           /\ stale' = IF r.kind = "delete" /\ r.read # r.fork
                       THEN stale \cup {r.id} ELSE stale
           /\ loose' = IF r.read # MainHead \/ (r.kind = "delete" /\ ~r.informed)
                       THEN loose \cup Concerned(r) ELSE loose
           /\ emptied' = emptied \cup
                 {b \in {n[1] : n \in r.effects.nulls} : Tombstoned(m, b)}
           /\ outdated' = outdated \cup
                 {p \in r.resolved : m[p] # AtCommit(repo, MainHead)[p]}
           /\ misbased' = (misbased \/ TakesOtherBase(c))
  <2> DEFINE t == merged
             s == DeleteBranch(t, c)
  <2>1. /\ StoreOK(s) /\ Clean(s) /\ KeepsCommits(repo, s)
        /\ \A x \in StoreBranches \ {c, Main} : s.head[x] = repo.head[x]
        /\ s.head[Main] \in CommitIds(s) /\ \A x \in CommitIds(repo) : x < s.head[Main]
        /\ AtCommit(s, s.head[Main]) = m /\ ObjectsOK(m)
        /\ Merges(AtCommit(repo, MergeBase(repo, c, Main)), AtCommit(repo, repo.head[c]),
                  AtCommit(repo, repo.head[Main]), m)
    BY <1>2, <1>3, MergeStore
  <2>2. /\ repo' = s /\ op' = [op EXCEPT ![c] = Idle]
        /\ AtCommit(repo, repo.head[Main]) = Now /\ AtCommit(repo, MainHead) = Now
    BY <1>3 DEF Now, MainHead, GetBranchHead
  <2> HIDE DEF s, m
  <2>3. /\ StoreOK(repo') /\ Clean(repo') /\ KeepsCommits(repo, repo')
        /\ \A x \in StoreBranches \ {c, Main} : repo'.head[x] = repo.head[x]
        /\ repo'.head[Main] \in CommitIds(repo')
        /\ \A x \in CommitIds(repo) : x < repo'.head[Main]
        /\ AtCommit(repo', repo'.head[Main]) = m /\ ObjectsOK(m)
        /\ Merges(AtCommit(repo, MergeBase(repo, c, Main)), AtCommit(repo, repo.head[c]), Now, m)
    BY <2>1, <2>2
  <2>4. /\ stale' = IF op[c].kind = "delete" /\ op[c].read # op[c].fork
                    THEN stale \cup {op[c].id} ELSE stale
        /\ loose' = IF op[c].read # MainHead \/ (op[c].kind = "delete" /\ ~op[c].informed)
                    THEN loose \cup Concerned(op[c]) ELSE loose
        /\ misbased' = (misbased \/ TakesOtherBase(c))
    BY <1>3
  <2>5. /\ emptied' = emptied \cup {b \in {z[1] : z \in op[c].effects.nulls} : Tombstoned(m, b)}
        /\ outdated' = outdated \cup {p \in op[c].resolved : m[p] # Now[p]}
    BY <1>3, <2>2
  <2>6. MergedStep(c, m)
    BY <1>1, <2>2, <2>3, <2>4, <2>5 DEF MergedStep
  <2>7. QED
    BY <2>6
<1>4. CASE /\ conflicts # {} /\ Retryable(conflicts, r.attempts)
           /\ repo' = ResolveConflicts(repo, c, Main, conflicts)
           /\ op' = [op EXCEPT ![c].attempts = @ + 1, ![c].resolved = @ \cup conflicts]
           /\ misbased' = (misbased \/ TakesOtherBase(c))
           /\ UNCHANGED <<stale, loose, emptied, outdated>>
  <2>1. conflicts \in SUBSET IndexPaths
    BY <1>4, ArtifactStoreAssumption DEF Retryable, IndexPaths
  <2> DEFINE f == AtCommit(repo, MergeBase(repo, c, Main))
             o == AtCommit(repo, repo.head[c])
             q == [op[c] EXCEPT !.attempts = @ + 1]
             w == [q EXCEPT !.resolved = @ \cup conflicts]
  <2>2. \E x : /\ Grown(repo, repo', c, x) /\ ObjectsOK(x)
               /\ \A p \in ObjectPaths \ conflicts : x[p] = o[p]
               /\ \A p \in conflicts : ResolvedRow(f, o, p, x[p])
    <3> HIDE DEF conflicts
    <3>1. QED
      BY <1>2, <1>4, <2>1, ResolveStore
  <2>3. PICK x : /\ Grown(repo, repo', c, x) /\ ObjectsOK(x)
                 /\ \A p \in ObjectPaths \ conflicts : x[p] = o[p]
                 /\ \A p \in conflicts : ResolvedRow(f, o, p, x[p])
    BY <2>2
  <2> HIDE DEF conflicts
  <2>4. op' = [op EXCEPT ![c] = w]
    BY <1>4
  <2>5. q \in MergeOps /\ SameRequest(q, op[c]) /\ q.fork = op[c].fork /\ q.resolved = op[c].resolved
    BY <1>2 DEF MergeOps, SameRequest
  <2> HIDE DEF q
  <2>6. w \in MergeOps /\ SameRequest(w, q) /\ w.fork = q.fork /\ w.resolved = q.resolved \cup conflicts
    BY <2>1, <2>5 DEF MergeOps, SameRequest
  <2> HIDE DEF w
  <2>7. SameRequest(w, op[c]) /\ w.fork = op[c].fork
        /\ w.resolved = op[c].resolved \cup conflicts
    BY <2>5, <2>6 DEF SameRequest
  <2>8. ResolveStep(c, w, conflicts, x)
    BY <1>1, <1>4, <2>1, <2>3, <2>4, <2>7 DEF ResolveStep
  <2>9. QED
    BY <2>6, <2>8
<1>5. CASE /\ repo' = DeleteBranch(repo, c)
           /\ op' = [op EXCEPT ![c] = Idle]
           /\ UNCHANGED history
  <2>1. Moved(repo, repo', c)
    BY <1>2, <1>5, DeleteStore
  <2>2. QED
    BY <1>1, <1>5, <2>1 DEF GiveUpStep
<1>6. QED
  BY <1>3, <1>4, <1>5, Zenon DEF MergeWrite

LEMMA RestartSteps ==
    ASSUME GraphInv, NEW i \in Instances, Restart(i)
    PROVE  RestartStep({c \in Clients : Home[c] = i})
<1> DEFINE its == {c \in Clients : Home[c] = i}
           h == [b \in StoreBranches |-> IF b \in its THEN NoBranch ELSE repo.head[b]]
<1>1. /\ known' = [known EXCEPT ![i] = BuiltIn]
      /\ op' = [c \in Clients |-> IF c \in its THEN Idle ELSE op[c]]
      /\ UNCHANGED <<used, history>>
      /\ repo' = [repo EXCEPT !.head = h]
  BY DEF Restart
<1>2. /\ G!RepoOK(repo) /\ repo \in G!Repository /\ repo.head \in [StoreBranches -> Nat]
      /\ \A b \in StoreBranches : repo.head[b] \in CommitIds(repo) \cup {NoBranch}
  BY StoreShape DEF GraphInv, StoreOK, G!RepoOK
<1>3. h \in [StoreBranches -> Nat]
  BY <1>2 DEF NoBranch
<1>4. \A b \in StoreBranches : h[b] = IF b \in its THEN NoBranch ELSE repo.head[b]
  OBVIOUS
<1> HIDE DEF h
<1>5. /\ repo' \in G!Repository /\ repo'.commits = repo.commits
      /\ repo'.staging = repo.staging /\ repo'.head = h
  BY <1>1, <1>2, <1>3 DEF G!Repository
<1>6. Main \in StoreBranches \ its
  BY StoreNames, ArtifactStoreAssumption
<1>7. G!RepoOK(repo')
  BY <1>2, <1>4, <1>5 DEF G!RepoOK, G!CommitIds, G!NoBranch, CommitIds, NoBranch
<1>8. StoreOK(repo') /\ Clean(repo')
  BY <1>4, <1>5, <1>6, <1>7
  DEF GraphInv, StoreOK, Clean, G!GraphOK, G!CommitIds, G!Parents, CommitIds, AtCommit, GetBranchHead
<1>9. /\ known' \in [Instances -> SUBSET Fields]
      /\ \A c \in Clients \ its : known'[Home[c]] = known[Home[c]]
  BY <1>1, ArtifactStoreAssumption DEF GraphInv, TypeOK
<1> HIDE DEF its
<1>10. its \in SUBSET Clients
  BY DEF its
<1>11. RestartStep(its)
  BY <1>1, <1>4, <1>5, <1>8, <1>9, <1>10 DEF RestartStep
<1>12. QED
  BY <1>11 DEF its

(* Learning of an index leaves all but the map alone.                      *)
LearnStep ==
    /\ known' \in [Instances -> SUBSET Fields]
    /\ \A c \in Clients : known[Home[c]] \subseteq known'[Home[c]]
    /\ UNCHANGED <<repo, op, used, history>>

LEMMA NextSteps ==
    ASSUME GraphInv, [Next]_vars
    PROVE  \/ \E c \in Clients :
                \/ \E q \in CheckOps : CheckStep(c, q)
                \/ \E q \in CheckOps : ProceedStep(c, q)
                \/ \E q \in MergeOps : StageStep(c, q)
                \/ \E m : MergedStep(c, m)
                \/ \E q \in MergeOps : \E conflicts, x : ResolveStep(c, q, conflicts, x)
                \/ GiveUpStep(c)
           \/ \E its : RestartStep(its)
           \/ LearnStep
<1>1. ASSUME NEW i \in Instances, NEW f \in Fields, ResolveIndexDefId(i, f)
      PROVE  LearnStep
  <2>1. /\ known' = [known EXCEPT ![i] = @ \cup {f}]
        /\ UNCHANGED <<repo, op, used, history>>
    BY <1>1 DEF ResolveIndexDefId
  <2>2. /\ known' \in [Instances -> SUBSET Fields]
        /\ \A c \in Clients : known[Home[c]] \subseteq known'[Home[c]]
    BY <2>1, ArtifactStoreAssumption DEF GraphInv, TypeOK
  <2>3. QED
    BY <2>1, <2>2 DEF LearnStep
<1>2. CASE UNCHANGED vars
  BY <1>2 DEF vars, LearnStep, GraphInv, TypeOK
<1>3. QED
  BY <1>1, <1>2, CheckSteps, ValidateSteps, FindSteps, RecurseSteps, ReturnSteps, StageSteps,
     MergeSteps, RestartSteps DEF Next

(* From one store to the next: commits stay, and the canonical branch      *)
(* moves on, if at all (Quiet: it does not).                               *)
Later(r, s) ==
    /\ StoreOK(s) /\ Clean(s) /\ KeepsCommits(r, s)
    /\ r.head[Main] <= s.head[Main]

Quiet(r, s) == Later(r, s) /\ s.head[Main] = r.head[Main] /\ MainObjects(s) = MainObjects(r)

LEMMA HeadShape ==
    ASSUME NEW r, StoreOK(r)
    PROVE  /\ r.head[Main] \in CommitIds(r) /\ r.head[Main] \in Nat
           /\ CommitIds(r) \subseteq Nat /\ ObjectsOK(MainObjects(r))
<1>1. r.head[Main] \in CommitIds(r)
  BY DEF StoreOK, GetBranchHead
<1>2. CommitIds(r) \subseteq Nat
  BY StoreShape
<1>3. QED
  BY <1>1, <1>2 DEF StoreOK, MainObjects

LEMMA NowIs == Now = MainObjects(repo) /\ MainHead = repo.head[Main]
BY DEF Now, MainHead, MainObjects, GetBranchHead

LEMMA MovedQuiet ==
    ASSUME NEW r, StoreOK(r), NEW c \in Clients, NEW s, Moved(r, s, c)
    PROVE  Quiet(r, s) /\ \A d \in Clients \ {c} : s.head[d] = r.head[d]
<1>1. Main \in StoreBranches \ {c} /\ \A d \in Clients \ {c} : d \in StoreBranches \ {c}
  BY StoreNames, ArtifactStoreAssumption DEF StoreBranches
<1>2. s.head[Main] = r.head[Main] /\ \A d \in Clients \ {c} : s.head[d] = r.head[d]
  BY <1>1 DEF Moved
<1>3. r.head[Main] \in CommitIds(r) /\ r.head[Main] \in Nat
  BY HeadShape
<1>4. QED
  BY <1>2, <1>3 DEF Moved, Quiet, Later, MainObjects, KeepsCommits

LEMMA LaterRead ==
    ASSUME NEW r, StoreOK(r), NEW s, Later(r, s), NEW q, ReadOK(r, q)
    PROVE  ReadOK(s, q) /\ AtCommit(s, q.read) = AtCommit(r, q.read)
<1>1. /\ q.read \in CommitIds(s) /\ AtCommit(s, q.read) = AtCommit(r, q.read)
      /\ r.head[Main] \in Nat /\ s.head[Main] \in Nat /\ q.read \in Nat
  BY HeadShape DEF Later, KeepsCommits, ReadOK
<1>2. q.read <= s.head[Main] /\ (q.read = s.head[Main] => q.read = r.head[Main])
  BY <1>1 DEF Later, ReadOK
<1>3. q.pc = "check" => SeenOK(s, q) /\ Seen(s, q) = Seen(r, q)
  <2> HAVE q.pc = "check"
  <2>1. SeenOK(r, q) /\ CommitIds(r) \subseteq Nat
    BY HeadShape DEF ReadOK
  <2>2. Seen(s, q) = Seen(r, q)
    BY <2>1 DEF Seen, SeenOK, Later, KeepsCommits
  <2>3. \A h \in q.seen : h <= s.head[Main]
    BY <1>1, <2>1 DEF SeenOK, Later
  <2>4. QED
    BY <2>1, <2>2, <2>3 DEF SeenOK, Later, KeepsCommits
<1>4. QED
  BY <1>1, <1>2, <1>3 DEF ReadOK

LEMMA LaterBranch ==
    ASSUME NEW r, StoreOK(r), NEW s, Later(r, s), NEW q, NEW c,
           BranchOK(r, c, q), s.head[c] = r.head[c]
    PROVE  /\ BranchOK(s, c, q) /\ AtCommit(s, q.fork) = AtCommit(r, q.fork)
           /\ AtCommit(s, s.head[c]) = AtCommit(r, r.head[c])
<1>1. /\ q.fork \in CommitIds(s) /\ AtCommit(s, q.fork) = AtCommit(r, q.fork)
      /\ s.head[c] \in CommitIds(s) /\ AtCommit(s, s.head[c]) = AtCommit(r, r.head[c])
      /\ r.head[Main] \in Nat /\ s.head[Main] \in Nat /\ q.fork \in Nat
  BY HeadShape DEF Later, KeepsCommits, BranchOK
<1>2. q.fork <= s.head[Main]
  BY <1>1 DEF Later, BranchOK
<1>3. QED
  BY <1>1, <1>2 DEF BranchOK

(* A client that a step leaves alone, or that stops.                       *)
Keeps(d) == op'[d] = Idle \/ (op'[d] = op[d] /\ repo'.head[d] = repo.head[d])

RequestHolds(r, d, q) ==
    /\ q.pc # "idle" => ReadOK(r, q)
    /\ q.pc = "merge" => BranchOK(r, d, q)

LEMMA KeepsRequest ==
    ASSUME GraphInv, Later(repo, repo'), NEW d \in Clients, Keeps(d)
    PROVE  RequestHolds(repo', d, op'[d])
<1>1. CASE op'[d] = Idle
  BY <1>1 DEF Idle, RequestHolds
<1>2. CASE op'[d] = op[d] /\ repo'.head[d] = repo.head[d]
  BY <1>2, LaterRead, LaterBranch DEF RequestHolds, GraphInv, RequestsOK
<1>3. QED
  BY <1>1, <1>2 DEF Keeps

LEMMA GraphFrom ==
    ASSUME Later(repo, repo'), TypeOK', \A d \in Clients : RequestHolds(repo', d, op'[d]),
           \A d \in Clients : KnownOK(d)'
    PROVE  GraphInv'
BY DEF GraphInv, RequestsOK, RequestHolds, Later

(* What an instance knows, while it is up.                                 *)
LEMMA KnownKept ==
    ASSUME GraphInv, NEW d \in Clients,
           \/ op'[d].pc # "check"
           \/ /\ op[d].pc = "check" /\ op'[d].informed = op[d].informed
              /\ known[Home[d]] \subseteq known'[Home[d]]
              /\ known' \in [Instances -> SUBSET Fields]
    PROVE  KnownOK(d)'
<1>1. CASE op'[d].pc # "check"
  BY <1>1 DEF KnownOK
<1>2. CASE /\ op[d].pc = "check" /\ op'[d].informed = op[d].informed
           /\ known[Home[d]] \subseteq known'[Home[d]]
           /\ known' \in [Instances -> SUBSET Fields]
  <2>1. KnownOK(d) /\ Home[d] \in Instances
    BY ArtifactStoreAssumption DEF GraphInv
  <2>2. known'[Home[d]] \subseteq Fields
    BY <1>2, <2>1
  <2>3. QED
    BY <1>2, <2>1, <2>2 DEF KnownOK
<1>3. QED
  BY <1>1, <1>2

LEMMA KnownStays ==
    ASSUME GraphInv, known' = known,
           \A d \in Clients : op'[d].pc # "check" \/ op'[d] = op[d]
    PROVE  \A d \in Clients : KnownOK(d)'
BY DEF GraphInv, KnownOK

(* What the steps leave alone.                                             *)
LEMMA CheckFrame ==
    ASSUME GraphInv, NEW c \in Clients, NEW q \in CheckOps, CheckStep(c, q)
    PROVE  /\ repo' = repo /\ Quiet(repo, repo') /\ op'[c] = q
           /\ \A d \in Clients \ {c} : Keeps(d) /\ op'[d] = op[d]
           /\ GraphInv'
<1>1. /\ repo' = repo /\ op' = [op EXCEPT ![c] = q] /\ UNCHANGED <<known, history>>
      /\ q.read = MainHead /\ CheckedAt(q, Now)
      /\ q.seen = {MainHead} /\ SearchOK(q, {Now})
      /\ q.informed = (known[Home[c]] = Fields)
      /\ used' = used \/ used' = used \cup {q.id}
  BY DEF CheckStep
<1>2. StoreOK(repo) /\ Clean(repo) /\ op \in [Clients -> {Idle} \cup CheckOps \cup MergeOps]
  BY DEF GraphInv, TypeOK
<1>3. op'[c] = q /\ \A d \in Clients \ {c} : op'[d] = op[d]
  BY <1>1, <1>2
<1>4. \A d \in Clients \ {c} : Keeps(d)
  BY <1>1, <1>3 DEF Keeps
<1>5. Quiet(repo, repo')
  BY <1>1, <1>2, HeadShape DEF Quiet, Later, KeepsCommits
<1>6. TypeOK'
  BY <1>1, <1>2 DEF GraphInv, TypeOK, history, CheckOps
<1>7. RequestHolds(repo', c, q)
  <2>1. q.pc = "check"
    BY DEF CheckOps
  <2>2. Seen(repo, q) = {Now} /\ SeenOK(repo, q)
    BY <1>1, <1>2, HeadShape, NowIs DEF Seen, SeenOK, Now
  <2>3. ReadOK(repo', q)
    BY <1>1, <1>2, <2>1, <2>2, HeadShape, NowIs DEF ReadOK, MainObjects
  <2>4. QED
    BY <2>1, <2>3 DEF RequestHolds
<1>8. GraphInv'
  <2>1. \A d \in Clients : RequestHolds(repo', d, op'[d])
    BY <1>3, <1>4, <1>5, <1>7, KeepsRequest DEF Quiet
  <2>2. \A d \in Clients : KnownOK(d)'
    <3>1. KnownOK(c)'
      BY <1>1, <1>3 DEF KnownOK
    <3>2. ASSUME NEW d \in Clients \ {c} PROVE KnownOK(d)'
      BY <1>1, <1>3 DEF GraphInv, KnownOK
    <3>3. QED
      BY <3>1, <3>2
  <2>3. QED
    BY <1>5, <1>6, <2>1, <2>2, GraphFrom DEF Quiet
<1>9. QED
  BY <1>1, <1>3, <1>4, <1>5, <1>8

LEMMA ProceedFrame ==
    ASSUME GraphInv, NEW c \in Clients, NEW q \in CheckOps, ProceedStep(c, q)
    PROVE  /\ repo' = repo /\ Quiet(repo, repo') /\ op'[c] = q
           /\ \A d \in Clients \ {c} : Keeps(d) /\ op'[d] = op[d]
           /\ \A o \in Seen(repo, q) : o \in Seen(repo, op[c]) \/ o = Now
           /\ GraphInv'
<1>1. /\ op[c].pc = "check" /\ repo' = repo /\ op' = [op EXCEPT ![c] = q]
      /\ UNCHANGED <<known, used, history>>
      /\ Kin(q, op[c]) /\ q.seen \in {op[c].seen, op[c].seen \cup {MainHead}}
      /\ SearchOK(q, Seen(repo, q))
  BY DEF ProceedStep
<1>2. /\ StoreOK(repo) /\ Clean(repo) /\ op \in [Clients -> {Idle} \cup CheckOps \cup MergeOps]
      /\ known \in [Instances -> SUBSET Fields]
  BY DEF GraphInv, TypeOK
<1>3. op'[c] = q /\ \A d \in Clients \ {c} : op'[d] = op[d]
  BY <1>1, <1>2
<1>4. \A d \in Clients \ {c} : Keeps(d)
  BY <1>1, <1>3 DEF Keeps
<1>5. Quiet(repo, repo')
  BY <1>1, <1>2, HeadShape DEF Quiet, Later, KeepsCommits
<1>6. TypeOK'
  BY <1>1, <1>2 DEF GraphInv, TypeOK, history
<1>7. RequestHolds(repo', c, q)
  <2>1. q.pc = "check" /\ q.kind \in Kinds /\ q.id \in Ids /\ q.artifact \in StoredArtifacts
        /\ q.effects \in AllEffects
    BY DEF CheckOps
  <2>2. ReadOK(repo, op[c])
    BY <1>1 DEF GraphInv, RequestsOK
  <2>3. CheckedAt(q, AtCommit(repo, q.read))
    BY <1>1, <2>1, <2>2 DEF ReadOK, CheckedAt, RequestOK, Kin
  <2>4. MainHead \in CommitIds(repo) /\ MainHead \in Nat /\ MainHead = repo.head[Main]
    BY <1>2, HeadShape, NowIs
  <2>5. SeenOK(repo, q)
    BY <1>1, <2>2, <2>4 DEF ReadOK, SeenOK, Kin
  <2>6. ReadOK(repo', q)
    BY <1>1, <2>1, <2>2, <2>3, <2>5 DEF ReadOK, Kin
  <2>7. QED
    BY <2>1, <2>6 DEF RequestHolds
<1>8. GraphInv'
  <2>1. \A d \in Clients : RequestHolds(repo', d, op'[d])
    BY <1>3, <1>4, <1>5, <1>7, KeepsRequest DEF Quiet
  <2>2. \A d \in Clients : KnownOK(d)'
    <3>1. KnownOK(c)'
      BY <1>1, <1>2, <1>3, KnownKept DEF Kin
    <3>2. ASSUME NEW d \in Clients \ {c} PROVE KnownOK(d)'
      BY <1>1, <1>3 DEF GraphInv, KnownOK
    <3>3. QED
      BY <3>1, <3>2
  <2>3. QED
    BY <1>5, <1>6, <2>1, <2>2, GraphFrom DEF Quiet
<1>9. \A o \in Seen(repo, q) : o \in Seen(repo, op[c]) \/ o = Now
  BY <1>1 DEF Seen, Now
<1>10. QED
  BY <1>1, <1>3, <1>4, <1>5, <1>8, <1>9

LEMMA StageFrame ==
    ASSUME GraphInv, NEW c \in Clients, NEW q \in MergeOps, StageStep(c, q)
    PROVE  /\ Quiet(repo, repo') /\ op'[c] = q
           /\ \A d \in Clients \ {c} : Keeps(d) /\ op'[d] = op[d]
           /\ ReadOK(repo', q) /\ BranchOK(repo', c, q)
           /\ AtCommit(repo', repo'.head[c]) = Staged(Now, q)
           /\ AtCommit(repo', q.fork) = Now
           /\ AtCommit(repo', q.read) = AtCommit(repo, op[c].read)
           /\ GraphInv'
<1>1. /\ Passed(op[c]) /\ op[c].pc = "check"
      /\ op' = [op EXCEPT ![c] = q] /\ UNCHANGED <<known, used, history>>
      /\ Grown(repo, repo', c, Staged(Now, op[c]))
      /\ SameRequest(q, op[c]) /\ q.fork = MainHead
  BY DEF StageStep, Passed
<1>2. StoreOK(repo) /\ Clean(repo) /\ op \in [Clients -> {Idle} \cup CheckOps \cup MergeOps]
  BY DEF GraphInv, TypeOK
<1>3. op'[c] = q /\ \A d \in Clients \ {c} : op'[d] = op[d]
  BY <1>1, <1>2
<1>4. Quiet(repo, repo') /\ \A d \in Clients \ {c} : repo'.head[d] = repo.head[d]
  BY <1>1, <1>2, MovedQuiet DEF Grown
<1>5. \A d \in Clients \ {c} : Keeps(d)
  BY <1>3, <1>4 DEF Keeps
<1>6. TypeOK'
  BY <1>1, <1>2 DEF GraphInv, TypeOK, history
<1>7. /\ ReadOK(repo', op[c]) /\ AtCommit(repo', op[c].read) = AtCommit(repo, op[c].read)
      /\ op[c].read <= repo.head[Main]
  BY <1>1, <1>2, <1>4, LaterRead DEF GraphInv, RequestsOK, Quiet, ReadOK
<1>7a. q.read = repo'.head[Main] => Fresh(q, AtCommit(repo', q.read))
  <2> HAVE q.read = repo'.head[Main]
  <2>1. /\ SeenOK(repo', op[c]) /\ SearchOK(op[c], Seen(repo', op[c])) /\ q.read = op[c].read
        /\ CheckedAt(op[c], AtCommit(repo', op[c].read))
        /\ CommitIds(repo') \subseteq Nat
    BY <1>1, <1>4, <1>7, HeadShape DEF ReadOK, SameRequest, Quiet, Later
  <2>2. op[c].seen = {op[c].read}
    BY <2>1 DEF SeenOK
  <2>3. Seen(repo', op[c]) = {AtCommit(repo', op[c].read)}
    BY <2>2 DEF Seen
  <2>4. Fresh(op[c], AtCommit(repo', op[c].read))
    BY <1>1, <2>1, <2>3, SearchEnds
  <2>5. QED
    BY <1>1, <2>1, <2>4, SameRequestStaged
<1>8. ReadOK(repo', q) /\ AtCommit(repo', q.read) = AtCommit(repo, op[c].read)
  <2>1. q.pc = "merge"
    BY DEF MergeOps
  <2>2. QED
    BY <1>1, <1>7, <1>7a, <2>1, SameRequestStaged DEF ReadOK, SameRequest
<1>9. /\ repo'.head[c] \in CommitIds(repo') /\ q.fork \in CommitIds(repo')
      /\ AtCommit(repo', repo'.head[c]) = Staged(Now, q)
      /\ AtCommit(repo', q.fork) = Now
  BY <1>1, <1>2, <1>4, HeadShape, NowIs, SameRequestStaged
  DEF Grown, Quiet, Later, KeepsCommits, MainObjects
<1>10. q.read <= q.fork /\ q.fork <= repo'.head[Main]
  <2>1. q.fork = repo.head[Main] /\ q.read = op[c].read /\ repo'.head[Main] = repo.head[Main]
        /\ repo.head[Main] \in Nat
    BY <1>1, <1>2, <1>4, NowIs, HeadShape DEF SameRequest, Quiet
  <2>2. QED
    BY <1>7, <2>1
<1>11. BranchOK(repo', c, q)
  BY <1>9, <1>10 DEF BranchOK, SameArtifacts
<1>12. GraphInv'
  <2>1. \A d \in Clients : RequestHolds(repo', d, op'[d])
    BY <1>3, <1>4, <1>5, <1>8, <1>11, KeepsRequest DEF Quiet, RequestHolds
  <2>2. \A d \in Clients : KnownOK(d)'
    <3>1. op'[c].pc # "check"
      BY <1>3 DEF MergeOps
    <3>2. QED
      BY <1>1, <1>3, <3>1, KnownStays
  <2>3. QED
    BY <1>4, <1>6, <2>1, <2>2, GraphFrom DEF Quiet
<1>13. QED
  BY <1>3, <1>4, <1>5, <1>8, <1>9, <1>11, <1>12

LEMMA GiveUpFrame ==
    ASSUME GraphInv, NEW c \in Clients, GiveUpStep(c)
    PROVE  /\ Quiet(repo, repo') /\ op'[c] = Idle
           /\ \A d \in Clients \ {c} : Keeps(d) /\ op'[d] = op[d]
           /\ GraphInv'
<1>1. /\ op' = [op EXCEPT ![c] = Idle] /\ UNCHANGED <<known, used, history>>
      /\ Moved(repo, repo', c)
  BY DEF GiveUpStep
<1>2. StoreOK(repo) /\ Clean(repo) /\ op \in [Clients -> {Idle} \cup CheckOps \cup MergeOps]
  BY DEF GraphInv, TypeOK
<1>3. op'[c] = Idle /\ \A d \in Clients \ {c} : op'[d] = op[d]
  BY <1>1, <1>2
<1>4. Quiet(repo, repo') /\ \A d \in Clients \ {c} : repo'.head[d] = repo.head[d]
  BY <1>1, <1>2, MovedQuiet
<1>5. \A d \in Clients \ {c} : Keeps(d)
  BY <1>3, <1>4 DEF Keeps
<1>6. TypeOK'
  BY <1>1, <1>2 DEF GraphInv, TypeOK, history
<1>7. Keeps(c)
  BY <1>3 DEF Keeps
<1>8. GraphInv'
  <2>1. \A d \in Clients : RequestHolds(repo', d, op'[d])
    BY <1>4, <1>5, <1>7, KeepsRequest DEF Quiet
  <2>2. \A d \in Clients : KnownOK(d)'
    <3>1. op'[c].pc # "check"
      BY <1>3 DEF Idle
    <3>2. QED
      BY <1>1, <1>3, <3>1, KnownStays
  <2>3. QED
    BY <1>4, <1>6, <2>1, <2>2, GraphFrom DEF Quiet
<1>9. QED
  BY <1>3, <1>4, <1>5, <1>8

LEMMA ResolveFrame ==
    ASSUME GraphInv, NEW c \in Clients, NEW q \in MergeOps, NEW conflicts, NEW x,
           ResolveStep(c, q, conflicts, x)
    PROVE  /\ Quiet(repo, repo') /\ op'[c] = q
           /\ \A d \in Clients \ {c} : Keeps(d) /\ op'[d] = op[d]
           /\ ReadOK(repo', q) /\ BranchOK(repo', c, q)
           /\ AtCommit(repo', repo'.head[c]) = x
           /\ AtCommit(repo', q.fork) = AtCommit(repo, op[c].fork)
           /\ AtCommit(repo', q.read) = AtCommit(repo, op[c].read)
           /\ GraphInv'
<1>1. /\ op[c].pc = "merge" /\ op' = [op EXCEPT ![c] = q]
      /\ UNCHANGED <<known, used, stale, loose, emptied, outdated>>
      /\ misbased' = (misbased \/ TakesOtherBase(c))
      /\ Grown(repo, repo', c, x) /\ SameRequest(q, op[c]) /\ q.fork = op[c].fork
      /\ conflicts \in SUBSET IndexPaths
      /\ \A p \in ObjectPaths \ conflicts : x[p] = AtCommit(repo, repo.head[c])[p]
  BY DEF ResolveStep
<1>2. StoreOK(repo) /\ Clean(repo) /\ op \in [Clients -> {Idle} \cup CheckOps \cup MergeOps]
  BY DEF GraphInv, TypeOK
<1>3. op'[c] = q /\ \A d \in Clients \ {c} : op'[d] = op[d]
  BY <1>1, <1>2
<1>4. Quiet(repo, repo') /\ \A d \in Clients \ {c} : repo'.head[d] = repo.head[d]
  BY <1>1, <1>2, MovedQuiet DEF Grown
<1>5. \A d \in Clients \ {c} : Keeps(d)
  BY <1>3, <1>4 DEF Keeps
<1>6. TypeOK'
  BY <1>1, <1>2 DEF GraphInv, TypeOK
<1>7. ReadOK(repo, op[c]) /\ BranchOK(repo, c, op[c])
  BY <1>1 DEF GraphInv, RequestsOK
<1>8. /\ ReadOK(repo', op[c]) /\ AtCommit(repo', op[c].read) = AtCommit(repo, op[c].read)
  BY <1>2, <1>4, <1>7, LaterRead DEF Quiet
<1>9. ReadOK(repo', q) /\ AtCommit(repo', q.read) = AtCommit(repo, op[c].read)
  <2>1. q.pc = "merge"
    BY DEF MergeOps
  <2>2. QED
    BY <1>1, <1>8, <2>1, SameRequestStaged DEF ReadOK, SameRequest
<1>10. /\ repo'.head[c] \in CommitIds(repo') /\ AtCommit(repo', repo'.head[c]) = x
       /\ q.fork \in CommitIds(repo')
       /\ AtCommit(repo', q.fork) = AtCommit(repo, op[c].fork)
  BY <1>1, <1>4, <1>7 DEF Grown, BranchOK, Quiet, Later, KeepsCommits
<1>11. q.read <= q.fork /\ q.fork <= repo'.head[Main]
  BY <1>1, <1>4, <1>7 DEF BranchOK, Quiet, SameRequest
<1>12. SameArtifacts(x, Staged(AtCommit(repo, op[c].fork), q))
  <2>1. \A b \in Ids : ReadStoredArtifact(x, b) = ReadStoredArtifact(AtCommit(repo, repo.head[c]), b)
    BY <1>1, PathsApart DEF ReadStoredArtifact
  <2>2. QED
    BY <1>1, <1>7, <2>1, SameRequestStaged DEF SameArtifacts, BranchOK
<1>13. BranchOK(repo', c, q)
  BY <1>10, <1>11, <1>12 DEF BranchOK
<1>14. GraphInv'
  <2>1. \A d \in Clients : RequestHolds(repo', d, op'[d])
    BY <1>3, <1>4, <1>5, <1>9, <1>13, KeepsRequest DEF Quiet, RequestHolds
  <2>2. \A d \in Clients : KnownOK(d)'
    <3>1. op'[c].pc # "check"
      BY <1>3 DEF MergeOps
    <3>2. QED
      BY <1>1, <1>3, <3>1, KnownStays
  <2>3. QED
    BY <1>4, <1>6, <2>1, <2>2, GraphFrom DEF Quiet
<1>15. QED
  BY <1>3, <1>4, <1>5, <1>9, <1>10, <1>13, <1>14

LEMMA MergedFrame ==
    ASSUME GraphInv, NEW c \in Clients, NEW m, MergedStep(c, m)
    PROVE  /\ Later(repo, repo') /\ MainObjects(repo') = m /\ op'[c] = Idle
           /\ \A d \in Clients \ {c} : Keeps(d) /\ op'[d] = op[d]
           /\ GraphInv'
<1>1. /\ op[c].pc = "merge" /\ UNCHANGED <<known, used>> /\ op' = [op EXCEPT ![c] = Idle]
      /\ StoreOK(repo') /\ Clean(repo') /\ KeepsCommits(repo, repo')
      /\ \A x \in StoreBranches \ {c, Main} : repo'.head[x] = repo.head[x]
      /\ \A x \in CommitIds(repo) : x < repo'.head[Main]
      /\ AtCommit(repo', repo'.head[Main]) = m
  BY DEF MergedStep
<1>2. StoreOK(repo) /\ Clean(repo) /\ op \in [Clients -> {Idle} \cup CheckOps \cup MergeOps]
  BY DEF GraphInv, TypeOK
<1>3. op'[c] = Idle /\ \A d \in Clients \ {c} : op'[d] = op[d]
  BY <1>1, <1>2
<1>4. \A d \in Clients \ {c} : repo'.head[d] = repo.head[d]
  BY <1>1, ArtifactStoreAssumption DEF StoreBranches
<1>5. \A d \in Clients \ {c} : Keeps(d)
  BY <1>3, <1>4 DEF Keeps
<1>6. Later(repo, repo') /\ MainObjects(repo') = m
  <2>1. /\ repo.head[Main] \in CommitIds(repo) /\ repo.head[Main] \in Nat
        /\ repo'.head[Main] \in Nat
    BY <1>1, <1>2, HeadShape
  <2>2. repo.head[Main] <= repo'.head[Main]
    BY <1>1, <2>1
  <2>3. QED
    BY <1>1, <2>2 DEF Later, MainObjects
<1>7. /\ op[c].id \in Ids /\ op[c].effects.cascades \in SUBSET Ids
      /\ op[c].effects.nulls \in SUBSET (Ids \X Fields \X Ids)
      /\ \A f \in Fields : op[c].artifact.refs[f] \in SUBSET Ids
      /\ op[c].resolved \in SUBSET IndexPaths
  BY <1>1, OpShape DEF GraphInv, MergeOps, AllEffects, StoredArtifacts
<1>8. TypeOK'
  <2>1. Concerned(op[c]) \in SUBSET Ids
    BY <1>7 DEF Concerned
  <2>2. stale' \in SUBSET Ids /\ loose' \in SUBSET Ids
    BY <1>7, <2>1 DEF MergedStep, GraphInv, TypeOK
  <2>3. emptied' \in SUBSET Ids
    BY <1>7 DEF MergedStep, GraphInv, TypeOK
  <2>4. outdated' \in SUBSET IndexPaths /\ misbased' \in BOOLEAN
    BY <1>7 DEF MergedStep, GraphInv, TypeOK
  <2>5. QED
    BY <1>1, <1>2, <2>2, <2>3, <2>4 DEF GraphInv, TypeOK
<1>9. Keeps(c)
  BY <1>3 DEF Keeps
<1>10. GraphInv'
  <2>1. \A d \in Clients : RequestHolds(repo', d, op'[d])
    BY <1>5, <1>6, <1>9, KeepsRequest
  <2>2. \A d \in Clients : KnownOK(d)'
    <3>1. op'[c].pc # "check"
      BY <1>3 DEF Idle
    <3>2. QED
      BY <1>1, <1>3, <3>1, KnownStays
  <2>3. QED
    BY <1>6, <1>8, <2>1, <2>2, GraphFrom
<1>11. QED
  BY <1>3, <1>5, <1>6, <1>10

LEMMA RestartFrame ==
    ASSUME GraphInv, NEW its, RestartStep(its)
    PROVE  /\ Quiet(repo, repo')
           /\ \A d \in Clients : Keeps(d) /\ op'[d] \in {Idle, op[d]}
           /\ GraphInv'
<1>1. /\ op' = [c \in Clients |-> IF c \in its THEN Idle ELSE op[c]]
      /\ its \in SUBSET Clients /\ known' \in [Instances -> SUBSET Fields]
      /\ \A c \in Clients \ its : known'[Home[c]] = known[Home[c]]
      /\ UNCHANGED <<used, history>>
      /\ StoreOK(repo') /\ Clean(repo') /\ repo'.commits = repo.commits
      /\ \A b \in StoreBranches \ its : repo'.head[b] = repo.head[b]
  BY DEF RestartStep
<1>2. StoreOK(repo) /\ Clean(repo) /\ op \in [Clients -> {Idle} \cup CheckOps \cup MergeOps]
  BY DEF GraphInv, TypeOK
<1>3. repo'.head[Main] = repo.head[Main] /\ repo.head[Main] \in Nat
  BY <1>1, <1>2, StoreNames, HeadShape, ArtifactStoreAssumption
<1>4. Quiet(repo, repo')
  BY <1>1, <1>3 DEF Quiet, Later, KeepsCommits, CommitIds, AtCommit, MainObjects
<1>5. ASSUME NEW d \in Clients
      PROVE  Keeps(d) /\ op'[d] \in {Idle, op[d]}
  <2>1. d \in StoreBranches /\ op'[d] = IF d \in its THEN Idle ELSE op[d]
    BY <1>1 DEF StoreBranches
  <2>2. QED
    BY <1>1, <2>1 DEF Keeps
<1>6. TypeOK'
  BY <1>1, <1>2 DEF GraphInv, TypeOK, history
<1>7. GraphInv'
  <2>1. \A d \in Clients : KnownOK(d)'
    <3>1. Idle.pc # "check"
      BY DEF Idle
    <3>2. QED
      BY <1>1, <3>1 DEF GraphInv, KnownOK
  <2>2. QED
    BY <1>4, <1>5, <1>6, <2>1, KeepsRequest, GraphFrom DEF Quiet
<1>8. QED
  BY <1>4, <1>5, <1>7

LEMMA LearnFrame ==
    ASSUME GraphInv, LearnStep
    PROVE  /\ Quiet(repo, repo')
           /\ \A d \in Clients : Keeps(d) /\ op'[d] = op[d]
           /\ GraphInv'
<1>1. /\ known' \in [Instances -> SUBSET Fields]
      /\ \A c \in Clients : known[Home[c]] \subseteq known'[Home[c]]
      /\ UNCHANGED <<repo, op, used, history>>
  BY DEF LearnStep
<1>2. StoreOK(repo) /\ Clean(repo)
  BY DEF GraphInv
<1>3. Quiet(repo, repo')
  BY <1>1, <1>2, HeadShape DEF Quiet, Later, KeepsCommits
<1>4. \A d \in Clients : Keeps(d) /\ op'[d] = op[d]
  BY <1>1 DEF Keeps
<1>5. TypeOK'
  BY <1>1 DEF GraphInv, TypeOK, history
<1>6. GraphInv'
  <2>1. \A d \in Clients : KnownOK(d)'
    BY <1>1, <1>4, KnownKept
  <2>2. QED
    BY <1>3, <1>4, <1>5, <2>1, KeepsRequest, GraphFrom DEF Quiet
<1>7. QED
  BY <1>3, <1>4, <1>6

LEMMA GraphStep ==
    ASSUME GraphInv, [Next]_vars
    PROVE  GraphInv'
BY NextSteps, CheckFrame, ProceedFrame, StageFrame, MergedFrame, ResolveFrame, GiveUpFrame, RestartFrame,
   LearnFrame

-----------------------------------------------------------------------------
(* The initial states: the artifacts of a population, with exact indexes.  *)
PopulationRows(pop, p) == {a \in Ids : pop[a] # Absent /\ p \in DeriveIndexEntries(pop[a])}

LEMMA PopulationShape ==
    ASSUME NEW pop \in Populations, NEW o, o = Objects0(pop)
    PROVE  /\ ObjectsOK(o)
           /\ \A a \in Ids : ReadStoredArtifact(o, a) = pop[a]
           /\ \A a \in Ids, p \in IndexPaths : Covers(o, a, p)
<1> DEFINE R(p) == PopulationRows(pop, p)
           v(p) == IF R(p) = {} THEN Absent ELSE [a \in R(p) |-> 0]
<1>1. \A p \in ObjectPaths : o[p] = IF p \in ArtifactPaths THEN pop[p[2]] ELSE v(p)
  BY DEF Objects0, PopulationRows
<1>2. o = [p \in ObjectPaths |-> o[p]]
  BY DEF Objects0
<1>3. \A p : R(p) \in SUBSET Ids
  BY DEF PopulationRows
<1> HIDE DEF R
<1>4. \A p : v(p) \in IndexObjects \cup {Absent}
  <2> TAKE p
  <2>1. CASE R(p) # {}
    <3>1. [a \in R(p) |-> 0] \in [R(p) -> {0}]
      OBVIOUS
    <3>2. [a \in R(p) |-> 0] \in IndexObjects
      BY <1>3, <3>1 DEF IndexObjects
    <3>3. QED
      BY <2>1, <3>2
  <2>2. QED
    BY <2>1
<1>5. \A p : DOMAIN Rows(v(p)) = R(p)
  <2> TAKE p
  <2>1. CASE R(p) = {}
    BY <2>1 DEF Rows, NoRows
  <2>2. CASE R(p) # {}
    <3>1. v(p) = [a \in R(p) |-> 0]
      BY <2>2
    <3>2. v(p) # Absent
      <4>1. Absent \notin IndexObjects
        BY ArtifactStoreAssumption DEF StoredValues
      <4>2. [a \in R(p) |-> 0] \in [R(p) -> {0}]
        OBVIOUS
      <4>3. [a \in R(p) |-> 0] \in IndexObjects
        BY <1>3, <4>2 DEF IndexObjects
      <4>4. QED
        BY <3>1, <4>1, <4>3
    <3>3. QED
      BY <3>1, <3>2 DEF Rows
  <2>3. QED
    BY <2>1, <2>2
<1> HIDE DEF v
<1>6. \A a \in Ids : ReadStoredArtifact(o, a) = pop[a]
  <2> TAKE a \in Ids
  <2>1. ArtifactPath(a) \in ArtifactPaths /\ ArtifactPath(a) \in ObjectPaths
    BY DEF ArtifactPaths, ObjectPaths
  <2>2. ArtifactPath(a)[2] = a
    BY DEF ArtifactPath
  <2>3. QED
    BY <1>1, <2>1, <2>2 DEF ReadStoredArtifact
<1>7. \A p \in IndexPaths : o[p] = v(p)
  <2> TAKE p \in IndexPaths
  <2>1. p \in ObjectPaths /\ p \notin ArtifactPaths
    BY PathsApart DEF ArtifactPaths
  <2>2. QED
    BY <1>1, <2>1
<1>8. \A a \in Ids : pop[a] \in StoredArtifacts \cup {Absent}
  BY DEF Populations
<1>9. ObjectsOK(o)
  <2>1. \A p \in ObjectPaths : o[p] \in StoredValues \cup {Absent}
    <3> TAKE p \in ObjectPaths
    <3>1. CASE p \in IndexPaths
      BY <1>4, <1>7, <3>1 DEF StoredValues
    <3>2. CASE \E a \in Ids : p = ArtifactPath(a)
      BY <1>6, <1>8, <3>2 DEF StoredValues, ReadStoredArtifact
    <3>3. QED
      BY <3>1, <3>2, PathsApart
  <2>2. o \in [ObjectPaths -> StoredValues \cup {Absent}]
    BY <1>2, <2>1
  <2>3. QED
    BY <1>4, <1>6, <1>7, <1>8, <2>2 DEF ObjectsOK
<1>10. \A a \in Ids, p \in IndexPaths : Covers(o, a, p)
  <2> TAKE a \in Ids, p \in IndexPaths
  <2>1. HasRow(o, a, p) <=> a \in R(p)
    BY <1>5, <1>7 DEF HasRow
  <2>2. Derives(o, a, p) <=> a \in R(p)
    BY <1>6 DEF Derives, Exists, PopulationRows, R
  <2>3. QED
    BY <2>1, <2>2 DEF Covers
<1>11. QED
  BY <1>6, <1>9, <1>10

LEMMA InitStore ==
    ASSUME NEW o, ObjectsOK(o), NEW r, r = [InitRepo EXCEPT !.commits[Genesis].objects = o]
    PROVE  /\ StoreOK(r) /\ Clean(r)
           /\ r.head[Main] = Genesis /\ AtCommit(r, Genesis) = o
<1> DEFINE new == [parents |-> {}, objects |-> o]
           heads == [b \in StoreBranches |-> IF b = Main THEN Genesis ELSE NoBranch]
           areas == [b \in StoreBranches |-> NoStaging]
<1>1. r = [commits |-> <<new>>, head |-> heads, staging |-> areas]
  <2> DEFINE old == [parents |-> {}, objects |-> NoObjects]
  <2>1. [<<old>> EXCEPT ![1].objects = o] = <<new>>
    OBVIOUS
  <2>2. InitRepo = [commits |-> <<old>>, head |-> heads, staging |-> areas]
    BY DEF InitRepo
  <2> HIDE DEF new, heads, areas, old
  <2>3. QED
    BY <2>1, <2>2 DEF Genesis
<1>2. heads \in [StoreBranches -> Nat] /\ areas \in [StoreBranches -> G!Staging]
  <2>1. NoStaging = G!NoStaging
    BY DEF NoStaging, G!NoStaging
  <2>2. QED
    BY <2>1, StoreNames, G!NoStagingShape DEF Genesis, NoBranch
<1>3. heads[Main] = Genesis /\ \A b \in StoreBranches : heads[b] \in {Genesis, NoBranch}
  BY StoreNames
<1>4. \A b \in StoreBranches : areas[b] = NoStaging
  OBVIOUS
<1>5. new \in G!CommitData
  BY ObjectsTyped DEF G!CommitData
<1>6. new.parents = {} /\ new.objects = o
  OBVIOUS
<1> HIDE DEF new, heads, areas
<1>7. /\ r.commits = <<new>> /\ r.head = heads /\ r.staging = areas
      /\ Len(r.commits) = 1 /\ r.commits[1] = new /\ DOMAIN r.commits = {1}
  BY <1>1
<1>8. <<new>> \in Seq(G!CommitData)
  BY <1>5
<1>9. r \in G!Repository
  <2>1. r \in [commits : Seq(G!CommitData), head : [StoreBranches -> Nat],
              staging : [StoreBranches -> G!Staging]]
    BY ONLY <1>1, <1>2, <1>8
  <2>2. QED
    BY <2>1 DEF G!Repository
<1>10. CommitIds(r) = {1} /\ G!CommitIds(r) = {1} /\ 1 .. 1 = {1}
  BY <1>7 DEF CommitIds, G!CommitIds
<1>11. G!RepoOK(r)
  BY <1>3, <1>7, <1>9, <1>10 DEF G!RepoOK, Genesis, NoBranch, G!NoBranch
<1>12. G!GraphOK(r)
  BY <1>6, <1>7, <1>10 DEF G!GraphOK, G!Parents, G!Genesis
<1>13. AtCommit(r, 1) = o /\ r.head[Main] = 1
  BY <1>3, <1>6, <1>7 DEF AtCommit, Genesis
<1>14. QED
  BY <1>4, <1>7, <1>10, <1>11, <1>12, <1>13 DEF StoreOK, Clean, GetBranchHead, Genesis

(* What the population of an initial state is like.                        *)
LEMMA InitObjects ==
    ASSUME Init
    PROVE  /\ StoreOK(repo) /\ Clean(repo) /\ RefsTyped(Now)
           /\ \A a \in Ids, p \in IndexPaths : Covers(Now, a, p)
           /\ used = {a \in Ids : Exists(Now, a)}
           /\ \A a, x \in Ids, f \in Fields : RefersTo(Now, a, f, x) => Live(Now, x)
<1>1. PICK sc \in Scenarios :
        /\ repo = [InitRepo EXCEPT !.commits[Genesis].objects = Objects0(sc.population)]
        /\ used = {a \in Ids : sc.population[a] # Absent}
  BY DEF Init
<1>2. sc.population \in Populations
  BY ScenariosAssumption
<1> DEFINE o == Objects0(sc.population)
<1>3. /\ ObjectsOK(o)
      /\ \A a \in Ids : ReadStoredArtifact(o, a) = sc.population[a]
      /\ \A a \in Ids, p \in IndexPaths : Covers(o, a, p)
  BY <1>2, PopulationShape
<1>4. /\ StoreOK(repo) /\ Clean(repo)
      /\ repo.head[Main] = Genesis /\ AtCommit(repo, Genesis) = o
  <2> HIDE DEF o
  <2>1. repo = [InitRepo EXCEPT !.commits[Genesis].objects = o]
    BY <1>1 DEF o
  <2>2. QED
    BY <1>3, <2>1, InitStore
<1>5. Now = o
  BY <1>4, NowIs DEF MainObjects
<1> HIDE DEF o
<1>6. \A a \in Ids, f \in Fields : Exists(o, a) => \A x \in ReadStoredArtifact(o, a).refs[f] :
        x \in Ids /\ Live(o, x) /\ ReadStoredArtifact(o, x).type = To[f]
  <2> TAKE a \in Ids, f \in Fields
  <2> HAVE Exists(o, a)
  <2> TAKE x \in ReadStoredArtifact(o, a).refs[f]
  <2>1. sc.population[a] # Absent /\ x \in sc.population[a].refs[f]
    BY <1>3 DEF Exists
  <2>2. /\ sc.population[x] # Absent /\ ~EmptyPayload(sc.population[x])
        /\ sc.population[x].type = To[f]
    BY <2>1, ScenariosAssumption
  <2>3. x \in Ids
    <3>1. ReadStoredArtifact(o, a) \in StoredArtifacts
      BY <1>3, StoredNotAbsent
    <3>2. QED
      BY <3>1 DEF StoredArtifacts
  <2>4. QED
    BY <1>3, <2>2, <2>3 DEF Live, Exists
<1>7. RefsTyped(o)
  BY <1>6 DEF RefsTyped, Live
<1>8. \A a, x \in Ids, f \in Fields : RefersTo(o, a, f, x) => Live(o, x)
  BY <1>6 DEF RefersTo, Live
<1>9. used = {a \in Ids : Exists(o, a)}
  BY <1>1, <1>3 DEF Exists
<1>10. QED
  BY <1>3, <1>4, <1>5, <1>7, <1>8, <1>9

LEMMA InitGraph == ASSUME Init PROVE GraphInv
<1>1. StoreOK(repo) /\ Clean(repo) /\ used \in SUBSET Ids
  BY InitObjects
<1>2. /\ known = [i \in Instances |-> Fields] /\ op = [c \in Clients |-> Idle]
      /\ stale = {} /\ loose = {} /\ emptied = {} /\ outdated = {} /\ misbased = FALSE
  BY DEF Init
<1>3. TypeOK
  <2>1. op \in [Clients -> {Idle} \cup CheckOps \cup MergeOps]
    BY <1>2
  <2>2. known \in [Instances -> SUBSET Fields]
    BY <1>2
  <2>3. QED
    BY <1>1, <1>2, <2>1, <2>2 DEF TypeOK
<1>4. \A c \in Clients : op[c].pc = "idle"
  BY <1>2 DEF Idle
<1>5. RequestsOK
  BY <1>4 DEF RequestsOK
<1>6. \A c \in Clients : KnownOK(c)
  BY <1>4 DEF KnownOK
<1>7. QED
  BY <1>1, <1>3, <1>5, <1>6 DEF GraphInv

LEMMA GraphAlways == Spec => []GraphInv
<1>1. Init => GraphInv
  BY InitGraph
<1>2. GraphInv /\ [Next]_vars => GraphInv'
  BY GraphStep
<1>3. QED
  BY <1>1, <1>2, PTL DEF Spec

-----------------------------------------------------------------------------
(* What the canonical branch and the requests show, as long as merges take *)
(* the fork for their base.  A branch carries the rows of its artifacts:   *)
(* as they were staged, or what the resolver has made of them.             *)
Carries(f, s, t, resolved) ==
    /\ \A p \in IndexPaths \ resolved : s[p] = t[p]
    /\ \A p \in resolved, a \in Ids :
        HasRow(t, a, p) # HasRow(f, a, p) => HasRow(s, a, p) = HasRow(t, a, p)

CoversBut(o, st, out) == \A a \in Ids \ st, p \in IndexPaths \ out : Covers(o, a, p)

MainOK(o, us, st, lo, em, out) ==
    /\ \A a \in Ids : Exists(o, a) => a \in us
    /\ RefsTyped(o) /\ CoversBut(o, st, out) /\ RefsHold(o, st, lo, em, out)

Behind(q, R, n, us, st, out) ==
    /\ Older(R, n) /\ RefsTyped(R) /\ CoversBut(R, st, out)
    /\ q.kind = "create" => q.id \in us /\ ~Exists(n, q.id)

SeenGood(o, n, st, out) == RefsTyped(o) /\ CoversBut(o, st, out) /\ Older(o, n)

Forked(q, R, f, s, n, st, out) ==
    /\ q.kind # "delete" => Points(References(q.artifact), f)
    /\ Older(R, f) /\ Older(f, n) /\ CoversBut(f, st, out)
    /\ Carries(f, s, Staged(f, q), q.resolved)

ClientOK(c) ==
    /\ op[c].pc # "idle" =>
        Behind(op[c], AtCommit(repo, op[c].read), Now, used, stale, outdated)
    /\ op[c].pc = "check" =>
        \A o \in Seen(repo, op[c]) : SeenGood(o, Now, stale, outdated)
    /\ op[c].pc = "merge" =>
        Forked(op[c], AtCommit(repo, op[c].read), AtCommit(repo, op[c].fork),
               AtCommit(repo, repo.head[c]), Now, stale, outdated)

Creates(q) == q.pc # "idle" /\ q.kind = "create"

ContentInv ==
    ~misbased =>
        /\ MainOK(Now, used, stale, loose, emptied, outdated)
        /\ \A c \in Clients : ClientOK(c)
        /\ \A c, d \in Clients :
            Creates(op[c]) /\ Creates(op[d]) /\ op[c].id = op[d].id => c = d

LEMMA OlderSelf == \A o : Older(o, o)
BY DEF Older

(* A client that goes on, or stops, while artifacts are added.             *)
LEMMA OthersKeep ==
    ASSUME GraphInv, NEW d \in Clients, ClientOK(d), Later(repo, repo'), Keeps(d),
           Older(Now, Now'), used \subseteq used', stale \subseteq stale',
           outdated \subseteq outdated', Creates(op[d]) => ~Exists(Now', op[d].id)
    PROVE  ClientOK(d)'
<1>1. CASE op'[d] = Idle
  BY <1>1 DEF ClientOK, Idle
<1>2. CASE op'[d] = op[d] /\ repo'.head[d] = repo.head[d]
  <2> DEFINE R == AtCommit(repo, op[d].read)
             f == AtCommit(repo, op[d].fork)
             s == AtCommit(repo, repo.head[d])
  <2>1. ASSUME op[d].pc # "idle"
        PROVE  /\ AtCommit(repo', op[d].read) = R
               /\ Behind(op[d], R, Now', used', stale', outdated')
    <3>1. ReadOK(repo, op[d]) /\ StoreOK(repo)
      BY <2>1 DEF GraphInv, RequestsOK
    <3>2. Behind(op[d], R, Now, used, stale, outdated)
      BY <2>1 DEF ClientOK
    <3>3. AtCommit(repo', op[d].read) = R
      BY <3>1, LaterRead
    <3> HIDE DEF R
    <3>4. Older(R, Now')
      BY <3>2, OlderChain DEF Behind
    <3>5. CoversBut(R, stale', outdated')
      BY <3>2 DEF Behind, CoversBut
    <3>6. QED
      BY <2>1, <3>2, <3>3, <3>4, <3>5 DEF Behind, Creates
  <2>2. ASSUME op[d].pc = "merge"
        PROVE  /\ AtCommit(repo', op[d].fork) = f /\ AtCommit(repo', repo.head[d]) = s
               /\ Forked(op[d], R, f, s, Now', stale', outdated')
    <3>1. BranchOK(repo, d, op[d]) /\ StoreOK(repo)
      BY <2>2 DEF GraphInv, RequestsOK
    <3>2. Forked(op[d], R, f, s, Now, stale, outdated)
      BY <2>2 DEF ClientOK
    <3>3. AtCommit(repo', op[d].fork) = f /\ AtCommit(repo', repo.head[d]) = s
      BY <1>2, <3>1, LaterBranch
    <3> HIDE DEF R, f, s
    <3>4. Older(f, Now')
      BY <3>2, OlderChain DEF Forked
    <3>5. CoversBut(f, stale', outdated')
      BY <3>2 DEF Forked, CoversBut
    <3>6. QED
      BY <3>2, <3>3, <3>4, <3>5 DEF Forked
  <2>3. ASSUME op[d].pc = "check"
        PROVE  \A o \in Seen(repo', op[d]) : SeenGood(o, Now', stale', outdated')
    <3>1. SeenOK(repo, op[d]) /\ StoreOK(repo)
      BY <2>3 DEF GraphInv, RequestsOK, ReadOK
    <3>2. Seen(repo', op[d]) = Seen(repo, op[d])
      BY <3>1 DEF Seen, SeenOK, Later, KeepsCommits
    <3>3. ASSUME NEW o \in Seen(repo, op[d]) PROVE SeenGood(o, Now', stale', outdated')
      <4>1. SeenGood(o, Now, stale, outdated)
        BY <2>3, <3>3 DEF ClientOK
      <4>2. QED
        BY <4>1, OlderChain DEF SeenGood, CoversBut
    <3>4. QED
      BY <3>2, <3>3
  <2>4. QED
    BY <1>2, <2>1, <2>2, <2>3 DEF ClientOK
<1>3. QED
  BY <1>1, <1>2 DEF Keeps

(* A step of one client that leaves the canonical branch alone.            *)
LEMMA QuietContent ==
    ASSUME GraphInv, ContentInv, Quiet(repo, repo'), ~misbased' => ~misbased,
           UNCHANGED <<stale, loose, emptied, outdated>>, used \subseteq used',
           NEW cs \in SUBSET Clients,
           \A c \in cs : ~misbased' => ClientOK(c)',
           \A d \in Clients \ cs : Keeps(d),
           ~misbased' => \A c, d \in Clients :
                Creates(op'[c]) /\ Creates(op'[d]) /\ op'[c].id = op'[d].id => c = d
    PROVE  ContentInv'
<1> SUFFICES ASSUME ~misbased'
             PROVE  /\ MainOK(Now', used', stale', loose', emptied', outdated')
                    /\ \A c \in Clients : ClientOK(c)'
  BY DEF ContentInv
<1>1. Now' = Now /\ Later(repo, repo')
  BY DEF Quiet, Now, MainHead, GetBranchHead, MainObjects
<1>2. /\ MainOK(Now, used, stale, loose, emptied, outdated)
      /\ \A d \in Clients : ClientOK(d)
  BY DEF ContentInv
<1>3. MainOK(Now', used', stale', loose', emptied', outdated')
  BY <1>1, <1>2 DEF MainOK
<1>4. ASSUME NEW d \in Clients \ cs PROVE ClientOK(d)'
  <2>1. Creates(op[d]) => ~Exists(Now', op[d].id)
    BY <1>1, <1>2 DEF Creates, ClientOK, Behind
  <2>2. Older(Now, Now')
    BY <1>1, OlderSelf
  <2>3. Keeps(d) /\ ClientOK(d)
    BY <1>2
  <2>4. QED
    BY <1>1, <2>1, <2>2, <2>3, OthersKeep
<1>5. QED
  BY <1>3, <1>4

(* A request starts with what its checks have found.                       *)
LEMMA CheckContent ==
    ASSUME GraphInv, ContentInv, NEW c \in Clients, NEW q \in CheckOps, CheckStep(c, q)
    PROVE  ContentInv'
<1>1. /\ repo' = repo /\ Quiet(repo, repo') /\ op'[c] = q
      /\ \A d \in Clients \ {c} : Keeps(d) /\ op'[d] = op[d]
  BY CheckFrame
<1>2. /\ UNCHANGED <<stale, loose, emptied, outdated, misbased>>
      /\ q.read = MainHead /\ q.seen = {MainHead} /\ used \subseteq used' /\ op[c] = Idle
  BY DEF CheckStep, history
<1>3. q.kind = "create" => q.id \notin used /\ q.id \in used'
  BY DEF CheckStep
<1>4. q.pc = "check"
  BY DEF CheckOps
<1>5. ASSUME ~misbased' PROVE ClientOK(c)'
  <2>1. MainOK(Now, used, stale, loose, emptied, outdated)
    BY <1>2, <1>5 DEF ContentInv
  <2>2. Now' = Now /\ AtCommit(repo', q.read) = Now
    BY <1>1, <1>2 DEF Now, MainHead, GetBranchHead
  <2>3. q.kind = "create" => ~Exists(Now, q.id)
    <3>1. q.id \in Ids
      BY DEF CheckOps
    <3>2. QED
      BY <1>3, <2>1, <3>1 DEF MainOK
  <2>4. Behind(q, Now, Now, used', stale', outdated')
    BY <1>2, <1>3, <2>1, <2>3, OlderSelf DEF Behind, MainOK
  <2>5. \A o \in Seen(repo', q) : SeenGood(o, Now', stale', outdated')
    BY <1>2, <2>1, <2>2, OlderSelf DEF Seen, SeenGood, MainOK
  <2>6. QED
    BY <1>1, <1>4, <2>2, <2>4, <2>5 DEF ClientOK
<1>6. ASSUME ~misbased', NEW d \in Clients, NEW e \in Clients,
             Creates(op'[d]), Creates(op'[e]), op'[d].id = op'[e].id
      PROVE  d = e
  <2>1. /\ \A x \in Clients : ClientOK(x)
        /\ \A x, y \in Clients :
            Creates(op[x]) /\ Creates(op[y]) /\ op[x].id = op[y].id => x = y
    BY <1>2, <1>6 DEF ContentInv
  <2>2. \A x \in Clients \ {c} : Creates(op'[x]) => op'[x] = op[x] /\ op[x].id \in used
    BY <1>1, <2>1 DEF ClientOK, Creates, Behind
  <2>3. Creates(op'[c]) => op'[c].id \notin used
    BY <1>1, <1>3 DEF Creates
  <2>4. QED
    BY <1>6, <2>1, <2>2, <2>3
<1>7. QED
  <2>1. {c} \in SUBSET Clients /\ \A x \in {c} : ~misbased' => ClientOK(x)'
    BY <1>5
  <2>2. \A d \in Clients \ {c} : Keeps(d)
    BY <1>1
  <2>3. UNCHANGED <<stale, loose, emptied, outdated>> /\ (~misbased' => ~misbased)
    BY <1>2
  <2>4. QED
    BY <1>1, <1>2, <1>6, <2>1, <2>2, <2>3, QuietContent

(* (Requests keep their IDs apart if no new one comes.)                    *)
Keeper(q, r) == q.kind = r.kind /\ q.id = r.id

LEMMA CreatorsApart ==
    ASSUME ContentInv, ~misbased,
           \A d \in Clients : op'[d].pc = "idle" \/ (Keeper(op'[d], op[d]) /\ op[d].pc # "idle")
    PROVE  \A d, e \in Clients :
                Creates(op'[d]) /\ Creates(op'[e]) /\ op'[d].id = op'[e].id => d = e
<1>1. \A d \in Clients : Creates(op'[d]) => Creates(op[d]) /\ op'[d].id = op[d].id
  BY DEF Creates, Keeper
<1>2. QED
  BY <1>1 DEF ContentInv

LEMMA KeeperRules ==
    /\ \A q : Keeper(q, q)
    /\ \A q, r : SameRequest(q, r) \/ Kin(q, r) => Keeper(q, r)
BY DEF SameRequest, Keeper, Kin

(* One more read shows the canonical branch as it is.                      *)
LEMMA ProceedContent ==
    ASSUME GraphInv, ContentInv, NEW c \in Clients, NEW q \in CheckOps, ProceedStep(c, q)
    PROVE  ContentInv'
<1>1. /\ repo' = repo /\ Quiet(repo, repo') /\ op'[c] = q
      /\ \A d \in Clients \ {c} : Keeps(d) /\ op'[d] = op[d]
      /\ \A o \in Seen(repo, q) : o \in Seen(repo, op[c]) \/ o = Now
  BY ProceedFrame
<1>2. /\ UNCHANGED <<stale, loose, emptied, outdated, misbased, used>>
      /\ op[c].pc = "check" /\ Kin(q, op[c])
  BY DEF ProceedStep, history
<1>3. q.pc = "check" /\ Now' = Now
  BY <1>1 DEF CheckOps, Now, MainHead, GetBranchHead
<1>4. ASSUME ~misbased' PROVE ClientOK(c)'
  <2>1. MainOK(Now, used, stale, loose, emptied, outdated) /\ ClientOK(c)
    BY <1>2, <1>4 DEF ContentInv
  <2>2. Behind(op[c], AtCommit(repo, op[c].read), Now, used, stale, outdated)
    BY <1>2, <2>1 DEF ClientOK
  <2>3. Behind(q, AtCommit(repo', q.read), Now', used', stale', outdated')
    BY <1>1, <1>2, <1>3, <2>2 DEF Behind, Kin
  <2>4. \A o \in Seen(repo', q) : SeenGood(o, Now', stale', outdated')
    BY <1>1, <1>2, <1>3, <2>1, OlderSelf DEF ClientOK, SeenGood, MainOK
  <2>5. QED
    BY <1>1, <1>3, <2>3, <2>4 DEF ClientOK
<1>5. ASSUME ~misbased'
      PROVE  \A d, e \in Clients :
                Creates(op'[d]) /\ Creates(op'[e]) /\ op'[d].id = op'[e].id => d = e
  <2>1. \A d \in Clients : op'[d].pc = "idle" \/ (Keeper(op'[d], op[d]) /\ op[d].pc # "idle")
    <3> TAKE d \in Clients
    <3>1. CASE d = c
      BY <1>1, <1>2, <3>1, KeeperRules
    <3>2. CASE d # c
      <4>1. op'[d] = op[d]
        BY <1>1, <3>2
      <4>2. QED
        BY <4>1, KeeperRules
    <3>3. QED
      BY <3>1, <3>2
  <2>2. QED
    BY <1>2, <1>5, <2>1, CreatorsApart
<1>6. QED
  <2>1. {c} \in SUBSET Clients /\ \A x \in {c} : ~misbased' => ClientOK(x)'
    BY <1>4
  <2>2. \A d \in Clients \ {c} : Keeps(d)
    BY <1>1
  <2>3. UNCHANGED <<stale, loose, emptied, outdated>> /\ (~misbased' => ~misbased)
    BY <1>2
  <2>4. used \subseteq used'
    BY <1>2
  <2>5. QED
    BY <1>1, <1>5, <2>1, <2>2, <2>3, <2>4, QuietContent

(* What a client stages is what its branch carries.                        *)
LEMMA StageContent ==
    ASSUME GraphInv, ContentInv, NEW c \in Clients, NEW q \in MergeOps, StageStep(c, q)
    PROVE  ContentInv'
<1>1. /\ Quiet(repo, repo') /\ op'[c] = q
      /\ \A d \in Clients \ {c} : Keeps(d) /\ op'[d] = op[d]
      /\ AtCommit(repo', repo'.head[c]) = Staged(Now, q)
      /\ AtCommit(repo', q.fork) = Now
      /\ AtCommit(repo', q.read) = AtCommit(repo, op[c].read)
  BY StageFrame
<1>2. /\ UNCHANGED <<stale, loose, emptied, outdated, misbased, used>>
      /\ op[c].pc = "check" /\ op[c].todo = {} /\ SameRequest(q, op[c]) /\ q.resolved = {}
      /\ q.pc = "merge"
  BY DEF StageStep, Passed, MergeOps, history
<1> DEFINE R == AtCommit(repo, op[c].read)
<1>3. ASSUME ~misbased' PROVE ClientOK(c)'
  <2>1. /\ MainOK(Now, used, stale, loose, emptied, outdated)
        /\ ClientOK(c)
    BY <1>2, <1>3 DEF ContentInv
  <2>2. Now' = Now
    BY <1>1 DEF Quiet, Now, MainHead, GetBranchHead, MainObjects
  <2>3. Behind(op[c], R, Now, used, stale, outdated)
    BY <1>2, <2>1 DEF ClientOK
  <2> HIDE DEF R
  <2>4. Behind(q, R, Now, used, stale, outdated)
    BY <1>2, <2>3 DEF Behind, SameRequest
  <2>a. q.kind # "delete" => Points(References(q.artifact), Now)
    <3> HAVE q.kind # "delete"
    <3>1. Validated(op[c], Seen(repo, op[c]))
      BY <1>2, Checking DEF SearchOK, SameRequest
    <3>2. \A o \in Seen(repo, op[c]) : Older(o, Now)
      BY <1>2, <2>1 DEF ClientOK, SeenGood
    <3>3. ASSUME NEW z \in References(q.artifact)
          PROVE  Exists(Now, z[2]) /\ ReadStoredArtifact(Now, z[2]).type = To[z[1]]
      <4>1. PICK o \in Seen(repo, op[c]) : ValidateSingleReference(o, z[1], z[2])
        BY <1>2, <3>1, <3>3 DEF Validated, SameRequest
      <4>2. z[2] \in Ids
        BY DEF References
      <4>3. QED
        BY <3>2, <4>1, <4>2 DEF ValidateSingleReference, Live, Older
    <3>4. QED
      BY <3>3 DEF Points
  <2>5. Forked(q, R, Now, Staged(Now, q), Now, stale, outdated)
    BY <1>2, <2>1, <2>3, <2>a, OlderSelf DEF Forked, MainOK, Behind, Carries
  <2>6. QED
    BY <1>1, <1>2, <2>2, <2>4, <2>5 DEF ClientOK, R
<1>4. ASSUME ~misbased'
      PROVE  \A d, e \in Clients :
                Creates(op'[d]) /\ Creates(op'[e]) /\ op'[d].id = op'[e].id => d = e
  <2>1. \A d \in Clients : op'[d].pc = "idle" \/ (Keeper(op'[d], op[d]) /\ op[d].pc # "idle")
    <3> TAKE d \in Clients
    <3>1. CASE d = c
      BY <1>1, <1>2, <3>1, KeeperRules
    <3>2. CASE d # c
      <4>1. op'[d] = op[d]
        BY <1>1, <3>2
      <4>2. QED
        BY <4>1, KeeperRules
    <3>3. QED
      BY <3>1, <3>2
  <2>2. QED
    BY <1>2, <1>4, <2>1, CreatorsApart
<1>5. QED
  <2>1. {c} \in SUBSET Clients /\ \A x \in {c} : ~misbased' => ClientOK(x)'
    BY <1>3
  <2>2. \A d \in Clients \ {c} : Keeps(d)
    BY <1>1
  <2>3. UNCHANGED <<stale, loose, emptied, outdated>> /\ (~misbased' => ~misbased)
    BY <1>2
  <2>4. used \subseteq used'
    BY <1>2
  <2>5. QED
    BY <1>1, <1>4, <2>1, <2>2, <2>3, <2>4, QuietContent

(* (The resolver leaves the rows of the branch's own changes.)             *)
LEMMA ResolvedCarries ==
    ASSUME NEW f, NEW s, NEW t, NEW x, NEW res, NEW conflicts,
           Carries(f, s, t, res), conflicts \subseteq IndexPaths, res \subseteq IndexPaths,
           \A p \in ObjectPaths \ conflicts : x[p] = s[p],
           \A p \in conflicts : ResolvedRow(f, s, p, x[p])
    PROVE  Carries(f, x, t, res \cup conflicts)
<1>1. \A p \in IndexPaths \ (res \cup conflicts) : x[p] = t[p]
  BY PathsApart DEF Carries
<1>2. ASSUME NEW p \in res \cup conflicts, NEW a \in Ids, HasRow(t, a, p) # HasRow(f, a, p)
      PROVE  HasRow(x, a, p) = HasRow(t, a, p)
  <2>1. HasRow(s, a, p) = HasRow(t, a, p)
    <3>1. CASE p \in res
      BY <1>2, <3>1 DEF Carries
    <3>2. CASE p \notin res
      <4>1. s[p] = t[p]
        BY <3>2 DEF Carries
      <4>2. QED
        BY <4>1 DEF HasRow
    <3>3. QED
      BY <3>1, <3>2
  <2>2. CASE p \in conflicts
    BY <1>2, <2>1, <2>2 DEF ResolvedRow, HasRow
  <2>3. CASE p \notin conflicts
    <3>1. x[p] = s[p]
      BY <2>3, PathsApart
    <3>2. QED
      BY <2>1, <3>1 DEF HasRow
  <2>4. QED
    BY <2>2, <2>3
<1>3. QED
  BY <1>1, <1>2 DEF Carries

LEMMA ResolveContent ==
    ASSUME GraphInv, ContentInv, NEW c \in Clients, NEW q \in MergeOps, NEW conflicts, NEW x,
           ResolveStep(c, q, conflicts, x)
    PROVE  ContentInv'
<1>1. /\ Quiet(repo, repo') /\ op'[c] = q
      /\ \A d \in Clients \ {c} : Keeps(d) /\ op'[d] = op[d]
      /\ AtCommit(repo', repo'.head[c]) = x
      /\ AtCommit(repo', q.fork) = AtCommit(repo, op[c].fork)
      /\ AtCommit(repo', q.read) = AtCommit(repo, op[c].read)
  BY ResolveFrame
<1>2. /\ UNCHANGED <<stale, loose, emptied, outdated, used>>
      /\ misbased' = (misbased \/ TakesOtherBase(c))
      /\ op[c].pc = "merge" /\ SameRequest(q, op[c])
  BY DEF ResolveStep
<1> DEFINE R == AtCommit(repo, op[c].read)
           f == AtCommit(repo, op[c].fork)
           s == AtCommit(repo, repo.head[c])
<1>3. ASSUME ~misbased' PROVE ClientOK(c)'
  <2>1. ClientOK(c)
    BY <1>2, <1>3 DEF ContentInv
  <2>2. Now' = Now
    BY <1>1 DEF Quiet, Now, MainHead, GetBranchHead, MainObjects
  <2>3. /\ Behind(op[c], R, Now, used, stale, outdated)
        /\ Forked(op[c], R, f, s, Now, stale, outdated)
    BY <1>2, <2>1 DEF ClientOK
  <2>4. MergeBase(repo, c, Main) = op[c].fork
    BY <1>2, <1>3 DEF TakesOtherBase
  <2>5. /\ conflicts \subseteq IndexPaths /\ q.resolved = op[c].resolved \cup conflicts
        /\ \A p \in ObjectPaths \ conflicts : x[p] = s[p]
        /\ \A p \in conflicts : ResolvedRow(f, s, p, x[p])
    BY <2>4 DEF ResolveStep
  <2>6. op[c].resolved \subseteq IndexPaths
    <3>1. op[c] \in MergeOps
      BY <1>2, OpShape DEF GraphInv
    <3>2. QED
      BY <3>1 DEF MergeOps
  <2>7. Staged(f, op[c]) = Staged(f, q)
    BY <1>2, SameRequestStaged
  <2> HIDE DEF R, f, s
  <2>8. Carries(f, x, Staged(f, q), q.resolved)
    <3>1. Carries(f, s, Staged(f, op[c]), op[c].resolved)
      BY <2>3 DEF Forked
    <3>2. Carries(f, x, Staged(f, op[c]), op[c].resolved \cup conflicts)
      BY <2>5, <2>6, <3>1, ResolvedCarries
    <3>3. QED
      BY <2>5, <2>7, <3>2
  <2>9. /\ Behind(q, R, Now, used, stale, outdated)
        /\ Forked(q, R, f, x, Now, stale, outdated)
    BY <1>2, <2>3, <2>8 DEF Behind, Forked, SameRequest
  <2>10. QED
    <3>1. q.pc = "merge"
      BY DEF MergeOps
    <3>2. R = AtCommit(repo', q.read) /\ f = AtCommit(repo', q.fork)
      BY <1>1 DEF R, f
    <3>3. Behind(q, AtCommit(repo', q.read), Now', used', stale', outdated')
      BY <1>2, <2>2, <2>9, <3>2
    <3>4. Forked(q, AtCommit(repo', q.read), AtCommit(repo', q.fork),
                 AtCommit(repo', repo'.head[c]), Now', stale', outdated')
      BY <1>1, <1>2, <2>2, <2>9, <3>2
    <3>5. QED
      BY <1>1, <3>1, <3>3, <3>4 DEF ClientOK
<1>4. ASSUME ~misbased'
      PROVE  \A d, e \in Clients :
                Creates(op'[d]) /\ Creates(op'[e]) /\ op'[d].id = op'[e].id => d = e
  <2>1. \A d \in Clients : op'[d].pc = "idle" \/ (Keeper(op'[d], op[d]) /\ op[d].pc # "idle")
    <3> TAKE d \in Clients
    <3>1. CASE d = c
      BY <1>1, <1>2, <3>1, KeeperRules
    <3>2. CASE d # c
      <4>1. op'[d] = op[d]
        BY <1>1, <3>2
      <4>2. QED
        BY <4>1, KeeperRules
    <3>3. QED
      BY <3>1, <3>2
  <2>2. QED
    BY <1>2, <1>4, <2>1, CreatorsApart
<1>5. QED
  <2>1. {c} \in SUBSET Clients /\ \A y \in {c} : ~misbased' => ClientOK(y)'
    BY <1>3
  <2>2. \A d \in Clients \ {c} : Keeps(d)
    BY <1>1
  <2>3. UNCHANGED <<stale, loose, emptied, outdated>> /\ (~misbased' => ~misbased)
    BY <1>2
  <2>4. used \subseteq used'
    BY <1>2
  <2>5. QED
    BY <1>1, <1>4, <2>1, <2>2, <2>3, <2>4, QuietContent

(* (The steps that only stop requests.)                                    *)
LEMMA StopsContent ==
    ASSUME GraphInv, ContentInv, Quiet(repo, repo'), UNCHANGED <<used, history>>,
           \A d \in Clients : Keeps(d) /\ op'[d] \in {Idle, op[d]}
    PROVE  ContentInv'
<1>1. UNCHANGED <<stale, loose, emptied, outdated, misbased>> /\ used \subseteq used'
  BY DEF history
<1>2. ASSUME ~misbased'
      PROVE  \A d, e \in Clients :
                Creates(op'[d]) /\ Creates(op'[e]) /\ op'[d].id = op'[e].id => d = e
  <2>1. \A d \in Clients : op'[d].pc = "idle" \/ (Keeper(op'[d], op[d]) /\ op[d].pc # "idle")
    <3> TAKE d \in Clients
    <3>1. CASE op'[d] = Idle
      BY <3>1 DEF Idle
    <3>2. CASE op'[d] = op[d]
      BY <3>2, KeeperRules
    <3>3. QED
      BY <3>1, <3>2
  <2>2. QED
    BY <1>1, <1>2, <2>1, CreatorsApart
<1>3. {} \in SUBSET Clients /\ (\A c \in {} : ~misbased' => ClientOK(c)')
  OBVIOUS
<1>4. \A d \in Clients \ {} : Keeps(d)
  OBVIOUS
<1>5. UNCHANGED <<stale, loose, emptied, outdated>> /\ (~misbased' => ~misbased)
  BY <1>1
<1>6. QED
  BY <1>1, <1>2, <1>3, <1>4, <1>5, QuietContent

-----------------------------------------------------------------------------
(* A merge with the fork for its base: request q, checked against R,       *)
(* staged on f, with s on its branch, leaves m where n was.                *)
Merging(q, R, f, s, n, m) ==
    /\ CheckedAt(q, R) /\ ObjectsOK(R) /\ ObjectsOK(f) /\ ObjectsOK(n) /\ ObjectsOK(m)
    /\ SameArtifacts(s, Staged(f, q)) /\ Merges(f, s, n, m)

LEMMA MergingOutcome ==
    ASSUME NEW q, NEW R, NEW f, NEW s, NEW n, NEW m, Merging(q, R, f, s, n, m)
    PROVE  Outcome(n, m, q) /\ (SameArtifacts(n, f) => SameArtifacts(m, Staged(f, q)))
<1>1. RequestOK(q) /\ ObjectsOK(f) /\ SameArtifacts(s, Staged(f, q)) /\ Merges(f, s, n, m)
  BY DEF Merging, CheckedAt
<1>2. QED
  BY <1>1, MergeOutcome

LEMMA MergingOlder ==
    ASSUME NEW q, NEW R, NEW f, NEW s, NEW n, NEW m, Merging(q, R, f, s, n, m),
           NEW us, NEW st, NEW out, Behind(q, R, n, us, st, out), RefsTyped(n),
           Forked(q, R, f, s, n, st, out)
    PROVE  /\ Older(n, m) /\ RefsTyped(m)
           /\ \A b \in Ids : Exists(m, b) => Exists(n, b) \/ (q.kind = "create" /\ b = q.id)
<1>1. /\ Outcome(n, m, q) /\ ObjectsOK(R) /\ CheckedAt(q, R) /\ ObjectsOK(m)
      /\ Older(R, n) /\ (q.kind = "create" => ~Exists(n, q.id))
  BY MergingOutcome DEF Merging, Behind
<1>2. /\ Older(n, m)
      /\ \A b \in Ids : Exists(m, b) => Exists(n, b) \/ (q.kind = "create" /\ b = q.id)
  BY <1>1, OutcomeOlder
<1>3. RefsTyped(m)
  <2>1. q.kind # "delete" => Points(References(q.artifact), n)
    BY DEF Forked, Points, Older, References
  <2>2. RequestOK(q)
    BY <1>1 DEF CheckedAt
  <2>3. QED
    BY <1>1, <1>2, <2>1, <2>2, OutcomeTyped
<1>4. QED
  BY <1>2, <1>3

(* Rows and artifacts end up together: the rows of the request's artifact  *)
(* are those of the artifact on its fork, unless it was deleted as it was  *)
(* before the fork (stale); a row that went through the resolver is the    *)
(* one of the canonical branch, unless the result replaces it (outdated).  *)
LEMMA MergingCovers ==
    ASSUME NEW q, NEW R, NEW f, NEW s, NEW n, NEW m, Merging(q, R, f, s, n, m),
           NEW us, NEW st, NEW out, Behind(q, R, n, us, st, out),
           Forked(q, R, f, s, n, st, out), CoversBut(n, st, out),
           NEW st1, st \subseteq st1, NEW out1, out \subseteq out1,
           {p \in q.resolved : m[p] # n[p]} \subseteq out1,
           q.kind = "delete" => R = f \/ q.id \in st1
    PROVE  CoversBut(m, st1, out1)
<1> SUFFICES ASSUME NEW a \in Ids \ st1, NEW p \in IndexPaths \ out1
             PROVE  Covers(m, a, p)
  BY DEF CoversBut
<1> DEFINE t == Staged(f, q)
<1>1. /\ CheckedAt(q, R) /\ RequestOK(q) /\ ObjectsOK(f) /\ Merges(f, s, n, m)
      /\ SameArtifacts(s, t) /\ Carries(f, s, t, q.resolved)
      /\ Older(R, f) /\ Older(f, n)
  BY DEF Merging, Forked, CheckedAt
<1>2. Covers(f, a, p) /\ Covers(n, a, p)
  BY DEF Forked, CoversBut
<1>3. a = q.id => Fits(f, q)
  <2> HAVE a = q.id
  <2>1. q.id \in Ids /\ q.kind \in Kinds
    BY <1>1 DEF RequestOK
  <2>2. q.kind = "create" => ~Exists(f, q.id)
    BY <1>1, <2>1 DEF Behind, Older
  <2>3. q.kind = "update" => Exists(f, q.id)
    BY <1>1, <2>1 DEF CheckedAt, Older, Live
  <2>4. q.kind = "delete" => ReadStoredArtifact(f, q.id) = q.artifact
    BY <1>1 DEF CheckedAt
  <2>5. QED
    BY <2>2, <2>3, <2>4 DEF Fits
<1>4. Covers(t, a, p)
  <2>1. a \in Ids /\ p \in IndexPaths
    OBVIOUS
  <2>2. \A b \in Ids, x \in IndexPaths :
            Covers(f, b, x) /\ (b = q.id => Fits(f, q)) => Covers(t, b, x)
    BY <1>1, StagedShape
  <2>3. QED
    BY <1>2, <1>3, <2>1, <2>2
<1>5. ReadStoredArtifact(s, a) = ReadStoredArtifact(t, a)
  BY <1>1 DEF SameArtifacts
<1>6. \/ s[p] = t[p]
      \/ /\ m[p] = n[p]
         /\ HasRow(t, a, p) # HasRow(f, a, p) => HasRow(s, a, p) = HasRow(t, a, p)
  <2> HIDE DEF t
  <2>1. CASE p \in q.resolved
    BY <1>1, <2>1 DEF Carries
  <2>2. CASE p \notin q.resolved
    BY <1>1, <2>2 DEF Carries
  <2>3. QED
    BY <2>1, <2>2
<1> HIDE DEF t
<1>7. a \in Ids /\ p \in IndexPaths
  OBVIOUS
<1>8. QED
  BY <1>1, <1>2, <1>4, <1>5, <1>6, <1>7, MergeCovers

(* References hold: those a write brings in were checked, or are loose;    *)
(* those onto what a delete takes were found by it, or what it takes is    *)
(* loose.                                                                  *)
LEMMA MergingRefs ==
    ASSUME NEW q, NEW R, NEW f, NEW s, NEW n, NEW m, Merging(q, R, f, s, n, m),
           RefsTyped(n), NEW st, NEW lo, NEW em, NEW out,
           CoversBut(n, st, out), RefsHold(n, st, lo, em, out),
           NEW lo1, lo \subseteq lo1, NEW em1, em \subseteq em1,
           {b \in Nulled(q.effects) : Tombstoned(m, b)} \subseteq em1,
           \/ R = n /\ f = n /\ Fresh(q, n) /\ (q.kind = "delete" => q.informed)
           \/ Concerned(q) \subseteq lo1
    PROVE  RefsHold(m, st, lo1, em1, out)
<1>1. /\ CheckedAt(q, R) /\ q.artifact \in StoredArtifacts /\ Outcome(n, m, q)
      /\ ObjectsOK(n) /\ ObjectsOK(m) /\ ObjectsOK(f)
  BY MergingOutcome DEF Merging, CheckedAt, RequestOK
<1>2. CASE q.kind # "delete"
  <2>1. Fresh(q, n) \/ UNION {q.artifact.refs[g] : g \in Fields} \subseteq lo1
    BY <1>2 DEF Concerned
  <2>2. RefsHold(m, st, lo1, em, out)
    BY <1>1, <1>2, <2>1, WriteRefs
  <2>3. QED
    BY <2>2, ExcusedGrows DEF RefsHold
<1>3. CASE q.kind = "delete" /\ Concerned(q) \subseteq lo1
  <2>1. lo \cup {q.id} \cup q.effects.cascades \subseteq lo1
    BY <1>3 DEF Concerned
  <2>2. em \cup {b \in Nulled(q.effects) : Tombstoned(m, b)} \subseteq em1
    OBVIOUS
  <2>3. QED
    BY <1>1, <1>3, <2>1, <2>2, LooseRefs
<1>4. CASE q.kind = "delete" /\ R = n /\ f = n /\ Fresh(q, n) /\ q.informed
  <2>1. CheckedAt(q, n)
    BY <1>1, <1>4
  <2>2. SameArtifacts(m, Staged(n, q))
    <3>1. SameArtifacts(n, f)
      BY <1>4 DEF SameArtifacts
    <3>2. QED
      BY <1>4, <3>1, MergingOutcome
  <2>3. \A a \in Ids \ st, p \in IndexPaths \ out : Covers(n, a, p)
    BY DEF CoversBut
  <2>4. em \cup {b \in Nulled(q.effects) : Tombstoned(m, b)} \subseteq em1
    OBVIOUS
  <2>5. RefsHold(m, st, lo, em1, out)
    BY <1>1, <1>4, <2>1, <2>2, <2>3, <2>4, TightRefs
  <2>6. QED
    BY <2>5, ExcusedGrows DEF RefsHold
<1>5. QED
  BY <1>2, <1>3, <1>4

(* What the state says about a request that is merged.                     *)
LEMMA MergedIsMerging ==
    ASSUME GraphInv, ContentInv, NEW c \in Clients, NEW m, MergedStep(c, m), ~misbased',
           NEW q, q = op[c], NEW R, R = AtCommit(repo, q.read), NEW f, f = AtCommit(repo, q.fork),
           NEW s, s = AtCommit(repo, repo.head[c])
    PROVE  /\ ~misbased /\ Merging(q, R, f, s, Now, m)
           /\ Behind(q, R, Now, used, stale, outdated)
           /\ Forked(q, R, f, s, Now, stale, outdated)
           /\ q.pc = "merge" /\ q \in MergeOps
           /\ q.read = q.fork => R = f
           /\ q.read = MainHead => R = Now /\ f = Now /\ Fresh(q, Now)
<1>1. ~misbased /\ ~TakesOtherBase(c) /\ q.pc = "merge" /\ ObjectsOK(m)
  BY DEF MergedStep
<1>2. /\ ReadOK(repo, q) /\ BranchOK(repo, c, q) /\ StoreOK(repo)
  BY <1>1 DEF GraphInv, RequestsOK
<1>3. q \in MergeOps
  BY <1>1, OpShape DEF GraphInv
<1>4. ClientOK(c)
  BY <1>1 DEF ContentInv
<1>5. /\ Behind(q, R, Now, used, stale, outdated)
      /\ Forked(q, R, f, s, Now, stale, outdated)
  BY <1>1, <1>4 DEF ClientOK
<1>6. Merges(f, s, Now, m)
  BY <1>1 DEF MergedStep, TakesOtherBase
<1>7. ObjectsOK(R) /\ ObjectsOK(f) /\ ObjectsOK(Now)
  BY <1>2, HeadShape, NowIs DEF StoreOK, ReadOK, BranchOK
<1>8. CheckedAt(q, R) /\ SameArtifacts(s, Staged(f, q))
  BY <1>2 DEF ReadOK, BranchOK
<1>9. q.read = MainHead => R = Now /\ f = Now /\ Fresh(q, Now)
  <2>1. q.read <= q.fork /\ q.fork <= MainHead /\ q.read \in Nat /\ q.fork \in Nat
    BY <1>2, <1>3, NowIs DEF BranchOK, MergeOps
  <2>2. MainHead \in Nat
    BY <1>2, HeadShape, NowIs
  <2>3. q.read = MainHead => q.fork = MainHead
    BY <2>1, <2>2
  <2>4. q.read = MainHead => Fresh(q, AtCommit(repo, q.read))
    BY <1>1, <1>2, NowIs DEF ReadOK
  <2>5. QED
    BY <2>3, <2>4 DEF Now
<1>10. QED
  BY <1>1, <1>3, <1>5, <1>6, <1>7, <1>8, <1>9 DEF Merging

LEMMA MergedContent ==
    ASSUME GraphInv, ContentInv, NEW c \in Clients, NEW m, MergedStep(c, m)
    PROVE  ContentInv'
<1> SUFFICES ASSUME ~misbased'
             PROVE  /\ MainOK(Now', used', stale', loose', emptied', outdated')
                    /\ \A d \in Clients : ClientOK(d)'
                    /\ \A d, e \in Clients :
                        Creates(op'[d]) /\ Creates(op'[e]) /\ op'[d].id = op'[e].id => d = e
  BY DEF ContentInv
<1> DEFINE q == op[c]
           R == AtCommit(repo, q.read)
           f == AtCommit(repo, q.fork)
           s == AtCommit(repo, repo.head[c])
           n == Now
<1>1. /\ ~misbased /\ Merging(q, R, f, s, n, m)
      /\ Behind(q, R, n, used, stale, outdated)
      /\ Forked(q, R, f, s, n, stale, outdated)
      /\ q.pc = "merge" /\ q \in MergeOps
      /\ q.read = q.fork => R = f
      /\ q.read = MainHead => R = n /\ f = n /\ Fresh(q, n)
  BY MergedIsMerging
<1>2. /\ MainOK(n, used, stale, loose, emptied, outdated)
      /\ \A d \in Clients : ClientOK(d)
      /\ \A d, e \in Clients :
            Creates(op[d]) /\ Creates(op[e]) /\ op[d].id = op[e].id => d = e
  BY <1>1 DEF ContentInv
<1>3. /\ Later(repo, repo') /\ Now' = m /\ op'[c] = Idle
      /\ \A d \in Clients \ {c} : Keeps(d) /\ op'[d] = op[d]
  BY MergedFrame DEF Now, MainHead, GetBranchHead, MainObjects
<1>4. /\ used' = used
      /\ stale' = IF q.kind = "delete" /\ q.read # q.fork THEN stale \cup {q.id} ELSE stale
      /\ loose' = IF q.read # MainHead \/ (q.kind = "delete" /\ ~q.informed)
                  THEN loose \cup Concerned(q) ELSE loose
      /\ emptied' = emptied \cup {b \in {z[1] : z \in q.effects.nulls} : Tombstoned(m, b)}
      /\ outdated' = outdated \cup {p \in q.resolved : m[p] # n[p]}
  BY DEF MergedStep
<1> HIDE DEF q, R, f, s, n
<1>5. /\ stale \subseteq stale' /\ loose \subseteq loose' /\ emptied \subseteq emptied'
      /\ outdated \subseteq outdated' /\ {p \in q.resolved : m[p] # n[p]} \subseteq outdated'
      /\ {b \in Nulled(q.effects) : Tombstoned(m, b)} \subseteq emptied'
  BY <1>4 DEF Nulled
<1>6. RefsTyped(n) /\ CoversBut(n, stale, outdated)
      /\ RefsHold(n, stale, loose, emptied, outdated)
  BY <1>2 DEF MainOK
<1>7. /\ Older(n, m) /\ RefsTyped(m)
      /\ \A b \in Ids : Exists(m, b) => Exists(n, b) \/ (q.kind = "create" /\ b = q.id)
  BY <1>1, <1>6, MergingOlder
<1>8. CoversBut(m, stale', outdated')
  <2>1. q.kind = "delete" => R = f \/ q.id \in stale'
    BY <1>1, <1>4
  <2>2. QED
    <3>1. Merging(q, R, f, s, n, m) /\ Behind(q, R, n, used, stale, outdated)
          /\ Forked(q, R, f, s, n, stale, outdated) /\ CoversBut(n, stale, outdated)
      BY <1>1, <1>6
    <3>2. /\ stale \subseteq stale' /\ outdated \subseteq outdated'
          /\ {p \in q.resolved : m[p] # n[p]} \subseteq outdated'
      BY <1>5
    <3>3. QED
      BY <2>1, <3>1, <3>2, MergingCovers
<1>9. RefsHold(m, stale', loose', emptied', outdated')
  <2>1. \/ R = n /\ f = n /\ Fresh(q, n) /\ (q.kind = "delete" => q.informed)
        \/ Concerned(q) \subseteq loose'
    BY <1>1, <1>4
  <2>2. RefsHold(m, stale, loose', emptied', outdated)
    BY <1>1, <1>5, <1>6, <2>1, MergingRefs
  <2>3. QED
    BY <1>5, <2>2, ExcusedGrows DEF RefsHold
<1>10. \A a \in Ids : Exists(m, a) => a \in used'
  BY <1>1, <1>2, <1>4, <1>7 DEF MainOK, Behind
<1>11. MainOK(Now', used', stale', loose', emptied', outdated')
  BY <1>3, <1>7, <1>8, <1>9, <1>10 DEF MainOK
<1>12. ASSUME NEW d \in Clients PROVE ClientOK(d)'
  <2>1. CASE d = c
    BY <1>3, <2>1 DEF ClientOK, Idle
  <2>2. CASE d # c
    <3>1. ASSUME Creates(op[d]) PROVE ~Exists(m, op[d].id)
      <4>1. op[d].id \in Ids
        <5>1. op[d].pc # "idle"
          BY <3>1 DEF Creates
        <5>2. op[d] \in CheckOps \/ op[d] \in MergeOps
          BY <5>1, OpShape DEF GraphInv
        <5>3. QED
          BY <5>2 DEF CheckOps, MergeOps
      <4>2. ~Exists(n, op[d].id)
        BY <1>2, <3>1 DEF ClientOK, Creates, Behind, n
      <4>3. ~(q.kind = "create" /\ op[d].id = q.id)
        BY <1>1, <1>2, <2>2, <3>1 DEF Creates, q
      <4>4. QED
        BY <1>7, <4>1, <4>2, <4>3
    <3>2. Older(Now, Now') /\ Keeps(d) /\ ClientOK(d)
      BY <1>2, <1>3, <1>7, <2>2 DEF n
    <3>3. QED
      BY <1>3, <1>4, <1>5, <3>1, <3>2, OthersKeep
  <2>3. QED
    BY <2>1, <2>2
<1>13. \A d, e \in Clients :
          Creates(op'[d]) /\ Creates(op'[e]) /\ op'[d].id = op'[e].id => d = e
  <2>1. \A d \in Clients : Creates(op'[d]) => op'[d] = op[d]
    BY <1>3 DEF Creates, Idle
  <2>2. QED
    BY <1>2, <2>1
<1>14. QED
  BY <1>11, <1>12, <1>13

LEMMA ContentStep ==
    ASSUME GraphInv, ContentInv, [Next]_vars
    PROVE  ContentInv'
<1>1. ASSUME NEW c \in Clients, GiveUpStep(c) PROVE ContentInv'
  <2>1. /\ Quiet(repo, repo') /\ op'[c] = Idle
        /\ \A d \in Clients \ {c} : Keeps(d) /\ op'[d] = op[d]
    BY <1>1, GiveUpFrame
  <2>2. \A d \in Clients : Keeps(d) /\ op'[d] \in {Idle, op[d]}
    BY <2>1 DEF Keeps
  <2>3. UNCHANGED <<used, history>>
    BY <1>1 DEF GiveUpStep
  <2>4. QED
    BY <2>1, <2>2, <2>3, StopsContent
<1>2. ASSUME NEW its, RestartStep(its) PROVE ContentInv'
  <2>1. UNCHANGED <<used, history>>
    BY <1>2 DEF RestartStep
  <2>2. QED
    BY <1>2, <2>1, RestartFrame, StopsContent
<1>3. ASSUME LearnStep PROVE ContentInv'
  <2>1. UNCHANGED <<used, history>>
    BY <1>3 DEF LearnStep
  <2>2. \A d \in Clients : Keeps(d) /\ op'[d] \in {Idle, op[d]}
    BY <1>3, LearnFrame
  <2>3. QED
    BY <1>3, <2>1, <2>2, LearnFrame, StopsContent
<1>4. QED
  BY <1>1, <1>2, <1>3, NextSteps, CheckContent, ProceedContent, StageContent, MergedContent, ResolveContent

LEMMA InitContent == ASSUME Init PROVE ContentInv
<1>1. /\ RefsTyped(Now) /\ \A a \in Ids, p \in IndexPaths : Covers(Now, a, p)
      /\ used = {a \in Ids : Exists(Now, a)}
      /\ \A a, x \in Ids, f \in Fields : RefersTo(Now, a, f, x) => Live(Now, x)
  BY InitObjects
<1>2. MainOK(Now, used, stale, loose, emptied, outdated)
  BY <1>1 DEF MainOK, CoversBut, RefsHold
<1>3. \A c \in Clients : op[c].pc = "idle"
  BY DEF Init, Idle
<1>4. \A c \in Clients : ClientOK(c) /\ ~Creates(op[c])
  BY <1>3 DEF ClientOK, Creates
<1>5. QED
  BY <1>2, <1>4 DEF ContentInv

LEMMA ContentAlways == Spec => [](GraphInv /\ ContentInv)
<1>1. Init => GraphInv /\ ContentInv
  BY InitGraph, InitContent
<1>2. GraphInv /\ ContentInv /\ [Next]_vars => (GraphInv /\ ContentInv)'
  BY GraphStep, ContentStep
<1>3. QED
  BY <1>1, <1>2, PTL DEF Spec

-----------------------------------------------------------------------------
(* The theorems.                                                           *)

(* What the store, the requests of the clients and the history are at any  *)
(* time: MemoryStorage's branches and commits, and the arguments, checks   *)
(* and side effects RunImplicitTransaction() carries from one step to the  *)
(* next.                                                                   *)
THEOREM RequestsAreTyped == Spec => []TypeOK
<1>1. GraphInv => TypeOK
  BY DEF GraphInv
<1>2. QED
  BY <1>1, GraphAlways, PTL

(* No live artifact refers to one that is deleted (ValidateReferences()    *)
(* and EnforceDeleteIntegrity()), but for the excuses that are listed.     *)
THEOREM ReferencesAreKept == Spec => []ReferencesHold
<1>1. ASSUME ContentInv PROVE ReferencesHold
  <2> SUFFICES ASSUME NEW a \in Ids, NEW x \in Ids, NEW f \in Fields, Dangling(a, f, x),
                      ~misbased
               PROVE  \/ a \in stale
                      \/ x \in loose \cup emptied \/ <<f, x>> \in outdated
                      \/ OnDelete[f] = "SET_NULL" /\ f \in Nested
    BY DEF ReferencesHold
  <2>1. RefsHold(Now, stale, loose, emptied, outdated)
    BY <1>1 DEF ContentInv, MainOK
  <2>2. RefersTo(Now, a, f, x) /\ ~Live(Now, x)
    BY DEF Dangling, RefersTo
  <2>3. QED
    BY <2>1, <2>2 DEF RefsHold, Excused
<1>2. QED
  BY <1>1, ContentAlways, PTL

(* The covering indexes show exactly the references there are, whatever    *)
(* Merge() and ResolveConflicts() combine, but for stale and outdated.     *)
THEOREM IndexesAreKept == Spec => []IndexCovers
<1>1. ASSUME ContentInv PROVE IndexCovers
  <2> SUFFICES ASSUME ~misbased, NEW a \in Ids \ stale, NEW p \in IndexPaths \ outdated
               PROVE  a \in DOMAIN Rows(Now[p]) <=>
                        /\ Exists(Now, a)
                        /\ p \in DeriveIndexEntries(ReadStoredArtifact(Now, a))
    BY DEF IndexCovers
  <2>1. Covers(Now, a, p)
    BY <1>1 DEF ContentInv, MainOK, CoversBut
  <2>2. QED
    BY <2>1 DEF Covers, HasRow, Derives
<1>2. QED
  BY <1>1, ContentAlways, PTL

(* EnforceDeleteIntegrity(), which reads the moving branch in every call,  *)
(* goes through whatever depends on an artifact by CASCADE references that *)
(* are there at all of its reads, and through nothing that does not depend *)
(* on it by references that were there at one of them: chains, cycles,     *)
(* lists and diamonds of any length.                                       *)
THEOREM CascadesAreExact == Spec => []CascadesToAllDependents
<1>1. ASSUME GraphInv, ContentInv PROVE CascadesToAllDependents
  <2> SUFFICES ASSUME NEW c \in Clients, op[c].pc = "check", op[c].kind = "delete",
                      Passed(op[c]), op[c].informed, stale = {}, outdated = {}, ~misbased
               PROVE  /\ DependsOn(ReferencesThroughout(op[c].seen), op[c].id)
                            \subseteq {op[c].id} \cup op[c].effects.cascades
                      /\ {op[c].id} \cup op[c].effects.cascades
                            \subseteq DependsOn(ReferencesSometime(op[c].seen), op[c].id)
    BY DEF CascadesToAllDependents
  <2> DEFINE q == op[c]
             S == Seen(repo, q)
             T == ReferencesThroughout(q.seen)
             U == ReferencesSometime(q.seen)
             R == AtCommit(repo, q.read)
  <2>1. /\ q \in CheckOps /\ SearchOK(q, S) /\ q.stack = <<>>
    BY <1>1, Checking DEF Passed
  <2>2. ReadOK(repo, q) /\ StoreOK(repo)
    BY <1>1 DEF GraphInv, RequestsOK
  <2>3. CheckedAt(q, R) /\ R \in S /\ \A o \in S : ObjectsOK(o)
    BY <2>2 DEF ReadOK, SeenOK, Seen, StoreOK
  <2>4. \A o \in S : RefsTyped(o) /\ \A a \in Ids, p \in IndexPaths : Covers(o, a, p)
    <3>1. ClientOK(c)
      BY <1>1 DEF ContentInv
    <3>2. \A o \in S : RefsTyped(o) /\ CoversBut(o, stale, outdated)
      BY <3>1 DEF ClientOK, SeenGood
    <3>3. QED
      BY <3>2 DEF CoversBut
  <2>5. /\ \A e \in T : e \in Ids \X Ids /\ \E f \in Fields : \A o \in S : CascadeReference(o, e[1], f, e[2])
        /\ \A x, y \in Ids, f \in Fields, o \in S : CascadeReference(o, x, f, y) => <<x, y>> \in U
        /\ T \in SUBSET (Ids \X Ids) /\ U \in SUBSET (Ids \X Ids)
    BY DEF ReferencesThroughout, ReferencesSometime, Seen
  <2>6. /\ q.id \in Ids /\ Goes(q) \in SUBSET Ids /\ Goes(q) = {q.id} \cup q.effects.cascades
        /\ q.artifact = ReadStoredArtifact(R, q.id)
    BY <2>1, <2>3 DEF CheckOps, AllEffects, Goes, CheckedAt
  <2>7. Frames(q) = {} /\ Complete(q, Frames(q), S) /\ Justified(q, S)
    BY <2>1 DEF SearchOK, Frames, Members
  <2> HIDE DEF q, S, T, U, R
  <2>8. DependsOn(T, q.id) \subseteq Goes(q)
    <3> DEFINE Z == {q.id} \cup {y \in Goes(q) : \A o \in S : Live(o, y)}
    <3>1. ASSUME NEW e \in T, e[2] \in Z
          PROVE  e[1] \in Z
      <4> DEFINE b == e[1]
                 y == e[2]
      <4>1. PICK f \in Fields : \A o \in S : CascadeReference(o, b, f, y)
        BY <2>5
      <4>2. b \in Ids /\ y \in Ids /\ y \in Goes(q) /\ (y = q.id \/ \A o \in S : Live(o, y))
        BY <2>5, <2>6, <3>1
      <4> HIDE DEF b, y
      <4>3. ASSUME NEW o \in S
            PROVE  /\ Live(o, b) /\ OnDelete[f] = "CASCADE"
                   /\ HasRow(o, b, <<f, y>>) /\ ReadStoredArtifact(o, y).type = To[f]
        <5> DEFINE p == <<f, y>>
        <5>1. /\ Live(o, b) /\ OnDelete[f] = "CASCADE" /\ Exists(o, b)
              /\ y \in ReadStoredArtifact(o, b).refs[f]
          BY <4>1 DEF CascadeReference, Live
        <5>2. p \in IndexPaths /\ p \in DeriveIndexEntries(ReadStoredArtifact(o, b))
          BY <4>2, <5>1 DEF IndexPaths, DeriveIndexEntries
        <5>3. ReadStoredArtifact(o, y).type = To[f]
          BY <2>4, <4>2, <5>1 DEF RefsTyped
        <5> HIDE DEF p
        <5>4. HasRow(o, b, p)
          BY <2>4, <4>2, <5>1, <5>2 DEF Covers, Derives
        <5>5. QED
          BY <5>1, <5>3, <5>4 DEF p
      <4>4. Asks(q, S, y, f)
        BY <2>3, <2>6, <4>2, <4>3 DEF Asks
      <4>5. Effected(q, f, y, b)
        BY <2>7, <4>2, <4>3, <4>4 DEF Complete, Pending, Handled
      <4>6. b \in Goes(q)
        BY <2>3, <4>3, <4>5 DEF Effected
      <4>7. QED
        BY <4>3, <4>6 DEF b
    <3>2. Z \in SUBSET Ids /\ q.id \in Z /\ Referrers(T, Z) \subseteq Z
      BY <2>6, <3>1 DEF Referrers
    <3>3. Z \subseteq Goes(q)
      BY <2>6
    <3> HIDE DEF Z
    <3>4. QED
      BY <2>5, <2>6, <3>2, <3>3, DependsIsLeast
  <2>9. Goes(q) \subseteq DependsOn(U, q.id)
    <3> DEFINE Z == DependsOn(U, q.id)
    <3>1. Z \in SUBSET Ids /\ q.id \in Z /\ Referrers(U, Z) \subseteq Z
      BY <2>5, <2>6, DependsIsLeast
    <3> HIDE DEF Z
    <3>2. ASSUME NEW o \in S, NEW f \in Fields, NEW y \in Z, NEW b \in Ids,
                 OnDelete[f] = "CASCADE", HasRow(o, b, <<f, y>>)
          PROVE  b \in Z
      <4> DEFINE p == <<f, y>>
      <4>1. p \in IndexPaths /\ y \in Ids
        BY <3>1 DEF IndexPaths
      <4>2. Derives(o, b, p)
        BY <2>4, <3>2, <4>1 DEF Covers
      <4>3. Exists(o, b) /\ y \in ReadStoredArtifact(o, b).refs[f]
        BY <4>2 DEF Derives, DeriveIndexEntries
      <4>4. ReadStoredArtifact(o, b) \in StoredArtifacts
        BY <2>3, <4>3 DEF ObjectsOK, Exists
      <4>5. Live(o, b)
        BY <4>3, <4>4, ReferringIsLive DEF Live
      <4>6. <<b, y>> \in U
        BY <2>5, <3>2, <4>1, <4>3, <4>5 DEF CascadeReference
      <4>7. QED
        BY <3>1, <4>6 DEF Referrers
    <3>3. Closed(Z, S)
      BY <3>2 DEF Closed
    <3>4. QED
      BY <2>6, <2>7, <3>1, <3>3 DEF Justified, Z
  <2>10. QED
    BY <2>6, <2>8, <2>9 DEF q, T, U
<1>2. QED
  BY <1>1, ContentAlways, PTL

(* (Only a merge changes the canonical branch.)                            *)
LEMMA OnlyMergesChange ==
    ASSUME GraphInv, [Next]_vars, Now' # Now
    PROVE  \E c \in Clients : \E m : MergedStep(c, m) /\ Now' = m
<1>1. ASSUME Quiet(repo, repo') PROVE FALSE
  BY <1>1 DEF Quiet, Now, MainHead, GetBranchHead, MainObjects
<1>2. \A c \in Clients : \A m : MergedStep(c, m) => Now' = m
  BY MergedFrame DEF Now, MainHead, GetBranchHead, MainObjects
<1>3. QED
  BY <1>1, <1>2, NextSteps, CheckFrame, ProceedFrame, StageFrame, ResolveFrame, GiveUpFrame, RestartFrame,
     LearnFrame

(* A deleted artifact comes back only by an update that was checked before *)
(* the delete was merged, and forked after it: neither the cascades and    *)
(* SET_NULLs of deletes nor creations bring it back.                       *)
THEOREM DeletesLast == Spec => StaysDeleted
<1>1. ASSUME GraphInv, ContentInv, [Next]_vars, NEW a \in Ids,
             Tombstoned(Now, a), ~Tombstoned(Now, a)', ~misbased'
      PROVE  \E c \in Clients :
                /\ op[c].pc = "merge" /\ op[c].kind = "update" /\ op[c].id = a
                /\ op[c].read # op[c].fork
  <2>1. Now' # Now
    BY <1>1 DEF Tombstoned, Exists, ReadStoredArtifact
  <2>0. PICK c \in Clients : \E m : MergedStep(c, m) /\ Now' = m
    BY <1>1, <2>1, OnlyMergesChange
  <2>2. PICK m : MergedStep(c, m) /\ Now' = m
    BY <2>0
  <2> DEFINE q == op[c]
             R == AtCommit(repo, q.read)
             f == AtCommit(repo, q.fork)
             s == AtCommit(repo, repo.head[c])
             n == Now
  <2>3. /\ Merging(q, R, f, s, n, m) /\ Behind(q, R, n, used, stale, outdated)
        /\ q.pc = "merge" /\ (q.read = q.fork => R = f)
    BY <1>1, <2>2, MergedIsMerging
  <2>4. Tombstoned(n, a) /\ ~Tombstoned(m, a)
    BY <1>1, <2>2 DEF Tombstoned, Exists, ReadStoredArtifact
  <2> HIDE DEF q, R, f, s, n
  <2>5. Outcome(n, m, q) /\ CheckedAt(q, R) /\ RequestOK(q) /\ Merges(f, s, n, m)
    BY <2>3, MergingOutcome DEF Merging, CheckedAt
  <2>6. ReadStoredArtifact(m, a) # ReadStoredArtifact(n, a)
    BY <2>4 DEF Tombstoned, Exists
  <2>7. CASE q.kind # "delete" /\ a = q.id
    <3>1. q.kind = "update"
      BY <2>3, <2>4, <2>5, <2>7 DEF Behind, Tombstoned, RequestOK, Kinds
    <3>2. ASSUME q.read = q.fork PROVE FALSE
      <4>1. Live(f, a)
        BY <2>3, <2>5, <2>7, <3>1, <3>2 DEF CheckedAt
      <4>2. ReadStoredArtifact(n, a) = ReadStoredArtifact(f, a)
        BY <2>5, <2>6, PathsApart DEF Merges, ReadStoredArtifact
      <4>3. QED
        BY <2>4, <4>1, <4>2 DEF Live, Tombstoned
    <3>3. QED
      BY <2>3, <2>7, <3>1, <3>2 DEF q
  <2>8. CASE q.kind = "delete" /\ a = q.id /\ ReadStoredArtifact(m, a) = Tombstone(q.artifact)
    <3>1. /\ Tombstone(q.artifact) \in StoredArtifacts
          /\ EmptyPayload(Tombstone(q.artifact))
      BY <2>5, TombstoneShape DEF RequestOK
    <3>2. QED
      BY <2>4, <2>8, <3>1, StoredNotAbsent DEF Tombstoned, Exists
  <2>9. CASE Live(n, a)
    BY <2>4, <2>9 DEF Live, Tombstoned
  <2>10. QED
    BY <2>5, <2>6, <2>7, <2>8, <2>9 DEF Outcome
<1>2. GraphInv /\ ContentInv /\ [Next]_vars =>
        [\A a \in Ids :
            Tombstoned(Now, a) /\ ~Tombstoned(Now, a)' => misbased' \/
                \E c \in Clients :
                    /\ op[c].pc = "merge" /\ op[c].kind = "update" /\ op[c].id = a
                    /\ op[c].read # op[c].fork]_vars
  BY <1>1
<1>3. QED
  BY <1>2, ContentAlways, PTL DEF Spec, StaysDeleted

(* CommitTransactionImpl() never writes over an artifact that is not what  *)
(* the transaction was forked with, as long as Merge() takes the fork for  *)
(* its base.                                                               *)
THEOREM WritesLoseNothing == Spec => OverwritesWhatItForked
<1>1. ASSUME GraphInv, [Next]_vars, NEW a \in Ids,
             ReadStoredArtifact(Now, a)' # ReadStoredArtifact(Now, a)
      PROVE  \E c \in Clients :
                /\ op[c].pc = "merge"
                /\ \/ TakesOtherBase(c)
                   \/ ReadStoredArtifact(AtCommit(repo, op[c].fork), a)
                        = ReadStoredArtifact(Now, a)
  <2>1. Now' # Now
    BY <1>1 DEF ReadStoredArtifact
  <2>0. PICK c \in Clients : \E m : MergedStep(c, m) /\ Now' = m
    BY <1>1, <2>1, OnlyMergesChange
  <2>2. PICK m : MergedStep(c, m) /\ Now' = m
    BY <2>0
  <2>3. op[c].pc = "merge"
    BY <2>2 DEF MergedStep
  <2>4. ASSUME ~TakesOtherBase(c)
        PROVE  ReadStoredArtifact(AtCommit(repo, op[c].fork), a) = ReadStoredArtifact(Now, a)
    <3>1. Merges(AtCommit(repo, op[c].fork), AtCommit(repo, repo.head[c]), Now, m)
      BY <2>2, <2>4 DEF MergedStep, TakesOtherBase
    <3>2. ReadStoredArtifact(m, a) # ReadStoredArtifact(Now, a)
      BY <1>1, <2>2 DEF ReadStoredArtifact
    <3>3. QED
      BY <3>1, <3>2, PathsApart DEF Merges, ReadStoredArtifact
  <2>5. QED
    BY <2>3, <2>4
<1>2. GraphInv /\ [Next]_vars =>
        [\A a \in Ids :
            ReadStoredArtifact(Now, a)' # ReadStoredArtifact(Now, a) =>
                \E c \in Clients :
                    /\ op[c].pc = "merge"
                    /\ \/ TakesOtherBase(c)
                       \/ ReadStoredArtifact(AtCommit(repo, op[c].fork), a)
                            = ReadStoredArtifact(Now, a)]_vars
  BY <1>1
<1>3. QED
  BY <1>2, GraphAlways, PTL DEF Spec, OverwritesWhatItForked
=============================================================================

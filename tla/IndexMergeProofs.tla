-------------------------- MODULE IndexMergeProofs --------------------------
(***************************************************************************)
(* Proofs about the merge of index objects and the loop around it, for     *)
(* every set of artifacts, all order values and any number of attempts.    *)
(***************************************************************************)
EXTENDS IndexMerge, TLAPS

-----------------------------------------------------------------------------
(* Index objects.                                                          *)

LEMMA IndexObjectShape ==
    ASSUME NEW obj \in IndexObjects
    PROVE  /\ obj \in [DOMAIN obj -> OrderValues]
           /\ DOMAIN obj \subseteq Artifacts
           /\ \A a \in DOMAIN obj : obj[a] \in Nat
BY OrderAssumption DEF IndexObjects

LEMMA IndexObjectOf ==
    ASSUME NEW D \in SUBSET Artifacts, NEW obj \in [D -> OrderValues]
    PROVE  obj \in IndexObjects
BY DEF IndexObjects

(* An index object that exists is read as it is, and one that is missing   *)
(* as one without rows.                                                    *)
LEMMA RowsShape ==
    /\ \A obj \in IndexObjects : Rows(obj) = obj
    /\ \A obj \in IndexObjects \cup {Missing} : Rows(obj) \in IndexObjects
<1>1. NoRows \in [{} -> OrderValues]
  BY DEF NoRows
<1>2. NoRows \in IndexObjects
  BY <1>1, IndexObjectOf
<1>3. QED
  BY <1>2, MissingAssumption DEF Rows

-----------------------------------------------------------------------------
(* What the merge does to the row of one artifact.                         *)

(* The row of artifact a in the result, if it has one.                     *)
WinningRow(b, o, t, a) ==
    IF a \in Adds(b, o) \cap Adds(b, t) THEN Smaller(o[a], t[a])
    ELSE IF a \in Adds(b, o) THEN o[a]
    ELSE IF a \in Adds(b, t) THEN t[a]
    ELSE b[a]

(* The rows of the result, from the three inputs.                          *)
LEMMA MergeShape ==
    ASSUME NEW b \in IndexObjects, NEW o \in IndexObjects, NEW t \in IndexObjects
    PROVE  LET m == MergeIndexObjects(b, o, t)
           IN  /\ m \in IndexObjects
               /\ DOMAIN m = (DOMAIN b \ (Removes(b, o) \cup Removes(b, t)))
                                \cup Adds(b, o) \cup Adds(b, t)
               /\ \A a \in DOMAIN m :
                    m[a] = WinningRow(b, o, t, a)
<1> DEFINE m == MergeIndexObjects(b, o, t)
           D == (DOMAIN b \ (Removes(b, o) \cup Removes(b, t)))
                    \cup Adds(b, o) \cup Adds(b, t)
<1>1. m = [a \in D |-> WinningRow(b, o, t, a)]
  BY DEF MergeIndexObjects, WinningRow
<1>2. D \subseteq Artifacts
  BY IndexObjectShape DEF Adds
<1>3. \A a \in D : WinningRow(b, o, t, a) \in OrderValues
  BY IndexObjectShape DEF Adds, Smaller, WinningRow
<1> HIDE DEF m, D
<1>4. m \in [D -> OrderValues]
  BY <1>1, <1>3
<1>5. m \in IndexObjects
  BY <1>2, <1>4, IndexObjectOf
<1>6. DOMAIN m = D /\ \A a \in D : m[a] = WinningRow(b, o, t, a)
  BY <1>1
<1>7. QED
  BY <1>5, <1>6 DEF m, D

(* The same, by the rows the three inputs have of an artifact: a side that *)
(* left the row as it was has no say, and of two changed rows the smaller  *)
(* one stays.                                                              *)
Same(r, q, a) == (a \in DOMAIN r <=> a \in DOMAIN q) /\ (a \in DOMAIN r => r[a] = q[a])

BothChanged(m, o, t, a) ==
    /\ a \in DOMAIN m <=> a \in DOMAIN o \/ a \in DOMAIN t
    /\ a \in DOMAIN o /\ a \in DOMAIN t => m[a] = Smaller(o[a], t[a])
    /\ a \in DOMAIN o /\ a \notin DOMAIN t => m[a] = o[a]
    /\ a \notin DOMAIN o /\ a \in DOMAIN t => m[a] = t[a]

LEMMA MergeOfOneRow ==
    ASSUME NEW b \in IndexObjects, NEW o \in IndexObjects, NEW t \in IndexObjects,
           NEW a, NEW m, m = MergeIndexObjects(b, o, t)
    PROVE  /\ Same(b, t, a) => Same(m, o, a)
           /\ Same(b, o, a) => Same(m, t, a)
           /\ ~Same(b, o, a) /\ ~Same(b, t, a) => BothChanged(m, o, t, a)
<1>1. /\ a \in Adds(b, o) <=> a \in DOMAIN o /\ ~Same(b, o, a)
      /\ a \in Adds(b, t) <=> a \in DOMAIN t /\ ~Same(b, t, a)
      /\ a \in Removes(b, o) <=> a \in DOMAIN b /\ ~Same(b, o, a)
      /\ a \in Removes(b, t) <=> a \in DOMAIN b /\ ~Same(b, t, a)
  BY DEF Adds, Removes, Same
<1>2. /\ a \in DOMAIN m <=> \/ a \in DOMAIN b /\ a \notin Removes(b, o) /\ a \notin Removes(b, t)
                           \/ a \in Adds(b, o) \/ a \in Adds(b, t)
      /\ a \in DOMAIN m => m[a] = WinningRow(b, o, t, a)
  <2>1. DOMAIN m = (DOMAIN b \ (Removes(b, o) \cup Removes(b, t)))
                        \cup Adds(b, o) \cup Adds(b, t)
    BY MergeShape, Zenon
  <2>2. \A x \in DOMAIN m : m[x] = WinningRow(b, o, t, x)
    BY MergeShape, Zenon
  <2>3. QED
    BY <2>1, <2>2
<1>3. /\ Same(b, t, a) => Same(m, o, a)
      /\ Same(b, o, a) => Same(m, t, a)
  BY <1>1, <1>2 DEF Same, WinningRow
<1>4. ~Same(b, o, a) /\ ~Same(b, t, a) => BothChanged(m, o, t, a)
  BY <1>1, <1>2 DEF WinningRow, BothChanged
<1>5. QED
  BY <1>3, <1>4

(* Two index objects with the same rows are the same.                      *)
LEMMA SameRows ==
    ASSUME NEW r \in IndexObjects, NEW q \in IndexObjects, \A a : Same(r, q, a)
    PROVE  r = q
<1>1. DOMAIN r = DOMAIN q
  BY DEF Same
<1>2. \A a \in DOMAIN r : r[a] = q[a]
  BY DEF Same
<1>3. QED
  BY <1>1, <1>2, IndexObjectShape

-----------------------------------------------------------------------------
(* The merge as the resolver calls it.                                     *)

(* Two writers that race leave the same rows in either order.              *)
LEMMA MergeCommutes ==
    ASSUME NEW b \in IndexObjects, NEW o \in IndexObjects, NEW t \in IndexObjects
    PROVE  MergeIndexObjects(b, o, t) = MergeIndexObjects(b, t, o)
<1> DEFINE m == MergeIndexObjects(b, o, t)
           w == MergeIndexObjects(b, t, o)
<1>1. m \in IndexObjects /\ w \in IndexObjects
  BY MergeShape, Zenon
<1>2. ASSUME NEW a
      PROVE  Same(m, w, a)
  <2>1. a \in DOMAIN o /\ a \in DOMAIN t => Smaller(o[a], t[a]) = Smaller(t[a], o[a])
    BY IndexObjectShape DEF Smaller
  <2>2. /\ Same(b, t, a) => Same(m, o, a) /\ Same(w, o, a)
        /\ Same(b, o, a) => Same(m, t, a) /\ Same(w, t, a)
    BY MergeOfOneRow, Zenon
  <2>3. ~Same(b, o, a) /\ ~Same(b, t, a)
            => BothChanged(m, o, t, a) /\ BothChanged(w, t, o, a)
    BY MergeOfOneRow, Zenon
  <2> HIDE DEF m, w
  <2>4. QED
    BY <2>1, <2>2, <2>3 DEF Same, BothChanged
<1> HIDE DEF m, w
<1>3. m = w
  BY <1>1, <1>2, SameRows
<1>4. QED
  BY <1>3 DEF m, w

(* Resolving what was resolved, against the same target, changes nothing.  *)
LEMMA MergeIdempotent ==
    ASSUME NEW b \in IndexObjects, NEW o \in IndexObjects, NEW t \in IndexObjects
    PROVE  LET m == MergeIndexObjects(b, o, t)
           IN  MergeIndexObjects(b, m, t) = m
<1> DEFINE m == MergeIndexObjects(b, o, t)
           w == MergeIndexObjects(b, m, t)
<1>1. m \in IndexObjects
  BY MergeShape, Zenon
<1> HIDE DEF m
<1>2. w \in IndexObjects
  BY <1>1, MergeShape, Zenon
<1>3. ASSUME NEW a
      PROVE  Same(w, m, a)
  <2>1. CASE Same(b, t, a)
    BY <1>1, <2>1, MergeOfOneRow, Zenon
  <2>2. CASE ~Same(b, t, a)
    <3>1. /\ Same(b, o, a) => Same(m, t, a)
          /\ ~Same(b, o, a) => BothChanged(m, o, t, a)
      BY <2>2, MergeOfOneRow, Zenon DEF m
    <3>2. /\ Same(b, m, a) => Same(w, t, a)
          /\ ~Same(b, m, a) => BothChanged(w, m, t, a)
      BY <1>1, <2>2, MergeOfOneRow, Zenon
    <3> HIDE DEF w
    <3>3. a \in DOMAIN t => a \in DOMAIN m /\ m[a] <= t[a]
      BY <3>1, IndexObjectShape DEF Same, BothChanged, Smaller
    <3>4. a \in DOMAIN m /\ a \in DOMAIN t => Smaller(m[a], t[a]) = m[a]
      BY <1>1, <3>3, IndexObjectShape DEF Smaller
    <3>5. ~Same(b, m, a)
      BY <2>2, <3>1, IndexObjectShape DEF Same, BothChanged, Smaller
    <3>6. QED
      BY <3>2, <3>3, <3>4, <3>5 DEF Same, BothChanged
  <2>3. QED
    BY <2>1, <2>2
<1> HIDE DEF w
<1>4. w = m
  BY <1>1, <1>2, <1>3, SameRows
<1>5. QED
  BY <1>4 DEF w, m

-----------------------------------------------------------------------------
(* The merge loop.                                                         *)

MaybeObjects == IndexObjects \cup {Missing}

ObjectsTyped ==
    /\ base \in MaybeObjects /\ source \in MaybeObjects
    /\ target \in MaybeObjects /\ own \in MaybeObjects

(* An artifact write leaves an index object.                               *)
LEMMA EditsShape ==
    ASSUME NEW obj \in MaybeObjects, NEW new \in Edits(obj)
    PROVE  new \in IndexObjects
<1>1. ASSUME NEW o \in MaybeObjects, NEW a \in Artifacts, NEW v \in OrderValues
      PROVE  WithRow(o, a, v) \in IndexObjects
  <2>1. /\ Rows(o) \in [DOMAIN Rows(o) -> OrderValues]
        /\ DOMAIN Rows(o) \subseteq Artifacts
    BY RowsShape, IndexObjectShape DEF MaybeObjects
  <2>2. WithRow(o, a, v) \in [DOMAIN Rows(o) \cup {a} -> OrderValues]
    BY <2>1 DEF WithRow
  <2>3. QED
    BY <2>1, <2>2, IndexObjectOf
<1>2. ASSUME NEW o \in MaybeObjects, NEW a \in DOMAIN Rows(o)
      PROVE  WithoutRow(o, a) \in IndexObjects
  <2>1. /\ Rows(o) \in [DOMAIN Rows(o) -> OrderValues]
        /\ DOMAIN Rows(o) \subseteq Artifacts
    BY RowsShape, IndexObjectShape DEF MaybeObjects
  <2>2. WithoutRow(o, a) \in [DOMAIN Rows(o) \ {a} -> OrderValues]
    BY <2>1 DEF WithoutRow
  <2>3. QED
    BY <2>1, <2>2, IndexObjectOf
<1>3. DOMAIN Rows(obj) \subseteq Artifacts
  BY RowsShape, IndexObjectShape DEF MaybeObjects
<1>4. QED
  BY <1>1, <1>2, <1>3 DEF Edits, MaybeObjects

LEMMA ObjectsTypedStep == ObjectsTyped /\ [Next]_vars => ObjectsTyped'
<1> SUFFICES ASSUME ObjectsTyped, [Next]_vars
             PROVE  ObjectsTyped'
  OBVIOUS
<1> USE DEF ObjectsTyped
<1>1. CASE WriteSource
  BY <1>1, EditsShape DEF WriteSource, MaybeObjects
<1>2. CASE WriteTarget
  BY <1>2, EditsShape DEF WriteTarget, MaybeObjects
<1>3. CASE AttemptMerges
  BY <1>3 DEF AttemptMerges
<1>4. CASE AttemptResolves
  <2>1. /\ Rows(base) \in IndexObjects /\ Rows(source) \in IndexObjects
        /\ Rows(target) \in IndexObjects
    BY RowsShape DEF MaybeObjects
  <2>2. MergeIndexObjects(Rows(base), Rows(source), Rows(target)) \in IndexObjects
    BY <2>1, MergeShape, Zenon
  <2>3. QED
    BY <1>4, <2>2 DEF AttemptResolves, MaybeObjects
<1>5. CASE AttemptGivesUp
  BY <1>5 DEF AttemptGivesUp
<1>6. CASE UNCHANGED vars
  BY <1>6 DEF vars
<1>7. QED
  BY <1>1, <1>2, <1>3, <1>4, <1>5, <1>6 DEF Next

LEMMA ObjectsAreTyped == Spec => []ObjectsTyped
<1>1. Init => ObjectsTyped
  BY DEF Init, ObjectsTyped, MaybeObjects
<1>2. QED
  BY <1>1, ObjectsTypedStep, PTL DEF Spec

(* Whatever the two branches wrote, the merge does not depend on which one *)
(* merges first, and resolving a conflict again changes nothing.           *)
THEOREM MergesAreStable == Spec => []MergeIsStable
<1>1. ObjectsTyped => MergeIsStable
  <2> SUFFICES ASSUME ObjectsTyped
               PROVE  MergeIsStable
    OBVIOUS
  <2>1. /\ Rows(base) \in IndexObjects /\ Rows(source) \in IndexObjects
        /\ Rows(target) \in IndexObjects
    BY RowsShape DEF ObjectsTyped, MaybeObjects
  <2>2. Commutes
    BY <2>1, MergeCommutes DEF Commutes, Merged
  <2>3. Merged(source, target) \in IndexObjects
    BY <2>1, MergeShape, Zenon DEF Merged
  <2>4. Rows(Merged(source, target)) = Merged(source, target)
    BY <2>3, RowsShape
  <2>5. Idempotent
    <3> DEFINE b == Rows(base)
               o == Rows(source)
               t == Rows(target)
               m == MergeIndexObjects(b, o, t)
    <3>1. MergeIndexObjects(b, m, t) = m
      BY <2>1, MergeIdempotent, Zenon
    <3>2. QED
      BY <2>4, <3>1 DEF Idempotent, Merged
  <2>6. QED
    BY <2>2, <2>5 DEF MergeIsStable
<1>2. QED
  BY <1>1, ObjectsAreTyped, PTL

(* No row is lost or invented by the merge: what one branch alone changed  *)
(* is in the result as that branch left it.                                *)
THEOREM BothSidesAreKept == Spec => []KeepsBothSides
<1>1. ObjectsTyped => KeepsBothSides
  <2> SUFFICES ASSUME ObjectsTyped, NEW a \in Artifacts
               PROVE  /\ RowAt(target, a) = RowAt(base, a)
                            => RowAt(Merged(source, target), a) = RowAt(source, a)
                      /\ RowAt(source, a) = RowAt(base, a)
                            => RowAt(Merged(source, target), a) = RowAt(target, a)
    BY DEF KeepsBothSides
  <2> DEFINE b == Rows(base)
             o == Rows(source)
             t == Rows(target)
             m == Merged(source, target)
  <2>1. b \in IndexObjects /\ o \in IndexObjects /\ t \in IndexObjects
    BY RowsShape DEF ObjectsTyped, MaybeObjects
  <2>2. m \in IndexObjects /\ m = MergeIndexObjects(b, o, t)
    BY <2>1, MergeShape, Zenon DEF Merged
  <2>3. Rows(m) = m
    BY <2>2, RowsShape
  <2> HIDE DEF m, b, o, t
  <2>4. /\ Same(b, t, a) => Same(m, o, a)
        /\ Same(b, o, a) => Same(m, t, a)
    BY <2>1, <2>2, MergeOfOneRow
  <2>5. ASSUME NEW r, NEW q
        PROVE  RowAt(r, a) = RowAt(q, a) <=> Same(Rows(r), Rows(q), a)
    BY DEF RowAt, Same
  <2>6. QED
    <3>1. /\ RowAt(target, a) = RowAt(base, a) => Same(b, t, a)
          /\ RowAt(source, a) = RowAt(base, a) => Same(b, o, a)
      BY <2>5 DEF Same, b, o, t
    <3>2. /\ Same(m, o, a) => RowAt(m, a) = RowAt(source, a)
          /\ Same(m, t, a) => RowAt(m, a) = RowAt(target, a)
      BY <2>3, <2>5 DEF o, t
    <3>3. QED
      BY <2>4, <3>1, <3>2 DEF m
<1>2. QED
  BY <1>1, ObjectsAreTyped, PTL

-----------------------------------------------------------------------------
(* What the source branch wrote.                                           *)

(* The source's own additions stay additions, whatever was resolved on the *)
(* branch since, and only ever lose to a smaller row.                      *)
OwnRowsStay ==
    \A a \in Adds(Rows(base), Rows(own)) :
        /\ a \in Adds(Rows(base), Rows(source))
        /\ Rows(source)[a] <= Rows(own)[a]

LEMMA OwnRowsStayStep == ObjectsTyped /\ OwnRowsStay /\ [Next]_vars => OwnRowsStay'
<1> SUFFICES ASSUME ObjectsTyped, OwnRowsStay, [Next]_vars
             PROVE  OwnRowsStay'
  OBVIOUS
<1>1. CASE WriteSource
  <2>1. own' = source' /\ Rows(source') \in IndexObjects
    BY <1>1, EditsShape, RowsShape DEF WriteSource, ObjectsTyped
  <2>2. \A a \in DOMAIN Rows(source') : Rows(source')[a] <= Rows(source')[a]
    BY <2>1, IndexObjectShape
  <2>3. QED
    BY <2>1, <2>2 DEF OwnRowsStay, Adds
<1>2. CASE WriteTarget \/ AttemptMerges \/ AttemptGivesUp \/ UNCHANGED vars
  <2>1. UNCHANGED <<base, source, own>>
    BY <1>2 DEF WriteTarget, AttemptMerges, AttemptGivesUp, vars
  <2>2. QED
    BY <2>1 DEF OwnRowsStay
<1>3. CASE AttemptResolves
  <2> DEFINE b == Rows(base)
             o == Rows(source)
             t == Rows(target)
             w == Rows(own)
  <2>1. b \in IndexObjects /\ o \in IndexObjects /\ t \in IndexObjects
        /\ w \in IndexObjects
    BY RowsShape DEF ObjectsTyped, MaybeObjects
  <2>2. source' \in IndexObjects /\ source' = MergeIndexObjects(b, o, t)
    BY <1>3, <2>1, MergeShape, Zenon DEF AttemptResolves
  <2>3. Rows(source') = source' /\ UNCHANGED <<base, own>>
    BY <1>3, <2>2, RowsShape DEF AttemptResolves
  <2>4. OwnRowsStay => \A a \in Adds(b, w) : a \in Adds(b, o) /\ o[a] <= w[a]
    BY DEF OwnRowsStay
  <2> HIDE DEF b, o, t, w
  <2>5. ASSUME NEW a \in Adds(b, w)
        PROVE  a \in Adds(b, source') /\ source'[a] <= w[a]
    <3>1. a \in DOMAIN o /\ ~Same(b, o, a) /\ o[a] <= w[a]
      BY <2>4 DEF Adds, Same
    <3>2. o[a] \in Nat /\ w[a] \in Nat /\ (a \in DOMAIN t => t[a] \in Nat)
      BY <2>1, <3>1, IndexObjectShape DEF Adds
    <3>3. /\ Same(b, t, a) => Same(source', o, a)
          /\ ~Same(b, t, a) => BothChanged(source', o, t, a)
      BY <2>1, <2>2, <3>1, MergeOfOneRow
    <3>4. QED
      BY <3>1, <3>2, <3>3 DEF Adds, Same, BothChanged, Smaller
  <2>6. QED
    BY <2>3, <2>5 DEF OwnRowsStay, b, w
<1>4. QED
  BY <1>1, <1>2, <1>3 DEF Next

LEMMA MergedHasOwnRowsStep ==
    ObjectsTyped /\ OwnRowsStay /\ MergedHasOwnRows /\ [Next]_vars => MergedHasOwnRows'
<1> SUFFICES ASSUME ObjectsTyped, OwnRowsStay, MergedHasOwnRows, [Next]_vars
             PROVE  MergedHasOwnRows'
  OBVIOUS
<1>1. CASE WriteSource \/ WriteTarget \/ AttemptResolves \/ AttemptGivesUp
  BY <1>1 DEF WriteSource, WriteTarget, AttemptResolves, AttemptGivesUp,
              MergedHasOwnRows
<1>2. CASE AttemptMerges
  <2>1. UNCHANGED <<base, own>>
    BY <1>2 DEF AttemptMerges
  <2>2. CASE source # base
    <3>1. target' = source
      BY <1>2, <2>2 DEF AttemptMerges
    <3>2. QED
      BY <2>1, <3>1 DEF MergedHasOwnRows, OwnRowsStay, Adds
  <2>3. CASE source = base
    <3>1. Adds(Rows(base), Rows(source)) = {}
      BY <2>3 DEF Adds
    <3>2. QED
      BY <2>1, <3>1 DEF MergedHasOwnRows, OwnRowsStay
  <2>4. QED
    BY <2>2, <2>3
<1>3. CASE UNCHANGED vars
  BY <1>3 DEF vars, MergedHasOwnRows
<1>4. QED
  BY <1>1, <1>2, <1>3 DEF Next

(* A merge that went through, after however many resolved conflicts and    *)
(* whatever other writers did meanwhile, brought every row that the source *)
(* branch added or moved.                                                  *)
THEOREM OwnRowsAreMerged == Spec => []MergedHasOwnRows
<1>1. Init => OwnRowsStay /\ MergedHasOwnRows
  BY DEF Init, OwnRowsStay, MergedHasOwnRows, Adds
<1>2. QED
  BY <1>1, ObjectsAreTyped, OwnRowsStayStep, MergedHasOwnRowsStep, PTL DEF Spec
=============================================================================

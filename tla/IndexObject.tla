---------------------------- MODULE IndexObject ----------------------------
(***************************************************************************)
(* Index objects and their three-way merge (index_merge.cpp, and the row   *)
(* updates of index_utils.cpp), as pure operators.                         *)
(*                                                                         *)
(* An index object is a function from the artifact IDs that have a row to  *)
(* their order values; an object without rows and a missing object are     *)
(* told apart by Missing.  One number stands for all order values of a     *)
(* row, ordered as CompareRowsCanonical() orders them.  The index is not   *)
(* unique: conflicts on unique indexes are never merged.                   *)
(***************************************************************************)
EXTENDS Naturals

CONSTANTS
    Artifacts,     \* the artifact IDs
    OrderValues,   \* a set of numbers
    Missing        \* no index object at the path

ASSUME OrderAssumption == OrderValues \subseteq Nat

IndexObjects == UNION {[D -> OrderValues] : D \in SUBSET Artifacts}

ASSUME MissingAssumption == Missing \notin IndexObjects

NoRows == [a \in {} |-> 0]

(* DeserializeIndexObjectWithSchema(): a missing object has no rows.       *)
Rows(obj) == IF obj = Missing THEN NoRows ELSE obj

(* ComputeDelta(): the artifacts whose row is not the one of base.         *)
Removes(base, head) ==
    {a \in DOMAIN base : a \notin DOMAIN head \/ head[a] # base[a]}

Adds(base, head) ==
    {a \in DOMAIN head : a \notin DOMAIN base \/ head[a] # base[a]}

Smaller(m, n) == IF m < n THEN m ELSE n

(* Mutants: of two candidate rows the first one wins; the removals on the  *)
(* other side are forgotten.                                               *)
MergeOursFirst(base, ours, theirs) ==
    LET mine == Adds(base, ours)
        them == Adds(base, theirs)
        kept == DOMAIN base \ (Removes(base, ours) \cup Removes(base, theirs))
    IN  [a \in kept \cup mine \cup them |->
            IF a \in mine THEN ours[a]
            ELSE IF a \in them THEN theirs[a]
            ELSE base[a]]

MergeForgetsRemoves(base, ours, theirs) ==
    LET mine == Adds(base, ours)
        them == Adds(base, theirs)
        kept == DOMAIN base \ Removes(base, ours)
    IN  [a \in kept \cup mine \cup them |->
            IF a \in mine \cap them THEN Smaller(ours[a], theirs[a])
            ELSE IF a \in mine THEN ours[a]
            ELSE IF a \in them THEN theirs[a]
            ELSE base[a]]

(* MergeIndexObjects(): apply both sides' removes to base, then both       *)
(* sides' adds; of two candidate rows for one artifact the smaller wins.   *)
MergeIndexObjects(base, ours, theirs) ==
    LET mine == Adds(base, ours)
        them == Adds(base, theirs)
        kept == DOMAIN base \ (Removes(base, ours) \cup Removes(base, theirs))
    IN  [a \in kept \cup mine \cup them |->
            IF a \in mine \cap them THEN Smaller(ours[a], theirs[a])
            ELSE IF a \in mine THEN ours[a]
            ELSE IF a \in them THEN theirs[a]
            ELSE base[a]]

(* AddIndexRow(), on an object that has no row of the artifact.            *)
WithRow(obj, a, v) ==
    [x \in DOMAIN Rows(obj) \cup {a} |-> IF x = a THEN v ELSE Rows(obj)[x]]

(* RemoveIndexRow(): the object stays, even without rows.                  *)
WithoutRow(obj, a) == [x \in DOMAIN Rows(obj) \ {a} |-> Rows(obj)[x]]
=============================================================================

----------------------------- MODULE IndexMerge -----------------------------
(***************************************************************************)
(* The loop that retries a merge after the deterministic resolver has      *)
(* merged a conflicting index object (the resolver of                      *)
(* index_conflict_resolver.cpp and the merge loops of WriteExecutor and    *)
(* TransactionManager), for one index object on a source and a target      *)
(* branch.  The merge base stays the same over all attempts: the resolver  *)
(* commits on the source branch and does not merge the target into it.     *)
(* The index is one that a built-in type declares: conflicts on others are *)
(* given up at once.                                                       *)
(***************************************************************************)
EXTENDS IndexObject

CONSTANT max_attempts

ASSUME AttemptsAssumption == max_attempts \in Nat \ {0}

VARIABLES
    base,      \* the object at the merge base
    source,    \* the object at the head of the branch to be merged
    target,    \* the object at the head of the branch merged into
    own,       \* the source before any conflict was resolved on it
    attempts,  \* merge attempts so far
    outcome    \* "writing", "merging", "merged" or "conflict"

vars == <<base, source, target, own, attempts, outcome>>

Init ==
    /\ base \in IndexObjects \cup {Missing}
    /\ source = base
    /\ target = base
    /\ own = base
    /\ attempts = 0
    /\ outcome = "writing"

(* What one artifact write does to the object: create, delete, or update   *)
(* (remove the old row, add the new one).                                  *)
Edits(obj) ==
    {WithRow(obj, a, v) : a \in Artifacts \ DOMAIN Rows(obj), v \in OrderValues}
    \cup {WithoutRow(obj, a) : a \in DOMAIN Rows(obj)}
    \cup {WithRow(WithoutRow(obj, a), a, v) : a \in DOMAIN Rows(obj), v \in OrderValues}

WriteSource ==
    /\ outcome = "writing"
    /\ source' \in Edits(source)
    /\ own' = source'
    /\ UNCHANGED <<base, target, attempts, outcome>>

(* Other writers merge into the target at any time, also while the loop    *)
(* sleeps between two attempts.                                            *)
WriteTarget ==
    /\ outcome \in {"writing", "merging"}
    /\ target' \in Edits(target)
    /\ UNCHANGED <<base, source, own, attempts, outcome>>

Conflict == source # base /\ target # base /\ source # target

(* Merge() succeeds.                                                       *)
AttemptMerges ==
    /\ outcome \in {"writing", "merging"}
    /\ ~Conflict
    /\ target' = IF source # base THEN source ELSE target
    /\ attempts' = attempts + 1
    /\ outcome' = "merged"
    /\ UNCHANGED <<base, source, own>>

(* Mutant: the resolver takes the target's object as it is.                *)
ResolveTheirs ==
    /\ outcome \in {"writing", "merging"}
    /\ Conflict
    /\ attempts + 1 < max_attempts
    /\ source' = target
    /\ attempts' = attempts + 1
    /\ outcome' = "merging"
    /\ UNCHANGED <<base, target, own>>

(* Merge() reports a conflict; EvaluateRetryDecision() still allows a      *)
(* retry, and the resolver commits the merged object on the source branch. *)
AttemptResolves ==
    /\ outcome \in {"writing", "merging"}
    /\ Conflict
    /\ attempts + 1 < max_attempts
    /\ source' = MergeIndexObjects(Rows(base), Rows(source), Rows(target))
    /\ attempts' = attempts + 1
    /\ outcome' = "merging"
    /\ UNCHANGED <<base, target, own>>

(* The last attempt: the conflict goes to the caller.                      *)
AttemptGivesUp ==
    /\ outcome \in {"writing", "merging"}
    /\ Conflict
    /\ attempts + 1 = max_attempts
    /\ attempts' = attempts + 1
    /\ outcome' = "conflict"
    /\ UNCHANGED <<base, source, target, own>>

Next ==
    \/ WriteSource
    \/ WriteTarget
    \/ AttemptMerges
    \/ AttemptResolves
    \/ AttemptGivesUp

Spec == Init /\ [][Next]_vars

-----------------------------------------------------------------------------
(* Correctness.                                                            *)

Merged(o, t) == MergeIndexObjects(Rows(base), Rows(o), Rows(t))

(* The merge does not depend on which branch merges first: two writers     *)
(* that race into the same index leave the same rows in either order.      *)
Commutes == Merged(source, target) = Merged(target, source)

(* No row is lost or invented: what one side alone changed (a row added,   *)
(* removed or moved) is in the result as that side left it, and what no    *)
(* side changed is as before.                                              *)
RowAt(obj, a) == IF a \in DOMAIN Rows(obj) THEN {Rows(obj)[a]} ELSE {}

KeepsBothSides ==
    \A a \in Artifacts :
        /\ RowAt(target, a) = RowAt(base, a)
              => RowAt(Merged(source, target), a) = RowAt(source, a)
        /\ RowAt(source, a) = RowAt(base, a)
              => RowAt(Merged(source, target), a) = RowAt(target, a)

(* "Index merge logic must be deterministic and idempotent given the same  *)
(* (base, ours, theirs) inputs" (artifact_system_prd.md:122): who merges   *)
(* first does not matter, and resolving again what was resolved, against   *)
(* the same target, changes nothing.                                       *)
Idempotent == Merged(Merged(source, target), target) = Merged(source, target)

MergeIsStable == Commutes /\ Idempotent

(* A merge that went through added to the target what the source wrote:    *)
(* every row the source branch itself added or moved is there, with its    *)
(* order value or a smaller one written concurrently.                      *)
MergedHasOwnRows ==
    outcome = "merged" =>
        \A a \in Adds(Rows(base), Rows(own)) :
            /\ a \in DOMAIN Rows(target)
            /\ Rows(target)[a] <= Rows(own)[a]

=============================================================================

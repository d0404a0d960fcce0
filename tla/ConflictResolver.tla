-------------------------- MODULE ConflictResolver --------------------------
(***************************************************************************)
(* What is done about a merge that reports conflicts (conflict_resolver,   *)
(* index_conflict_resolver), as pure operators on a repository value.  An  *)
(* instance of this module is one of MemoryStorage too.                    *)
(***************************************************************************)
EXTENDS Naturals

CONSTANTS
    Branches, Main, Paths, Values, Absent, Unstaged,   \* see MemoryStorage
    Artifacts, OrderValues,                            \* see IndexObject
    Indexes,     \* the paths of the objects of non-unique indexes which a
                 \*   built-in type declares (CandidateIndexedDescriptors)
    max_attempts

INSTANCE MemoryStorage
Object == INSTANCE IndexObject WITH Missing <- Absent

(* EvaluateRetryDecision(): retry if only index objects are in conflict    *)
(* and attempts are left.  The resolver gives up, to the same effect, on   *)
(* an index that is unique or that no built-in type declares.              *)
Retryable(conflicts, attempts) ==
    conflicts # {} /\ conflicts \subseteq Indexes /\ attempts < max_attempts

(* Mutant: the target's object is taken over.                              *)
TakeTheirs(repo, ours, theirs, p) == AtCommit(repo, theirs)[p]

(* One conflicting index object, merged.  All is read at the commits that  *)
(* the report on the conflicts names.                                      *)
ResolveSinglePath(repo, ours, theirs, p) ==
    LET rows(c) == Object!Rows(AtCommit(repo, c)[p])
    IN  Object!MergeIndexObjects(rows(FindMergeBase(repo, ours, theirs)), rows(ours), rows(theirs))

(* The resolver: merge the conflicting index objects, stage them on the    *)
(* source branch and commit; in one step, if nobody else works on it.      *)
ResolveConflicts(repo, source, target, conflicts) ==
    LET merged(p) == ResolveSinglePath(repo, GetBranchHead(repo, source),
                                       GetBranchHead(repo, target), p)
    IN  Commit([repo EXCEPT !.staging[source] =
                    [p \in Paths |-> IF p \in conflicts THEN merged(p) ELSE @[p]]], source)
=============================================================================

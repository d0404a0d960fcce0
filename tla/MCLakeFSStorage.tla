-------------------------- MODULE MCLakeFSStorage --------------------------
(* Instances of LakeFSStorage for TLC: the canonical branch and one other, *)
(* an artifact and an index object.                                        *)
EXTENDS LakeFSStorage, TLC

CONSTANTS b, v, w

ArtifactPath == 1
MCPaths == {ArtifactPath, IndexPath}
MCValues == {v, w} \cup IndexObjects
Row(S) == [a \in S |-> 0]

(* The canonical branch has the artifact and two index rows; the other one *)
(* has no commit yet, or both have added a row.                            *)
Start == [InitRepo EXCEPT !.commits[1].objects =
            [p \in Paths |-> IF p = IndexPath THEN Row({1, 2}) ELSE v]]
Forked == CreateBranch(Start, b, 1)
PutRows(r, br, S) == Commit(PutObject(r, br, IndexPath, Row(S)), br)
Diverged ==
    LET later == Commit(Start, Main)
    IN  PutRows(PutRows(CreateBranch(later, b, 2), Main, {1, 2, 3}), b, {1, 2, 4})

Branch(kind, br) == [kind |-> kind, branch |-> br]
Create(base) == [kind |-> "create", branch |-> b, base |-> base]
Object(kind, br) == [kind |-> kind, branch |-> br, path |-> ArtifactPath]
Put(br) == [kind |-> "put", branch |-> br, path |-> ArtifactPath, value |-> w]
Get(ref) == [kind |-> "get", ref |-> ref, path |-> ArtifactPath]
List(ref) == [kind |-> "list", ref |-> ref]
MergeOf(s, t) == [kind |-> "merge", source |-> s, target |-> t]
Rowed(kind, br, a) == [kind |-> kind, branch |-> br, artifact |-> a]

MCScenarios ==
    {[repo |-> Start, number |-> 3, faults |-> 2,
      calls |-> {Create(Main), Create(1), Create(9), Branch("delete", b),
                 Branch("delete", Main), Get(b)}],
     [repo |-> Forked, number |-> 3, faults |-> 1,
      calls |-> {Object("delete_object", b), Put(b), Get(b), Get(1), List(b),
                 Branch("delete", b), Branch("head", b), Branch("commit", b)}],
     [repo |-> Forked, number |-> 4, faults |-> 1,
      calls |-> {Rowed("add_row", b, 4), Rowed("remove_row", b, 1),
                 Rowed("add_row", Main, 3), Branch("commit", b), Branch("commit", Main),
                 MergeOf(b, Main)}],
     [repo |-> Diverged, number |-> 3, faults |-> 1,
      calls |-> {MergeOf(b, Main), Branch("delete", b), Create(1)}],
     [repo |-> Diverged, number |-> 4, faults |-> 1,
      calls |-> {MergeOf(b, Main), MergeOf(Main, b), Rowed("add_row", b, 3),
                 Rowed("remove_row", b, 4), Branch("commit", b)}]}
=============================================================================

-------------------------- MODULE MCArtifactStore --------------------------
(* Instances of ArtifactStore for TLC: one type of artifacts that refer to *)
(* each other through a field for each policy, a list among them, and one  *)
(* field inside a sub-message.                                             *)
EXTENDS ArtifactStore, TLC

CONSTANTS T, cas, res, nul, sub, i1, i2, c1, c2, body

MCFields == {cas, res, nul, sub}
MCOne == [f \in MCFields |-> T]
MCOnDelete == [f \in MCFields |->
    IF f = cas THEN "CASCADE" ELSE IF f = res THEN "RESTRICT" ELSE "SET_NULL"]
MCDefIds == (cas :> 11) @@ (res :> 12) @@ (nul :> 13) @@ (sub :> 14)
MCHome == [c \in {c1, c2} |-> IF c = c1 THEN i1 ELSE i2]
MCAlone == [c \in {c1} |-> i1]
MCDeny == [t \in {T} |-> {}]

Artifact(b, refs) == [type |-> T, body |-> b, refs |-> refs]
NoReference == [f \in MCFields |-> {}]
Plain == Artifact(body, NoReference)
To1(f, S) == [NoReference EXCEPT ![f] = S]

(* Populations of artifacts without references or with one field set, with *)
(* chains and cycles of them, lists of two, and a SET_NULL field that is   *)
(* all there is.                                                           *)
Referring(fields, targets) ==
    {Artifact(IF f = nul THEN NoBody ELSE body, To1(f, {x})) :
        f \in fields, x \in targets}
MCWide ==
    {(1 :> p) @@ (2 :> q) @@ (3 :> r) :
        p \in {Plain} \cup Referring({cas}, Ids),
        q \in {Plain} \cup Referring({cas, res, nul}, {1, 3}),
        r \in {Plain} \cup Referring({cas, res, nul}, Ids) \cup Referring({sub}, {1})
                \cup {Artifact(body, To1(cas, {1, 2}))}}

(* Some small ones, for requests that run at the same time.                *)
MCNarrow ==
    {(1 :> Plain) @@ (2 :> q) @@ (3 :> r) :
        q \in {Plain} \cup Referring({cas, res, nul}, {1}),
        r \in {Absent} \cup Referring({cas}, {1, 2})}

(* One on which three requests run; the third artifact is deleted.         *)
MCLong ==
    {(1 :> Plain) @@ (2 :> Artifact(body, To1(res, {1})))
        @@ (3 :> Artifact(NoBody, NoReference))}

MCScenarios == [population : MCWide, requests : {1}]
                    \cup [population : MCNarrow, requests : {2}]
                    \cup [population : MCLong, requests : {3}]
(* Artifact 2 refers to 1 and is to go with it; one client, one restart.   *)
MCRestarted ==
    [population : {(1 :> Plain) @@ (2 :> Artifact(body, To1(cas, {1}))) @@ (3 :> Absent)},
     requests : {2}]

MCInputs == {Plain} \cup Referring({cas, res}, {1})

=============================================================================

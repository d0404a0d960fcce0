-------------------------- MODULE MCTypeRegistry --------------------------
(* Instances of TypeRegistry for TLC: two types, the second one with a     *)
(* different idea of the index both declare, and versions of the first one *)
(* that add fields, flags, an index and a reference.                       *)
EXTENDS TypeRegistry, TLC

CONSTANTS A, B, M, N, meta1, meta2, key1, field1, d1, d2, i1, i2, c1, c2, t1, create

MCHome == (c1 :> i1) @@ (c2 :> i2)
MCBlock == (i1 :> 3 .. 9) @@ (i2 :> 10 .. 16)
MCMetaIds == (meta1 :> 1) @@ (meta2 :> 2)

Scalar(name) == [name |-> name, type |-> "scalar", label |-> "optional",
                 oneof |-> NoName, message |-> NoName]
Holds(name, m) == [Scalar(name) EXCEPT !.type = "message", !.message = m]

(* Versions 2 and 3 can follow version 1; 3 should not follow 2, where b   *)
(* was an M; 4 has a message that holds itself.                            *)
Schema1 == (A :> <<Holds("a", M)>>) @@ (M :> <<Scalar("x")>>)
Schema2 == (A :> <<Holds("a", M), Holds("b", M)>>) @@ (M :> <<Scalar("x")>>)
Schema3 == (A :> <<Holds("a", M), Holds("b", N)>>) @@ (M :> <<Scalar("x")>>)
                @@ (N :> <<Scalar("y")>>)
Schema4 == (A :> <<Holds("a", M), Holds("b", M)>>)
                @@ (M :> <<Scalar("x"), Holds("rest", M)>>)
SchemaB == B :> <<Scalar("z")>>

Nothing == [x \in {} |-> 0]
Source(t, schema, indexes, references, deny, allow) ==
    [type |-> t, schema |-> schema, indexes |-> indexes,
     references |-> references, deny |-> deny, allow |-> allow]

Self == field1 :> [target |-> A, index |-> key1]
MCSources ==
    {Source(A, Schema1, Nothing, Nothing, {}, {}),
     Source(A, Schema2, key1 :> d1, Nothing, {create}, {}),
     Source(A, Schema3, key1 :> d1, Self, {}, {}),
     Source(A, Schema4, key1 :> d1, Self, {}, {create}),
     Source(B, SchemaB, key1 :> d2, Nothing, {}, {})}

MCScenarios ==
    [fresh : {TRUE}, crashes : {0, 1}, registrations : {1}]
        \cup [fresh : {FALSE}, crashes : {0}, registrations : {3}]
=============================================================================

------------------------ MODULE ReferentialIntegrity ------------------------
(***************************************************************************)
(* References between artifacts (referential_integrity.cpp), as pure       *)
(* operators on the objects of one commit.                                 *)
(*                                                                         *)
(* A stored artifact is its type and its payload; of the payload the       *)
(* reference fields are kept, and one value for everything else.  A        *)
(* reference field f of type From[f] holds IDs of artifacts of type To[f]; *)
(* its covering index has one object per target, with one row per artifact *)
(* that refers to it.  Reference definitions and types do not change here. *)
(***************************************************************************)
EXTENDS Naturals, FiniteSetsExt

CONSTANTS
    Ids,             \* the artifact IDs, numbers
    Types,           \* the type names
    Fields,          \* the reference fields of all types
    From, To,        \* per field: the referencing and the target type
    OnDelete,        \* per field: "RESTRICT", "CASCADE" or "SET_NULL"
    Repeated,        \* the fields that hold a list of IDs
    Nested,          \* the fields inside a sub-message
    DefIds,          \* per field: the ID of its reference definition
    Bodies, NoBody,  \* what else a payload holds, or nothing
    Absent

ASSUME ReferenceAssumption ==
    /\ Ids \subseteq Nat /\ IsFiniteSet(Ids)
    /\ IsFiniteSet(Fields) /\ "artifact" \notin Fields
    /\ From \in [Fields -> Types] /\ To \in [Fields -> Types]
    /\ OnDelete \in [Fields -> {"RESTRICT", "CASCADE", "SET_NULL"}]
    /\ Repeated \subseteq Fields /\ Nested \subseteq Fields
    /\ DefIds \in [Fields -> Nat]
    /\ NoBody \notin Bodies

INSTANCE IndexObject WITH Artifacts <- Ids, OrderValues <- {0}, Missing <- Absent

ArtifactPath(a)  == <<"artifact", a>>
ArtifactPaths    == {ArtifactPath(a) : a \in Ids}
IndexPaths       == Fields \X Ids
ObjectPaths      == ArtifactPaths \cup IndexPaths

StoredArtifacts ==
    [type : Types, body : Bodies \cup {NoBody}, refs : [Fields -> SUBSET Ids]]

NoRefs == [f \in Fields |-> {}]

(* A payload without any field set is serialized to no bytes at all, which *)
(* is how a tombstone looks.                                               *)
EmptyPayload(s) == s.body = NoBody /\ s.refs = NoRefs
Tombstone(s) == [s EXCEPT !.body = NoBody, !.refs = NoRefs]

ReadStoredArtifact(objects, a) == objects[ArtifactPath(a)]

Exists(objects, a) == ReadStoredArtifact(objects, a) # Absent
Live(objects, a) ==
    Exists(objects, a) /\ ~EmptyPayload(ReadStoredArtifact(objects, a))
Tombstoned(objects, a) ==
    Exists(objects, a) /\ EmptyPayload(ReadStoredArtifact(objects, a))

(* DeriveIndexEntries(), for the covering indexes: an entry for the value  *)
(* of a field that is set, or for each distinct element of a list.         *)
DeriveIndexEntries(s) == {p \in IndexPaths : p[2] \in s.refs[p[1]]}

(* ValidateReferences(): every target exists, is no tombstone, and has the *)
(* type the field asks for.  (A list that names an ID twice is rejected,   *)
(* so a field's value is a set here.)                                      *)
References(s) == {n \in Fields \X Ids : n[2] \in s.refs[n[1]]}

ValidateSingleReference(objects, f, x) ==
    Live(objects, x) /\ ReadStoredArtifact(objects, x).type = To[f]

-----------------------------------------------------------------------------
(* Deleting.                                                               *)

ReadIndexArtifactIds(objects, f, a) == DOMAIN Rows(objects[<<f, a>>])

(* FindActiveReferencingArtifacts(): the rows of the covering index, if    *)
(* its ID is among those the service process knows.  An unknown index      *)
(* counts as one without rows.                                             *)
FindActiveReferencingArtifacts(objects, known, f, a, scheduled) ==
    IF f \in known
    THEN ReadIndexArtifactIds(objects, f, a) \ (scheduled \cup {a})
    ELSE {}

NoEffects == [cascades |-> {}, nulls |-> {}]

(* EnforceDeleteIntegrity() is recursive, and reads the store in every     *)
(* call: here is a call that has been made.  It has the reference          *)
(* definitions onto the artifact's type that are still to be looked at,    *)
(* and the referrers by the last one that are still to be recursed into;   *)
(* the artifacts scheduled for deletion as the call was told (given) and   *)
(* as they are for the last definition, for what one definition schedules  *)
(* is not seen by the next one; and the ones it has found.                 *)
Call(a, type, given) ==
    [id |-> a, defs |-> {f \in Fields : To[f] = type}, queue |-> {},
     given |-> given, scheduled |-> given, found |-> {}]

(* They are looked at in the order of their index rows.                    *)
NextDef(k, f) == f \in k.defs /\ \A g \in k.defs : DefIds[f] <= DefIds[g]

(* The call k finds the referrers by f.  Those of a CASCADE are deleted.   *)
Deleted(f, referrers) == IF OnDelete[f] = "CASCADE" THEN referrers ELSE {}

(* Mutant: no recursion.                                                   *)
FoundOneLevel(k, f, referrers) ==
    [k EXCEPT !.defs = @ \ {f}, !.found = @ \cup Deleted(f, referrers)]

Found(k, f, referrers) ==
    [k EXCEPT !.defs = @ \ {f}, !.queue = Deleted(f, referrers),
              !.scheduled = k.given \cup Deleted(f, referrers),
              !.found = @ \cup Deleted(f, referrers)]

(* The side effects with those of the referrers by f of artifact a.        *)
Entail(effects, f, a, referrers) ==
    [cascades |-> effects.cascades \cup Deleted(f, referrers),
     nulls    |-> effects.nulls \cup
        {<<b, f, a>> : b \in IF OnDelete[f] = "SET_NULL" THEN referrers ELSE {}}]

(* The call k goes on after the one it has made has found these.           *)
Returned(k, found) ==
    [k EXCEPT !.scheduled = @ \cup found, !.found = @ \cup found]
=============================================================================

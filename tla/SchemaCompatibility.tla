------------------------ MODULE SchemaCompatibility ------------------------
(***************************************************************************)
(* Whether one version of a message type may follow another                *)
(* (schema_compatibility.cpp), as pure operators.                          *)
(*                                                                         *)
(* A descriptor set maps the names of its messages to messages, a message  *)
(* maps field numbers to fields.  A field has a name, a type, a label, the *)
(* oneof it is in and, if its type is "message", the message's name.       *)
(***************************************************************************)
EXTENDS Naturals, FiniteSets

LOCAL INSTANCE SequencesExt

CONSTANT NoName    \* no oneof, no message

MessageField(field) == field.type = "message"

(* The checks of one field: still there under its number, with its name,   *)
(* its type and its label.                                                 *)
FieldKept(field, new, number) ==
    /\ number \in DOMAIN new
    /\ new[number].name = field.name
    /\ new[number].type = field.type
    /\ new[number].label = field.label

Oneofs(message) == {message[n].oneof : n \in DOMAIN message} \ {NoName}

(* A oneof must not go, and no field may leave it.                         *)
OneofsKept(old, new) ==
    /\ Oneofs(old) \subseteq Oneofs(new)
    /\ \A n \in DOMAIN old \cap DOMAIN new :
        old[n].oneof # NoName => new[n].oneof = old[n].oneof

(* Mutant: the messages that fields hold are not compared.                 *)
CompareTopMessage(old, new, name) ==
    /\ OneofsKept(old[name], new[name])
    /\ \A k \in DOMAIN old[name] : FieldKept(old[name][k], new[name], k)

(* CompareMessages() goes through the fields of a message, down into the   *)
(* messages they hold when both sides have one under the same name.        *)
(* visited has the names of old messages that need no second comparison.   *)
CompareMessages(old, new, name) ==
    LET compare[call \in (DOMAIN old) \X (DOMAIN new) \X (SUBSET DOMAIN old)] ==
            LET o == old[call[1]]
                n == new[call[2]]
                field(acc, k) ==
                    LET kept == FieldKept(o[k], n, k)
                        down == /\ k \in DOMAIN n /\ n[k].name = o[k].name
                                /\ MessageField(o[k]) /\ MessageField(n[k])
                        deep == IF down THEN compare[<<o[k].message, n[k].message,
                                                       acc.visited>>]
                                ELSE [ok |-> TRUE, visited |-> acc.visited]
                    IN  [ok |-> acc.ok /\ kept /\ deep.ok, visited |-> deep.visited]
            IN  IF call[1] \in call[3] THEN [ok |-> TRUE, visited |-> call[3]]
                ELSE FoldLeft(field,
                        [ok |-> OneofsKept(o, n), visited |-> call[3] \cup {call[1]}],
                        SetToSortSeq(DOMAIN o, <))
    IN  compare[<<name, name, {}>>].ok

(* CheckSchemaCompatibility().                                             *)
CheckSchemaCompatibility(old, new, name) ==
    /\ name \in DOMAIN old /\ name \in DOMAIN new
    /\ CompareMessages(old, new, name)

-----------------------------------------------------------------------------
(* What the check is for, as a reference: wherever a reader with the new   *)
(* version comes to while it reads what was written with the old one, the  *)
(* two messages agree.                                                     *)

Meets(old, new, pairs) ==
    UNION {{<<old[p[1]][k].message, new[p[2]][k].message>> :
                k \in {k \in DOMAIN old[p[1]] \cap DOMAIN new[p[2]] :
                        MessageField(old[p[1]][k]) /\ MessageField(new[p[2]][k])}} :
           p \in pairs}

MessagePairs(old, new, name) ==
    LET met[k \in Nat] ==
            IF k = 0 THEN {<<name, name>>}
            ELSE LET before == met[k - 1]
                 IN  before \cup Meets(old, new, before)
    IN  met[Cardinality(DOMAIN old) * Cardinality(DOMAIN new)]

CanRead(old, new, name) ==
    \A p \in MessagePairs(old, new, name) :
        LET o == old[p[1]]
            n == new[p[2]]
        IN  OneofsKept(o, n) /\ \A k \in DOMAIN o : FieldKept(o[k], n, k)

(* No message of the old version has become two different ones.            *)
MessagesKeepApart(old, new, name) ==
    \A p, q \in MessagePairs(old, new, name) : p[1] = q[1] => p[2] = q[2]
=============================================================================

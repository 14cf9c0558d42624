-------------------------------- MODULE MCRefs --------------------------------
(* Schemas whose definitions may name those of another file, which has       *)
(* definitions of the same names: what the references are replaced by.       *)
EXTENDS SchemaRefs

VARIABLE schema

Ref(file, name) == Put(Empty, "$ref", RefTo(file, <<"$defs", name>>))
One(name, sub) == Dict([n \in {name} |-> sub])
MCFiles ==
  [other |-> One("$defs", Dict([a |-> One("p", Ref(Here, "b")), b |-> One("d", Leaf("far"))]))]

Nodes == {Leaf("x"), Ref(Here, "a"), Ref(Here, "b"), Ref("other", "a")}
Order == <<"$defs", "a", "b", "p", "d">>

MCInit == \E a, b, p \in Nodes \cup {One("p", n) : n \in Nodes} :
            schema = Dict([n \in {"$defs", "p"} |->
                             IF n = "p" THEN p ELSE Dict([a |-> a, b |-> b])])
MCSpec == MCInit /\ [][FALSE]_schema

(* A resolved schema means what the schema meant.                            *)
RefsKeepMeaningAcrossFiles == RefsKeepMeaning(schema, Inline, Order, 5)
=============================================================================

---------------------------- MODULE StrictSchema ----------------------------
(* schema/strict.py, the conversion of a schema to the strict mode of        *)
(* structured outputs, and schema/openai_strict.py, which tells the schemas  *)
(* that mode cannot express.  A schema is a dict of keywords; under          *)
(* properties and the like the keys are names, not keywords.                 *)
EXTENDS Trees

CONSTANT Extensions    \* the keys that start with x-

Members(tree) == IF IsList(tree) THEN tree.list ELSE <<>>
Has(node, keyword) == keyword \in Names(node)
Value(node, keyword, otherwise) == IF Has(node, keyword) THEN node.of[keyword].value ELSE otherwise

NameMaps == {"properties", "patternProperties", "$defs", "definitions", "dependentSchemas"}
DataKeywords == {"const", "enum", "default", "examples"}
Combinators == {"oneOf", "anyOf", "allOf"}

-----------------------------------------------------------------------------
\* _strip_extensions(): names tells whether the keys of this dict are names.
Stripped(names, keyword) == ~names /\ keyword \in Extensions \cup {"default"}
NamesBelow(names, keyword) == ~names /\ keyword \in NameMaps

RECURSIVE StripExtensions(_, _)
StripExtensions(node, names) ==
  CASE IsDict(node) ->
         Dict([k \in {k \in Names(node) : ~Stripped(names, k)} |->
                 IF ~names /\ k \in DataKeywords THEN node.of[k]
                 ELSE StripExtensions(node.of[k], NamesBelow(names, k))])
    [] IsList(node) ->
         List([i \in DOMAIN node.list |-> StripExtensions(node.list[i], FALSE)])
    [] OTHER -> node

-----------------------------------------------------------------------------
\* _convert_to_strict(): a property that may be absent becomes one that may be null.
Constraining == {"enum", "const", "$ref", "allOf", "anyOf", "oneOf", "not", "if"}
NullType == Dict([k \in {"type"} |-> Leaf({"null"})])
NullableByType(prop) ==
  Put(prop, "type", Leaf(Value(prop, "type", {}) \cup {"null"}))
Nullable(prop) ==
  IF ~Has(prop, "type") \/ Names(prop) \cap Constraining # {}
  THEN Dict([k \in {"anyOf"} |-> List(<<prop, NullType>>)])
  ELSE Put(prop, "type", Leaf(prop.of["type"].value \cup {"null"}))

Hardened(node) ==
  LET props == node.of["properties"]
      optional == Names(props) \ Value(node, "required", {})
      nullable == Dict([n \in Names(props) |->
                          IF n \in optional THEN Nullable(props.of[n]) ELSE props.of[n]])
      closed == Put(Put(node, "additionalProperties", Leaf(FALSE)), "properties", nullable)
  IN IF Has(node, "properties") /\ "object" \in Value(node, "type", {"object"})
     THEN Put(closed, "required", Leaf(Names(props)))
     ELSE node

RECURSIVE ConvertToStrict(_)
ConvertToStrict(node) ==
  LET hard == Hardened(node)
      below(k, sub) ==
        CASE k \in {"properties", "definitions", "$defs"} /\ IsDict(sub) ->
               Dict([n \in Names(sub) |-> ConvertToStrict(sub.of[n])])
          [] k = "items" /\ IsDict(sub) -> ConvertToStrict(sub)
          [] k \in Combinators \cup {"prefixItems"} /\ IsList(sub) ->
               List([i \in DOMAIN sub.list |-> ConvertToStrict(sub.list[i])])
          [] OTHER -> sub
  IN IF IsDict(node) THEN Dict([k \in Names(hard) |-> below(k, hard.of[k])]) ELSE node

ToStrictSchema(schema) == ConvertToStrict(StripExtensions(schema, FALSE))

-----------------------------------------------------------------------------
\* detect_openai_strict_incompatibilities() finds nothing; branches are walked under unions only.
UnsupportedKeywords == {
  "allOf", "dependentRequired", "dependentSchemas", "else", "if", "not", "then", "oneOf",
  "maxLength", "minLength", "maxProperties", "minProperties", "patternProperties",
  "propertyNames", "unevaluatedProperties", "additionalItems", "contains", "maxContains",
  "minContains", "prefixItems", "unevaluatedItems", "uniqueItems"}
SupportedFormats == {"date-time", "time", "date", "duration", "email", "hostname", "ipv4", "ipv6",
                     "uuid"}

RECURSIVE Compatible(_, _)
Compatible(node, isRoot) ==
  IsDict(node) =>
    /\ Names(node) \cap UnsupportedKeywords = {}
    /\ isRoot => ~Has(node, "anyOf")
    /\ Value(node, "format", "date") \in SupportedFormats
    /\ \A k \in Names(node) \cap {"properties", "$defs", "definitions"} :
         \A n \in Names(node.of[k]) : Compatible(node.of[k].of[n], FALSE)
    /\ \A k \in Names(node) \cap {"items", "additionalProperties"} : Compatible(node.of[k], FALSE)
    /\ \A k \in Names(node) \cap {"anyOf", "oneOf"} :
         \A i \in DOMAIN Members(node.of[k]) : Compatible(node.of[k].list[i], FALSE)

-----------------------------------------------------------------------------
(* What a schema says of a value (a scalar or a dict of values), for the    *)
(* keywords above; and when a value of the strict schema stands for one of  *)
(* the schema: with nulls where the other has nothing.                      *)
Null == Leaf("null")
TypeOf(v) == IF IsDict(v) THEN "object" ELSE v.value

RECURSIVE Valid(_, _), StandsFor(_, _), Closed(_)
Valid(v, node) ==
  LET branches(k) == {i \in DOMAIN Members(node.of[k]) : Valid(v, node.of[k].list[i])}
  IN /\ TypeOf(v) \in Value(node, "type", {TypeOf(v)})
     /\ v \in Value(node, "enum", {v})
     /\ IsDict(v) =>
          /\ Value(node, "required", {}) \subseteq Names(v)
          /\ Has(node, "properties") =>
               \A n \in Names(v) \cap Names(node.of["properties"]) :
                 Valid(v.of[n], node.of["properties"].of[n])
          /\ ~Value(node, "additionalProperties", TRUE) =>
               Names(v) \subseteq Names(Entry(node, "properties"))
     /\ Has(node, "anyOf") => branches("anyOf") # {}
     /\ Has(node, "oneOf") => Cardinality(branches("oneOf")) = 1
     /\ Has(node, "allOf") => branches("allOf") = DOMAIN node.of["allOf"].list

StandsFor(f, v) ==
  \/ f = v
  \/ /\ IsDict(f) /\ IsDict(v)
     /\ Names(v) \subseteq Names(f)
     /\ \A n \in Names(f) : IF n \in Names(v) THEN StandsFor(f.of[n], v.of[n]) ELSE f.of[n] = Null

\* The schema, and nothing but what it declares
Closed(node) ==
  LET below(k, sub) ==
        CASE k = "properties" -> Dict([n \in Names(sub) |-> Closed(sub.of[n])])
          [] k \in Combinators -> List([i \in DOMAIN sub.list |-> Closed(sub.list[i])])
          [] OTHER -> sub
      kept == Dict([k \in Names(node) |-> below(k, node.of[k])])
  IN IF Has(node, "properties") THEN Put(kept, "additionalProperties", Leaf(FALSE)) ELSE kept

(* What a model answers to the strict schema stands for an answer to the    *)
(* schema itself, and every closed answer to that one can be given; for the *)
(* schemas that the mode is said to express.                                *)
StrictIsExact(schema, values) ==
  LET strict == ToStrictSchema(schema)
  IN Compatible(schema, TRUE) =>
       /\ \A f \in values : Valid(f, strict) => \E v \in values : StandsFor(f, v) /\ Valid(v, schema)
       /\ \A v \in values :
            Valid(v, Closed(schema)) => \E f \in values : StandsFor(f, v) /\ Valid(f, strict)
=============================================================================

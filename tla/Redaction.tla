------------------------------ MODULE Redaction ------------------------------
(* utils/redaction.py, what is hidden of the inputs and outputs a call       *)
(* records, and the walk of observability/context_logger.py that hides the   *)
(* same of what is logged.  A schema is a graph of named nodes, from "root": *)
(* identity and references are by name.  Texts are sequences of characters.  *)
EXTENDS Trees, Patterns

CONSTANTS SensitiveKeys,  \* obs.redaction.sensitive_keys
          Protected,      \* PROTECTED_LOG_FIELDS
          Matching,       \* the strings that a pattern of obs.redaction.regex_patterns finds
          MaxDepth        \* _MAX_REDACTION_DEPTH

None == Leaf("none")
Token == Leaf("token")
Secret(value) == ~IsDict(value) /\ ~IsList(value) /\ value.value \in Matching

-----------------------------------------------------------------------------
\* _views(): the schemas that apply where one does, through references and branches.
DirectViews(schema, pending, views) ==
  LET node == schema[Last(pending)] IN pending \o node.ref \o node.branches
RECURSIVE Views(_, _, _)
Views(schema, pending, views) ==
  LET node == Last(pending)
      rest == Front(pending)
  IN CASE pending = <<>> -> views
       [] pending # <<>> /\ Contains(views, node) -> Views(schema, rest, views)
       [] OTHER -> Views(schema, rest \o schema[node].ref \o schema[node].branches,
                         Append(views, node))

\* The positional schemas of an array, and the one of the items after them
Tupled(node) == node.legacy /\ node.itemArray # <<>>
Prefix(node) == CASE Tupled(node) -> node.itemArray
                  [] ~node.legacy -> node.prefixItems
                  [] OTHER -> <<>>
Rest(node) == IF Tupled(node) THEN node.additionalItems ELSE node.items

RECURSIVE RedactValue(_, _, _), RedactArray(_, _, _), RedactObject(_, _, _)
RedactValue(schema, value, node) ==
  LET views == Views(schema, <<node>>, <<>>)
  IN CASE value # None /\ (\E n \in ToSet(views) : schema[n].sensitive) -> Token
       [] value = None -> None
       [] OTHER -> IF IsDict(value) THEN RedactObject(schema, value, views)
                   ELSE IF IsList(value)
                   THEN FoldLeft(LAMBDA list, n : RedactArray(schema, list, schema[n]), value, views)
                   ELSE value

RedactArray(schema, array, node) ==
  LET prefix == Prefix(node)
      rest == Rest(node)
  IN List([k \in DOMAIN array.list |->
             CASE k <= Len(prefix) -> RedactValue(schema, array.list[k], prefix[k])
               [] k > Len(prefix) /\ rest # <<>> -> RedactValue(schema, array.list[k], rest[1])
               [] OTHER -> array.list[k]])

RedactObject(schema, data, views) ==
  FoldLeft(LAMBDA object, n :
             LET properties == schema[n].properties
             IN Dict([k \in Names(object) |->
                        IF k \in DOMAIN properties
                        THEN RedactValue(schema, object.of[k], properties[k])
                        ELSE object.of[k]]),
           data, views)

RedactFields(schema, data) == RedactObject(schema, data, Views(schema, <<"root">>, <<>>))

-----------------------------------------------------------------------------
\* _key_matches(): a glob is anchored, anything else is looked for in the key.
Lower(text) ==
  LET small == [c \in {"A", "B", "K"} |-> CASE c = "A" -> "a" [] c = "B" -> "b" [] OTHER -> "k"]
  IN [k \in DOMAIN text |-> IF text[k] \in DOMAIN small THEN small[text[k]] ELSE text[k]]
Separator(c) == c \in {"-", "_", " "}
NormalizeForMatch(text) == [k \in DOMAIN text |-> IF Separator(text[k]) THEN "_" ELSE Lower(text)[k]]
CompactForMatch(text) == SelectSeq(Lower(text), LAMBDA c : ~Separator(c))
Within(part, text) == \E k \in 1..(Len(text) + 1) : Fits(part, text, k, FALSE)
IsGlob(pattern) == Contains(pattern, Star) \/ Contains(pattern, Question)
KeyMatches(key) ==
  \E pattern \in SensitiveKeys \ {<<>>} :
    IF IsGlob(pattern) THEN MatchGlob(Lower(pattern), Lower(key))
    ELSE \/ Within(NormalizeForMatch(pattern), NormalizeForMatch(key))
         \/ Within(CompactForMatch(pattern), CompactForMatch(key))

\* _redact_by_keys_and_regex() and _redact_in_list(): a protected name hides nothing below it.
RECURSIVE ByKeysAndRegex(_), InList(_)
Below(value) == CASE IsDict(value) -> ByKeysAndRegex(value)
                  [] IsList(value) -> InList(value)
                  [] OTHER -> value
ByKeysAndRegex(data) ==
  LET hides(k) == KeyMatches(k) \/ Secret(data.of[k])
  IN Dict([k \in Names(data) |->
             CASE data.of[k] = None -> None
               [] data.of[k] # None /\ k \notin Protected /\ hides(k) -> Token
               [] OTHER -> Below(data.of[k])])
InList(array) ==
  List([k \in DOMAIN array.list |->
          IF Secret(array.list[k]) THEN Token ELSE Below(array.list[k])])

RedactSensitive(data, schema) == ByKeysAndRegex(RedactFields(schema, data))

-----------------------------------------------------------------------------
\* _redact_secrets_recursive(): what is logged, down to a depth, None included.
RECURSIVE RedactSecrets(_, _)
RedactSecrets(value, depth) ==
  LET entry(k) ==
        LET inner == value.of[k]
        IN CASE k \notin Protected /\ (KeyMatches(k) \/ Secret(inner)) -> Token
             [] k \in Protected /\ ~IsDict(inner) /\ ~IsList(inner) -> inner
             [] OTHER -> RedactSecrets(inner, depth + 1)
  IN CASE depth > MaxDepth -> value
       [] depth <= MaxDepth /\ IsDict(value) -> Dict([k \in Names(value) |-> entry(k)])
       [] depth <= MaxDepth /\ IsList(value) ->
            List([k \in DOMAIN value.list |-> RedactSecrets(value.list[k], depth + 1)])
       [] OTHER -> IF Secret(value) THEN Token ELSE value

-----------------------------------------------------------------------------
(* The reference: what a value is hidden for, by every schema that applies  *)
(* where it stands and by the name it stands under.                         *)
Applying(schema, nodes) ==
  LET closed(s) == \A n \in s : ToSet(schema[n].ref \o schema[n].branches) \subseteq s
  IN {n \in DOMAIN schema : \A s \in SUBSET DOMAIN schema : nodes \subseteq s /\ closed(s) => n \in s}

RECURSIVE Masked(_, _, _, _)
MaskedObject(schema, data, views) ==
  Dict([k \in Names(data) |->
          Masked(schema, data.of[k],
                 {schema[n].properties[k] : n \in {n \in views : k \in DOMAIN schema[n].properties}},
                 {k})])
MaskedArray(schema, array, views) ==
  LET items(n, k) == IF k <= Len(Prefix(schema[n])) THEN {Prefix(schema[n])[k]}
                     ELSE ToSet(Rest(schema[n]))
  IN List([k \in DOMAIN array.list |->
             Masked(schema, array.list[k], UNION {items(n, k) : n \in views}, {})])
Masked(schema, value, nodes, names) ==
  LET views == Applying(schema, nodes)
      exempt == names \cap Protected # {}
      hidden == \/ \E n \in views : schema[n].sensitive
                \/ ~exempt /\ (Secret(value) \/ \E name \in names : KeyMatches(name))
  IN CASE value = None -> None
       [] value # None /\ hidden -> Token
       [] OTHER -> IF IsDict(value) THEN MaskedObject(schema, value, views)
                   ELSE IF IsList(value) THEN MaskedArray(schema, value, views) ELSE value

RECURSIVE Levels(_), HasNone(_)
Parts(value) == IF IsList(value) THEN ToSet(value.list) ELSE {value.of[k] : k \in Names(value)}
Levels(value) == IF IsList(value) \/ IsDict(value) THEN 1 + Max({0} \cup {Levels(v) : v \in Parts(value)})
                 ELSE 0
HasNone(value) == IF IsList(value) \/ IsDict(value) THEN \E v \in Parts(value) : HasNone(v)
                  ELSE value = None

(* What a call records hides exactly what a schema, through references,     *)
(* branches and itself, or a name marks, wherever it stands; and what is    *)
(* logged hides the same by name, to a depth, of data without None.         *)
RedactionIsExact(data, schema) ==
  /\ RedactSensitive(data, schema) = MaskedObject(schema, data, Applying(schema, {"root"}))
  /\ Levels(data) <= MaxDepth /\ ~HasNone(data) => RedactSecrets(data, 0) = ByKeysAndRegex(data)
==============================================================================

----------------------------- MODULE MCRequests -----------------------------
(* What a request goes through (Requests), and what it is governed by: the   *)
(* configuration, and the functions that read rules, policies and keys.      *)
(* They share no state, so a behaviour of this module is one of one of them  *)
(* (the subject), with the others at rest.                                   *)
EXTENDS Requests

CONSTANTS ck,             \* a check of the ACL
          t1, t2, t3      \* threads that use the configuration, or call an executor

VARIABLES
  subject,
  input        \* what a function is applied to, where the subject is one

-----------------------------------------------------------------------------
(* One call: a retry middleware inside another one, whose after hook may    *)
(* fail once the retry counter was reset; calls, streams and dry runs       *)
(* through three presets; max_module_repeat admits two attempts.            *)
MCOrder == <<"outer", "retry">>
MCModes == {"call", "trace", "stream", "validate"}
MCStrategies == {"standard", "performance", "minimal"}

-----------------------------------------------------------------------------
(* The ACL: rules that exercise every operator and outcome, lists of at     *)
(* most three of them, two condition keys, one check beside a client that   *)
(* changes the rules twice.                                                 *)
Rule(callers, targets, effect, approval, conditions) ==
  [callers |-> callers, targets |-> targets, effect |-> effect, approval |-> approval,
   conditional |-> TRUE, conditions |-> conditions]
Unconditional(callers, targets, effect, approval) ==
  [Rule(callers, targets, effect, approval, {}) EXCEPT !.conditional = FALSE]
Everyone == <<"*">>
Target == <<"db">>

MCPool == {
  Rule(Everyone, Target, "allow", FALSE, {Key("k1")}),
  Rule(Everyone, Target, "allow", TRUE, {Or({{"k1"}, {"k2"}})}),
  Rule(Everyone, Target, "deny", FALSE, {Not({"k1"}), Key("k2")}),
  Rule(Everyone, Target, "allow", FALSE, {Not({"k1", "k2"})}),
  Rule(Everyone, Target, "allow", TRUE, {Malformed}),
  Unconditional(<<"$not", "ui">>, Target, "deny", FALSE),
  Unconditional(<<"$or", "@external", "@system">>, Target, "allow", FALSE),
  Unconditional(NotStrings, Everyone, "allow", TRUE),
  Unconditional(<<"$not", "ui", "db">>, Everyone, "allow", FALSE)}

MCFiles == {[rules |-> <<Rule(Everyone, Target, "allow", TRUE, {Or({{"k1"}, {"k2"}})}),
                         Rule(Everyone, Target, "allow", FALSE, {Key("k1")})>>,
             default |-> "allow"],
            [rules |-> <<Rule(Everyone, Target, "deny", FALSE, {Not({"k1"}), Key("k2")})>>,
             default |-> "deny"],
            [rules |-> <<>>, default |-> "allow"]}
MCKeys == {"k1", "k2"}
MCCalls == {call \in [caller : {"ui", "@external"}, target : {"db"}, context : BOOLEAN,
                      system : {TRUE}, path : {"sync", "async"}, answers : [MCKeys -> Answers]] :
              ~call.context => call.answers = [k \in MCKeys |-> "no"]}
MCCheckers == {ck}
MCBuiltIn == {"k1"}
-----------------------------------------------------------------------------
(* The configuration: four pairs of files, four environments, two           *)
(* namespaces, two threads.                                                 *)
One(name, sub) == Dict([n \in {name} |-> sub])
MCDefaults == Dict([executor |-> Dict([timeout |-> Leaf("30"), depth |-> Leaf("8")]),
                    extensions |-> One("root", Leaf("ext"))])
MCRegistrations == [
  obs |-> [defaults |-> One("redaction", One("text", Leaf("***"))), prefix |-> "APCORE_OBS",
           mapped |-> [n \in {"OBS_URL"} |-> <<"url">>]],
  app |-> [defaults |-> Empty, prefix |-> "APP", mapped |-> <<>>]]

Legacy == Dict([version |-> Leaf("1"), executor |-> One("timeout", Leaf("60")),
                extensions |-> One("root", Leaf(""))])
Spaced == Dict([apcore |-> Dict([version |-> Leaf("1"), executor |-> One("timeout", Leaf("60"))]),
                obs |-> One("redaction", One("text", Leaf("#"))), other |-> One("x", Leaf("1")),
                _config |-> One("allow_unknown", Leaf("false"))])
StrictText == Dict([apcore |-> One("executor", One("timeout", Leaf("60"))),
                    _config |-> One("strict", Leaf("true"))])
LeafText == Dict([apcore |-> One("version", Leaf("1")), app |-> Leaf("x")])
BadText == One("executor", One("timeout", Leaf("bad")))

Variable(name, value) == [name |-> name, value |-> value, global |-> <<>>, suffix |-> <<>>,
                          prefix |-> "", key |-> <<>>]
Timeout == [Variable("APCORE_EXECUTOR_TIMEOUT", "5") EXCEPT !.suffix = <<"executor", "timeout">>]
Root(v) == [Variable("APCORE_EXTENSIONS_ROOT", v) EXCEPT !.suffix = <<"extensions", "root">>]
Redaction(v) == [Variable("APCORE_OBS_REDACTION_TEXT", v) EXCEPT
                   !.suffix = <<"obs", "redaction", "text">>, !.prefix = "APCORE_OBS",
                   !.key = <<"redaction", "text">>]
AppKey == [Variable("APP_K_V", "5") EXCEPT !.prefix = "APP", !.key = <<"k", "v">>]
Port == [Variable("PORT", "7") EXCEPT !.global = <<"executor", "timeout">>]

MCRequired == {<<"version">>}
MCPathTyped == {<<"extensions", "root">>}
MCDisks == {<<Missing, Legacy>>, <<Spaced, Legacy>>, <<Missing, Missing>>, <<StrictText, Missing>>}
MCTexts == {Legacy, Spaced, StrictText, LeafText, BadText}
MCEnvironments == {<<>>, <<Timeout, Root(""), AppKey>>, <<Timeout, Port, Redaction("-")>>,
                   <<Variable("OBS_URL", "u"), Redaction("+"), Root("r")>>}
MCAdditions == {<<"obs", One("redaction", One("text", Leaf("m")))>>,
                <<"app", One("k", One("v", Leaf("m")))>>, <<"app", One("k", Leaf("n"))>>}
MCSettings == {<<<<"executor", "timeout">>, Leaf("9")>>, <<<<"app", "k", "v">>, Leaf("s")>>,
               <<<<"obs">>, Leaf("s")>>}
MCUsers == {t1, t2}

-----------------------------------------------------------------------------
(* Synchronous calls: three threads, in a loop of their own or not, that    *)
(* call an executor or close it, three times in all.                        *)
MCThreads == {t1, t2, t3}

-----------------------------------------------------------------------------
(* The keys of environment variables: defaults with up to three names at    *)
(* the top and three levels, names that underscores make ambiguous.         *)
A == <<"a">>
B == <<"b">>
AB == <<"a", "_", "b">>
TreesOver(names, below) ==
  UNION {{Dict(tree) : tree \in [chosen -> {Leaf("x")} \cup below]} : chosen \in SUBSET names}
MCNamespaces ==
  [defaults : TreesOver({A, AB, <<"a", "_">>},
                        TreesOver({B, <<"b", "_", "a">>}, {Dict([n \in {A} |-> Leaf("x")])})),
   depth : 1..3]

-----------------------------------------------------------------------------
(* Patterns over two letters and both wildcards.                            *)
MCCharacters == {"a", "b", "*", "?"}
TextsOver(letters, length) == UNION {[1..n -> letters] : n \in 0..length}
MCAskedPatterns == TextsOver(MCCharacters, 4)
MCAskedTexts == TextsOver({"a", "b"}, 4)

-----------------------------------------------------------------------------
(* Rule files: every array of up to three patterns in one rule, and         *)
(* conditions three levels deep; found below the configuration's directory, *)
(* in a directory of their own, or not.                                     *)
Having(key, value) == [k \in {key} |-> value]
Also(key, value) == [k \in {"k", key} |-> IF k = "k" THEN {"x"} ELSE value]
Args(p, value) == Having("arguments", [k \in p |-> value])
Flat == {<<>>, Having("k", {"x"}), Having("typo", {"x"}), Having("roles", {"x"}),
         Also("arguments", NotA), Having("max_call_depth", 1), Having("identity_types", NotA),
         Args({"has_key", "has_none_of"}, {"path"}), Args({"has"}, {"path"})}
Nest(inner) ==
  UNION {{Having("$not", c), Also("$not", c), Having("$or", <<Having("k", {"x"}), c>>),
          Having("$or", <<c>>)} : c \in inner}
MCConditions == Flat \cup Nest(Flat) \cup Nest(Nest(Flat))
                \cup {Having("$or", NotA), Having("$or", <<>>), Having("$or", <<NotA, <<>>>>),
                      Having("$not", NotA), Absent, NotA}

PatternPool == {<<>>, <<"a">>, <<"*">>, <<"*", "*">>, <<"a", "?">>, NotA,
                Lint!Or, Lint!Not, Lint!External, Lint!System}
Arrays == UNION {[1..n -> PatternPool] : n \in 0..3} \cup {NotA}
All == <<<<"*">>>>
RawRule(callers, targets, conditions) ==
  [callers |-> callers, targets |-> targets, effect |-> "allow", conditions |-> conditions]
MCRawRules == {RawRule(patterns, All, Absent) : patterns \in Arrays}
            \cup {RawRule(All, patterns, Absent) : patterns \in Arrays}
            \cup {RawRule(All, All, conditions) : conditions \in MCConditions}
            \cup {NotA, [callers |-> All],
                  [callers |-> All, targets |-> All, effect |-> "allow", priority |-> All],
                  [callers |-> All, targets |-> All, effect |-> "deny", approval |-> "required"]}
RuleDocument(raw) == [rules |-> <<raw>>]
DisksOf(raw) ==
  {[path \in {<<"etc", "acl">>, <<"etc", "acl", "global_acl.yaml">>} |->
      IF path = <<"etc", "acl">> THEN Directory ELSE RuleDocument(raw)],
   [path \in {<<"etc", "acl">>} |-> RuleDocument(raw)], [path \in {<<"etc">>} |-> Directory]}

MCRulePlaces ==
  {[root |-> [absolute |-> FALSE, path |-> <<"acl">>], directory |-> <<"etc">>, files |-> files] :
     files \in UNION {DisksOf(raw) : raw \in MCRawRules}}
MCKnownIds == TextsOver({"a", "b"}, 2) \ {<<>>}
MCCallViews == [identity : {Absent, [type |-> "user", roles |-> {"x"}]}, depth : {1, 2},
         present : {{}, {"path"}}, answers : [{"k"} -> {"satisfied", "unsatisfied"}]]

-----------------------------------------------------------------------------
(* Policies of up to three rules whose patterns tie or do not.              *)
PolicyPatterns == {<<"*">>, <<"a", ".", "*">>, <<"*", ".", "b">>}
PolicyRule(pattern, requires, destructive) ==
  [pattern |-> pattern, requires_approval |-> requires, destructive |-> destructive]
PolicyLists ==
  LET flags == {TRUE, FALSE, Unset}
      pool == {PolicyRule(p, r, d) : p \in PolicyPatterns, r \in flags, d \in flags}
      short == {PolicyRule(p, r, Unset) : p \in PolicyPatterns, r \in flags}
  IN [1..2 -> pool] \cup [1..3 -> short]
     \cup {<<[pattern |-> <<"*">>, destrutive |-> TRUE]>>, <<[destructive |-> TRUE]>>}
MCDocuments ==
  {[rules |-> list, gate_destructive |-> gate] : list \in PolicyLists, gate \in BOOLEAN}
MCNamed == {<<"a", ".", "b">>, <<"a", ".", "c">>}

-----------------------------------------------------------------------------
(* Schemas of two definitions and a property: leaves, mappings, references  *)
(* with and without keys beside them, to one another, to themselves, to     *)
(* nothing, to the root of the schema's file and to another file; in no     *)
(* file or in one; walked in two orders.                                    *)
Refs == INSTANCE SchemaRefs
  WITH MaxDepth <- 4,
       Files <- [own |-> Dict([definitions |-> One("a", Leaf("own"))]),
                 other |-> One("$defs",
                   Dict([a |-> One("p", One("$ref", [to |-> [file |-> "here",
                                                                pointer |-> <<"$defs", "far">>]])),
                         far |-> One("d", Leaf("far"))]))]

Defined(file, name) == One("$ref", Refs!RefTo(file, <<"$defs", name>>))
Self == One("$ref", [to |-> Refs!Itself])
RefNodes == {Leaf("x"), Self, Put(Self, "d", Leaf("z")), Defined("here", "b"), Defined("here", "c"),
             One("$ref", Refs!RefTo("here", <<"definitions", "a">>))}
            \cup UNION {{Defined(f, "a"), Put(Defined(f, "a"), "d", Leaf("z"))} :
                          f \in {"here", "other"}}
Schemas ==
  LET nodes == RefNodes \cup {One("p", n) : n \in RefNodes}
  IN {Dict([n \in {"$defs", "p"} |-> IF n = "p" THEN p ELSE Dict([a |-> a, b |-> b])]) :
        a \in nodes, b \in nodes, p \in RefNodes}
Walks == {<<"$defs", "a", "b", "p", "d">>, <<"p", "$defs", "b", "a", "d">>}

-----------------------------------------------------------------------------
(* Schemas of two properties, one of them named like a keyword, which are   *)
(* scalars, constrained or not, nested objects, or combinations of them.    *)
Strict == INSTANCE StrictSchema WITH Extensions <- {"x-note"}

Type(t) == One("type", Leaf(t))
Text == Type({"string"})
Object(a, required) ==
  Dict([k \in {"properties", "required"} |->
          IF k = "required" THEN Leaf(required) ELSE One("a", a)])
Scalars == {Text, Type({"null"}), Type({"string", "null"}), Empty, Put(Text, "default", Leaf("string")),
            Put(Text, "x-note", Text), Put(Text, "enum", Leaf({Leaf("string")})),
            Put(Text, "enum", Leaf({Leaf("string"), Leaf("null")})),
            One("enum", Leaf({Leaf("string"), Leaf("number")}))}
Objects == {Object(a, r) : a \in Scalars, r \in {{}, {"a"}}}
           \cup {Put(Object(Text, {}), "type", Leaf({t, "null"})) : t \in {"object", "string"}}
Combined == {One(k, List(<<p, q>>)) :
               k \in {"oneOf", "anyOf", "allOf"},
               p \in {Text, Object(Text, {}), Object(Text, {"a"}), Type({"null"})},
               q \in {Object(Type({"null"}), {"a"}), Type({"null"}), Type({"number"})}}
Structures == {Dict([k \in {"properties", "required"} |->
                       IF k = "required" THEN Leaf(r)
                       ELSE Dict([n \in {"a", "default"} |-> IF n = "a" THEN p ELSE q])]) :
                 p \in Scalars \cup Objects \cup Combined, q \in Scalars, r \in SUBSET {"a", "default"}}
Replies ==
  LET scalars == {Leaf(x) : x \in {"null", "string", "number"}}
      inner == {Dict(f) : f \in UNION {[d -> scalars] : d \in SUBSET {"a"}}}
  IN scalars \cup
     {Dict(f) : f \in {g \in UNION {[d -> scalars \cup inner] : d \in SUBSET {"a", "default"}} :
                         "default" \in DOMAIN g => g["default"] \in scalars}}

-----------------------------------------------------------------------------
(* What is hidden: schemas of two nodes below a root, which mark, refer,    *)
(* branch, nest and recur in each way; names that a key hides, that are     *)
(* protected, and neither; containers three levels deep.                    *)
KeyNames == [plain |-> <<"b">>, hidden |-> <<"x", "A", "-", "K">>, kept |-> <<"t", "_", "a", "k">>]
Hide == INSTANCE Redaction
  WITH SensitiveKeys <- {<<"a", "k">>, <<"A", "_", "*">>}, Protected <- {KeyNames.kept},
       Matching <- {"secret"}, MaxDepth <- 2

Unmarked == [sensitive |-> FALSE, ref |-> <<>>, branches |-> <<>>, properties |-> <<>>,
             legacy |-> FALSE, prefixItems |-> <<>>, itemArray |-> <<>>, items |-> <<>>,
             additionalItems |-> <<>>]
Naming(k, n) == [Unmarked EXCEPT !.properties = [p \in {k} |-> n]]
NodesTo(n) == {[Unmarked EXCEPT !.ref = <<n>>], [Unmarked EXCEPT !.branches = <<n>>],
               [Unmarked EXCEPT !.items = <<n>>], [Unmarked EXCEPT !.prefixItems = <<"m", n>>],
               [Unmarked EXCEPT !.legacy = TRUE, !.itemArray = <<n, "m">>],
               [Unmarked EXCEPT !.legacy = TRUE, !.itemArray = <<"m">>, !.additionalItems = <<n>>],
               Naming(KeyNames.plain, n), Naming(KeyNames.kept, n)}
MarkedSchemas ==
  LET marked == [Unmarked EXCEPT !.sensitive = TRUE]
  IN {[root |-> r, m |-> m, n |-> n] :
        r \in {Naming(KeyNames.plain, "m"), [Naming(KeyNames.plain, "m") EXCEPT !.branches = <<"n">>]},
        m \in {marked} \cup NodesTo("root") \cup NodesTo("n"),
        n \in {marked, Unmarked} \cup NodesTo("root") \cup NodesTo("m")}
DataOver(names, values) == {Dict(f) : f \in UNION {[d -> values] : d \in names}}
Recorded ==
  LET values == {Leaf("none"), Leaf("clear"), Leaf("secret")}
      one == {{KeyNames.plain}, {KeyNames.hidden}, {KeyNames.kept}}
      objects == DataOver(one, values)
      lists == {List(<<x, y>>) : x \in values, y \in values}
      nested == {List(<<x, y>>) : x \in {Leaf("clear")}, y \in objects \cup lists}
                \cup DataOver(one, {Dict(<<>>)} \cup objects)
  IN DataOver(one, values \cup objects \cup lists \cup nested)

-----------------------------------------------------------------------------
Inputs(s) == CASE s = "schemas" -> Schemas
               [] s = "strict" -> Structures
               [] s = "redaction" -> MarkedSchemas
               [] OTHER -> {Missing}

CallAtRest ==
  /\ callMode = "call" /\ strategy = <<>> /\ stillborn = FALSE /\ at = 1 /\ pc = "ended"
  /\ trace = {} /\ unavailable = {} /\ attempt = 0 /\ retries = 0 /\ gating = Missing /\ token = FALSE
  /\ aclAsks = FALSE /\ approved = FALSE /\ fired = {} /\ late = FALSE /\ installed = {}
  /\ todo = <<>> /\ executed = <<>> /\ queued = {} /\ bodies = {} /\ output = 0 /\ chunks = {}
  /\ error = "none" /\ outcome = "none"
AccessAtRest == /\ rules = <<>> /\ default = "deny" /\ known = [sync |-> BuiltIn, async |-> {}]
                /\ loaded = {} /\ changes = 0 /\ check = [c \in Checkers |-> Unused]
ConfAtRest == /\ disk = <<Missing>> /\ env = <<>> /\ registered = {} /\ tier = 0
              /\ mode = "legacy" /\ data = Empty /\ declared = Empty /\ mounts = Empty
              /\ shared = {} /\ reload = [t \in {t1, t2} |-> Missing] /\ ops = 0
              /\ mounted = {} /\ overlapped = FALSE

MCInit ==
  /\ subject \in {"call", "acl", "config", "sync", "keys", "patterns", "rules", "policy",
                "schemas", "strict", "redaction"}
  /\ input \in Inputs(subject)
  /\ IF subject = "call" THEN Call!Init ELSE CallAtRest
  /\ IF subject = "acl" THEN Init ELSE AccessAtRest
  /\ IF subject = "config" THEN Conf!Init ELSE ConfAtRest
  /\ Sync!Init /\ Governed!Init /\ asked = {} /\ linted = {} /\ sought = {}

MCNext ==
  /\ UNCHANGED <<subject, input>>
  /\ \/ subject = "call" /\ CallMoves
     \/ subject = "acl" /\ AccessMoves
     \/ subject = "sync" /\ SyncMoves
     \/ subject = "policy" /\ PolicyMoves
     \/ subject = "patterns" /\ Asks
     \/ subject = "rules" /\ Reads
     \/ subject = "keys" /\ Seeks
     \/ subject = "config" /\ ConfMoves

\* The fairness of a call, for the behaviours that are about one
MCSpec ==
  /\ MCInit /\ [][MCNext]_<<subject, input, calling, vars, configuration, bridge, governed>>
  /\ subject = "call" => /\ WF_calling(Call!PipelineStep) /\ WF_calling(Call!ApprovalAnswer)
                         /\ WF_calling(Call!BodyTimesOut)

-----------------------------------------------------------------------------
(* The environment wins over the file and the file over the defaults, and   *)
(* what is declared is what the file and the environment say.               *)
LayersCompose == Conf!LayersCompose

(* Resolving its references does not change what a schema means.            *)
RefsKeepMeaning ==
  subject = "schemas" => \A origin \in {"inline", "own"}, order \in Walks :
                           Refs!RefsKeepMeaning(input, origin, order, 5)

(* The strict form of a schema asks for the same answers as the schema.     *)
StrictIsExact == subject = "strict" => Strict!StrictIsExact(input, Replies)

(* Redaction hides what a schema, a name or a pattern marks, and no more.   *)
RedactionIsExact ==
  subject = "redaction" => \A record \in Recorded : Hide!RedactionIsExact(record, input)
=============================================================================

------------------------------ MODULE RuleLint ------------------------------
(* acl.py before any call is checked: which rules a file, the constructor    *)
(* and add_rule() take, where the file is found, and what validate_rules()   *)
(* reports.  Patterns are sequences of characters, operators and sentinels   *)
(* single ones.  The precheck and the evaluation of conditions are two walks *)
(* over one structure; AccessControl models what a check makes of the rules. *)
EXTENDS Patterns, FiniteSets

CONSTANTS NotA,     \* a value that is no list, mapping or text where one is due
          Absent,   \* no such key
          Directory, \* what a path holds that is no file
          MaxNesting \* how deep conditions are nested

-----------------------------------------------------------------------------
(* Pattern arrays.                                                          *)
Or == <<"$or">>
Not == <<"$not">>
External == <<"@external">>
System == <<"@system">>
Strings(patterns) == patterns # NotA /\ \A i \in DOMAIN patterns : patterns[i] # NotA

\* _pattern_array_fault(); what is no list of strings has no fault of shape.
ShapeFault(patterns) ==
  /\ Strings(patterns)
  /\ \/ patterns = <<>>
     \/ \E i \in DOMAIN patterns : patterns[i] = <<>> \/ (i > 1 /\ patterns[i] \in {Or, Not})
     \/ patterns[1] = Or /\ Len(patterns) < 2
     \/ patterns[1] = Not /\ Len(patterns) # 2

\* _precheck_patterns(), for one of the two fields
PatternFault(patterns) == ~Strings(patterns) \/ ShapeFault(patterns)

\* _never_matches(), for an array without a fault
NeverMatches(field, patterns) ==
  LET operands == IF patterns[1] = Or THEN Tail(patterns) ELSE patterns
  IN IF patterns[1] = Not THEN \A i \in DOMAIN patterns[2] : patterns[2][i] = Star
     ELSE \/ \A i \in DOMAIN operands : Contains(operands[i], Question)
          \/ field = "targets" /\ \A i \in DOMAIN operands : operands[i] = External

\* _match_pattern() and _match_patterns()
MatchOne(pattern, value, system) ==
  CASE pattern = External -> value = External
    [] pattern = System -> system
    [] OTHER -> MatchPattern(pattern, value)
MatchPatterns(patterns, value, system) ==
  CASE patterns[1] = Or -> \E i \in 2..Len(patterns) : MatchOne(patterns[i], value, system)
    [] patterns[1] = Not -> ~MatchOne(patterns[2], value, system)
    [] OTHER -> \E i \in DOMAIN patterns : MatchOne(patterns[i], value, system)

-----------------------------------------------------------------------------
(* The doors.  A rule of a file is a function from the keys it has.         *)
RuleKeys == {"callers", "targets", "effect", "description", "conditions", "approval"}
At(mapping, key, default) == IF key \in DOMAIN mapping THEN mapping[key] ELSE default

\* _validate_rule(): ACLRule(), the constructor of ACL and add_rule()
Acceptable(rule) ==
  /\ rule.effect \in {"allow", "deny"}
  /\ rule.approval \in {"required", "none"} /\ ~(rule.approval = "required" /\ rule.effect = "deny")
  /\ ~ShapeFault(rule.callers) /\ ~ShapeFault(rule.targets)

FromFile(raw) ==
  [callers |-> raw["callers"], targets |-> raw["targets"], effect |-> raw["effect"],
   approval |-> At(raw, "approval", "none"), conditions |-> At(raw, "conditions", Absent)]
Loads(raw) ==
  /\ raw # NotA
  /\ {"callers", "targets", "effect"} \subseteq DOMAIN raw
  /\ DOMAIN raw \subseteq RuleKeys
  /\ raw["callers"] # NotA /\ raw["targets"] # NotA /\ At(raw, "conditions", Absent) # NotA
  /\ Acceptable(FromFile(raw))

\* _parse_audit_block(): a block the file may leave out, with a closed set of keys
AuditLoads(audit) ==
  \/ audit = Absent
  \/ /\ audit # NotA
     /\ DOMAIN audit \subseteq {"enabled", "include_denied", "log_level"}
     /\ \A key \in DOMAIN audit \cap {"enabled", "include_denied"} : audit[key] \in BOOLEAN
     /\ At(audit, "log_level", "info") \in {"trace", "debug", "info", "warn", "error"}

\* load(): all the rules in their order, or an error: the set of the policies it yields
Load(document) ==
  IF /\ document # NotA
     /\ AuditLoads(At(document, "audit", Absent))
     /\ At(document, "default_effect", "deny") \in {"allow", "deny"}
     /\ At(document, "rules", NotA) # NotA
     /\ \A i \in DOMAIN document["rules"] : Loads(document["rules"][i])
  THEN {[i \in DOMAIN document["rules"] |-> FromFile(document["rules"][i])]}
  ELSE {}

\* discover(): acl.root, taken from the directory of the configuration file or else the
\* working directory; a directory stands for the global_acl.yaml in it.
Discover(root, directory, disk) ==
  LET path == IF root.absolute THEN root.path ELSE directory \o root.path
      found == At(disk, path, Absent)
      file == IF found = Directory THEN At(disk, path \o <<"global_acl.yaml">>, Absent) ELSE found
  IN IF file \in {Absent, Directory} THEN {} ELSE Load(file)

-----------------------------------------------------------------------------
(* Conditions: a function from keys to values, all of which must hold.  The *)
(* value of $or is a sequence of conditions, that of $not is conditions,    *)
(* that of arguments a function from predicates to names, others a set.     *)
Predicates == {"has_key", "has_all_keys", "has_none_of"}
ArgumentsFault(value) ==
  \/ value = NotA \/ DOMAIN value = {}
  \/ \E p \in DOMAIN value : p \notin Predicates \/ value[p] = NotA

\* What stands in conditions, and in that, level by level
Inside(conditions) ==
  IF conditions = NotA THEN {}
  ELSE {conditions[key] : key \in DOMAIN conditions \cap {"$not"}}
       \cup UNION {{conditions[key][i] : i \in DOMAIN conditions[key]} :
                     key \in {k \in DOMAIN conditions \cap {"$or"} : conditions[k] # NotA}}
Levels(conditions) ==
  LET at[n \in 0..MaxNesting] ==
        IF n = 0 THEN {conditions} ELSE UNION {Inside(c) : c \in at[n - 1]}
  IN at

\* What _precheck_conditions() asks at one level, and at all of them; PrecheckTopLevel stops
\* at the first.
FaultFree(conditions, handlers) ==
  /\ conditions # NotA
  /\ \A key \in DOMAIN conditions :
       /\ key = "$or" => conditions[key] # NotA
       /\ key = "arguments" => ~ArgumentsFault(conditions[key])
       /\ key \notin {"$or", "$not", "arguments"} => key \in handlers
PrecheckTopLevel(conditions, handlers) == FaultFree(conditions, handlers)
PrecheckConditions(conditions, handlers) ==
  \A n \in 0..MaxNesting : \A c \in Levels(conditions)[n] : FaultFree(c, handlers)

\* The evaluation.  seen has the call's identity, depth, argument keys (Absent without a
\* projection) and the answers of registered handlers.
Outcome(holds) == IF holds THEN "satisfied" ELSE "unsatisfied"
EvaluateArguments(value, present) ==
  IF ArgumentsFault(value) \/ present = Absent THEN "unevaluable"
  ELSE Outcome(\A p \in DOMAIN value :
                 CASE p = "has_key" -> value[p] \cap present # {}
                   [] p = "has_all_keys" -> value[p] \subseteq present
                   [] OTHER -> value[p] \cap present = {})
BuiltInKeys == {"identity_types", "roles", "max_call_depth"}
EvaluateBuiltIn(key, value, seen) ==
  Outcome(/\ value # NotA
          /\ key # "max_call_depth" => seen.identity # Absent
          /\ CASE key = "identity_types" -> seen.identity.type \in value
               [] key = "roles" -> seen.identity.roles \cap value # {}
               [] OTHER -> seen.depth <= value)

AllOf(outcomes) == IF "unsatisfied" \in outcomes THEN "unsatisfied"
                   ELSE IF "unevaluable" \in outcomes THEN "unevaluable" ELSE "satisfied"
AnyOf(outcomes) == IF "satisfied" \in outcomes THEN "satisfied"
                   ELSE IF "unevaluable" \in outcomes THEN "unevaluable" ELSE "unsatisfied"
Negated(outcome) == CASE outcome = "satisfied" -> "unsatisfied"
                      [] outcome = "unsatisfied" -> "satisfied"
                      [] OTHER -> "unevaluable"

\* below has the outcomes of the conditions one level down
EvaluateCondition(key, value, handlers, seen, below) ==
  CASE key \in {"$or", "$not", "arguments"} /\ value = NotA -> "unevaluable"
    [] key = "$or" /\ value # NotA -> AnyOf({below[value[i]] : i \in DOMAIN value})
    [] key = "$not" /\ value # NotA -> Negated(below[value])
    [] key = "arguments" /\ value # NotA -> EvaluateArguments(value, seen.present)
    [] key \in BuiltInKeys -> EvaluateBuiltIn(key, value, seen)
    [] OTHER -> IF key \in handlers THEN seen.answers[key] ELSE "unevaluable"
EvaluateConditions(conditions, handlers, seen) ==
  LET outcomes[n \in 0..MaxNesting] ==
        [c \in Levels(conditions)[n] |->
           IF c = NotA THEN "unevaluable"
           ELSE AllOf({EvaluateCondition(key, c[key], handlers, seen,
                                         IF n < MaxNesting THEN outcomes[n + 1] ELSE <<>>)
                       : key \in DOMAIN c})]
  IN outcomes[0][conditions]

-----------------------------------------------------------------------------
\* validate_rules(): whether a rule has a finding, on the synchronous path
Finding(rule, handlers) ==
  \/ PatternFault(rule.callers) \/ PatternFault(rule.targets)
  \/ rule.conditions # Absent /\ ~PrecheckConditions(rule.conditions, handlers \cup BuiltInKeys)
  \/ ~PatternFault(rule.callers) /\ NeverMatches("callers", rule.callers)
  \/ ~PatternFault(rule.targets) /\ NeverMatches("targets", rule.targets)

\* No id matches the patterns: those of modules, and for callers the sentinel.
Dead(field, patterns, ids) ==
  \A value \in ids \cup (IF field = "callers" THEN {External} ELSE {}), system \in BOOLEAN :
    ~MatchPatterns(patterns, value, system)

(* What the precheck lets through, the evaluation can evaluate: two walks,  *)
(* one verdict.  A rule that a file brought in and that has no finding is   *)
(* evaluated on every call that has a projection and whose handlers answer, *)
(* however deep in $or and $not a faulty item would sit; and a rule whose   *)
(* patterns are reported as matching nothing matches nothing.               *)
LintIsSound(policy, handlers, seen, ids) ==
  \A i \in DOMAIN policy :
    LET rule == policy[i] IN
    /\ ~Finding(rule, handlers) /\ seen.present # Absent /\ rule.conditions # Absent =>
         EvaluateConditions(rule.conditions, handlers, seen) # "unevaluable"
    /\ \A field \in {"callers", "targets"} :
         /\ ~ShapeFault(rule[field])
         /\ Strings(rule[field]) /\ NeverMatches(field, rule[field]) =>
              Dead(field, rule[field], ids)
=============================================================================

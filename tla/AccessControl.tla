---------------------------- MODULE AccessControl ----------------------------
(***************************************************************************)
(* apcore.acl.ACL: checks walk a snapshot of the rules, first match wins,  *)
(* while rules are added and removed, the file is reloaded and condition   *)
(* handlers are registered.  A condition has three outcomes, and what      *)
(* cannot be evaluated must never grant.  Conditions nest two levels deep; *)
(* wildcards inside a pattern, audit entries and warnings are left out.    *)
(***************************************************************************)
EXTENDS Naturals, FiniteSets, SequencesExt

CONSTANTS Pool,      \* the rules that can be installed
          Files,     \* contents of the rule file: [rules, default]
          Keys,      \* condition keys that rules mention
          Calls,     \* what is asked: see CallShape
          Checkers,  \* threads or tasks that run a check
          MaxRules,   \* bound on the length of the rule list
          MaxChanges, \* bound on the number of changes to rules and handlers
          BuiltIn,    \* keys registered by the module itself
          NoCall

VARIABLES
  rules, default,  \* _rules, _default_effect
  known,           \* keys with a handler: for check() and for async_check()
  loaded,          \* what reload() has read and not yet installed
  check,           \* the progress of each check
  changes          \* changes so far, for the bound only

vars == <<rules, default, known, loaded, check, changes>>

Effects == {"allow", "deny"}
Answers == {"yes", "no", "fails"}
Outcomes == {"satisfied", "unsatisfied", "unevaluable"}

\* A condition object is a set of items, all of which must hold.  "fails" covers a
\* handler that raises, that suspends in check(), or that finds no projection.
CallShape == [caller : STRING, target : STRING, context : BOOLEAN, system : BOOLEAN,
              path : {"sync", "async"}, answers : [Keys -> Answers]]
ASSUME PolicyAssumption ==
  /\ MaxRules \in Nat /\ MaxChanges \in Nat
  /\ BuiltIn \subseteq Keys /\ Calls \subseteq CallShape
  /\ \A r \in Pool : r.effect \in Effects /\ r.approval \in BOOLEAN
  /\ \A file \in Files : /\ file.rules \in Seq(Pool) /\ Len(file.rules) <= MaxRules
                         /\ file.default \in Effects

Key(k) == [op |-> "key", key |-> k]
Or(alternatives) == [op |-> "or", of |-> alternatives]   \* a set of sets of keys
Not(keys) == [op |-> "not", negated |-> keys]
Malformed == [op |-> "malformed"]

-----------------------------------------------------------------------------
(* Patterns of a rule: a flat list with an optional operator in front.  A   *)
(* fault of shape is refused at every door; the precheck also catches what  *)
(* is no list of strings, which NotStrings stands for.                      *)
Operators == {"$or", "$not"}
NotStrings == <<"not a list of strings">>
ShapeFault(patterns) ==
  \/ patterns = <<>>
  \/ \E n \in 2..Len(patterns) : patterns[n] \in Operators
  \/ patterns[1] = "$or" /\ Len(patterns) < 2
  \/ patterns[1] = "$not" /\ Len(patterns) # 2
Faulty(patterns) == patterns = NotStrings \/ ShapeFault(patterns)

\* _validate_rule(), for a rule handed to the constructor or to add_rule(); a file is
\* stricter about the types.
Acceptable(rule) == /\ ~(rule.effect = "deny" /\ rule.approval)
                    /\ ~ShapeFault(rule.callers) /\ ~ShapeFault(rule.targets)
Loadable(file) == \A n \in 1..Len(file.rules) :
  LET rule == file.rules[n]
  IN Acceptable(rule) /\ ~Faulty(rule.callers) /\ ~Faulty(rule.targets)

MatchPattern(p, value, call) ==
  CASE p = "@external" -> value = "@external"
    [] p = "@system" -> call.context /\ call.system
    [] OTHER -> p = "*" \/ p = value

MatchPatterns(patterns, value, call) ==
  CASE patterns[1] = "$or" -> \E n \in 2..Len(patterns) : MatchPattern(patterns[n], value, call)
    [] patterns[1] = "$not" -> ~MatchPattern(patterns[2], value, call)
    [] OTHER -> \E n \in 1..Len(patterns) : MatchPattern(patterns[n], value, call)

(* Conditions.  The precheck refuses a rule with an unknown key or a        *)
(* malformed item anywhere before any handler runs.                         *)
KeysOf(item) == CASE item.op = "key" -> {item.key}
                  [] item.op = "or" -> UNION item.of
                  [] item.op = "not" -> item.negated
                  [] OTHER -> {}
Precheck(conditions, handlers) ==
  \A item \in conditions : item.op # "malformed" /\ KeysOf(item) \subseteq handlers

Answered(answer) == CASE answer = "yes" -> "satisfied" [] answer = "no" -> "unsatisfied"
                      [] OTHER -> "unevaluable"

AllOf(outcomes) == IF "unsatisfied" \in outcomes THEN "unsatisfied"
                 ELSE IF "unevaluable" \in outcomes THEN "unevaluable" ELSE "satisfied"
AnyOf(outcomes) == IF "satisfied" \in outcomes THEN "satisfied"
                 ELSE IF "unevaluable" \in outcomes THEN "unevaluable" ELSE "unsatisfied"
AnyShortCircuited(outcomes) == IF "satisfied" \in outcomes THEN "satisfied" ELSE "unsatisfied"
NegatedAsBoolean(outcome) == IF outcome = "satisfied" THEN "unsatisfied" ELSE "satisfied"
Negated(outcome) == CASE outcome = "satisfied" -> "unsatisfied"
                      [] outcome = "unsatisfied" -> "satisfied"
                      [] OTHER -> "unevaluable"

AllKeys(keys, call) == AllOf({Answered(call.answers[k]) : k \in keys})
ItemOutcome(item, call) ==
  CASE item.op = "key" -> Answered(call.answers[item.key])
    [] item.op = "or" -> AnyOf({AllKeys(keys, call) : keys \in item.of})
    [] item.op = "not" -> Negated(AllKeys(item.negated, call))
    [] OTHER -> "unevaluable"

\* _matches_rule() and _matches_rule_async(); caller and target as the check sees them.
RuleOutcome(rule, call, handlers) ==
  IF Faulty(rule.callers) \/ Faulty(rule.targets) THEN "unevaluable"
  ELSE IF ~(MatchPatterns(rule.callers, call.caller, call)
            /\ MatchPatterns(rule.targets, call.target, call)) THEN "unsatisfied"
  ELSE IF ~rule.conditional THEN "satisfied"
  ELSE IF ~Precheck(rule.conditions, handlers) THEN "unevaluable"
  ELSE IF ~call.context THEN "unsatisfied"
  ELSE AllOf({ItemOutcome(item, call) : item \in rule.conditions})

-----------------------------------------------------------------------------
(* The reference: what a rule list with these outcomes decides.             *)
TakesEffect(rule, outcome) ==
  outcome = "satisfied" \/ (outcome = "unevaluable" /\ rule.effect = "deny")
AsksApproval(rule) == rule.effect = "allow" /\ rule.approval
Pends(rule, outcome) == outcome = "unevaluable" /\ AsksApproval(rule)

Decision(access, approval, matched) ==
  [access |-> access, approval |-> access = "allow" /\ approval, rule |-> matched]
Decisions == [access : Effects, approval : BOOLEAN, rule : 0..MaxRules]

\* d is the decision of list under outcomes; 0 stands for no matching rule.
Decides(list, effect, outcomes, d) ==
  LET Pending(n) == \E j \in 1..n : Pends(list[j], outcomes[j])
      Skipped(n) == \A j \in 1..n : ~TakesEffect(list[j], outcomes[j])
  IN \/ \E n \in 1..Len(list) :
          /\ TakesEffect(list[n], outcomes[n]) /\ Skipped(n - 1)
          /\ d = Decision(list[n].effect, list[n].approval \/ Pending(n - 1), n)
     \/ /\ Skipped(Len(list))
        /\ d = Decision(effect, Pending(Len(list)), 0)

-----------------------------------------------------------------------------
(* The machine.                                                             *)
NoDecision == Decision("deny", FALSE, 0)
Unused == [pc |-> "idle", call |-> NoCall, rules |-> <<>>, default |-> "deny",
           outcomes |-> <<>>, pending |-> FALSE, matched |-> 0, decision |-> NoDecision]

Init == /\ \E file \in Files : Loadable(file) /\ rules = file.rules /\ default = file.default
        /\ known = [sync |-> BuiltIn, async |-> {}]
        /\ loaded = {} /\ changes = 0
        /\ check = [c \in Checkers |-> Unused]

Change == changes < MaxChanges /\ changes' = changes + 1

\* add_rule(); remove_rule() takes the first rule with the callers and targets it is
\* given, and with the conditions too when it is given some.
AddRule(r) == /\ Acceptable(r) /\ Change /\ Len(rules) < MaxRules
              /\ rules' = <<r>> \o rules
              /\ UNCHANGED <<default, known, loaded, check>>
Shadowed(n) == \E j \in 1..(n - 1) :
  /\ rules[j].callers = rules[n].callers /\ rules[j].targets = rules[n].targets
  /\ rules[n].conditional =>
       rules[j].conditional /\ rules[j].conditions = rules[n].conditions
RemoveRule(n) == /\ ~Shadowed(n) /\ Change /\ rules' = RemoveAt(rules, n)
                 /\ UNCHANGED <<default, known, loaded, check>>

\* reload(): the file is read without the lock, then both parts are installed under it.
ReloadReads(file) == /\ Loadable(file) /\ Change /\ loaded = {} /\ loaded' = {file}
                     /\ UNCHANGED <<rules, default, known, check>>
ReloadInstalls == \E file \in loaded :
                    /\ rules' = file.rules /\ default' = file.default
                    /\ loaded' = {}
                    /\ UNCHANGED <<known, check, changes>>

RegisterCondition(k) == /\ Change /\ known' = [known EXCEPT !.sync = @ \cup {k}]
                        /\ UNCHANGED <<rules, default, loaded, check>>
RegisterAsyncCondition(k) == /\ Change /\ known' = [known EXCEPT !.async = @ \cup {k}]
                             /\ UNCHANGED <<rules, default, loaded, check>>

HandlersFor(call) == known.sync \cup (IF call.path = "async" THEN known.async ELSE {})

\* _snapshot()
Start(c, call) ==
  /\ check[c].pc = "idle"
  /\ check' = [check EXCEPT ![c] = [Unused EXCEPT !.pc = "walking", !.call = call,
                                                 !.rules = rules, !.default = default]]
  /\ UNCHANGED <<rules, default, known, loaded, changes>>

\* One turn of the loop.
Walking(c) == check[c].pc = "walking" /\ check[c].matched = 0
              /\ Len(check[c].outcomes) < Len(check[c].rules)
WalkOffByOne(c) ==
  LET n == Len(check[c].outcomes) + 1
      rule == check[c].rules[n]
      outcome == RuleOutcome(rule, check[c].call, HandlersFor(check[c].call))
  IN /\ Walking(c)
     /\ check' = [check EXCEPT ![c].outcomes = Append(@, outcome),
                               ![c].matched = IF TakesEffect(rule, outcome) THEN n + 1 ELSE 0,
                               ![c].pending = @ \/ Pends(rule, outcome)]
     /\ UNCHANGED <<rules, default, known, loaded, changes>>
WalkWithoutPending(c) ==
  LET n == Len(check[c].outcomes) + 1
      rule == check[c].rules[n]
      outcome == RuleOutcome(rule, check[c].call, HandlersFor(check[c].call))
  IN /\ Walking(c)
     /\ check' = [check EXCEPT ![c].outcomes = Append(@, outcome),
                               ![c].matched = IF TakesEffect(rule, outcome) THEN n ELSE 0]
     /\ UNCHANGED <<rules, default, known, loaded, changes>>
Walk(c) ==
  LET n == Len(check[c].outcomes) + 1
      rule == check[c].rules[n]
      outcome == RuleOutcome(rule, check[c].call, HandlersFor(check[c].call))
  IN /\ Walking(c)
     /\ check' = [check EXCEPT ![c].outcomes = Append(@, outcome),
                               ![c].matched = IF TakesEffect(rule, outcome) THEN n ELSE 0,
                               ![c].pending = @ \/ Pends(rule, outcome)]
     /\ UNCHANGED <<rules, default, known, loaded, changes>>

\* _finalize_check()
FinishWithLiveDefault(c) ==
  /\ check[c].pc = "walking" /\ ~Walking(c)
  /\ check' = [check EXCEPT ![c].pc = "done", ![c].decision =
       IF check[c].matched = 0 THEN Decision(default, check[c].pending, 0)
       ELSE LET rule == check[c].rules[check[c].matched]
            IN Decision(rule.effect, rule.approval \/ check[c].pending, check[c].matched)]
  /\ UNCHANGED <<rules, default, known, loaded, changes>>
Finish(c) ==
  /\ check[c].pc = "walking" /\ ~Walking(c)
  /\ check' = [check EXCEPT ![c].pc = "done", ![c].decision =
       IF check[c].matched = 0 THEN Decision(check[c].default, check[c].pending, 0)
       ELSE LET rule == check[c].rules[check[c].matched]
            IN Decision(rule.effect, rule.approval \/ check[c].pending, check[c].matched)]
  /\ UNCHANGED <<rules, default, known, loaded, changes>>

Next == \/ \E c \in Checkers : \/ \E call \in Calls : Start(c, call)
                               \/ Walk(c) \/ Finish(c)
        \/ \E r \in Pool : AddRule(r)
        \/ \E n \in 1..Len(rules) : RemoveRule(n)
        \/ \E file \in Files : ReloadReads(file)
        \/ ReloadInstalls
        \/ \E k \in Keys : RegisterCondition(k) \/ RegisterAsyncCondition(k)

Spec == Init /\ [][Next]_vars

-----------------------------------------------------------------------------
Checks == [pc : {"idle", "walking", "done"}, call : Calls \cup {NoCall},
           rules : Seq(Pool), default : Effects, outcomes : Seq(Outcomes),
           pending : BOOLEAN, matched : Nat, decision : Decisions]

(* Type correctness; a match is a rule that was evaluated.                  *)
TypeOK ==
  /\ rules \in Seq(Pool) /\ Len(rules) <= MaxRules /\ default \in Effects
  /\ known \in [sync : SUBSET Keys, async : SUBSET Keys]
  /\ loaded \subseteq Files /\ changes \in 0..MaxChanges
  /\ check \in [Checkers -> Checks]
  /\ \A c \in Checkers : /\ check[c].pc # "idle" => check[c].call \in Calls
                         /\ Len(check[c].rules) <= MaxRules
                         /\ check[c].matched <= Len(check[c].outcomes)
                         /\ Len(check[c].outcomes) <= Len(check[c].rules)

(* First match wins, on one consistent policy: a finished check decided     *)
(* what the rules and the default effect of its snapshot decide, whatever   *)
(* was added, removed or reloaded while it awaited its conditions.          *)
FirstMatchWins ==
  \A c \in Checkers : check[c].pc = "done" =>
    Decides(check[c].rules, check[c].default, check[c].outcomes, check[c].decision)

(* Unevaluable conditions fail closed: had every handler answered, one way  *)
(* or the other, and every key been registered, the call would have been    *)
(* treated at least as permissively.  Neither a grant nor a waived approval *)
(* ever depends on what could not be evaluated.                             *)
Rank(d) == IF d.access = "deny" THEN 0 ELSE IF d.approval THEN 1 ELSE 2
Completes(full, call) ==
  \A k \in Keys : full[k] \in {"yes", "no"} /\ call.answers[k] \in {full[k], "fails"}
OutcomesOf(list, call, handlers) ==
  [n \in 1..Len(list) |-> RuleOutcome(list[n], call, handlers)]
FailClosed ==
  \A c \in Checkers : check[c].pc = "done" =>
    \A full \in [Keys -> Answers] : Completes(full, check[c].call) =>
      LET ideal == OutcomesOf(check[c].rules, [check[c].call EXCEPT !.answers = full], Keys)
      IN \A d \in Decisions : Decides(check[c].rules, check[c].default, ideal, d) =>
           Rank(check[c].decision) <= Rank(d)
=============================================================================

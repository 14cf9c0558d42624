--------------------------- MODULE ExecutionPolicy ---------------------------
(* policy.py and the gate's use of it: a list of pattern rules overrides     *)
(* what a module declares about approval and destructiveness.  The most      *)
(* specific rule wins, on a tie the more restrictive one, then the earlier.  *)
(* An executor is given another policy, or none, at any time.                *)
EXTENDS Patterns

CONSTANTS Unset,      \* None: the rule leaves the module's own value in effect
          Documents,  \* what policies are made from
          Named,      \* ids of modules
          MaxSets     \* policies set in a behaviour (bound)

VARIABLES policy,     \* the executor's policy: one, or none
          sets        \* policies set so far

\* from_dict(): closed sets of keys, booleans or nothing; one fault refuses the document.
Flags == {TRUE, FALSE, Unset}
RuleLoads(raw) == /\ DOMAIN raw \subseteq {"pattern", "requires_approval", "destructive", "reason"}
                  /\ "pattern" \in DOMAIN raw /\ raw["pattern"] # <<>>
                  /\ \A key \in {"requires_approval", "destructive"} \cap DOMAIN raw :
                       raw[key] \in Flags
Flag(mapping, key) == IF key \in DOMAIN mapping THEN mapping[key] ELSE Unset
FromDict(document) ==
  IF /\ DOMAIN document \subseteq {"rules", "gate_destructive", "strict"}
     /\ \A key \in {"gate_destructive", "strict"} : Flag(document, key) \in Flags
     /\ "rules" \in DOMAIN document =>
          \A i \in DOMAIN document["rules"] : RuleLoads(document["rules"][i])
  THEN {[rules |-> IF "rules" \notin DOMAIN document THEN <<>>
                   ELSE [i \in DOMAIN document["rules"] |->
                           LET raw == document["rules"][i]
                           IN [pattern |-> raw["pattern"],
                               requires_approval |-> Flag(raw, "requires_approval"),
                               destructive |-> Flag(raw, "destructive")]],
         gate_destructive |-> Flag(document, "gate_destructive") = TRUE,
         strict |-> Flag(document, "strict") = TRUE]}
  ELSE {}

-----------------------------------------------------------------------------
\* _restrictiveness(), as a number: True before anything else, approval before destructive
Restrictiveness(rule) == (IF rule.requires_approval = TRUE THEN 2 ELSE 0)
                         + (IF rule.destructive = TRUE THEN 1 ELSE 0)

\* _match(): the walk that keeps the best rule so far, 0 for none.
OutranksByScore(rule, best) == Specificity(rule.pattern) > Specificity(best.pattern)
Outranks(rule, best) ==
  LET score == Specificity(rule.pattern)
      bestScore == Specificity(best.pattern)
  IN score > bestScore \/ (score = bestScore /\ Restrictiveness(rule) > Restrictiveness(best))
Match(rules, id) ==
  LET best[n \in 0..Len(rules)] ==
        IF n = 0 THEN 0
        ELSE IF /\ MatchPattern(rules[n].pattern, id)
                /\ best[n - 1] = 0 \/ Outranks(rules[n], rules[best[n - 1]])
             THEN n ELSE best[n - 1]
  IN best[Len(rules)]

\* resolve(): the effective values, and whether the call needs approval.
Effective(override, own) == IF override = Unset THEN own ELSE override
Decide(rule, own, gateDestructive) ==
  LET requires == Effective(rule.requires_approval, own.requires_approval)
      destructive == Effective(rule.destructive, own.destructive)
  IN [requires_approval |-> requires, destructive |-> destructive,
      needs_approval |-> requires \/ (gateDestructive /\ destructive)]
NoRule == [requires_approval |-> Unset, destructive |-> Unset]
Resolve(p, id, own) ==
  LET matched == Match(p.rules, id)
  IN Decide(IF matched = 0 THEN NoRule ELSE p.rules[matched], own, p.gate_destructive)

-----------------------------------------------------------------------------
\* set_policy(): None removes it; a document that does not load sets nothing.  An executor
\* that is made with a policy is one that was given it first.
Init == policy = {} /\ sets = 0
SetPolicy(document) ==
  /\ sets < MaxSets /\ FromDict(document) # {}
  /\ policy' = FromDict(document) /\ sets' = sets + 1
RemovePolicy == sets < MaxSets /\ policy' = {} /\ sets' = sets + 1
Next == RemovePolicy \/ \E document \in Documents : SetPolicy(document)

-----------------------------------------------------------------------------
Candidates(p, id) == {i \in DOMAIN p.rules : MatchPattern(p.rules[i].pattern, id)}
Finest(p, id) ==
  {i \in Candidates(p, id) : \A j \in Candidates(p, id) :
     Specificity(p.rules[j].pattern) <= Specificity(p.rules[i].pattern)}

(* The order of the rules can not waive an approval that one of the most    *)
(* specific rules demands: whatever stands before or after it, the call is  *)
(* gated; without such a rule and without a rule that lifts it, the         *)
(* module's own demand stands.                                              *)
DemandStands(p, id, own) ==
  LET decision == Resolve(p, id, own)
      finest == Finest(p, id)
  IN /\ (\E i \in finest : p.rules[i].requires_approval = TRUE) => decision.needs_approval
     /\ own.requires_approval /\ (\A i \in finest : p.rules[i].requires_approval # FALSE)
          => decision.needs_approval
     /\ p.gate_destructive /\ (\E i \in finest : p.rules[i].destructive = TRUE)
          => decision.needs_approval
Annotations == [requires_approval : BOOLEAN, destructive : BOOLEAN]
DemandedApprovalStands ==
  \A p \in policy, id \in Named, own \in Annotations : DemandStands(p, id, own)
=============================================================================

------------------------ MODULE AccessControl_proofs ------------------------
(* For any rules, calls, checkers and handlers: every finished check is the *)
(* first match of its snapshot, and what could not be evaluated never made  *)
(* a decision more permissive.                                              *)
EXTENDS AccessControl, SequenceTheorems, TLAPS

\* What the loop has established about the rules it has passed.
Passed(k) ==
  /\ \A j \in 1..Len(k.outcomes) : j # k.matched => ~TakesEffect(k.rules[j], k.outcomes[j])
  /\ k.matched # 0 => /\ k.matched = Len(k.outcomes)
                      /\ TakesEffect(k.rules[k.matched], k.outcomes[k.matched])
  /\ k.pending <=> \E j \in 1..Len(k.outcomes) : Pends(k.rules[j], k.outcomes[j])
WalkSound == \A c \in Checkers : check[c].pc # "idle" => Passed(check[c])

IInv == TypeOK /\ WalkSound /\ FirstMatchWins

(* A rule evaluates to one of the three outcomes.                           *)
LEMMA OutcomeType ==
  ASSUME NEW rule, NEW call, NEW handlers
  PROVE  RuleOutcome(rule, call, handlers) \in Outcomes
<1>1. ASSUME NEW S PROVE AllOf(S) \in Outcomes BY DEF AllOf, Outcomes
<1>. QED BY <1>1 DEF RuleOutcome, Outcomes

LEMMA DecisionType ==
  ASSUME NEW access \in Effects, NEW approval, NEW n \in 0..MaxRules
  PROVE  Decision(access, approval, n) \in Decisions
BY DEF Decision, Decisions

LEMMA InitialDecision == NoDecision \in Decisions
<1>1. 0 \in 0..MaxRules /\ "deny" \in Effects BY PolicyAssumption DEF Effects
<1>. QED BY <1>1, DecisionType DEF NoDecision

(* Lists stay lists of rules under the two edits.                           *)
LEMMA Prepended ==
  ASSUME NEW s \in Seq(Pool), NEW r \in Pool
  PROVE  <<r>> \o s \in Seq(Pool) /\ Len(<<r>> \o s) = Len(s) + 1
OBVIOUS

LEMMA Removed ==
  ASSUME NEW s \in Seq(Pool), NEW n \in 1..Len(s)
  PROVE  RemoveAt(s, n) \in Seq(Pool) /\ Len(RemoveAt(s, n)) = Len(s) - 1
<1>. DEFINE front == SubSeq(s, 1, n - 1)  back == SubSeq(s, n + 1, Len(s))
<1>0. Len(s) \in Nat BY LenProperties
<1>1. front \in Seq(Pool) /\ Len(front) = n - 1
  <2>1. \A i \in 1..(n - 1) : s[i] \in Pool BY <1>0, ElementOfSeq
  <2>. QED BY <1>0, <2>1, SubSeqProperties
<1>2. back \in Seq(Pool) /\ Len(back) = Len(s) - n
  <2>1. \A i \in (n + 1)..Len(s) : s[i] \in Pool BY <1>0, ElementOfSeq
  <2>. QED BY <1>0, <2>1, SubSeqProperties
<1>3. RemoveAt(s, n) = front \o back BY DEF RemoveAt
<1>. HIDE DEF front, back
<1>. QED BY <1>0, <1>1, <1>2, <1>3, ConcatProperties

-----------------------------------------------------------------------------
LEMMA InitIInv == Init => IInv
<1>. SUFFICES ASSUME Init PROVE IInv OBVIOUS
<1>1. Unused \in Checks
  <2>1. <<>> \in Seq(Pool) /\ <<>> \in Seq(Outcomes) BY EmptySeq
  <2>. QED BY <2>1, InitialDecision DEF Unused, Checks, Effects
<1>2. check = [c \in Checkers |-> Unused] BY DEF Init
<1>3. \A c \in Checkers : check[c].pc = "idle" /\ check[c].rules = <<>>
                          /\ check[c].outcomes = <<>> /\ check[c].matched = 0
  BY <1>2 DEF Unused
<1>4. TypeOK BY <1>1, <1>2, <1>3, PolicyAssumption DEF Init, TypeOK
<1>5. WalkSound BY <1>3 DEF WalkSound
<1>6. FirstMatchWins BY <1>3 DEF FirstMatchWins
<1>. QED BY <1>4, <1>5, <1>6 DEF IInv

(* The changes to rules and handlers leave every check alone.               *)
LEMMA ChangesIInv ==
  ASSUME IInv,
         \/ \E r \in Pool : AddRule(r)
         \/ \E n \in 1..Len(rules) : RemoveRule(n)
         \/ \E file \in Files : ReloadReads(file)
         \/ ReloadInstalls
         \/ \E k \in Keys : RegisterCondition(k) \/ RegisterAsyncCondition(k)
  PROVE  IInv'
<1>1. check' = check
  BY DEF AddRule, RemoveRule, ReloadReads, ReloadInstalls, RegisterCondition,
         RegisterAsyncCondition
<1>2. /\ rules' \in Seq(Pool) /\ Len(rules') <= MaxRules /\ default' \in Effects
      /\ known' \in [sync : SUBSET Keys, async : SUBSET Keys]
      /\ loaded' \subseteq Files /\ changes' \in 0..MaxChanges
  <2>. USE DEF IInv, TypeOK, Change
  <2>0. MaxRules \in Nat /\ MaxChanges \in Nat BY PolicyAssumption
  <2>1. CASE \E r \in Pool : AddRule(r)
    <3>. PICK r \in Pool : AddRule(r) BY <2>1
    <3>1. rules' \in Seq(Pool) /\ Len(rules') = Len(rules) + 1
      BY Prepended DEF AddRule
    <3>2. Len(rules) \in Nat BY LenProperties
    <3>. QED BY <2>0, <3>1, <3>2 DEF AddRule
  <2>2. CASE \E n \in 1..Len(rules) : RemoveRule(n)
    <3>. PICK n \in 1..Len(rules) : RemoveRule(n) BY <2>2
    <3>1. rules' \in Seq(Pool) /\ Len(rules') = Len(rules) - 1
      BY Removed DEF RemoveRule
    <3>2. Len(rules) \in Nat BY LenProperties
    <3>. QED BY <2>0, <3>1, <3>2 DEF RemoveRule
  <2>3. CASE \E file \in Files : ReloadReads(file) BY <2>0, <2>3 DEF ReloadReads
  <2>4. CASE ReloadInstalls BY <2>4, PolicyAssumption DEF ReloadInstalls
  <2>5. CASE \E k \in Keys : RegisterCondition(k) BY <2>0, <2>5 DEF RegisterCondition
  <2>6. CASE \E k \in Keys : RegisterAsyncCondition(k)
    BY <2>0, <2>6, SMTT(60) DEF RegisterAsyncCondition
  <2>. QED BY <2>1, <2>2, <2>3, <2>4, <2>5, <2>6
<1>3. TypeOK' BY <1>1, <1>2 DEF IInv, TypeOK
<1>4. WalkSound' BY <1>1 DEF IInv, WalkSound
<1>5. FirstMatchWins' BY <1>1 DEF IInv, FirstMatchWins
<1>. QED BY <1>3, <1>4, <1>5 DEF IInv

LEMMA StartIInv ==
  ASSUME IInv, NEW c \in Checkers, NEW call \in Calls, Start(c, call)
  PROVE  IInv'
<1>. DEFINE new == [Unused EXCEPT !.pc = "walking", !.call = call,
                                  !.rules = rules, !.default = default]
<1>1. /\ check' = [check EXCEPT ![c] = new]
      /\ UNCHANGED <<rules, default, known, loaded, changes>>
  BY DEF Start
<1>2. /\ new.pc = "walking" /\ new.call = call /\ new.rules = rules
      /\ new.default = default /\ new.outcomes = <<>> /\ new.pending = FALSE
      /\ new.matched = 0
  BY DEF Unused
<1>3. new \in Checks
  <2>1. <<>> \in Seq(Outcomes) BY EmptySeq
  <2>. QED BY <2>1, InitialDecision DEF Unused, Checks, IInv, TypeOK
<1>4. check \in [Checkers -> Checks] BY DEF IInv, TypeOK
<1>5. check'[c] = new /\ \A d \in Checkers \ {c} : check'[d] = check[d] BY <1>1, <1>4
<1>6. Len(rules) \in Nat /\ Len(<<>>) = 0 BY LenProperties DEF IInv, TypeOK
<1>7. Passed(new) BY <1>2, <1>6 DEF Passed
<1>. HIDE DEF new
<1>8. TypeOK'
  BY <1>1, <1>2, <1>3, <1>4, <1>5, <1>6 DEF IInv, TypeOK
<1>9. WalkSound' BY <1>5, <1>7 DEF IInv, WalkSound
<1>10. FirstMatchWins' BY <1>2, <1>5 DEF IInv, FirstMatchWins
<1>. QED BY <1>8, <1>9, <1>10 DEF IInv

(* One turn of the loop: the rule takes effect and ends it, or it joins the *)
(* rules that were passed.                                                  *)
Tried(c) == check[c].rules[Len(check[c].outcomes) + 1]
Tested(c) == RuleOutcome(Tried(c), check[c].call, HandlersFor(check[c].call))
TurnTaken(c, k, n, new) ==
  /\ k \in Checks /\ Len(k.outcomes) \in Nat /\ Len(k.rules) \in Nat
  /\ n \in 1..Len(k.rules) /\ k.pc = "walking" /\ k.matched = 0
  /\ Len(k.rules) <= MaxRules /\ k.call \in Calls
  /\ n = Len(k.outcomes) + 1 /\ Tried(c) = k.rules[n]
  /\ \A d \in Checkers \ {c} : check'[d] = check[d]
  /\ check' \in [Checkers -> Checks]
  /\ new.pc = k.pc /\ new.call = k.call /\ new.rules = k.rules
  /\ new.matched = (IF TakesEffect(Tried(c), Tested(c)) THEN n ELSE 0)
  /\ new.pending <=> (k.pending \/ Pends(Tried(c), Tested(c)))
  /\ Len(new.outcomes) = n /\ new.outcomes[n] = Tested(c)
  /\ \A j \in 1..(n - 1) : new.outcomes[j] = k.outcomes[j]

LEMMA WalkEffect ==
  ASSUME TypeOK, NEW c \in Checkers, Walk(c)
  PROVE  TurnTaken(c, check[c], Len(check[c].outcomes) + 1, check'[c])
<1>. DEFINE k == check[c]  n == Len(k.outcomes) + 1  rule == k.rules[n]
            outcome == RuleOutcome(rule, k.call, HandlersFor(k.call))
            new == check'[c]
<1>1. check \in [Checkers -> Checks] BY DEF TypeOK
<1>2. /\ k \in Checks /\ Len(k.outcomes) \in Nat /\ Len(k.rules) \in Nat
      /\ n \in 1..Len(k.rules) /\ k.pc = "walking" /\ k.matched = 0
      /\ Len(k.rules) <= MaxRules /\ k.call \in Calls
  <2>1. k \in Checks /\ Len(k.rules) <= MaxRules /\ (k.pc # "idle" => k.call \in Calls)
    BY <1>1 DEF TypeOK
  <2>2. Len(k.outcomes) \in Nat /\ Len(k.rules) \in Nat
    BY <2>1, LenProperties DEF Checks
  <2>. QED BY <2>1, <2>2 DEF Walk, Walking
<1>3. outcome \in Outcomes BY OutcomeType
<1>4. /\ \A d \in Checkers \ {c} : check'[d] = check[d]
      /\ check' \in [Checkers -> Checks]
      /\ new.pc = k.pc /\ new.call = k.call /\ new.rules = k.rules
      /\ new.outcomes = Append(k.outcomes, outcome)
      /\ new.matched = (IF TakesEffect(rule, outcome) THEN n ELSE 0)
      /\ new.pending <=> (k.pending \/ Pends(rule, outcome))
  <2>. DEFINE out == Append(k.outcomes, outcome)
              match == IF TakesEffect(rule, outcome) THEN n ELSE 0
              pend == k.pending \/ Pends(rule, outcome)
  <2>1. check' = [check EXCEPT ![c].outcomes = out, ![c].matched = match, ![c].pending = pend]
    BY DEF Walk
  <2>2. out \in Seq(Outcomes) BY <1>2, <1>3, AppendProperties DEF Checks
  <2>3. match \in Nat BY <1>2
  <2>4. pend \in BOOLEAN BY DEF Pends, AsksApproval
  <2>. HIDE DEF out, match, pend
  <2>5. /\ \A d \in Checkers \ {c} : check'[d] = check[d]
        /\ check' \in [Checkers -> Checks]
        /\ new.pc = k.pc /\ new.call = k.call /\ new.rules = k.rules
        /\ new.outcomes = out /\ new.matched = match /\ new.pending = pend
    <3>. DEFINE turned == [k EXCEPT !.outcomes = out, !.matched = match, !.pending = pend]
    <3>1. check' = [check EXCEPT ![c] = turned]
      BY <2>1, Zenon
    <3>2. /\ turned \in Checks /\ turned.pc = k.pc /\ turned.call = k.call
          /\ turned.rules = k.rules /\ turned.outcomes = out /\ turned.matched = match
          /\ turned.pending = pend
      BY <1>2, <2>2, <2>3, <2>4 DEF Checks
    <3>. HIDE DEF turned
    <3>. QED BY <1>1, <3>1, <3>2
  <2>6. out = Append(k.outcomes, outcome) /\ match = (IF TakesEffect(rule, outcome) THEN n ELSE 0)
    BY DEF out, match
  <2>7. new.pending <=> (k.pending \/ Pends(rule, outcome)) BY <2>5 DEF pend
  <2>. QED BY <2>5, <2>6, <2>7
<1>5. /\ Len(new.outcomes) = n /\ new.outcomes[n] = outcome
      /\ \A j \in 1..(n - 1) : new.outcomes[j] = k.outcomes[j]
  BY <1>2, <1>3, <1>4, AppendProperties DEF Checks
<1>6. Tried(c) = rule /\ Tested(c) = outcome BY DEF Tried, Tested
<1>. HIDE DEF rule, outcome, new, k
<1>. QED BY <1>2, <1>4, <1>5, <1>6 DEF TurnTaken, n, k, new, rule

LEMMA WalkIInv ==
  ASSUME IInv, NEW c \in Checkers, Walk(c)
  PROVE  IInv'
<1>. DEFINE k == check[c]  n == Len(k.outcomes) + 1  rule == Tried(c)
            outcome == Tested(c)  new == check'[c]
<1>1. TurnTaken(c, k, n, new) BY WalkEffect DEF IInv
<1>. USE <1>1 DEF TurnTaken
<1>2. TypeOK'
  <2>1. UNCHANGED <<rules, default, known, loaded, changes>> BY DEF Walk
  <2>2. /\ new.pc # "idle" => new.call \in Calls
        /\ Len(new.rules) <= MaxRules
        /\ new.matched <= Len(new.outcomes) /\ Len(new.outcomes) <= Len(new.rules)
    OBVIOUS
  <2>. HIDE DEF new
  <2>3. \A d \in Checkers : d = c \/ check'[d] = check[d] OBVIOUS
  <2>. QED BY <2>1, <2>2, <2>3 DEF new, IInv, TypeOK
<1>3. Passed(new)
  <2>0. Passed(k) BY DEF IInv, WalkSound
  <2>1. \A j \in 1..n : j = n \/ j \in 1..(n - 1) OBVIOUS
  <2>2. \A j \in 1..(n - 1) : ~TakesEffect(k.rules[j], k.outcomes[j])
    BY <2>0 DEF Passed
  <2>3. \A j \in 1..n : j # new.matched => ~TakesEffect(new.rules[j], new.outcomes[j])
    BY <2>1, <2>2
  <2>4. new.matched # 0 => /\ new.matched = n
                           /\ TakesEffect(new.rules[n], new.outcomes[n])
    OBVIOUS
  <2>5. k.pending <=> \E j \in 1..(n - 1) : Pends(k.rules[j], k.outcomes[j])
    BY <2>0 DEF Passed
  <2>6. new.pending <=> \E j \in 1..n : Pends(new.rules[j], new.outcomes[j])
    <3>1. \A j \in 1..(n - 1) : j \in 1..n /\ Pends(new.rules[j], new.outcomes[j])
                                          <=> Pends(k.rules[j], k.outcomes[j])
      OBVIOUS
    <3>2. n \in 1..n /\ (Pends(new.rules[n], new.outcomes[n]) <=> Pends(rule, outcome))
      OBVIOUS
    <3>. QED BY <2>1, <2>5, <3>1, <3>2
  <2>. QED BY <2>3, <2>4, <2>6 DEF Passed
<1>4. WalkSound' BY <1>3 DEF IInv, WalkSound
<1>5. FirstMatchWins' BY DEF IInv, FirstMatchWins
<1>. QED BY <1>2, <1>4, <1>5 DEF IInv

(* The decision is composed from the match, or from the default when every  *)
(* rule was passed; both are what Decides asks for.                         *)
LEMMA Settled ==
  ASSUME NEW k \in Checks, Passed(k), NEW d,
         Len(k.outcomes) \in Nat, Len(k.rules) \in Nat, Len(k.outcomes) <= Len(k.rules),
         k.matched # 0 \/ Len(k.outcomes) = Len(k.rules),
         d = IF k.matched = 0 THEN Decision(k.default, k.pending, 0)
             ELSE LET rule == k.rules[k.matched]
                  IN Decision(rule.effect, rule.approval \/ k.pending, k.matched)
  PROVE  Decides(k.rules, k.default, k.outcomes, d)
<1>. DEFINE n == k.matched
            Pending(i) == \E j \in 1..i : Pends(k.rules[j], k.outcomes[j])
            Skipped(i) == \A j \in 1..i : ~TakesEffect(k.rules[j], k.outcomes[j])
<1>1. CASE n = 0
  <2>1. Len(k.outcomes) = Len(k.rules) BY <1>1
  <2>2. Skipped(Len(k.rules)) BY <1>1, <2>1 DEF Passed
  <2>3. k.pending <=> Pending(Len(k.rules)) BY <2>1 DEF Passed
  <2>4. d = Decision(k.default, k.pending, 0) BY <1>1
  <2>5. Decision(k.default, k.pending, 0) = Decision(k.default, Pending(Len(k.rules)), 0)
    BY <2>3 DEF Decision
  <2>. QED BY <2>2, <2>4, <2>5 DEF Decides
<1>2. CASE n # 0
  <2>1. n = Len(k.outcomes) /\ n \in 1..Len(k.rules) /\ TakesEffect(k.rules[n], k.outcomes[n])
    BY <1>2 DEF Passed
  <2>2. \A j \in 1..n : j = n \/ j \in 1..(n - 1) BY <2>1
  <2>2a. \A j \in 1..(n - 1) : j \in 1..n /\ j # n BY <2>1
  <2>3. Skipped(n - 1) BY <2>1, <2>2a DEF Passed
  <2>4. ~Pends(k.rules[n], k.outcomes[n])
    BY <2>1 DEF Pends, TakesEffect, AsksApproval
  <2>5. k.pending <=> Pending(n - 1)
    <3>1. k.pending <=> Pending(n) BY <2>1 DEF Passed
    <3>2. Pending(n) <=> Pending(n - 1) BY <2>2, <2>2a, <2>4
    <3>. QED BY <3>1, <3>2
  <2>6. d = Decision(k.rules[n].effect, k.rules[n].approval \/ k.pending, n) BY <1>2
  <2>7. Decision(k.rules[n].effect, k.rules[n].approval \/ k.pending, n)
          = Decision(k.rules[n].effect, k.rules[n].approval \/ Pending(n - 1), n)
    BY <2>5 DEF Decision
  <2>. QED BY <2>1, <2>3, <2>6, <2>7 DEF Decides
<1>. QED BY <1>1, <1>2

LEMMA FinishIInv ==
  ASSUME IInv, NEW c \in Checkers, Finish(c)
  PROVE  IInv'
<1>. DEFINE k == check[c]  new == check'[c]
            d == IF k.matched = 0 THEN Decision(k.default, k.pending, 0)
                 ELSE LET rule == k.rules[k.matched]
                      IN Decision(rule.effect, rule.approval \/ k.pending, k.matched)
<1>1. check \in [Checkers -> Checks] BY DEF IInv, TypeOK
<1>2. /\ k \in Checks /\ k.pc = "walking" /\ k.call \in Calls /\ Passed(k)
      /\ Len(k.outcomes) \in Nat /\ Len(k.rules) \in Nat /\ Len(k.rules) <= MaxRules
      /\ Len(k.outcomes) <= Len(k.rules) /\ k.matched <= Len(k.outcomes)
      /\ k.matched # 0 \/ Len(k.outcomes) = Len(k.rules)
  <2>1. k \in Checks /\ k.pc = "walking" /\ Len(k.rules) <= MaxRules /\ k.call \in Calls
        /\ k.matched <= Len(k.outcomes) /\ Len(k.outcomes) <= Len(k.rules)
    BY <1>1 DEF IInv, TypeOK, Finish
  <2>2. Len(k.outcomes) \in Nat /\ Len(k.rules) \in Nat BY <2>1, LenProperties DEF Checks
  <2>3. Passed(k) BY <2>1 DEF IInv, WalkSound
  <2>. QED BY <2>1, <2>2, <2>3 DEF Finish, Walking
<1>3. check' = [check EXCEPT ![c].pc = "done", ![c].decision = d]
      /\ UNCHANGED <<rules, default, known, loaded, changes>>
  BY DEF Finish
<1>4. d \in Decisions
  <2>1. CASE k.matched = 0
    <3>1. 0 \in 0..MaxRules /\ k.default \in Effects
      BY <1>2, PolicyAssumption DEF Checks
    <3>. QED BY <2>1, <3>1, DecisionType
  <2>2. CASE k.matched # 0
    <3>1. k.matched \in 1..Len(k.rules) /\ k.matched \in 0..MaxRules
      BY <1>2, <2>2, PolicyAssumption DEF Checks
    <3>2. k.rules[k.matched].effect \in Effects
      BY <1>2, <3>1, PolicyAssumption, ElementOfSeq DEF Checks
    <3>. QED BY <2>2, <3>1, <3>2, DecisionType
  <2>. QED BY <2>1, <2>2
<1>5. Decides(k.rules, k.default, k.outcomes, d) BY <1>2, Settled
<1>. HIDE DEF d
<1>6. /\ \A e \in Checkers \ {c} : check'[e] = check[e]
      /\ check' \in [Checkers -> Checks]
      /\ new.pc = "done" /\ new.call = k.call /\ new.rules = k.rules /\ new.default = k.default
      /\ new.outcomes = k.outcomes /\ new.matched = k.matched
      /\ new.pending = k.pending /\ new.decision = d
  BY <1>1, <1>3, <1>4 DEF Checks
<1>. HIDE DEF new
<1>7. \A e \in Checkers : e = c \/ check'[e] = check[e] BY <1>6
<1>8. TypeOK' BY <1>2, <1>3, <1>6, <1>7 DEF new, IInv, TypeOK
<1>9. Passed(new) BY <1>2, <1>6 DEF Passed
<1>10. WalkSound' BY <1>7, <1>9 DEF new, IInv, WalkSound
<1>11. Decides(new.rules, new.default, new.outcomes, new.decision) BY <1>5, <1>6
<1>12. FirstMatchWins' BY <1>7, <1>11 DEF new, IInv, FirstMatchWins
<1>. QED BY <1>8, <1>10, <1>12 DEF IInv

LEMMA StutterIInv == ASSUME IInv, UNCHANGED vars PROVE IInv'
<1>. USE DEF vars
<1>1. TypeOK' BY DEF IInv, TypeOK
<1>2. WalkSound' BY DEF IInv, WalkSound
<1>3. FirstMatchWins' BY DEF IInv, FirstMatchWins
<1>. QED BY <1>1, <1>2, <1>3 DEF IInv

LEMMA NextIInv == ASSUME IInv, [Next]_vars PROVE IInv'
<1>1. CASE \E c \in Checkers : \E call \in Calls : Start(c, call) BY <1>1, StartIInv
<1>2. CASE \E c \in Checkers : Walk(c) BY <1>2, WalkIInv
<1>3. CASE \E c \in Checkers : Finish(c) BY <1>3, FinishIInv
<1>4. CASE \/ \E r \in Pool : AddRule(r)
           \/ \E n \in 1..Len(rules) : RemoveRule(n)
           \/ \E file \in Files : ReloadReads(file)
           \/ ReloadInstalls
           \/ \E k \in Keys : RegisterCondition(k) \/ RegisterAsyncCondition(k)
  BY <1>4, ChangesIInv
<1>5. CASE UNCHANGED vars BY <1>5, StutterIInv
<1>. QED BY <1>1, <1>2, <1>3, <1>4, <1>5 DEF Next

LEMMA IInvAlways == Spec => []IInv
BY InitIInv, NextIInv, PTL DEF Spec

(* Type correctness: an evaluated prefix never outgrows the snapshot, and   *)
(* the matched index that _finalize_check() uses is one of its rules.       *)
THEOREM TypeCorrect == Spec => []TypeOK
<1>1. IInv => TypeOK BY DEF IInv
<1>. QED BY <1>1, IInvAlways, PTL

(* check_access() and async_check_access() decide what the rules and the    *)
(* default effect of one snapshot decide, whatever changes meanwhile.       *)
THEOREM FirstMatchAlwaysWins == Spec => []FirstMatchWins
<1>1. IInv => FirstMatchWins BY DEF IInv
<1>. QED BY <1>1, IInvAlways, PTL

-----------------------------------------------------------------------------
(* Failing closed.  What is not evaluated is below every outcome, and the   *)
(* evaluation is monotone in that order.                                    *)
Below(o, p) == o = p \/ o = "unevaluable"
Lifted(S, T) == /\ S \subseteq Outcomes /\ T \subseteq Outcomes
                /\ \A x \in S : \E y \in T : Below(x, y)
                /\ \A y \in T : \E x \in S : Below(x, y)
Full(call, full) == [call EXCEPT !.answers = full]

LEMMA AllOfMonotone ==
  ASSUME NEW S, NEW T, Lifted(S, T)
  PROVE  AllOf(S) \in Outcomes /\ Below(AllOf(S), AllOf(T))
<1>. USE DEF Lifted, Below, Outcomes
<1>1. CASE "unsatisfied" \in S BY <1>1 DEF AllOf
<1>2. CASE "unsatisfied" \notin S /\ "unevaluable" \in S BY <1>2 DEF AllOf
<1>3. CASE "unsatisfied" \notin S /\ "unevaluable" \notin S
  <2>1. \A y \in T : y = "satisfied" BY <1>3
  <2>. QED BY <1>3, <2>1 DEF AllOf
<1>. QED BY <1>1, <1>2, <1>3

LEMMA AnyOfMonotone ==
  ASSUME NEW S, NEW T, Lifted(S, T)
  PROVE  AnyOf(S) \in Outcomes /\ Below(AnyOf(S), AnyOf(T))
<1>. USE DEF Lifted, Below, Outcomes
<1>1. CASE "satisfied" \in S BY <1>1 DEF AnyOf
<1>2. CASE "satisfied" \notin S /\ "unevaluable" \in S BY <1>2 DEF AnyOf
<1>3. CASE "satisfied" \notin S /\ "unevaluable" \notin S
  <2>1. \A y \in T : y = "unsatisfied" BY <1>3
  <2>. QED BY <1>3, <2>1 DEF AnyOf
<1>. QED BY <1>1, <1>2, <1>3

(* Every key, $or alternative and $not operand.                             *)
LEMMA KeyMonotone ==
  ASSUME NEW call \in CallShape, NEW full \in [Keys -> Answers], Completes(full, call),
         NEW k \in Keys
  PROVE  /\ Answered(call.answers[k]) \in Outcomes
         /\ Answered(full[k]) \in Outcomes
         /\ Below(Answered(call.answers[k]), Answered(full[k]))
BY DEF Completes, Answered, Outcomes, Below

LEMMA KeysMonotone ==
  ASSUME NEW call \in CallShape, NEW full \in [Keys -> Answers], Completes(full, call),
         NEW keys \in SUBSET Keys
  PROVE  /\ AllKeys(keys, call) \in Outcomes /\ AllKeys(keys, Full(call, full)) \in Outcomes
         /\ Below(AllKeys(keys, call), AllKeys(keys, Full(call, full)))
<1>. DEFINE S == {Answered(call.answers[k]) : k \in keys}
            T == {Answered(full[k]) : k \in keys}
<1>1. Full(call, full).answers = full BY DEF Full, CallShape
<1>2. AllKeys(keys, call) = AllOf(S) /\ AllKeys(keys, Full(call, full)) = AllOf(T)
  BY <1>1 DEF AllKeys
<1>3. Lifted(S, T)
  <2>1. \A k \in keys : /\ Answered(call.answers[k]) \in Outcomes
                        /\ Answered(full[k]) \in Outcomes
                        /\ Below(Answered(call.answers[k]), Answered(full[k]))
    BY KeyMonotone
  <2>. QED BY <2>1 DEF Lifted
<1>4. AllOf(T) \in Outcomes BY DEF AllOf, Outcomes
<1>. QED BY <1>2, <1>3, <1>4, AllOfMonotone

LEMMA ItemMonotone ==
  ASSUME NEW call \in CallShape, NEW full \in [Keys -> Answers], Completes(full, call),
         NEW item, KeysOf(item) \subseteq Keys
  PROVE  /\ ItemOutcome(item, call) \in Outcomes
         /\ ItemOutcome(item, Full(call, full)) \in Outcomes
         /\ Below(ItemOutcome(item, call), ItemOutcome(item, Full(call, full)))
<1>0. Full(call, full).answers = full BY DEF Full, CallShape
<1>1. CASE item.op = "key" BY <1>0, <1>1, KeyMonotone DEF ItemOutcome, KeysOf
<1>2. CASE item.op = "or"
  <2>. DEFINE S == {AllKeys(keys, call) : keys \in item.of}
              T == {AllKeys(keys, Full(call, full)) : keys \in item.of}
  <2>1. \A keys \in item.of : keys \in SUBSET Keys BY <1>2 DEF KeysOf
  <2>2. Lifted(S, T)
    <3>1. \A keys \in item.of :
            /\ AllKeys(keys, call) \in Outcomes /\ AllKeys(keys, Full(call, full)) \in Outcomes
            /\ Below(AllKeys(keys, call), AllKeys(keys, Full(call, full)))
      BY <2>1, KeysMonotone
    <3>. QED BY <3>1 DEF Lifted
  <2>3. ItemOutcome(item, call) = AnyOf(S) /\ ItemOutcome(item, Full(call, full)) = AnyOf(T)
    BY <1>2 DEF ItemOutcome
  <2>4. AnyOf(T) \in Outcomes BY DEF AnyOf, Outcomes
  <2>. QED BY <2>2, <2>3, <2>4, AnyOfMonotone
<1>3. CASE item.op = "not"
  <2>. DEFINE o == AllKeys(item.negated, call)  p == AllKeys(item.negated, Full(call, full))
  <2>1. o \in Outcomes /\ p \in Outcomes /\ Below(o, p)
    BY <1>3, KeysMonotone DEF KeysOf
  <2>2. ItemOutcome(item, call) = Negated(o) /\ ItemOutcome(item, Full(call, full)) = Negated(p)
    BY <1>3 DEF ItemOutcome
  <2>. HIDE DEF o, p
  <2>. QED BY <2>1, <2>2 DEF Negated, Outcomes, Below
<1>4. CASE item.op \notin {"key", "or", "not"} BY <1>4 DEF ItemOutcome, Outcomes, Below
<1>. QED BY <1>1, <1>2, <1>3, <1>4

(* A rule evaluated with some of the handlers and some of the answers is    *)
(* below the same rule evaluated with all of them.                          *)
LEMMA RuleMonotone ==
  ASSUME NEW call \in CallShape, NEW full \in [Keys -> Answers], Completes(full, call),
         NEW rule, NEW handlers \in SUBSET Keys
  PROVE  Below(RuleOutcome(rule, call, handlers), RuleOutcome(rule, Full(call, full), Keys))
<1>. DEFINE other == Full(call, full)
<1>. SUFFICES Below(RuleOutcome(rule, call, handlers), RuleOutcome(rule, other, Keys))
  OBVIOUS
<1>1. /\ other.caller = call.caller /\ other.target = call.target
      /\ other.context = call.context /\ other.system = call.system
  BY DEF Full, CallShape
<1>2. \A patterns, value :
        MatchPatterns(patterns, value, other) <=> MatchPatterns(patterns, value, call)
  <2>1. \A p, value : MatchPattern(p, value, other) <=> MatchPattern(p, value, call)
    BY <1>1 DEF MatchPattern
  <2>. QED BY <2>1 DEF MatchPatterns
<1>. DEFINE matches == MatchPatterns(rule.callers, call.caller, call)
                       /\ MatchPatterns(rule.targets, call.target, call)
            S == {ItemOutcome(item, call) : item \in rule.conditions}
            T == {ItemOutcome(item, other) : item \in rule.conditions}
<1>. HIDE DEF other
<1>3. CASE Faulty(rule.callers) \/ Faulty(rule.targets) BY <1>3 DEF RuleOutcome, Below
<1>4. CASE ~(Faulty(rule.callers) \/ Faulty(rule.targets))
  <2>0. matches <=> MatchPatterns(rule.callers, other.caller, other)
                    /\ MatchPatterns(rule.targets, other.target, other)
    BY <1>1, <1>2
  <2>1. CASE ~matches BY <2>0, <1>2, <1>4, <2>1 DEF RuleOutcome, Below
  <2>2. CASE matches /\ ~rule.conditional BY <2>0, <1>1, <1>4, <2>2 DEF RuleOutcome, Below
  <2>3. CASE matches /\ rule.conditional /\ ~Precheck(rule.conditions, handlers)
    BY <1>4, <2>3 DEF RuleOutcome, Below
  <2>4. CASE matches /\ rule.conditional /\ Precheck(rule.conditions, handlers)
    <3>1. Precheck(rule.conditions, Keys) BY <2>4 DEF Precheck
    <3>2. CASE ~call.context BY <2>0, <1>1, <1>4, <2>4, <3>1, <3>2 DEF RuleOutcome, Below
    <3>3. CASE call.context
      <4>1. \A item \in rule.conditions :
              /\ ItemOutcome(item, call) \in Outcomes /\ ItemOutcome(item, other) \in Outcomes
              /\ Below(ItemOutcome(item, call), ItemOutcome(item, other))
        BY <3>1, ItemMonotone DEF Precheck, other
      <4>2. Lifted(S, T) BY <4>1 DEF Lifted
      <4>3. RuleOutcome(rule, call, handlers) = AllOf(S)
        BY <1>4, <2>4, <3>3 DEF RuleOutcome
      <4>4. RuleOutcome(rule, other, Keys) = AllOf(T)
        BY <2>0, <1>1, <1>4, <2>4, <3>1, <3>3 DEF RuleOutcome
      <4>. QED BY <4>2, <4>3, <4>4, AllOfMonotone
    <3>. QED BY <3>2, <3>3
  <2>. QED BY <2>1, <2>2, <2>3, <2>4
<1>. QED BY <1>3, <1>4

\* Every outcome a check has recorded is below the outcome with all answers in.
Faithful(k) ==
  \A full \in [Keys -> Answers] : Completes(full, k.call) =>
    \A j \in 1..Len(k.outcomes) :
      Below(k.outcomes[j], RuleOutcome(k.rules[j], Full(k.call, full), Keys))
\* A finished check names a rule it evaluated, or none after evaluating them all.
Concluded(k) ==
  k.pc = "done" => /\ k.decision.rule # 0 => k.decision.rule <= Len(k.outcomes)
                   /\ k.decision.rule = 0 => Len(k.outcomes) = Len(k.rules)
WalkFaithful ==
  \A c \in Checkers : check[c].pc # "idle" => Faithful(check[c]) /\ Concluded(check[c])

LEMMA InitFaithful == Init => WalkFaithful
<1>. SUFFICES ASSUME Init PROVE WalkFaithful OBVIOUS
<1>1. \A c \in Checkers : check[c].pc = "idle" BY DEF Init, Unused
<1>. QED BY <1>1 DEF WalkFaithful

LEMMA NextFaithful == ASSUME IInv, WalkFaithful, [Next]_vars PROVE WalkFaithful'
<1>1. check \in [Checkers -> Checks] BY DEF IInv, TypeOK
<1>2. ASSUME check' = check PROVE WalkFaithful' BY <1>2 DEF WalkFaithful
<1>3. ASSUME NEW c \in Checkers, NEW call \in Calls, Start(c, call) PROVE WalkFaithful'
  <2>1. \A d \in Checkers \ {c} : check'[d] = check[d] BY <1>1, <1>3 DEF Start
  <2>2. check'[c].outcomes = <<>> BY <1>1, <1>3 DEF Start, Unused
  <2>3. Faithful(check'[c])
    <3>1. Len(check'[c].outcomes) = 0 BY <2>2
    <3>. QED BY <3>1 DEF Faithful
  <2>4. Concluded(check'[c]) BY <1>1, <1>3 DEF Start, Concluded, Unused
  <2>. QED BY <2>1, <2>3, <2>4 DEF WalkFaithful
<1>4. ASSUME NEW c \in Checkers, Walk(c) PROVE WalkFaithful'
  <2>. DEFINE k == check[c]  n == Len(k.outcomes) + 1  new == check'[c]
  <2>1. TurnTaken(c, k, n, new) BY <1>4, WalkEffect DEF IInv
  <2>2. Faithful(k) BY <2>1 DEF TurnTaken, WalkFaithful
  <2>3. HandlersFor(k.call) \in SUBSET Keys BY DEF IInv, TypeOK, HandlersFor
  <2>4. k.call \in CallShape BY <2>1, PolicyAssumption DEF TurnTaken
  <2>5. ASSUME NEW full \in [Keys -> Answers], Completes(full, new.call), NEW j \in 1..n
        PROVE  Below(new.outcomes[j], RuleOutcome(new.rules[j], Full(new.call, full), Keys))
    <3>1. new.call = k.call /\ new.rules = k.rules BY <2>1 DEF TurnTaken
    <3>2. CASE j = n
      <4>1. new.outcomes[n] = RuleOutcome(k.rules[n], k.call, HandlersFor(k.call))
        BY <2>1 DEF TurnTaken, Tested
      <4>. QED BY <2>3, <2>4, <2>5, <3>1, <3>2, <4>1, RuleMonotone
    <3>3. CASE j # n
      <4>1. j \in 1..Len(k.outcomes) /\ new.outcomes[j] = k.outcomes[j]
        BY <2>1, <3>3 DEF TurnTaken
      <4>. QED BY <2>2, <2>5, <3>1, <4>1 DEF Faithful
    <3>. QED BY <3>2, <3>3
  <2>6. Faithful(new)
    <3>1. Len(new.outcomes) = n BY <2>1 DEF TurnTaken
    <3>. QED BY <2>5, <3>1 DEF Faithful
  <2>7. \A d \in Checkers \ {c} : check'[d] = check[d] BY <2>1 DEF TurnTaken
  <2>8. Concluded(new) BY <2>1 DEF TurnTaken, Concluded
  <2>. QED BY <2>6, <2>7, <2>8 DEF WalkFaithful
<1>5. ASSUME NEW c \in Checkers, Finish(c) PROVE WalkFaithful'
  <2>1. /\ check[c].pc # "idle" /\ check'[c].outcomes = check[c].outcomes
        /\ check'[c].rules = check[c].rules /\ check'[c].call = check[c].call
    BY <1>1, <1>5 DEF Finish, Checks
  <2>2. \A d \in Checkers \ {c} : check'[d] = check[d] BY <1>1, <1>5 DEF Finish
  <2>3. Faithful(check'[c]) BY <2>1 DEF Faithful, WalkFaithful
  <2>4. Concluded(check'[c])
    <3>. DEFINE k == check[c]
    <3>1. k \in Checks /\ k.matched <= Len(k.outcomes) BY <1>1 DEF IInv, TypeOK
    <3>2. k.matched # 0 \/ Len(k.outcomes) = Len(k.rules)
      <4>1. Len(k.outcomes) <= Len(k.rules) /\ k.pc = "walking"
        BY <1>5 DEF IInv, TypeOK, Finish
      <4>2. Len(k.outcomes) \in Nat /\ Len(k.rules) \in Nat
        BY <3>1, LenProperties DEF Checks
      <4>. QED BY <1>5, <4>1, <4>2 DEF Finish, Walking
    <3>3. check'[c].decision.rule = k.matched
      BY <1>1, <1>5 DEF Finish, Checks, Decision
    <3>. QED BY <2>1, <3>1, <3>2, <3>3 DEF Concluded
  <2>. QED BY <2>2, <2>3, <2>4 DEF WalkFaithful
<1>6. CASE UNCHANGED vars BY <1>2, <1>6 DEF vars
<1>. QED
  BY <1>2, <1>3, <1>4, <1>5, <1>6 DEF Next, AddRule, RemoveRule, ReloadReads, ReloadInstalls,
     RegisterCondition, RegisterAsyncCondition

(* Raising outcomes never makes a decision more restrictive: an unevaluable *)
(* deny took effect before, and what an unevaluable allow asks for was      *)
(* pending already.                                                         *)
LEMMA RankRange == ASSUME NEW d PROVE Rank(d) \in 0..2
BY DEF Rank

LEMMA DecisionMonotone ==
  ASSUME NEW list \in Seq(Pool), NEW effect \in Effects, NEW o, NEW i, NEW d, NEW e,
         Decides(list, effect, o, d), Decides(list, effect, i, e),
         NEW m \in Nat, m <= Len(list), \A j \in 1..m : Below(o[j], i[j]),
         d.rule # 0 => d.rule <= m, d.rule = 0 => m = Len(list)
  PROVE  Rank(d) <= Rank(e)
<1>. DEFINE PendingIn(x, n) == \E j \in 1..n : Pends(list[j], x[j])
            SkippedIn(x, n) == \A j \in 1..n : ~TakesEffect(list[j], x[j])
            MatchIn(x, n, r) == /\ TakesEffect(list[n], x[n]) /\ SkippedIn(x, n - 1)
                                /\ r = Decision(list[n].effect,
                                               list[n].approval \/ PendingIn(x, n - 1), n)
            NoMatchIn(x, r) == /\ SkippedIn(x, Len(list))
                               /\ r = Decision(effect, PendingIn(x, Len(list)), 0)
<1>0. Len(list) \in Nat BY LenProperties
<1>1. /\ (\E n \in 1..Len(list) : MatchIn(o, n, d)) \/ NoMatchIn(o, d)
      /\ (\E n \in 1..Len(list) : MatchIn(i, n, e)) \/ NoMatchIn(i, e)
  BY DEF Decides
<1>2. CASE d.access = "deny"
  <2>1. Rank(d) = 0 BY <1>2 DEF Rank
  <2>. QED BY <2>1, RankRange
<1>3. CASE d.access # "deny"
  <2>1. \A n \in 0..m : PendingIn(i, n) => PendingIn(o, n) BY DEF Pends, Below
  \* The rule that decides e was passed in o: it is an allow, pending if it asks.
  <2>2. ASSUME NEW n \in 0..m, SkippedIn(o, n), NEW p \in 1..n, MatchIn(i, p, e),
               d.access = "allow", PendingIn(o, n) => d.approval
        PROVE  Rank(d) <= Rank(e)
    <3>1. o[p] = "unevaluable" /\ list[p].effect # "deny" BY <2>2 DEF TakesEffect, Below
    <3>2. list[p] \in Pool BY <2>2, <1>0, ElementOfSeq
    <3>3. list[p].effect = "allow" BY <3>1, <3>2, PolicyAssumption DEF Effects
    <3>4. e.access = "allow" /\ (e.approval => list[p].approval \/ PendingIn(i, p - 1))
      BY <2>2, <3>3 DEF Decision
    <3>5. list[p].approval => PendingIn(o, n) BY <2>2, <3>1, <3>3 DEF Pends, AsksApproval
    <3>6. PendingIn(i, p - 1) => PendingIn(o, n)
      <4>1. p - 1 \in 0..m /\ \A j \in 1..(p - 1) : j \in 1..n BY <2>2
      <4>. QED BY <2>1, <4>1
    <3>7. e.approval => d.approval BY <2>2, <3>4, <3>5, <3>6
    <3>. HIDE DEF PendingIn, SkippedIn, MatchIn, NoMatchIn
    <3>. QED BY <2>2, <3>4, <3>7 DEF Rank
  <2>3. ASSUME NEW n \in 1..Len(list), MatchIn(o, n, d) PROVE Rank(d) <= Rank(e)
    <3>1. d.access = list[n].effect /\ d.rule = n BY <2>3 DEF Decision
    <3>2. list[n] \in Pool BY <1>0, ElementOfSeq
    <3>3. d.access = "allow" BY <1>3, <3>1, <3>2, PolicyAssumption DEF Effects
    <3>4. o[n] = "satisfied" BY <2>3, <3>1, <3>3 DEF TakesEffect
    <3>5. n \in 1..m /\ n - 1 \in 0..m BY <3>1
    <3>6. TakesEffect(list[n], i[n]) BY <3>4, <3>5 DEF Below, TakesEffect
    <3>7. d.approval <=> list[n].approval \/ PendingIn(o, n - 1)
      BY <2>3, <3>1, <3>3 DEF Decision
    <3>8. ~NoMatchIn(i, e) BY <3>6
    <3>9. PICK p \in 1..Len(list) : MatchIn(i, p, e) BY <1>1, <3>8
    <3>10. p <= n
      <4>1. p > n => n \in 1..(p - 1) BY <1>0
      <4>. QED BY <1>0, <3>6, <3>9, <4>1
    <3>11. CASE p = n
      <4>1. e.access = "allow" /\ (e.approval => list[n].approval \/ PendingIn(i, n - 1))
        BY <3>9, <3>11, <3>1, <3>3 DEF Decision
      <4>2. e.approval => d.approval BY <4>1, <2>1, <3>5, <3>7
      <4>. HIDE DEF PendingIn, SkippedIn, MatchIn, NoMatchIn
      <4>. QED BY <3>3, <4>1, <4>2 DEF Rank
    <3>12. CASE p # n
      <4>1. p \in 1..(n - 1) BY <1>0, <3>10, <3>12
      <4>. QED BY <2>2, <2>3, <3>3, <3>5, <3>7, <3>9, <4>1
    <3>. QED BY <3>11, <3>12
  <2>4. ASSUME NoMatchIn(o, d) PROVE Rank(d) <= Rank(e)
    <3>1. d.access = effect /\ d.rule = 0 BY <2>4 DEF Decision
    <3>2. d.access = "allow" /\ m = Len(list) BY <1>3, <3>1 DEF Effects
    <3>3. d.approval <=> PendingIn(o, m) BY <2>4, <3>1, <3>2 DEF Decision
    <3>4. ASSUME NEW p \in 1..Len(list), MatchIn(i, p, e) PROVE Rank(d) <= Rank(e)
      <4>1. m \in 0..m /\ SkippedIn(o, m) /\ p \in 1..m BY <2>4, <3>2
      <4>2. PendingIn(o, m) => d.approval BY <3>3
      <4>. HIDE DEF PendingIn, SkippedIn, MatchIn, NoMatchIn
      <4>. QED BY <2>2, <3>2, <3>4, <4>1, <4>2
    <3>5. ASSUME NoMatchIn(i, e) PROVE Rank(d) <= Rank(e)
      <4>1. e.access = "allow" /\ (e.approval => PendingIn(i, m))
        BY <3>1, <3>2, <3>5 DEF Decision
      <4>2. e.approval => d.approval BY <4>1, <2>1, <3>3
      <4>. HIDE DEF PendingIn, SkippedIn, MatchIn, NoMatchIn
      <4>. QED BY <3>2, <4>1, <4>2 DEF Rank
    <3>. QED BY <1>1, <3>4, <3>5
  <2>. QED BY <1>1, <2>3, <2>4
<1>. QED BY <1>2, <1>3

LEMMA FailClosedHolds == ASSUME IInv, WalkFaithful PROVE FailClosed
<1>. SUFFICES ASSUME NEW c \in Checkers, check[c].pc = "done",
                     NEW full \in [Keys -> Answers], Completes(full, check[c].call), NEW e,
                     Decides(check[c].rules, check[c].default,
                             OutcomesOf(check[c].rules, Full(check[c].call, full), Keys), e)
              PROVE  Rank(check[c].decision) <= Rank(e)
  BY DEF FailClosed, Full
<1>. DEFINE k == check[c]  ideal == OutcomesOf(k.rules, Full(k.call, full), Keys)
<1>1. /\ k \in Checks /\ Len(k.outcomes) <= Len(k.rules) BY DEF IInv, TypeOK
<1>2. /\ k.rules \in Seq(Pool) /\ k.default \in Effects
      /\ Len(k.rules) \in Nat /\ Len(k.outcomes) \in Nat
  BY <1>1, LenProperties DEF Checks
<1>3. Decides(k.rules, k.default, k.outcomes, k.decision) BY DEF IInv, FirstMatchWins
<1>4. \A j \in 1..Len(k.outcomes) : Below(k.outcomes[j], ideal[j])
  <2>1. \A j \in 1..Len(k.outcomes) : ideal[j] = RuleOutcome(k.rules[j], Full(k.call, full), Keys)
    BY <1>1, <1>2 DEF OutcomesOf
  <2>2. Faithful(k) BY DEF WalkFaithful
  <2>. QED BY <2>1, <2>2 DEF Faithful
<1>5. /\ k.decision.rule # 0 => k.decision.rule <= Len(k.outcomes)
      /\ k.decision.rule = 0 => Len(k.outcomes) = Len(k.rules)
  BY DEF WalkFaithful, Concluded
<1>. HIDE DEF k, ideal
<1>6. Decides(k.rules, k.default, ideal, e) BY DEF k, ideal
<1>7. Rank(k.decision) <= Rank(e) BY <1>1, <1>2, <1>3, <1>4, <1>5, <1>6, DecisionMonotone
<1>. QED BY <1>7 DEF k

(* Had every condition been answered and every key been registered, the     *)
(* decision would have been at least as permissive: what a handler, a       *)
(* missing handler or a malformed condition leaves open never grants a      *)
(* call, and never waives its approval.                                     *)
THEOREM FailsClosed == Spec => []FailClosed
<1>1. Spec => [](IInv /\ WalkFaithful)
  BY InitIInv, NextIInv, InitFaithful, NextFaithful, PTL DEF Spec
<1>2. IInv /\ WalkFaithful => FailClosed BY FailClosedHolds
<1>. QED BY <1>1, <1>2, PTL
=============================================================================

--------------------------- MODULE Requests_proofs ---------------------------
(* For any middlewares, retry limit and presets, any number of threads and   *)
(* loops, any policies, and whatever the ACL does meanwhile: what one call   *)
(* keeps of its gates, its attempts, its cancellation and its dry runs, what *)
(* the bridge keeps of the shared loop, what no policy waives, what matching *)
(* finds, what a rule that was linted can be trusted with, and what a reload *)
(* of the configuration keeps.                                               *)
EXTENDS Requests, FiniteSetTheorems, SequenceTheorems, WellFoundedInduction, TLAPS

-----------------------------------------------------------------------------
(* One call (ModuleCall).                                                   *)

CallPlaces == {"step", "approval", "before", "body", "after", "on_error", "chunks",
               "introspection", "ended"}
CallTypes == /\ callMode \in {"call", "trace", "stream", "post", "validate"} /\ pc \in CallPlaces
             /\ attempt \in Nat /\ queued \cup bodies \subseteq 0..attempt
             /\ queued \cap bodies = {}

(* A body that was told to stop has cancelled the token of every later       *)
(* attempt, for each token is a child of the one before: that is why only    *)
(* the current attempt can hand one over.                                    *)
CallIInv == /\ CallTypes
            /\ \A a, b \in Call!Handed : a = b
            /\ outcome # "interrupted" => Call!HandedAreTold
            /\ outcome = "interrupted" => pc = "ended"
            /\ Call!CancellationIsNotRecovered

CallKnownModes == Modes \subseteq {"call", "trace", "stream", "validate"}

LEMMA CallInitIInv ==
  ASSUME CallKnownModes
  PROVE  Call!Init => CallIInv
BY DEF CallKnownModes, Call!Init, CallIInv, CallTypes, CallPlaces, Call!HandedAreTold,
  Call!Handed, Call!CancellationIsNotRecovered

\* Where a failed step leads.
LEMMA CallFailureLeads ==
  ASSUME CallIInv, pc # "ended", NEW e, NEW ran, Call!Failure(e, ran)
  PROVE  /\ pc' \in {"step", "on_error", "ended"} /\ trace' = trace
         /\ outcome' \in {outcome, "returned", "raised"}
         /\ error' = "cancelled" /\ callMode # "post" => pc' = "ended" /\ outcome' = "raised"
<1>. USE DEF Call!Failure, Call!Ends, CallIInv, CallTypes, Call!CancellationIsNotRecovered
<1>1. CASE callMode = "validate" BY <1>1
<1>2. CASE callMode = "post" BY <1>2
<1>3. CASE callMode \in {"call", "trace", "stream"} BY <1>3
<1>. QED BY <1>1, <1>2, <1>3

(* A step that hands over no body, and tells the one it stops waiting for.   *)
LEMMA CallHandsNothing ==
  ASSUME CallIInv, pc # "ended",
         callMode' \in {callMode, "post"}, attempt' \in {attempt, attempt + 1},
         fired \subseteq fired', queued' \subseteq queued, bodies' \subseteq bodies,
         pc' \in CallPlaces,
         pc' = "body" => pc = "body" /\ attempt' = attempt,
         pc = "body" /\ pc' # "body" =>
           attempt \notin Call!Handed' \/ attempt \in fired' \/ outcome' = "interrupted",
         outcome' = "interrupted" => pc' = "ended",
         error' = "cancelled" /\ callMode' # "post" => pc' = "ended" /\ outcome' = "raised"
  PROVE  CallIInv'
<1>1. CallTypes' BY DEF CallIInv, CallTypes
<1>2. ASSUME outcome' # "interrupted", NEW a \in Call!Handed' PROVE Call!Told(a)'
  <2>1. a \in Call!Handed /\ Call!Told(a) /\ a \in Nat
    BY <1>2 DEF CallIInv, CallTypes, Call!HandedAreTold, Call!Handed
  <2>2. CASE Call!Cancelled(a) BY <2>2 DEF Call!Cancelled, Call!Told
  <2>3. CASE pc = "body" /\ a = attempt
    <3>1. CASE pc' = "body" BY <2>3, <3>1 DEF Call!Told
    <3>2. CASE pc' # "body" BY <1>2, <2>1, <2>3, <3>2 DEF Call!Told, Call!Cancelled
    <3>. QED BY <3>1, <3>2
  <2>. QED BY <2>1, <2>2, <2>3 DEF Call!Told
<1>3. (outcome # "interrupted" => Call!HandedAreTold)' BY <1>2 DEF Call!HandedAreTold
<1>4. \A a, b \in Call!Handed' : a = b BY DEF CallIInv, Call!Handed
<1>. QED BY <1>1, <1>3, <1>4 DEF CallIInv, Call!CancellationIsNotRecovered

\* The last look at the token, and the body if it was not cancelled.
LEMMA CallExecuteIInv ==
  ASSUME CallIInv, Call!Execute
  PROVE  CallIInv'
<1>1. pc = "step" /\ UNCHANGED <<callMode, attempt>> BY DEF Call!Execute, Call!At, Call!run
<1>2. CASE Call!Cancelled(attempt) \/ late
  <2>1. Call!Failure("cancelled", executed) \/ Call!Failure("timeout", executed)
    BY <1>2 DEF Call!Execute
  <2>2. UNCHANGED <<queued, bodies>> /\ fired \subseteq fired' BY <1>2 DEF Call!Execute
  <2>3. /\ pc' \in {"step", "on_error", "ended"} /\ outcome' \in {outcome, "returned", "raised"}
        /\ error' = "cancelled" /\ callMode # "post" => pc' = "ended" /\ outcome' = "raised"
    BY <1>1, <2>1, CallFailureLeads
  <2>4. outcome # "interrupted" BY <1>1 DEF CallIInv
  <2>. QED BY <1>1, <2>2, <2>3, <2>4, CallHandsNothing DEF CallPlaces
<1>3. CASE ~Call!Cancelled(attempt) /\ ~late
  <2>1. UNCHANGED <<fired, outcome, error>> BY <1>3 DEF Call!Execute
  <2>2. outcome # "interrupted" /\ (error = "cancelled" => callMode = "post")
    BY <1>1 DEF CallIInv, Call!CancellationIsNotRecovered
  <2>3. Call!Handed = {}
    <3>. SUFFICES ASSUME NEW a \in Call!Handed PROVE FALSE OBVIOUS
    <3>1. Call!Cancelled(a) /\ a \in 0..attempt
      BY <1>1, <2>2 DEF CallIInv, CallTypes, Call!HandedAreTold, Call!Told, Call!Handed
    <3>2. Call!Cancelled(attempt) BY <3>1 DEF Call!Cancelled, CallIInv, CallTypes
    <3>. QED BY <1>3, <3>2
  <2>4. /\ bodies' = {}
        /\ \/ pc' = "body" /\ queued' = {attempt}
           \/ pc' = pc /\ queued' = {}
    BY <1>3, <2>3 DEF Call!Execute, Call!Handed
  <2>5. CallTypes' BY <1>1, <2>4 DEF CallIInv, CallTypes, CallPlaces
  <2>6. Call!HandedAreTold' /\ \A a, b \in Call!Handed' : a = b
    BY <1>1, <2>4 DEF Call!HandedAreTold, Call!Told, Call!Handed
  <2>. QED BY <1>1, <2>1, <2>2, <2>4, <2>5, <2>6 DEF CallIInv, Call!CancellationIsNotRecovered
<1>. QED BY <1>2, <1>3

\* The steps in front of the module and after it.
LEMMA CallStepsIInv ==
  ASSUME CallIInv,
         \/ Call!RunEnds \/ Call!DryRunSkips \/ Call!CreateContext \/ Call!CallChainGuard
         \/ Call!ModuleLookup \/ Call!ACLCheck \/ Call!ApprovalGate \/ Call!InputValidation
         \/ Call!OutputValidation \/ Call!MiddlewareBefore \/ Call!MiddlewareAfter
         \/ Call!ReturnResult \/ Call!BindingRefused \/ Call!DryRunEnds
  PROVE  CallIInv'
<1>1. pc = "step" /\ outcome # "interrupted" /\ (error = "cancelled" => callMode = "post")
  BY DEF CallIInv, Call!CancellationIsNotRecovered, Call!At, Call!RunEnds, Call!DryRunSkips,
         Call!CreateContext, Call!CallChainGuard, Call!CheckOrRaise, Call!ModuleLookup,
         Call!ACLCheck, Call!ApprovalGate, Call!InputValidation, Call!OutputValidation,
         Call!MiddlewareBefore, Call!MiddlewareAfter, Call!ReturnResult, Call!BindingRefused,
         Call!DryRunEnds
<1>2. UNCHANGED <<callMode, fired, queued, bodies>> /\ attempt' \in {attempt, attempt + 1}
  BY DEF Call!run, Call!work, Call!signals, Call!RunEnds, Call!DryRunSkips, Call!CreateContext,
         Call!CallChainGuard, Call!CheckOrRaise, Call!ModuleLookup, Call!ACLCheck,
         Call!ApprovalGate, Call!InputValidation, Call!OutputValidation, Call!MiddlewareBefore,
         Call!MiddlewareAfter, Call!ReturnResult, Call!BindingRefused, Call!DryRunEnds
<1>3. \/ \E e, ran : Call!Failure(e, ran)
      \/ /\ pc' \in CallPlaces \ {"body"} /\ error' = error
         /\ outcome' \in {outcome, "returned", "valid", "invalid"}
  BY <1>1
  DEF CallPlaces, Call!Continue, Call!Ends, Call!Verdict, Call!RunEnds, Call!DryRunSkips,
      Call!CreateContext, Call!CallChainGuard, Call!CheckOrRaise, Call!ModuleLookup,
      Call!ACLCheck, Call!ApprovalGate, Call!InputValidation, Call!OutputValidation,
      Call!MiddlewareBefore, Call!MiddlewareAfter, Call!ReturnResult, Call!BindingRefused,
      Call!DryRunEnds
<1>4. CASE \E e, ran : Call!Failure(e, ran)
  <2>1. /\ pc' \in {"step", "on_error", "ended"} /\ outcome' \in {outcome, "returned", "raised"}
        /\ error' = "cancelled" /\ callMode # "post" => pc' = "ended" /\ outcome' = "raised"
    BY <1>1, <1>4, CallFailureLeads
  <2>. QED BY <1>1, <1>2, <2>1, CallHandsNothing DEF CallPlaces
<1>5. CASE ~\E e, ran : Call!Failure(e, ran)
  BY <1>1, <1>2, <1>3, <1>5, CallHandsNothing
<1>. QED BY <1>4, <1>5

\* What the call awaits: an answer, hooks, chunks, its own introspection.
LEMMA CallAwaitsIInv ==
  ASSUME CallIInv,
         \/ Call!ApprovalAnswer \/ Call!BeforeHook \/ Call!AfterHook \/ Call!OnErrorHook
         \/ Call!StreamChunk \/ Call!StreamFails \/ Call!StreamEnds \/ Call!StreamAbandoned
         \/ Call!IntrospectionEnds
  PROVE  CallIInv'
<1>1. /\ pc \in CallPlaces \ {"ended", "body"} /\ outcome # "interrupted"
      /\ error = "cancelled" => callMode = "post"
  BY DEF CallIInv, Call!CancellationIsNotRecovered, CallPlaces, Call!ApprovalAnswer,
         Call!BeforeHook, Call!AfterHook, Call!OnErrorHook, Call!StreamChunk, Call!StreamFails,
         Call!StreamEnds, Call!StreamAbandoned, Call!IntrospectionEnds
<1>2. UNCHANGED <<fired, queued, bodies, attempt>> /\ callMode' \in {callMode, "post"}
  BY DEF Call!run, Call!work, Call!signals, Call!ApprovalAnswer, Call!BeforeHook, Call!AfterHook,
         Call!OnErrorHook, Call!StreamChunk, Call!StreamFails, Call!StreamEnds,
         Call!StreamAbandoned, Call!IntrospectionEnds
<1>3. \/ callMode' = callMode /\ \E e, ran : Call!Failure(e, ran)
      \/ /\ pc' \in CallPlaces \ {"body"} /\ error' \in {error, "none"}
         /\ outcome' # "interrupted"
  BY <1>1
  DEF CallPlaces, Call!Continue, Call!Ends, Call!Verdict, Call!Retry, Call!RaiseInstead, Call!run,
      Call!work,
      Call!ApprovalAnswer, Call!BeforeHook, Call!AfterHook, Call!OnErrorHook, Call!StreamChunk,
      Call!StreamFails, Call!StreamEnds, Call!StreamAbandoned, Call!IntrospectionEnds
<1>4. CASE callMode' = callMode /\ \E e, ran : Call!Failure(e, ran)
  <2>1. /\ pc' \in {"step", "on_error", "ended"} /\ outcome' \in {outcome, "returned", "raised"}
        /\ error' = "cancelled" /\ callMode # "post" => pc' = "ended" /\ outcome' = "raised"
    BY <1>1, <1>4, CallFailureLeads
  <2>. QED BY <1>1, <1>2, <1>4, <2>1, CallHandsNothing DEF CallPlaces
<1>5. CASE ~(callMode' = callMode /\ \E e, ran : Call!Failure(e, ran))
  <2>1. error' = "cancelled" => callMode' = "post" BY <1>1, <1>2, <1>3, <1>5
  <2>. QED BY <1>1, <1>2, <1>3, <1>5, <2>1, CallHandsNothing
<1>. QED BY <1>4, <1>5

\* The module ends, or the call stops waiting for it and fires its token.
LEMMA CallBodyIInv ==
  ASSUME CallIInv, Call!BodyReturns \/ Call!BodyRaises \/ Call!BodyTimesOut
  PROVE  CallIInv'
<1>1. /\ pc = "body" /\ outcome # "interrupted" /\ (error = "cancelled" => callMode = "post")
      /\ UNCHANGED <<callMode, attempt>> /\ fired \subseteq fired'
      /\ queued' = queued /\ bodies' \subseteq bodies
      /\ attempt \notin Call!Handed' \/ attempt \in fired'
  BY DEF CallIInv, CallTypes, Call!CancellationIsNotRecovered, Call!run, Call!work, Call!signals,
         Call!Handed, Call!BodyReturns, Call!BodyRaises, Call!BodyTimesOut
<1>2. \/ \E e, ran : Call!Failure(e, ran)
      \/ pc' = "step" /\ UNCHANGED <<error, outcome>>
  BY DEF Call!Continue, Call!BodyReturns, Call!BodyRaises, Call!BodyTimesOut
<1>3. CASE \E e, ran : Call!Failure(e, ran)
  <2>1. /\ pc' \in {"step", "on_error", "ended"} /\ outcome' \in {outcome, "returned", "raised"}
        /\ error' = "cancelled" /\ callMode # "post" => pc' = "ended" /\ outcome' = "raised"
    BY <1>1, <1>3, CallFailureLeads
  <2>. QED BY <1>1, <2>1, CallHandsNothing DEF CallPlaces
<1>4. CASE pc' = "step" /\ UNCHANGED <<error, outcome>>
  BY <1>1, <1>4, CallHandsNothing DEF CallPlaces
<1>. QED BY <1>2, <1>3, <1>4

\* The caller, the clock, the clients; a body that nobody waits for ends.
LEMMA CallAroundIInv ==
  ASSUME CallIInv,
         \/ Call!CallerCancels \/ Call!DeadlinePasses \/ Call!MiddlewareListChanges
         \/ Call!Interrupted \/ Call!LateBodyEnds \/ Call!BodyStarts
  PROVE  CallIInv'
<1>1. CASE Call!CallerCancels \/ Call!DeadlinePasses \/ Call!MiddlewareListChanges
  <2>1. /\ pc # "ended" /\ UNCHANGED <<callMode, attempt, queued, bodies, pc, error, outcome>>
        /\ fired \subseteq fired'
    BY <1>1 DEF Call!run, Call!work, Call!CallerCancels, Call!DeadlinePasses,
      Call!MiddlewareListChanges
  <2>. QED BY <2>1, CallHandsNothing DEF CallIInv, CallTypes, Call!CancellationIsNotRecovered
<1>2. CASE Call!Interrupted
  <2>1. /\ pc # "ended" /\ pc' = "ended" /\ outcome' = "interrupted"
        /\ UNCHANGED <<callMode, attempt, queued, bodies, error, fired>>
    BY <1>2 DEF Call!run, Call!work, Call!signals, Call!Ends, Call!Interrupted
  <2>2. error = "cancelled" => callMode = "post" BY <2>1 DEF CallIInv,
    Call!CancellationIsNotRecovered
  <2>. QED BY <2>1, <2>2, CallHandsNothing DEF CallPlaces
<1>3. CASE Call!LateBodyEnds \/ Call!BodyStarts
  <2>1. /\ UNCHANGED <<callMode, attempt, pc, error, outcome, fired>>
        /\ Call!Handed' \subseteq Call!Handed /\ (queued \cap bodies = {})'
    BY <1>3
    DEF Call!run, Call!signals, Call!LateBodyEnds, Call!BodyStarts, Call!Handed, CallIInv, CallTypes
  <2>2. CallTypes' BY <2>1 DEF CallIInv, CallTypes, Call!Handed
  <2>3. Call!HandedAreTold => Call!HandedAreTold'
    BY <2>1 DEF Call!HandedAreTold, Call!Told, Call!Cancelled
  <2>. QED BY <2>1, <2>2, <2>3 DEF CallIInv, Call!CancellationIsNotRecovered
<1>. QED BY <1>1, <1>2, <1>3

LEMMA CallNextIInv == CallIInv /\ [Call!Next]_Call!vars => CallIInv'
<1>. SUFFICES ASSUME CallIInv, [Call!Next]_Call!vars PROVE CallIInv' OBVIOUS
<1>1. CASE UNCHANGED Call!vars
  BY <1>1 DEF Call!vars, CallIInv, CallTypes, Call!HandedAreTold, Call!Handed, Call!Told,
    Call!Cancelled, Call!CancellationIsNotRecovered
<1>. QED BY <1>1, CallExecuteIInv, CallStepsIInv, CallAwaitsIInv, CallBodyIInv,
  CallAroundIInv DEF Call!Next, Call!PipelineStep

-----------------------------------------------------------------------------
(* What a preset puts in front of what.                                      *)
CallWellFormed(steps) ==
  /\ steps \in Seq(Call!ToSet(Call!Standard)) /\ Len(steps) > 0
  /\ \A m, n \in 1..Len(steps) : steps[m] = steps[n] => m = n
  /\ \A m, n \in 1..Len(steps) :
       \/ steps[m] = "acl_check" /\ steps[n] = "approval_gate"
       \/ steps[m] \in {"context_creation", "acl_check", "approval_gate"} /\ steps[n] = "execute"
       => m < n
  /\ \A n \in 1..Len(steps) : \A x \in Call!Requires(steps[n]) :
       \E m \in 1..(n - 1) : x \in Call!Provides(steps[m])

CallKnownStrategies ==
  /\ Strategies \subseteq DOMAIN Call!Presets
  /\ \A s \in Strategies : Call!PostSteps(Call!Presets[s]) \in Seq(Call!PostStream)

LEMMA CallPresetsWellFormed ==
  ASSUME NEW s \in DOMAIN Call!Presets
  PROVE  CallWellFormed(Call!Presets[s])
<1>1. CallWellFormed(Call!Standard)
  <2>. USE DEF Call!Standard
  <2>1. Call!Standard \in Seq(Call!ToSet(Call!Standard)) /\ Len(Call!Standard) > 0
    BY DEF Call!Standard, Call!ToSet
  <2>2. \A n \in 1..Len(Call!Standard) : \A x \in Call!Requires(Call!Standard[n]) :
          \E m \in 1..(n - 1) : x \in Call!Provides(Call!Standard[m])
    BY DEF Call!Requires, Call!Provides
  <2>. QED BY <2>1, <2>2 DEF CallWellFormed
<1>2. CallWellFormed(Call!Internal)
  <2>. USE DEF Call!Internal
  <2>1. Call!Internal \in Seq(Call!ToSet(Call!Standard)) /\ Len(Call!Internal) > 0
    BY DEF Call!Standard, Call!ToSet
  <2>2. \A n \in 1..Len(Call!Internal) : \A x \in Call!Requires(Call!Internal[n]) :
          \E m \in 1..(n - 1) : x \in Call!Provides(Call!Internal[m])
    BY DEF Call!Requires, Call!Provides
  <2>. QED BY <2>1, <2>2 DEF CallWellFormed
<1>3. CallWellFormed(Call!Performance)
  <2>. USE DEF Call!Performance
  <2>1. Call!Performance \in Seq(Call!ToSet(Call!Standard)) /\ Len(Call!Performance) > 0
    BY DEF Call!Standard, Call!ToSet
  <2>2. \A n \in 1..Len(Call!Performance) : \A x \in Call!Requires(Call!Performance[n]) :
          \E m \in 1..(n - 1) : x \in Call!Provides(Call!Performance[m])
    BY DEF Call!Requires, Call!Provides
  <2>. QED BY <2>1, <2>2 DEF CallWellFormed
<1>4. CallWellFormed(Call!Minimal)
  <2>. USE DEF Call!Minimal
  <2>1. Call!Minimal \in Seq(Call!ToSet(Call!Standard)) /\ Len(Call!Minimal) > 0
    BY DEF Call!Standard, Call!ToSet
  <2>2. \A n \in 1..Len(Call!Minimal) : \A x \in Call!Requires(Call!Minimal[n]) :
          \E m \in 1..(n - 1) : x \in Call!Provides(Call!Minimal[m])
    BY DEF Call!Requires, Call!Provides
  <2>. QED BY <2>1, <2>2 DEF CallWellFormed
<1>. QED BY <1>1, <1>2, <1>3, <1>4 DEF Call!Presets

-----------------------------------------------------------------------------
(* The engine's place in its strategy.                                       *)
CallShaped ==
  /\ callMode # "post" =>
       CallWellFormed(strategy) /\ \E s \in Strategies : strategy = Call!Presets[s]
  /\ callMode = "post" => strategy \in Seq(Call!PostStream)
  /\ at \in 1..(Len(strategy) + 1)

CallAwaited == [approval |-> "approval_gate", before |-> "middleware_before", body |-> "execute",
                after |-> "middleware_after"]
CallPlaced ==
  /\ pc \in DOMAIN CallAwaited =>
       callMode # "validate" /\ at <= Len(strategy) /\ strategy[at] = CallAwaited[pc]
  /\ pc = "chunks" => callMode = "stream" /\ at > Len(strategy)

(* Up to the module, a run skips no step; the gate that it has passed let it *)
(* through.                                                                  *)
CallEngaged == callMode \in {"call", "trace", "stream"}
CallNothingSkipped ==
  CallEngaged => \A n \in 1..Len(strategy) : strategy[n] = "execute" =>
               \A k \in 1..(n - 1) : k < at => strategy[k] \in trace
CallGatePassed ==
  CallEngaged => \A n \in 1..Len(strategy) :
               strategy[n] = "approval_gate" /\ n < at /\ Call!NeedsApproval /\ gating.handler
               => approved

(* Once a stream has yielded a chunk, no new attempt begins.                 *)
CallOneStream ==
  chunks # {} => /\ chunks = {attempt}
                 /\ \/ callMode = "post"
                    \/ callMode = "stream" /\ pc \in {"chunks", "on_error", "ended"}

CallGates == CallShaped /\ CallPlaced /\ CallNothingSkipped /\ CallGatePassed /\ CallOneStream

(* How a step may move the engine and its gates.                             *)
CallPasses(s) == callMode # "validate" => s \in trace' /\ trace \subseteq trace'
CallEngineMoves ==
  /\ UNCHANGED <<callMode, strategy, gating>>
  /\ \/ at' = at /\ trace \subseteq trace'
     \/ at <= Len(strategy) /\ at' = at + 1 /\ CallPasses(strategy[at])
     \/ /\ at <= Len(strategy) /\ strategy[at] = "execute"
        /\ at' = Len(strategy) /\ trace \subseteq trace'
     \/ at' = 1
  /\ aclAsks' # aclAsks =>
       at <= Len(strategy) /\ strategy[at] = "acl_check" /\ at' \in {at, at + 1}
  /\ approved' # approved =>
       at <= Len(strategy) /\ strategy[at] = "approval_gate" /\ at' \in {at, at + 1}
  /\ CallEngaged /\ at <= Len(strategy) /\ strategy[at] = "approval_gate" /\ at' = at + 1 =>
       (Call!NeedsApproval /\ gating.handler => approved)'

LEMMA CallMovesKeep ==
  ASSUME CallTypes, CallGates, CallEngineMoves, CallPlaced', CallOneStream'
  PROVE  CallGates'
<1>. USE DEF CallGates, CallEngineMoves
<1>1. Len(strategy) \in Nat /\ (callMode # "post" => Len(strategy) > 0)
  BY DEF CallShaped, CallWellFormed
<1>2. CallShaped'
  BY <1>1 DEF CallShaped
<1>3. CallNothingSkipped'
  <2>. SUFFICES ASSUME CallEngaged, NEW n \in 1..Len(strategy), strategy[n] = "execute",
                       NEW k \in 1..(n - 1), k < at'
                PROVE  strategy[k] \in trace'
    BY DEF CallNothingSkipped, CallEngaged
  <2>1. k < at => strategy[k] \in trace BY DEF CallNothingSkipped
  <2>2. CASE at' = at /\ trace \subseteq trace' BY <2>1, <2>2
  <2>3. CASE at <= Len(strategy) /\ at' = at + 1 /\ CallPasses(strategy[at])
    BY <1>1, <2>1, <2>3 DEF CallPasses, CallShaped, CallEngaged
  <2>4. CASE /\ at <= Len(strategy) /\ strategy[at] = "execute"
             /\ at' = Len(strategy) /\ trace \subseteq trace'
    <3>1. n = at BY <2>4 DEF CallShaped, CallWellFormed, CallEngaged
    <3>. QED BY <2>1, <2>4, <3>1 DEF CallShaped
  <2>5. CASE at' = 1 BY <2>5
  <2>. QED BY <2>2, <2>3, <2>4, <2>5
<1>4. CallGatePassed'
  <2>. SUFFICES ASSUME CallEngaged, NEW n \in 1..Len(strategy), strategy[n] = "approval_gate",
                       n < at',
                       Call!NeedsApproval', gating.handler
                PROVE  approved'
    BY DEF CallGatePassed, CallEngaged
  <2>0. /\ CallWellFormed(strategy) /\ at \in 1..(Len(strategy) + 1)
        /\ n < at /\ Call!NeedsApproval => approved
    BY DEF CallGatePassed, CallShaped, CallEngaged
  <2>1. CASE at' = 1 BY <2>1
  <2>2. CASE n < at
    <3>1. CASE at <= Len(strategy) /\ strategy[at] = "acl_check"
      BY <2>0, <2>2, <3>1 DEF CallWellFormed
    <3>2. CASE at <= Len(strategy) /\ strategy[at] = "approval_gate"
      BY <2>0, <2>2, <3>2 DEF CallWellFormed
    <3>3. CASE aclAsks' = aclAsks /\ approved' = approved
      BY <2>0, <2>2, <3>3 DEF Call!NeedsApproval
    <3>. QED BY <3>1, <3>2, <3>3
  <2>3. CASE n >= at /\ at' # 1
    <3>1. /\ at <= Len(strategy)
          /\ at' = at + 1 \/ (strategy[at] = "execute" /\ at' = Len(strategy))
      BY <1>1, <2>0, <2>3
    <3>2. CASE at' = at + 1
      <4>1. n = at BY <2>0, <2>3, <3>2
      <4>. QED BY <3>1, <3>2, <4>1
    <3>3. CASE strategy[at] = "execute" BY <2>0, <2>3, <3>1, <3>3 DEF CallWellFormed
    <3>. QED BY <3>1, <3>2, <3>3
  <2>. QED BY <1>1, <2>0, <2>1, <2>2, <2>3
<1>. QED BY <1>2, <1>3, <1>4

(* A failed step leaves the engine where it is, or a dry run goes on.        *)
LEMMA CallFailureKeepsGates ==
  ASSUME CallTypes, CallGates, pc # "ended", NEW e, NEW ran, Call!Failure(e, ran),
         UNCHANGED <<callMode, strategy, gating, attempt, chunks>>,
         callMode = "validate" => at <= Len(strategy),
         aclAsks' # aclAsks => at <= Len(strategy) /\ strategy[at] = "acl_check",
         approved' # approved => at <= Len(strategy) /\ strategy[at] = "approval_gate"
  PROVE  CallGates'
<1>1. CASE callMode = "validate"
  <2>1. at' = at + 1 /\ trace' = trace /\ pc' = "step" /\ chunks = {}
    BY <1>1 DEF Call!Failure, CallGates, CallOneStream
  <2>2. CallEngineMoves BY <1>1, <2>1 DEF CallEngineMoves, CallPasses, CallEngaged
  <2>3. CallPlaced' /\ CallOneStream' BY <2>1 DEF CallPlaced, CallAwaited, CallOneStream
  <2>. QED BY <2>2, <2>3, CallMovesKeep
<1>2. CASE callMode # "validate"
  <2>1. /\ at' = at /\ trace' = trace /\ pc' \in {"on_error", "ended"}
    BY <1>2 DEF Call!Failure, Call!Ends, CallTypes
  <2>2. CallEngineMoves BY <1>2, <2>1 DEF CallEngineMoves, CallGates, CallShaped
  <2>3. CallPlaced' BY <2>1 DEF CallPlaced, CallAwaited
  <2>4. CallOneStream' BY <1>2, <2>1 DEF CallOneStream, CallGates
  <2>. QED BY <2>2, <2>3, <2>4, CallMovesKeep
<1>. QED BY <1>1, <1>2

LEMMA CallContinueKeepsGates ==
  ASSUME CallTypes, CallGates, NEW s, at <= Len(strategy), strategy[at] = s, Call!Continue(s),
         UNCHANGED <<callMode, strategy, gating, chunks>>,
         pc \notin {"chunks", "on_error", "ended"},
         attempt' # attempt => s = "context_creation",
         aclAsks' # aclAsks => s = "acl_check",
         approved' # approved => s = "approval_gate",
         s = "approval_gate" => (Call!NeedsApproval /\ gating.handler => approved)'
  PROVE  CallGates'
<1>1. at' = at + 1 /\ trace' = trace \cup {s} /\ pc' = "step" BY DEF Call!Continue
<1>2. CallEngineMoves BY <1>1 DEF CallEngineMoves, CallPasses
<1>3. CallPlaced' BY <1>1 DEF CallPlaced, CallAwaited
<1>4. CallOneStream'
  <2>. SUFFICES ASSUME chunks # {}
                PROVE  attempt' = attempt /\ callMode = "post" /\ chunks = {attempt}
    BY DEF CallOneStream
  <2>1. callMode = "post" /\ chunks = {attempt} BY DEF CallGates, CallOneStream
  <2>2. strategy[at] \in Call!PostStream
    BY <2>1, ElementOfSeq DEF CallGates, CallShaped
  <2>. QED BY <2>1, <2>2 DEF Call!PostStream
<1>. QED BY <1>2, <1>3, <1>4, CallMovesKeep

(* The call waits, or runs, or ends, where it is.                            *)
LEMMA CallWaitKeepsGates ==
  ASSUME CallTypes, CallGates,
         UNCHANGED <<callMode, strategy, gating, attempt, at, trace, aclAsks, chunks>>,
         approved' # approved => at <= Len(strategy) /\ strategy[at] = "approval_gate",
         pc' \in DOMAIN CallAwaited =>
           callMode # "validate" /\ at <= Len(strategy) /\ strategy[at] = CallAwaited[pc'],
         pc' = "chunks" => callMode = "stream" /\ at > Len(strategy),
         pc \in {"chunks", "on_error", "ended"} => pc' \in {"chunks", "on_error", "ended"}
  PROVE  CallGates'
<1>1. at \in Nat BY DEF CallGates, CallShaped
<1>2. CallEngineMoves BY <1>1 DEF CallEngineMoves
<1>3. CallPlaced' BY DEF CallPlaced
<1>4. CallOneStream' BY DEF CallOneStream, CallGates
<1>. QED BY <1>2, <1>3, <1>4, CallMovesKeep

(* The strategy's steps, each at its place in it.                            *)
LEMMA CallStepsKeepGates ==
  ASSUME CallTypes, CallGates,
         \/ Call!CreateContext \/ Call!CallChainGuard \/ Call!ModuleLookup \/ Call!ACLCheck
         \/ Call!ApprovalGate \/ Call!InputValidation \/ Call!OutputValidation
         \/ Call!MiddlewareBefore \/ Call!MiddlewareAfter \/ Call!ReturnResult
  PROVE  CallGates'
<1>. USE DEF Call!At, Call!Step, Call!run, Call!work, Call!gates
<1>1. CASE Call!CreateContext
  <2>1. /\ pc = "step" /\ at <= Len(strategy) /\ strategy[at] = "context_creation"
        /\ Call!Continue("context_creation")
        /\ UNCHANGED <<callMode, strategy, gating, chunks, aclAsks, approved>>
    BY <1>1 DEF Call!CreateContext
  <2>. QED BY <2>1, CallContinueKeepsGates
<1>2. CASE Call!CallChainGuard
  <2>1. /\ pc = "step" /\ at <= Len(strategy) /\ strategy[at] = "call_chain_guard"
        /\ (\E e : Call!Failure(e, executed)) \/ Call!Continue("call_chain_guard")
        /\ UNCHANGED <<callMode, strategy, gating, chunks, attempt, aclAsks, approved>>
    BY <1>2 DEF Call!CallChainGuard
  <2>. QED BY <2>1, CallContinueKeepsGates, CallFailureKeepsGates
<1>3. ASSUME NEW s, s \in {"module_lookup", "input_validation", "output_validation"},
             NEW e, Call!CheckOrRaise(s, e)
      PROVE  CallGates'
  <2>1. /\ pc = "step" /\ at <= Len(strategy) /\ strategy[at] = s
        /\ Call!Failure(e, executed) \/ Call!Continue(s)
        /\ UNCHANGED <<callMode, strategy, gating, chunks, attempt, aclAsks, approved>>
    BY <1>3 DEF Call!CheckOrRaise
  <2>. QED BY <1>3, <2>1, CallContinueKeepsGates, CallFailureKeepsGates
<1>4. CASE Call!ACLCheck
  <2>1. /\ pc = "step" /\ at <= Len(strategy) /\ strategy[at] = "acl_check"
        /\ Call!Failure("denied", executed) \/ Call!Continue("acl_check")
        /\ UNCHANGED <<callMode, strategy, gating, chunks, attempt, approved>>
    BY <1>4 DEF Call!ACLCheck
  <2>. QED BY <2>1, CallContinueKeepsGates, CallFailureKeepsGates
<1>5. CASE Call!ApprovalGate
  <2>1. /\ pc = "step" /\ at <= Len(strategy) /\ strategy[at] = "approval_gate"
        /\ callMode = "validate" => FALSE
        /\ UNCHANGED <<callMode, strategy, gating, chunks, attempt, aclAsks>>
    BY <1>5 DEF Call!ApprovalGate, Call!Runs, Call!Pure
  <2>2. \/ (~Call!NeedsApproval \/ ~gating.handler) /\ Call!Continue("approval_gate")
        \/ Call!Failure("denied", executed)
        \/ pc' = "approval" /\ UNCHANGED <<at, trace>>
    BY <1>5 DEF Call!ApprovalGate
  <2>3. CASE (~Call!NeedsApproval \/ ~gating.handler) /\ Call!Continue("approval_gate")
    BY <2>1, <2>3, CallContinueKeepsGates DEF Call!NeedsApproval
  <2>4. CASE Call!Failure("denied", executed)
    BY <2>1, <2>4, CallFailureKeepsGates
  <2>5. CASE pc' = "approval" /\ UNCHANGED <<at, trace>>
    BY <2>1, <2>5, CallWaitKeepsGates DEF CallAwaited
  <2>. QED BY <2>2, <2>3, <2>4, <2>5
<1>6. CASE Call!MiddlewareBefore
  <2>1. /\ pc = "step" /\ pc' = "before"
        /\ at <= Len(strategy) /\ strategy[at] = "middleware_before"
        /\ callMode = "validate" => FALSE
        /\ UNCHANGED <<callMode, strategy, gating, chunks, attempt, aclAsks, approved, at, trace>>
    BY <1>6 DEF Call!MiddlewareBefore, Call!Runs, Call!Pure
  <2>. QED BY <2>1, CallWaitKeepsGates DEF CallAwaited
<1>7. CASE Call!MiddlewareAfter
  <2>1. /\ pc = "step" /\ pc' = "after"
        /\ at <= Len(strategy) /\ strategy[at] = "middleware_after"
        /\ callMode = "validate" => FALSE
        /\ UNCHANGED <<callMode, strategy, gating, chunks, attempt, aclAsks, approved, at, trace>>
    BY <1>7 DEF Call!MiddlewareAfter, Call!Runs, Call!Pure
  <2>. QED BY <2>1, CallWaitKeepsGates DEF CallAwaited
<1>8. CASE Call!ReturnResult
  <2>1. /\ pc = "step" /\ at <= Len(strategy) /\ strategy[at] = "return_result"
        /\ Call!Continue("return_result")
        /\ UNCHANGED <<callMode, strategy, gating, chunks, attempt, aclAsks, approved>>
    BY <1>8 DEF Call!ReturnResult
  <2>. QED BY <2>1, CallContinueKeepsGates
<1>. QED BY <1>1, <1>2, <1>3, <1>4, <1>5, <1>6, <1>7, <1>8
     DEF Call!ModuleLookup, Call!InputValidation, Call!OutputValidation

\* The module, or a stream, starts.
LEMMA CallExecuteKeepsGates ==
  ASSUME CallTypes, CallGates, Call!Execute
  PROVE  CallGates'
<1>1. /\ pc = "step" /\ at <= Len(strategy) /\ strategy[at] = "execute" /\ callMode # "validate"
      /\ UNCHANGED <<callMode, strategy, gating, chunks, attempt, aclAsks, approved>>
  BY DEF Call!Execute, Call!At, Call!Step, Call!run, Call!work, Call!gates, Call!Runs, Call!Pure
<1>2. \/ \E e : Call!Failure(e, executed)
      \/ pc' = "body" /\ UNCHANGED <<at, trace>>
      \/ pc' = pc /\ callMode = "stream" /\ trace' = trace \cup {"execute"} /\ at' = Len(strategy)
  BY DEF Call!Execute
<1>3. CASE \E e : Call!Failure(e, executed) BY <1>1, <1>3, CallFailureKeepsGates
<1>4. CASE pc' = "body" /\ UNCHANGED <<at, trace>> BY <1>1, <1>4,
  CallWaitKeepsGates DEF CallAwaited
<1>5. CASE /\ pc' = pc /\ callMode = "stream"
           /\ trace' = trace \cup {"execute"} /\ at' = Len(strategy)
  <2>1. CallEngineMoves BY <1>1, <1>5 DEF CallEngineMoves
  <2>2. CallPlaced' /\ CallOneStream' BY <1>1, <1>5 DEF CallPlaced, CallAwaited, CallOneStream,
    CallGates
  <2>. QED BY <2>1, <2>2, CallMovesKeep
<1>. QED BY <1>2, <1>3, <1>4, <1>5

\* The answers that a step waited for.
LEMMA CallAnswersKeepGates ==
  ASSUME CallTypes, CallGates,
         \/ Call!ApprovalAnswer \/ Call!BeforeHook \/ Call!AfterHook \/ Call!BodyReturns
         \/ Call!BodyRaises \/ Call!BodyTimesOut
  PROVE  CallGates'
<1>. USE DEF Call!run, Call!work, Call!gates
<1>1. ASSUME NEW awaits \in DOMAIN CallAwaited, pc = awaits
      PROVE  callMode # "validate" /\ at <= Len(strategy) /\ strategy[at] = CallAwaited[awaits]
  BY <1>1 DEF CallGates, CallPlaced
<1>2. CASE Call!ApprovalAnswer
  <2>1. /\ pc = "approval" /\ UNCHANGED <<callMode, strategy, gating, chunks, attempt, aclAsks>>
        /\ \/ approved' = TRUE /\ Call!Continue("approval_gate")
           \/ Call!Failure("denied", executed)
    BY <1>2 DEF Call!ApprovalAnswer
  <2>2. callMode # "validate" /\ at <= Len(strategy) /\ strategy[at] = "approval_gate"
    BY <1>1, <2>1 DEF CallAwaited
  <2>. QED BY <2>1, <2>2, CallContinueKeepsGates, CallFailureKeepsGates
<1>3. CASE Call!BeforeHook
  <2>1. /\ pc = "before"
        /\ UNCHANGED <<callMode, strategy, gating, chunks, attempt, aclAsks, approved>>
        /\ \/ Call!Continue("middleware_before") \/ \E e, ran : Call!Failure(e, ran)
           \/ UNCHANGED <<at, pc, trace>>
    BY <1>3 DEF Call!BeforeHook
  <2>2. callMode # "validate" /\ at <= Len(strategy) /\ strategy[at] = "middleware_before"
    BY <1>1, <2>1 DEF CallAwaited
  <2>3. CASE UNCHANGED <<at, pc, trace>> BY <2>1, <2>2, <2>3, CallWaitKeepsGates DEF CallAwaited
  <2>. QED BY <2>1, <2>2, <2>3, CallContinueKeepsGates, CallFailureKeepsGates
<1>4. CASE Call!AfterHook
  <2>1. /\ pc = "after"
        /\ UNCHANGED <<callMode, strategy, gating, chunks, attempt, aclAsks, approved>>
        /\ \/ Call!Continue("middleware_after") \/ \E e, ran : Call!Failure(e, ran)
           \/ UNCHANGED <<at, pc, trace>>
    BY <1>4 DEF Call!AfterHook
  <2>2. callMode # "validate" /\ at <= Len(strategy) /\ strategy[at] = "middleware_after"
    BY <1>1, <2>1 DEF CallAwaited
  <2>3. CASE UNCHANGED <<at, pc, trace>> BY <2>1, <2>2, <2>3, CallWaitKeepsGates DEF CallAwaited
  <2>. QED BY <2>1, <2>2, <2>3, CallContinueKeepsGates, CallFailureKeepsGates
<1>5. CASE Call!BodyReturns \/ Call!BodyRaises \/ Call!BodyTimesOut
  <2>1. /\ pc = "body"
        /\ UNCHANGED <<callMode, strategy, gating, chunks, attempt, aclAsks, approved>>
        /\ Call!Continue("execute") \/ \E e : Call!Failure(e, executed)
    BY <1>5 DEF Call!BodyReturns, Call!BodyRaises, Call!BodyTimesOut
  <2>2. callMode # "validate" /\ at <= Len(strategy) /\ strategy[at] = "execute"
    BY <1>1, <2>1 DEF CallAwaited
  <2>. QED BY <2>1, <2>2, CallContinueKeepsGates, CallFailureKeepsGates
<1>. QED BY <1>2, <1>3, <1>4, <1>5

(* A run ends; a call recovers, tries again or streams.                      *)
LEMMA CallEndsKeepGates ==
  ASSUME CallTypes, CallGates, CallKnownStrategies,
         \/ Call!RunEnds \/ Call!OnErrorHook \/ Call!StreamChunk \/ Call!StreamFails
         \/ Call!StreamEnds \/ Call!StreamAbandoned
  PROVE  CallGates'
<1>. USE DEF Call!run, Call!work, Call!gates
<1>1. CASE Call!RunEnds
  <2>1. /\ pc = "step" /\ at > Len(strategy) /\ pc' \in {"chunks", "ended"}
        /\ pc' = "chunks" => callMode = "stream" /\ chunks' = chunks
        /\ UNCHANGED <<callMode, strategy, gating, at, trace, attempt, aclAsks, approved>>
        /\ chunks' = chunks \/ (callMode = "stream" /\ pc' = "ended" /\ chunks' = {attempt})
    BY <1>1 DEF Call!RunEnds, Call!Ends
  <2>2. CallEngineMoves BY <2>1 DEF CallEngineMoves, CallGates, CallShaped
  <2>3. CallPlaced' /\ CallOneStream' BY <2>1 DEF CallPlaced, CallAwaited, CallOneStream,
    CallGates
  <2>. QED BY <2>2, <2>3, CallMovesKeep
<1>2. CASE Call!OnErrorHook
  <2>1. /\ pc = "on_error"
        /\ UNCHANGED <<callMode, strategy, gating, chunks, attempt, aclAsks, approved>>
        /\ \/ pc' \in {"on_error", "ended"} /\ UNCHANGED <<at, trace>>
           \/ pc' = "step" /\ callMode = "call" /\ at' = 1
    BY <1>2 DEF Call!OnErrorHook, Call!Ends, Call!Retry, Call!RaiseInstead
  <2>2. CASE pc' \in {"on_error", "ended"} /\ UNCHANGED <<at, trace>>
    BY <2>1, <2>2, CallWaitKeepsGates DEF CallAwaited
  <2>3. CASE pc' = "step" /\ callMode = "call" /\ at' = 1
    <3>1. CallEngineMoves BY <2>1, <2>3 DEF CallEngineMoves, CallGates, CallShaped
    <3>2. CallPlaced' /\ CallOneStream' BY <2>1, <2>3 DEF CallPlaced, CallAwaited,
      CallOneStream, CallGates
    <3>. QED BY <3>1, <3>2, CallMovesKeep
  <2>. QED BY <2>1, <2>2, <2>3
<1>3. CASE Call!StreamChunk
  <2>1. /\ pc = "chunks" /\ UNCHANGED <<callMode, strategy, gating, attempt, aclAsks, approved>>
        /\ \/ Call!Failure("timeout", executed) /\ UNCHANGED chunks
           \/ chunks' = chunks \cup {attempt} /\ UNCHANGED <<at, pc, trace>>
    BY <1>3 DEF Call!StreamChunk
  <2>2. callMode = "stream" /\ at > Len(strategy) BY <2>1 DEF CallGates, CallPlaced
  <2>3. CASE Call!Failure("timeout", executed) /\ UNCHANGED chunks
    BY <2>1, <2>2, <2>3, CallFailureKeepsGates
  <2>4. CASE chunks' = chunks \cup {attempt} /\ UNCHANGED <<at, pc, trace>>
    <3>1. CallEngineMoves BY <2>1, <2>4 DEF CallEngineMoves, CallGates, CallShaped
    <3>2. CallPlaced' /\ CallOneStream' BY <2>1, <2>2, <2>4 DEF CallPlaced, CallAwaited,
      CallOneStream, CallGates
    <3>. QED BY <3>1, <3>2, CallMovesKeep
  <2>. QED BY <2>1, <2>3, <2>4
<1>4. CASE Call!StreamFails
  <2>1. /\ pc = "chunks"
        /\ UNCHANGED <<callMode, strategy, gating, attempt, aclAsks, approved, chunks>>
        /\ \E e : Call!Failure(e, executed)
    BY <1>4 DEF Call!StreamFails
  <2>2. callMode = "stream" BY <2>1 DEF CallGates, CallPlaced
  <2>. QED BY <2>1, <2>2, CallFailureKeepsGates
<1>5. CASE Call!StreamEnds
  <2>1. /\ callMode' = "post" /\ strategy' = Call!PostSteps(strategy) /\ at' = 1 /\ pc' = "step"
        /\ UNCHANGED <<attempt, chunks>> /\ callMode = "stream"
    BY <1>5 DEF Call!StreamEnds, CallGates, CallPlaced
  <2>2. strategy' \in Seq(Call!PostStream) BY <2>1 DEF CallGates, CallShaped, CallKnownStrategies
  <2>3. CallShaped' BY <2>1, <2>2 DEF CallShaped
  <2>4. (CallPlaced /\ CallNothingSkipped /\ CallGatePassed /\ CallOneStream)'
    BY <2>1 DEF CallPlaced, CallAwaited, CallNothingSkipped, CallGatePassed, CallOneStream,
      CallEngaged, CallGates
  <2>. QED BY <2>3, <2>4 DEF CallGates
<1>6. CASE Call!StreamAbandoned
  <2>1. /\ pc = "chunks" /\ pc' = "ended"
        /\ UNCHANGED <<callMode, strategy, gating, at, trace, attempt, aclAsks, approved, chunks>>
    BY <1>6 DEF Call!StreamAbandoned, Call!Ends
  <2>. QED BY <2>1, CallWaitKeepsGates DEF CallAwaited
<1>. QED BY <1>1, <1>2, <1>3, <1>4, <1>5, <1>6

(* A dry run; what goes on around the call.                                  *)
LEMMA CallRestKeepsGates ==
  ASSUME CallTypes, CallGates,
         \/ Call!DryRunSkips \/ Call!BindingRefused \/ Call!DryRunEnds \/ Call!IntrospectionEnds
         \/ Call!CallerCancels \/ Call!DeadlinePasses \/ Call!MiddlewareListChanges
         \/ Call!Interrupted \/ Call!LateBodyEnds \/ Call!BodyStarts
  PROVE  CallGates'
<1>. USE DEF Call!run, Call!work, Call!gates
<1>1. CASE Call!DryRunSkips
  <2>1. /\ callMode = "validate" /\ pc = "step" /\ at <= Len(strategy) /\ at' = at + 1
        /\ UNCHANGED <<callMode, strategy, gating, pc, trace, attempt, aclAsks, approved, chunks>>
    BY <1>1 DEF Call!DryRunSkips
  <2>2. CallEngineMoves BY <2>1 DEF CallEngineMoves, CallPasses, CallEngaged
  <2>3. CallPlaced' /\ CallOneStream' BY <2>1 DEF CallPlaced, CallAwaited, CallOneStream,
    CallGates
  <2>. QED BY <2>2, <2>3, CallMovesKeep
<1>2. CASE Call!BindingRefused \/ Call!DryRunEnds \/ Call!IntrospectionEnds \/ Call!Interrupted
  <2>1. /\ pc' \in {"introspection", "ended"} /\ pc # "ended"
        /\ pc' = "introspection" => pc = "step"
        /\ UNCHANGED <<callMode, strategy, gating, at, trace, attempt, aclAsks, approved, chunks>>
    BY <1>2 DEF Call!BindingRefused, Call!DryRunEnds, Call!IntrospectionEnds, Call!Interrupted,
      Call!Ends
  <2>. QED BY <2>1, CallWaitKeepsGates DEF CallAwaited
<1>3. CASE \/ Call!CallerCancels \/ Call!DeadlinePasses \/ Call!MiddlewareListChanges
           \/ Call!LateBodyEnds \/ Call!BodyStarts
  <2>1. /\ UNCHANGED <<callMode, strategy, gating, at, pc, trace>>
        /\ UNCHANGED <<attempt, aclAsks, approved, chunks>>
    BY <1>3 DEF Call!CallerCancels, Call!DeadlinePasses, Call!MiddlewareListChanges,
      Call!LateBodyEnds, Call!BodyStarts
  <2>. QED BY <2>1, CallWaitKeepsGates DEF CallGates, CallPlaced
<1>. QED BY <1>1, <1>2, <1>3

LEMMA CallInitGates ==
  ASSUME CallKnownModes, CallKnownStrategies
  PROVE  Call!Init => CallGates
<1>. SUFFICES ASSUME Call!Init PROVE CallGates OBVIOUS
<1>1. PICK s \in Strategies : strategy = Call!Presets[s] BY DEF Call!Init
<1>2. CallWellFormed(strategy) BY <1>1, CallPresetsWellFormed DEF CallKnownStrategies
<1>3. callMode # "post" /\ at = 1 /\ pc = "step" /\ chunks = {} BY DEF Call!Init, CallKnownModes
<1>4. CallShaped
  <2>1. at \in 1..(Len(strategy) + 1) BY <1>2, <1>3 DEF CallWellFormed
  <2>. QED BY <1>1, <1>2, <1>3, <2>1 DEF CallShaped
<1>5. CallPlaced /\ CallOneStream BY <1>3 DEF CallPlaced, CallAwaited, CallOneStream
<1>6. CallNothingSkipped /\ CallGatePassed BY <1>3 DEF CallNothingSkipped, CallGatePassed
<1>. QED BY <1>4, <1>5, <1>6 DEF CallGates

LEMMA CallNextGates ==
  ASSUME CallKnownStrategies
  PROVE  CallTypes /\ CallGates /\ [Call!Next]_Call!vars => CallGates'
<1>. SUFFICES ASSUME CallTypes, CallGates, [Call!Next]_Call!vars PROVE CallGates' OBVIOUS
<1>1. CASE UNCHANGED Call!vars
  <2>1. /\ UNCHANGED <<callMode, strategy, gating, at, pc, trace>>
        /\ UNCHANGED <<attempt, aclAsks, approved, chunks>>
    BY <1>1 DEF Call!vars
  <2>. QED BY <2>1, CallWaitKeepsGates DEF CallGates, CallPlaced
<1>. QED BY <1>1, CallStepsKeepGates, CallExecuteKeepsGates, CallAnswersKeepGates,
  CallEndsKeepGates,
            CallRestKeepsGates DEF Call!Next, Call!PipelineStep

LEMMA CallGatesHold ==
  ASSUME CallTypes, CallGates
  PROVE  Call!GatesPrecedeBody
<1>. SUFFICES ASSUME pc \in {"body",
  "chunks"} PROVE Call!GatesPrecedeBody BY DEF Call!GatesPrecedeBody
<1>1. /\ CallWellFormed(strategy) /\ callMode \notin {"validate", "post"} /\ Len(strategy) \in Nat
      /\ at > Len(strategy) \/ (pc = "body" /\ at <= Len(strategy) /\ strategy[at] = "execute")
      /\ at \in 1..(Len(strategy) + 1)
  <2>1. CASE pc = "body"
    <3>1. callMode # "validate" /\ at <= Len(strategy) /\ strategy[at] = "execute"
      BY <2>1 DEF CallGates, CallPlaced, CallAwaited
    <3>2. callMode # "post"
      <4>. SUFFICES ASSUME callMode = "post" PROVE FALSE OBVIOUS
      <4>1. strategy[at] \in Call!PostStream BY <3>1, ElementOfSeq DEF CallGates, CallShaped
      <4>. QED BY <3>1, <4>1 DEF Call!PostStream
    <3>. QED BY <2>1, <3>1, <3>2 DEF CallGates, CallShaped, CallWellFormed
  <2>2. CASE pc = "chunks" BY <2>2 DEF CallGates, CallPlaced, CallShaped, CallWellFormed
  <2>. QED BY <2>1, <2>2
<1>2. CallEngaged BY <1>1 DEF CallTypes, CallEngaged
<1>3. ASSUME NEW n \in 1..Len(strategy), strategy[n] = "execute"
      PROVE  n <= at /\ Call!ToSet(SubSeq(strategy, 1, n - 1)) \subseteq trace
  <2>1. n <= at BY <1>1, <1>3 DEF CallWellFormed
  <2>2. \A k \in 1..(n - 1) : strategy[k] \in trace
    BY <1>1, <1>2, <1>3, <2>1 DEF CallGates, CallNothingSkipped
  <2>3. /\ Len(SubSeq(strategy, 1, n - 1)) = n - 1
        /\ \A k \in 1..(n - 1) : SubSeq(strategy, 1, n - 1)[k] = strategy[k]
    BY <1>1, SubSeqProperties DEF CallWellFormed
  <2>4. DOMAIN SubSeq(strategy, 1, n - 1) = 1..(n - 1)
    BY <1>1, <2>3, SubSeqProperties DEF CallWellFormed
  <2>. QED BY <2>1, <2>2, <2>3, <2>4 DEF Call!ToSet
<1>4. ASSUME "approval_gate" \in Call!ToSet(strategy), Call!NeedsApproval, gating.handler
      PROVE  approved
  <2>1. PICK n \in 1..Len(strategy) : strategy[n] = "approval_gate"
    BY <1>1, <1>4 DEF Call!ToSet, CallWellFormed
  <2>2. n < at BY <1>1, <2>1 DEF CallWellFormed
  <2>. QED BY <1>2, <1>4, <2>1, <2>2 DEF CallGates, CallGatePassed
<1>. QED BY <1>3, <1>4 DEF Call!GatesPrecedeBody

-----------------------------------------------------------------------------
(* What a dry run knows of the steps that it has passed.                     *)
CallDryRun ==
  callMode = "validate" =>
    /\ queued = {} /\ bodies = {} /\ executed = <<>> /\ pc \in {"step", "introspection", "ended"}
    /\ outcome # "raised" /\ (pc # "ended" => outcome = "none")
    /\ \A s \in trace : \E k \in 1..(at - 1) : s = strategy[k]
    /\ \A k \in 1..(at - 1) : \A x \in Call!Provides(strategy[k]) :
         x \in unavailable <=> strategy[k] \notin trace
    /\ \A k \in 1..(at - 1) : strategy[k] = "context_creation" => strategy[k] \in trace
    /\ \A s \in trace : \A x \in Call!Requires(s) : \E t \in trace : x \in Call!Provides(t)
    /\ pc = "introspection" \/ outcome = "valid" => at > Len(strategy)
    /\ outcome = "valid" => Call!Refused = {}
    /\ pc = "introspection" => "module_lookup" \in trace /\ "acl_check" \notin Call!Refused

\* Each thing is provided by one step, which requires nothing if the module does not provide it.
LEMMA CallProvider ==
  ASSUME NEW s, NEW t, NEW x, x \in Call!Provides(s)
  PROVE  /\ x \in Call!Provides(t) => s = t
         /\ s # "execute" => /\ s \in {"context_creation", "module_lookup"} /\ s \in Call!Pure
                            /\ Call!Requires(s) = {}
<1>1. /\ s \in {"context_creation", "module_lookup", "execute"}
      /\ x \in Call!Provides(t) => s = t
  BY DEF Call!Provides
<1>. QED BY <1>1 DEF Call!Requires, Call!Pure, Call!Standard, Call!ToSet

LEMMA CallPlaceType ==
  ASSUME CallShaped, callMode = "validate"
  PROVE  at \in Nat /\ at > 0 /\ CallWellFormed(strategy) /\ Len(strategy) \in Nat
<1>1. CallWellFormed(strategy) /\ at \in 1..(Len(strategy) + 1) BY DEF CallShaped
<1>2. Len(strategy) \in Nat BY <1>1, LenProperties DEF CallWellFormed
<1>. QED BY <1>1, <1>2

LEMMA CallDryRunPasses ==
  ASSUME CallShaped, CallDryRun, callMode = "validate", pc = "step", at <= Len(strategy),
         Call!Runs(strategy[at]),
         Call!Continue(strategy[at]), UNCHANGED <<callMode, strategy, queued, bodies, executed>>
  PROVE  CallDryRun'
<1>. DEFINE s == strategy[at]
<1>1. /\ at' = at + 1 /\ trace' = trace \cup {s} /\ pc' = "step" /\ outcome' = outcome
      /\ unavailable' = unavailable \ Call!Provides(s)
      /\ at \in Nat /\ at > 0 /\ CallWellFormed(strategy) /\ Len(strategy) \in Nat
  BY DEF Call!Continue, CallShaped, CallWellFormed
<1>2. \A t \in trace' : \E k \in 1..(at' - 1) : t = strategy[k] BY <1>1 DEF CallDryRun
<1>3. \A k \in 1..(at' - 1) : strategy[k] = "context_creation" => strategy[k] \in trace'
  BY <1>1 DEF CallDryRun
<1>4. ASSUME NEW k \in 1..(at' - 1), NEW x \in Call!Provides(strategy[k])
      PROVE  x \in unavailable' <=> strategy[k] \notin trace'
  <2>1. CASE k = at BY <1>1, <1>4, <2>1
  <2>2. CASE k # at
    <3>1. k \in 1..(at - 1) BY <1>1, <1>4, <2>2
    <3>2. strategy[k] # s BY <1>1, <3>1 DEF CallWellFormed
    <3>3. x \notin Call!Provides(s) BY <1>4, <3>2, CallProvider
    <3>4. x \in unavailable <=> strategy[k] \notin trace BY <1>4, <3>1 DEF CallDryRun
    <3>. QED BY <1>1, <3>2, <3>3, <3>4
  <2>. QED BY <2>1, <2>2
<1>5. ASSUME NEW t \in trace', NEW x \in Call!Requires(t)
      PROVE  \E u \in trace' : x \in Call!Provides(u)
  <2>1. CASE t \in trace BY <1>1, <1>5, <2>1 DEF CallDryRun
  <2>2. CASE t = s
    <3>1. PICK m \in 1..(at - 1) : x \in Call!Provides(strategy[m])
      BY <1>1, <1>5, <2>2, SMTT(60) DEF CallWellFormed
    <3>2. x \notin unavailable BY <1>5, <2>2 DEF Call!Runs
    <3>3. strategy[m] \in trace BY <3>1, <3>2 DEF CallDryRun
    <3>. QED BY <1>1, <3>1, <3>3
  <2>. QED BY <1>1, <1>5, <2>1, <2>2
<1>. HIDE DEF s
<1>. QED BY <1>1, <1>2, <1>3, <1>4, <1>5 DEF CallDryRun

LEMMA CallDryRunGoesOn ==
  ASSUME CallShaped, CallDryRun, callMode = "validate", pc = "step", at <= Len(strategy),
         strategy[at] # "context_creation", at' = at + 1,
         unavailable' = unavailable \cup Call!Provides(strategy[at]),
         UNCHANGED <<callMode, strategy, pc, trace, queued, bodies, executed, outcome>>
  PROVE  CallDryRun'
<1>. DEFINE s == strategy[at]
<1>1. at \in Nat /\ at > 0 /\ CallWellFormed(strategy) /\ Len(strategy) \in Nat
  BY CallPlaceType
<1>2. \A t \in trace' : \E k \in 1..(at' - 1) : t = strategy[k] BY <1>1 DEF CallDryRun
<1>3. \A k \in 1..(at' - 1) : strategy[k] = "context_creation" => strategy[k] \in trace'
  BY <1>1 DEF CallDryRun
<1>4. ASSUME NEW k \in 1..(at' - 1), NEW x \in Call!Provides(strategy[k])
      PROVE  x \in unavailable' <=> strategy[k] \notin trace'
  <2>1. CASE k = at
    <3>1. s \notin trace
      <4>. SUFFICES ASSUME s \in trace PROVE FALSE OBVIOUS
      <4>1. PICK m \in 1..(at - 1) : s = strategy[m] BY DEF CallDryRun
      <4>. QED BY <1>1, <4>1 DEF CallWellFormed
    <3>. QED BY <1>4, <2>1, <3>1
  <2>2. CASE k # at
    <3>1. k \in 1..(at - 1) BY <1>1, <1>4, <2>2
    <3>2. strategy[k] # s BY <1>1, <3>1 DEF CallWellFormed
    <3>3. x \notin Call!Provides(s) BY <1>4, <3>2, CallProvider
    <3>4. x \in unavailable <=> strategy[k] \notin trace BY <1>4, <3>1 DEF CallDryRun
    <3>. QED BY <3>3, <3>4
  <2>. QED BY <2>1, <2>2
<1>. HIDE DEF s
<1>. QED BY <1>2, <1>3, <1>4 DEF CallDryRun

(* A dry run runs pure steps only, and goes on when one fails.               *)
LEMMA CallDryRunSteps ==
  ASSUME CallTypes, CallGates, CallDryRun, callMode = "validate",
         \/ Call!DryRunSkips \/ Call!CreateContext \/ Call!CallChainGuard \/ Call!ModuleLookup
         \/ Call!ACLCheck \/ Call!ApprovalGate \/ Call!InputValidation \/ Call!Execute
         \/ Call!OutputValidation \/ Call!MiddlewareBefore \/ Call!MiddlewareAfter
         \/ Call!ReturnResult
  PROVE  CallDryRun'
<1>. USE DEF Call!At, Call!Step, Call!run, Call!work
<1>0. CallShaped BY DEF CallGates
<1>1. ASSUME NEW e, Call!Failure(e, executed), pc = "step", at <= Len(strategy),
             strategy[at] # "context_creation", UNCHANGED <<callMode, strategy, queued, bodies>>
      PROVE  CallDryRun'
  <2>1. /\ at' = at + 1 /\ pc' = "step"
        /\ unavailable' = unavailable \cup Call!Provides(strategy[at])
        /\ UNCHANGED <<trace, executed, outcome>>
    BY <1>1 DEF Call!Failure
  <2>. QED BY <1>0, <1>1, <2>1, CallDryRunGoesOn
<1>2. ASSUME NEW s, pc = "step", at <= Len(strategy), strategy[at] = s, Call!Runs(s),
             Call!Continue(s),
             UNCHANGED <<callMode, strategy, queued, bodies, Call!hooks>>
      PROVE  CallDryRun'
  BY <1>0, <1>2, CallDryRunPasses DEF Call!hooks
<1>3. CASE Call!DryRunSkips
  <2>1. strategy[at] # "context_creation"
    BY <1>3 DEF Call!DryRunSkips, Call!Runs, Call!Pure, Call!Requires, Call!Standard, Call!ToSet
  <2>2. /\ pc = "step" /\ at <= Len(strategy) /\ at' = at + 1
        /\ unavailable' = unavailable \cup Call!Provides(strategy[at])
        /\ UNCHANGED <<callMode, strategy, pc, trace, queued, bodies, executed, outcome>>
    BY <1>3 DEF Call!DryRunSkips, Call!hooks
  <2>. QED BY <1>0, <2>1, <2>2, CallDryRunGoesOn
<1>4. CASE Call!CreateContext BY <1>2, <1>4 DEF Call!CreateContext
<1>5. CASE Call!CallChainGuard
  <2>1. /\ pc = "step" /\ at <= Len(strategy) /\ strategy[at] = "call_chain_guard"
        /\ Call!Runs("call_chain_guard") /\ UNCHANGED <<callMode, strategy, queued, bodies>>
        /\ \/ \E e : Call!Failure(e, executed)
           \/ Call!Continue("call_chain_guard") /\ UNCHANGED Call!hooks
    BY <1>5 DEF Call!CallChainGuard
  <2>. QED BY <1>1, <1>2, <2>1
<1>6. ASSUME NEW s, NEW e, Call!CheckOrRaise(s, e), s # "context_creation" PROVE CallDryRun'
  <2>1. /\ pc = "step" /\ at <= Len(strategy) /\ strategy[at] = s
        /\ Call!Runs(s) /\ UNCHANGED <<callMode, strategy, queued, bodies>>
        /\ Call!Failure(e, executed) \/ (Call!Continue(s) /\ UNCHANGED Call!hooks)
    BY <1>6 DEF Call!CheckOrRaise
  <2>. QED BY <1>1, <1>2, <1>6, <2>1
<1>7. CASE Call!ACLCheck
  <2>1. /\ pc = "step" /\ at <= Len(strategy) /\ strategy[at] = "acl_check"
        /\ Call!Runs("acl_check") /\ UNCHANGED <<callMode, strategy, queued, bodies>>
        /\ \/ Call!Failure("denied", executed)
           \/ Call!Continue("acl_check") /\ UNCHANGED Call!hooks
    BY <1>7 DEF Call!ACLCheck
  <2>. QED BY <1>1, <1>2, <2>1
<1>8. CASE Call!ReturnResult BY <1>2, <1>8 DEF Call!ReturnResult
<1>9. CASE Call!ApprovalGate \/ Call!Execute \/ Call!MiddlewareBefore \/ Call!MiddlewareAfter
  BY <1>9 DEF Call!ApprovalGate, Call!Execute, Call!MiddlewareBefore, Call!MiddlewareAfter,
    Call!Runs, Call!Pure
<1>. QED BY <1>3, <1>4, <1>5, <1>6, <1>7, <1>8, <1>9
     DEF Call!ModuleLookup, Call!InputValidation, Call!OutputValidation

\* The verdict, and what does not concern a dry run.
LEMMA CallDryRunRest ==
  ASSUME CallTypes, CallGates, CallDryRun, callMode = "validate",
         \/ Call!RunEnds \/ Call!ApprovalAnswer \/ Call!BeforeHook \/ Call!AfterHook
         \/ Call!BodyReturns \/ Call!BodyRaises \/ Call!BodyTimesOut \/ Call!OnErrorHook
         \/ Call!StreamChunk \/ Call!StreamFails \/ Call!StreamEnds \/ Call!StreamAbandoned
         \/ Call!BindingRefused \/ Call!DryRunEnds \/ Call!IntrospectionEnds \/ Call!CallerCancels
         \/ Call!DeadlinePasses \/ Call!MiddlewareListChanges \/ Call!Interrupted
         \/ Call!LateBodyEnds \/ Call!BodyStarts
  PROVE  CallDryRun'
<1>. USE DEF Call!run, Call!work, Call!hooks
<1>1. CASE \/ Call!RunEnds \/ Call!ApprovalAnswer \/ Call!BeforeHook \/ Call!AfterHook
           \/ Call!BodyReturns \/ Call!BodyRaises \/ Call!BodyTimesOut \/ Call!OnErrorHook
           \/ Call!StreamChunk \/ Call!StreamFails \/ Call!StreamEnds \/ Call!StreamAbandoned
           \/ Call!LateBodyEnds \/ Call!BodyStarts
  BY <1>1
  DEF CallDryRun, Call!RunEnds, Call!ApprovalAnswer, Call!BeforeHook, Call!AfterHook,
      Call!BodyReturns, Call!BodyRaises, Call!BodyTimesOut, Call!OnErrorHook, Call!StreamChunk,
      Call!StreamFails, Call!StreamEnds, Call!StreamAbandoned, Call!LateBodyEnds, Call!BodyStarts
<1>2. CASE Call!BindingRefused \/ Call!Interrupted
  <2>1. /\ pc' = "ended" /\ outcome' \in {"invalid", "interrupted"}
        /\ UNCHANGED <<callMode, strategy, at, trace, unavailable, executed, queued, bodies>>
    BY <1>2 DEF Call!BindingRefused, Call!Interrupted, Call!Ends
  <2>. QED BY <2>1 DEF CallDryRun
<1>3. CASE Call!DryRunEnds \/ Call!IntrospectionEnds
  <2>1. /\ UNCHANGED <<callMode, strategy, at, trace, unavailable, executed, queued, bodies>>
        /\ at > Len(strategy) /\ pc \in {"step", "introspection"}
        /\ \/ pc' = "introspection" /\ UNCHANGED outcome
              /\ "module_lookup" \in trace /\ "acl_check" \notin Call!Refused
           \/ pc' = "ended" /\ outcome' = Call!Verdict
    BY <1>3 DEF Call!DryRunEnds, Call!IntrospectionEnds, Call!Ends, CallDryRun
  <2>2. Call!Refused' = Call!Refused BY <2>1 DEF Call!Refused, Call!Runs
  <2>3. Call!Verdict \in {"valid",
    "invalid"} /\ (Call!Verdict = "valid" => Call!Refused = {}) BY DEF Call!Verdict
  <2>4. outcome = "none" BY <2>1 DEF CallDryRun
  <2>. QED BY <2>1, <2>2, <2>3, <2>4 DEF CallDryRun
<1>4. CASE Call!CallerCancels \/ Call!DeadlinePasses \/ Call!MiddlewareListChanges
  <2>1. /\ UNCHANGED <<callMode, strategy, at, pc, trace, unavailable, executed>>
        /\ UNCHANGED <<queued, bodies, outcome>>
    BY <1>4 DEF Call!CallerCancels, Call!DeadlinePasses, Call!MiddlewareListChanges
  <2>2. Call!Refused' = Call!Refused BY <2>1 DEF Call!Refused, Call!Runs
  <2>. QED BY <2>1, <2>2 DEF CallDryRun
<1>. QED BY <1>1, <1>2, <1>3, <1>4

LEMMA CallInitDryRun == Call!Init => CallDryRun
BY DEF Call!Init, CallDryRun

LEMMA CallNextDryRun ==
  CallTypes /\ CallGates /\ CallDryRun /\ [Call!Next]_Call!vars => CallDryRun'
<1>. SUFFICES ASSUME CallTypes, CallGates, CallDryRun, [Call!Next]_Call!vars,
                     callMode' = "validate"
              PROVE  CallDryRun'
  BY DEF CallDryRun
<1>1. CASE UNCHANGED Call!vars
  <2>1. /\ UNCHANGED <<callMode, strategy, at, pc, trace, unavailable, executed>>
        /\ UNCHANGED <<queued, bodies, outcome>>
    BY <1>1 DEF Call!vars
  <2>2. Call!Refused' = Call!Refused BY <2>1 DEF Call!Refused, Call!Runs
  <2>. QED BY <2>1, <2>2 DEF CallDryRun
<1>2. CASE Call!Next
  <2>1. callMode = "validate"
    <3>1. Call!StreamEnds => callMode' = "post" BY DEF Call!StreamEnds
    <3>2. ~Call!StreamEnds => callMode' = callMode
      BY <1>2
      DEF Call!Next, Call!PipelineStep, Call!run, Call!work, Call!RunEnds, Call!DryRunSkips,
          Call!CreateContext, Call!CallChainGuard, Call!ModuleLookup, Call!ACLCheck,
          Call!ApprovalGate, Call!MiddlewareBefore, Call!BeforeHook, Call!InputValidation,
          Call!Execute, Call!OutputValidation, Call!MiddlewareAfter, Call!AfterHook,
          Call!ReturnResult, Call!OnErrorHook, Call!BindingRefused, Call!DryRunEnds,
          Call!IntrospectionEnds, Call!ApprovalAnswer, Call!BodyReturns, Call!BodyRaises,
          Call!BodyTimesOut, Call!LateBodyEnds, Call!BodyStarts, Call!StreamChunk, Call!StreamFails,
          Call!StreamAbandoned, Call!CallerCancels, Call!DeadlinePasses,
          Call!MiddlewareListChanges, Call!Interrupted, Call!CheckOrRaise
    <3>. QED BY <3>1, <3>2
  <2>. QED BY <1>2, <2>1, CallDryRunSteps, CallDryRunRest DEF Call!Next, Call!PipelineStep
<1>. QED BY <1>1, <1>2

LEMMA CallDryRunHolds ==
  ASSUME CallTypes, CallGates, CallDryRun
  PROVE  Call!DryRunIsSound
<1>. SUFFICES ASSUME callMode = "validate" PROVE Call!DryRunIsSound BY DEF Call!DryRunIsSound
<1>1. CallWellFormed(strategy) /\ Len(strategy) \in Nat /\ at \in 1..(Len(strategy) + 1)
  BY DEF CallGates, CallShaped, CallWellFormed
<1>2. UNION {Call!Requires(s) : s \in trace} \subseteq UNION {Call!Provides(s) : s \in trace}
  BY DEF CallDryRun
<1>3. ASSUME at > Len(strategy), NEW n \in 1..Len(strategy),
             NEW x \in Call!Requires(strategy[n]), x \in unavailable,
             NEW e \in (n + 1)..Len(strategy), strategy[e] = "execute"
      PROVE  \E m \in 1..Len(strategy) :
               /\ x \in Call!Provides(strategy[m]) /\ strategy[m] \notin trace
               /\ strategy[m] = "module_lookup" /\ strategy[m] \in Call!Refused
  <2>1. PICK m \in 1..(n - 1) : x \in Call!Provides(strategy[m]) BY <1>1 DEF CallWellFormed
  <2>2. strategy[m] \notin trace BY <1>1, <1>3, <2>1 DEF CallDryRun
  <2>3. strategy[m] # "execute" BY <1>1, <1>3, <2>1 DEF CallWellFormed
  <2>4. /\ strategy[m] \in {"context_creation", "module_lookup"}
        /\ strategy[m] \in Call!Pure /\ Call!Requires(strategy[m]) = {}
    BY <2>1, <2>3, CallProvider
  <2>5. strategy[m] # "context_creation" BY <1>1, <1>3, <2>1, <2>2 DEF CallDryRun
  <2>6. strategy[m] \in Call!ToSet(strategy) BY <1>1, <2>1 DEF Call!ToSet, CallWellFormed
  <2>. QED BY <1>1, <2>1, <2>2, <2>4, <2>5, <2>6 DEF Call!Refused, Call!Runs
<1>4. ASSUME outcome = "valid", NEW s \in Call!Pure \cap Call!BeforeModule
      PROVE  s \in trace
  <2>1. at > Len(strategy) /\ Call!Refused = {} BY <1>4 DEF CallDryRun
  <2>2. PICK n \in 1..Len(strategy) :
          s = strategy[n] /\ \E e \in (n + 1)..Len(strategy) : strategy[e] = "execute"
    BY DEF Call!BeforeModule
  <2>3. s \in Call!ToSet(strategy) BY <1>1, <2>2 DEF Call!ToSet, CallWellFormed
  <2>4. Call!Requires(s) \cap unavailable = {} BY <1>3, <2>1, <2>2
  <2>. QED BY <2>1, <2>3, <2>4 DEF Call!Refused, Call!Runs
<1>5. ASSUME pc = "introspection"
      PROVE  {"module_lookup"} \cup (Call!BeforeModule \cap {"acl_check"}) \subseteq trace
  <2>1. at > Len(strategy) /\ "module_lookup" \in trace /\ "acl_check" \notin Call!Refused
    BY <1>5 DEF CallDryRun
  <2>2. ASSUME "acl_check" \in Call!BeforeModule PROVE "acl_check" \in trace
    <3>1. PICK n \in 1..Len(strategy) :
            /\ "acl_check" = strategy[n]
            /\ \E e \in (n + 1)..Len(strategy) : strategy[e] = "execute"
      BY <2>2 DEF Call!BeforeModule
    <3>2. "acl_check" \in Call!ToSet(strategy) /\ "acl_check" \in Call!Pure
      BY <1>1, <3>1 DEF Call!ToSet, CallWellFormed, Call!Pure, Call!Standard
    <3>3. Call!Requires("acl_check") \cap unavailable = {} BY <1>3, <2>1, <3>1
    <3>. QED BY <2>1, <3>2, <3>3 DEF Call!Refused, Call!Runs
  <2>. QED BY <2>1, <2>2
<1>. QED BY <1>2, <1>4, <1>5 DEF Call!DryRunIsSound, Call!Handed, CallDryRun

(* At most one body is there, for each is the one that was told or is        *)
(* waited for.                                                               *)
LEMMA CallCardinality ==
  ASSUME NEW S
  PROVE  Call!Cardinality(S) = Cardinality(S)
BY DEF Call!Cardinality, Cardinality

LEMMA CallAttemptsHold ==
  ASSUME CallIInv, CallGates
  PROVE  Call!AttemptsDoNotMix
<1>1. CASE Call!Handed = {}
  BY <1>1, FS_EmptySet, CallCardinality
  DEF Call!AttemptsDoNotMix, CallIInv, CallGates, CallOneStream
<1>2. ASSUME NEW a \in Call!Handed PROVE Call!AttemptsDoNotMix
  <2>1. Call!Handed = {a} BY DEF CallIInv
  <2>2. Call!Cardinality(Call!Handed) = 1 BY <2>1, FS_Singleton, CallCardinality
  <2>. QED BY <2>2 DEF Call!AttemptsDoNotMix, CallIInv, CallGates, CallOneStream
<1>. QED BY <1>1, <1>2

-----------------------------------------------------------------------------
(* An attempt that was cancelled before it began: the guard of the call      *)
(* chain, or the last look at the token where a preset has no guard, stands  *)
(* in front of all that could reach somebody.                                *)
CallWatched(steps) ==
  /\ Len(steps) \in Nat /\ steps[1] = "context_creation"
  /\ \A n \in 2..Len(steps) : steps[n] # "context_creation"
  /\ \E n \in 2..Len(steps) : steps[n] = "execute"
  /\ \A n \in 1..Len(steps) :
       \/ steps[n] \in {"context_creation", "module_lookup", "call_chain_guard", "execute"}
       \/ \E m \in 1..(n - 1) : steps[m] \in {"call_chain_guard", "execute"}

LEMMA CallPresetsWatched ==
  ASSUME NEW s \in DOMAIN Call!Presets
  PROVE  CallWatched(Call!Presets[s])
<1>1. CallWatched(Call!Standard) BY DEF CallWatched, Call!Standard
<1>2. CallWatched(Call!Internal) BY DEF CallWatched, Call!Internal
<1>3. CallWatched(Call!Performance) BY DEF CallWatched, Call!Performance
<1>4. CallWatched(Call!Minimal) BY DEF CallWatched, Call!Minimal
<1>. QED BY <1>1, <1>2, <1>3, <1>4 DEF Call!Presets

CallUnended == pc # "ended" => outcome = "none"
CallFresh == CallEngaged /\ pc = "step" /\ at = 1 => executed = <<>> /\ output = 0
CallDoomed ==
  stillborn /\ callMode # "validate" =>
    /\ callMode # "post" /\ Call!Cancelled(attempt)
    /\ pc \in {"step", "ended"} /\ executed = <<>> /\ output = 0 /\ outcome \in {"none", "raised"}
    /\ attempt \notin Call!Handed \cup chunks
    /\ pc = "step" => \A n \in 1..(at - 1) : strategy[n] \notin {"call_chain_guard", "execute"}
CallCutShort == CallUnended /\ CallFresh /\ CallDoomed

LEMMA CallEngagedIsWatched ==
  ASSUME CallGates, CallKnownStrategies, CallEngaged
  PROVE  CallWatched(strategy) /\ at \in 1..(Len(strategy) + 1)
BY CallPresetsWatched DEF CallGates, CallShaped, CallKnownStrategies, CallEngaged

LEMMA CallFailureEnds ==
  ASSUME CallTypes, NEW e, NEW ran, Call!Failure(e, ran)
  PROVE  /\ pc' = "ended" \/ outcome' = outcome
         /\ executed' = ran
         /\ callMode = "post" => pc' = "ended"
         /\ CallEngaged => /\ pc' \in {"on_error", "ended"}
                           /\ e = "cancelled" \/ ran = <<>> => pc' = "ended" /\ outcome' = "raised"
<1>. USE DEF Call!Failure, Call!Ends, CallEngaged
<1>1. CASE callMode = "validate" BY <1>1
<1>2. CASE callMode = "post" BY <1>2
<1>3. CASE CallEngaged BY <1>3
<1>. QED BY <1>1, <1>2, <1>3 DEF CallTypes

\* The attempt begins: at the first step, and nothing of it is there yet.
LEMMA CallContextCutsShort ==
  ASSUME CallTypes, CallGates, CallKnownStrategies, CallCutShort, Call!CreateContext
  PROVE  CallCutShort'
<1>1. /\ pc = "step" /\ pc' = "step" /\ at <= Len(strategy) /\ strategy[at] = "context_creation"
      /\ at' = at + 1 /\ attempt' = attempt + 1 /\ (stillborn' <=> Call!Cancelled(attempt))
      /\ UNCHANGED <<callMode, strategy, fired, executed, queued, bodies, output, chunks, outcome>>
  BY DEF Call!CreateContext, Call!At, Call!Step, Call!Continue, Call!signals, Call!hooks,
         Call!work, CallCutShort
<1>2. CASE callMode = "validate"
  BY <1>1, <1>2 DEF CallCutShort, CallUnended, CallFresh, CallDoomed, CallEngaged
<1>3. CASE callMode = "post"
  <2>1. strategy[at] \in Call!PostStream BY <1>3, <1>1, ElementOfSeq DEF CallGates, CallShaped
  <2>. QED BY <1>1, <2>1 DEF Call!PostStream
<1>4. CASE CallEngaged
  <2>1. at = 1 BY <1>1, <1>4, CallEngagedIsWatched DEF CallWatched
  <2>2. executed = <<>> /\ output = 0 /\ outcome = "none" /\ chunks = {}
    BY <1>1, <1>4, <2>1
    DEF CallCutShort, CallUnended, CallFresh, CallGates, CallOneStream, CallEngaged
  <2>3. attempt' \notin Call!Handed' \cup chunks' /\ Call!Handed' = Call!Handed
    BY <1>1, <2>2 DEF CallTypes, Call!Handed
  <2>4. Call!Cancelled(attempt) => Call!Cancelled(attempt)'
    BY <1>1 DEF Call!Cancelled, CallTypes
  <2>5. \A n \in 1..(at' - 1) : strategy'[n] \notin {"call_chain_guard", "execute"}
    BY <1>1, <2>1
  <2>. QED BY <1>1, <1>4, <2>1, <2>2, <2>3, <2>4, <2>5
       DEF CallCutShort, CallUnended, CallFresh, CallDoomed, CallEngaged
<1>. QED BY <1>2, <1>3, <1>4 DEF CallTypes, CallEngaged

\* How a step of the strategy that does not begin an attempt may move.
CallStepOn ==
  /\ pc = "step"
  /\ UNCHANGED <<callMode, strategy, stillborn, attempt, bodies>> /\ fired \subseteq fired'
  /\ outcome' = outcome \/ pc' = "ended"
  /\ CallEngaged /\ pc' = "step" => at' > 1

LEMMA CallStepOnCutsShort ==
  ASSUME CallTypes, CallCutShort, CallStepOn,
         CallEngaged /\ stillborn =>
           /\ executed' = <<>> /\ outcome' \in {"none", "raised"}
           /\ UNCHANGED <<queued, output, chunks>>
           /\ \/ pc' = "ended"
              \/ /\ pc' = "step"
                 /\ \A n \in 1..(at' - 1) : strategy[n] \notin {"call_chain_guard", "execute"}
  PROVE  CallCutShort'
<1>1. CallUnended' BY DEF CallCutShort, CallUnended, CallStepOn
<1>2. CallFresh' BY DEF CallFresh, CallEngaged, CallStepOn
<1>3. CallDoomed'
  <2>. SUFFICES ASSUME stillborn, callMode # "validate" PROVE CallDoomed'
    BY DEF CallDoomed, CallStepOn
  <2>1. callMode # "post" /\ Call!Cancelled(attempt) /\ output = 0
        /\ attempt \notin Call!Handed \cup chunks
    BY DEF CallCutShort, CallDoomed
  <2>2. CallEngaged BY <2>1 DEF CallTypes, CallEngaged
  <2>3. Call!Cancelled(attempt)' BY <2>1 DEF Call!Cancelled, CallStepOn
  <2>4. Call!Handed' = Call!Handed BY <2>2 DEF Call!Handed, CallStepOn
  <2>. QED BY <2>1, <2>2, <2>3, <2>4 DEF CallDoomed, CallStepOn
<1>. QED BY <1>1, <1>2, <1>3 DEF CallCutShort

(* A step that is neither a look at the token nor the lookup of the module   *)
(* has one in front of it, which a stillborn attempt does not pass.          *)
LEMMA CallDoomedIsEarly ==
  ASSUME CallTypes, CallGates, CallKnownStrategies, CallCutShort, stillborn, CallEngaged,
         pc = "step"
  PROVE  /\ at <= Len(strategy)
         /\ strategy[at] \in {"context_creation", "module_lookup", "call_chain_guard", "execute"}
         /\ Call!Cancelled(attempt) /\ executed = <<>> /\ outcome = "none"
         /\ \A n \in 1..(at - 1) : strategy[n] \notin {"call_chain_guard", "execute"}
<1>1. CallWatched(strategy) /\ at \in 1..(Len(strategy) + 1) BY CallEngagedIsWatched
<1>2. /\ \A n \in 1..(at - 1) : strategy[n] \notin {"call_chain_guard", "execute"}
      /\ Call!Cancelled(attempt) /\ executed = <<>> /\ outcome = "none"
  BY DEF CallCutShort, CallUnended, CallDoomed, CallEngaged
<1>3. at <= Len(strategy)
  <2>1. PICK n \in 2..Len(strategy) : strategy[n] = "execute" BY <1>1 DEF CallWatched
  <2>. QED BY <1>1, <1>2, <2>1 DEF CallWatched
<1>. QED BY <1>1, <1>2, <1>3 DEF CallWatched

LEMMA CallStepsCutShort ==
  ASSUME CallTypes, CallGates, CallKnownStrategies, CallCutShort,
         \/ Call!CallChainGuard \/ Call!ModuleLookup \/ Call!ACLCheck \/ Call!ApprovalGate
         \/ Call!InputValidation \/ Call!OutputValidation \/ Call!MiddlewareBefore
         \/ Call!MiddlewareAfter \/ Call!ReturnResult \/ Call!Execute
  PROVE  CallCutShort'
<1>. USE DEF Call!At, Call!Step, Call!run, Call!signals, Call!work
<1>1. /\ pc = "step" /\ at <= Len(strategy)
      /\ UNCHANGED <<callMode, strategy, stillborn, attempt, bodies>> /\ fired \subseteq fired'
      /\ strategy[at] # "context_creation"
  BY DEF Call!CallChainGuard, Call!CheckOrRaise, Call!ModuleLookup, Call!ACLCheck,
         Call!ApprovalGate, Call!InputValidation, Call!OutputValidation, Call!MiddlewareBefore,
         Call!MiddlewareAfter, Call!ReturnResult, Call!Execute
<1>2. \/ \E e, ran : Call!Failure(e, ran)
      \/ \E s : Call!Continue(s)
      \/ pc' # "step" /\ UNCHANGED outcome
      \/ Call!Execute /\ at' = Len(strategy) /\ UNCHANGED outcome
  BY DEF Call!CallChainGuard, Call!CheckOrRaise, Call!ModuleLookup, Call!ACLCheck,
         Call!ApprovalGate, Call!InputValidation, Call!OutputValidation, Call!MiddlewareBefore,
         Call!MiddlewareAfter, Call!ReturnResult, Call!Execute
<1>3. CallStepOn
  <2>1. at \in Nat /\ at >= 1 /\ Len(strategy) \in Nat BY DEF CallGates, CallShaped, CallWellFormed
  <2>2. CASE \E e, ran : Call!Failure(e, ran)
    BY <1>1, <2>2, CallFailureEnds DEF CallStepOn
  <2>3. CASE \E s : Call!Continue(s) BY <1>1, <2>1, <2>3 DEF CallStepOn, Call!Continue
  <2>4. CASE pc' # "step" /\ UNCHANGED outcome BY <1>1, <2>4 DEF CallStepOn
  <2>5. CASE Call!Execute /\ at' = Len(strategy) /\ UNCHANGED outcome
    <3>1. CallEngaged => Len(strategy) > 1 BY CallEngagedIsWatched DEF CallWatched
    <3>. QED BY <1>1, <2>5, <3>1 DEF CallStepOn
  <2>. QED BY <1>2, <2>2, <2>3, <2>4, <2>5
<1>4. ASSUME CallEngaged, stillborn
      PROVE  /\ executed' = <<>> /\ outcome' \in {"none", "raised"}
             /\ UNCHANGED <<queued, output, chunks>>
             /\ \/ pc' = "ended"
                \/ /\ pc' = "step"
                   /\ \A n \in 1..(at' - 1) : strategy[n] \notin {"call_chain_guard", "execute"}
  <2>1. /\ strategy[at] \in {"module_lookup", "call_chain_guard", "execute"}
        /\ Call!Cancelled(attempt) /\ executed = <<>> /\ outcome = "none"
        /\ \A n \in 1..(at - 1) : strategy[n] \notin {"call_chain_guard", "execute"}
    BY <1>1, <1>4, CallDoomedIsEarly
  <2>2. CASE Call!CallChainGuard \/ Call!Execute
    <3>1. Call!Failure("cancelled", executed) /\ UNCHANGED <<queued, output, chunks>>
      BY <2>1, <2>2 DEF Call!CallChainGuard, Call!Execute
    <3>. QED BY <1>4, <2>1, <3>1, CallFailureEnds
  <2>3. CASE Call!ModuleLookup
    <3>1. /\ UNCHANGED <<queued, output, chunks>> /\ strategy[at] = "module_lookup"
          /\ \/ Call!Continue("module_lookup") /\ UNCHANGED executed
             \/ Call!Failure("unavailable", executed)
      BY <2>3 DEF Call!ModuleLookup, Call!CheckOrRaise, Call!hooks
    <3>2. CASE Call!Failure("unavailable", executed) BY <1>4, <2>1, <3>1, <3>2, CallFailureEnds
    <3>3. CASE Call!Continue("module_lookup") /\ UNCHANGED executed
      <4>1. at \in Nat /\ at >= 1 BY DEF CallGates, CallShaped
      <4>. QED BY <2>1, <3>1, <3>3, <4>1 DEF Call!Continue
    <3>. QED BY <3>1, <3>2, <3>3
  <2>4. CASE ~(Call!CallChainGuard \/ Call!Execute \/ Call!ModuleLookup)
    BY <2>1, <2>4
    DEF Call!CheckOrRaise, Call!ACLCheck, Call!ApprovalGate, Call!InputValidation,
        Call!OutputValidation, Call!MiddlewareBefore, Call!MiddlewareAfter, Call!ReturnResult
  <2>. QED BY <2>2, <2>3, <2>4
<1>. QED BY <1>3, <1>4, CallStepOnCutsShort

\* The end of a run, and a dry run.
LEMMA CallRunEndsCutShort ==
  ASSUME CallTypes, CallGates, CallKnownStrategies, CallCutShort,
         Call!RunEnds \/ Call!DryRunSkips \/ Call!BindingRefused \/ Call!DryRunEnds
  PROVE  CallCutShort'
<1>1. CASE Call!RunEnds
  <2>1. /\ pc = "step" /\ at > Len(strategy) /\ pc' \in {"chunks", "ended"}
        /\ UNCHANGED <<callMode, strategy, stillborn, attempt, bodies, fired>>
        /\ outcome' = outcome \/ pc' = "ended"
    BY <1>1 DEF Call!RunEnds, Call!Ends, Call!run, Call!signals, Call!work
  <2>2. CallStepOn BY <2>1 DEF CallStepOn
  <2>3. ~(CallEngaged /\ stillborn)
    BY <2>1, CallDoomedIsEarly, CallEngagedIsWatched DEF CallWatched
  <2>. QED BY <2>2, <2>3, CallStepOnCutsShort
<1>2. CASE Call!DryRunSkips \/ Call!BindingRefused \/ Call!DryRunEnds
  <2>1. /\ callMode = "validate" /\ callMode' = "validate" /\ pc # "ended"
        /\ outcome' = outcome \/ pc' = "ended"
    BY <1>2 DEF Call!DryRunSkips, Call!BindingRefused, Call!DryRunEnds, Call!Ends, Call!run
  <2>. QED BY <2>1 DEF CallCutShort, CallUnended, CallFresh, CallDoomed, CallEngaged
<1>. QED BY <1>1, <1>2

\* No stillborn attempt waits for anything; a retry begins with nothing.
LEMMA CallAwaitsCutShort ==
  ASSUME CallTypes, CallGates, CallCutShort,
         \/ Call!ApprovalAnswer \/ Call!BeforeHook \/ Call!AfterHook \/ Call!OnErrorHook
         \/ Call!BodyReturns \/ Call!BodyRaises \/ Call!BodyTimesOut
         \/ Call!StreamChunk \/ Call!StreamFails \/ Call!StreamEnds \/ Call!StreamAbandoned
         \/ Call!IntrospectionEnds \/ Call!Interrupted
  PROVE  CallCutShort'
<1>. USE DEF Call!run, Call!signals, Call!work
<1>1. /\ pc \notin {"step", "ended"} /\ stillborn' = stillborn
      /\ \/ callMode' = callMode
         \/ callMode' = "post" /\ callMode # "validate"
  BY DEF Call!ApprovalAnswer, Call!BeforeHook, Call!AfterHook, Call!OnErrorHook,
         Call!BodyReturns, Call!BodyRaises, Call!BodyTimesOut, Call!StreamChunk, Call!StreamFails,
         Call!StreamEnds, Call!StreamAbandoned, Call!IntrospectionEnds, Call!Interrupted,
         CallGates, CallPlaced
<1>2. CallDoomed' BY <1>1 DEF CallDoomed, CallCutShort
<1>3. \/ \E e, ran : Call!Failure(e, ran) /\ callMode' = callMode
      \/ \E s : Call!Continue(s)
      \/ pc' # "step" /\ (outcome' = outcome \/ pc' = "ended")
      \/ pc' = "step" /\ executed' = <<>> /\ output' = 0 /\ outcome' = outcome
      \/ callMode' = "post" /\ outcome' = outcome
  BY <1>1
  DEF Call!ApprovalAnswer, Call!BeforeHook, Call!AfterHook, Call!OnErrorHook, Call!Retry,
      Call!RaiseInstead, Call!Ends, Call!BodyReturns, Call!BodyRaises, Call!BodyTimesOut,
      Call!StreamChunk, Call!StreamFails, Call!StreamEnds, Call!StreamAbandoned,
      Call!IntrospectionEnds, Call!Interrupted
<1>4. outcome = "none" BY <1>1 DEF CallCutShort, CallUnended
<1>5. CallUnended' /\ CallFresh'
  <2>1. CASE \E e, ran : Call!Failure(e, ran) /\ callMode' = callMode
    BY <1>4, <2>1, CallFailureEnds DEF CallUnended, CallFresh, CallEngaged
  <2>2. CASE \E s : Call!Continue(s)
    <3>1. at \in Nat /\ at >= 1 BY DEF CallGates, CallShaped
    <3>. QED BY <1>4, <2>2, <3>1 DEF CallUnended, CallFresh, Call!Continue
  <2>3. CASE pc' # "step" /\ (outcome' = outcome \/ pc' = "ended")
    BY <1>4, <2>3 DEF CallUnended, CallFresh
  <2>4. CASE pc' = "step" /\ executed' = <<>> /\ output' = 0 /\ outcome' = outcome
    BY <1>4, <2>4 DEF CallUnended, CallFresh
  <2>5. CASE callMode' = "post" /\ outcome' = outcome
    BY <1>4, <2>5 DEF CallUnended, CallFresh, CallEngaged
  <2>. QED BY <1>3, <2>1, <2>2, <2>3, <2>4, <2>5
<1>. QED BY <1>2, <1>5 DEF CallCutShort

LEMMA CallAroundCutShort ==
  ASSUME CallTypes, CallCutShort,
         \/ Call!CallerCancels \/ Call!DeadlinePasses \/ Call!MiddlewareListChanges
         \/ Call!LateBodyEnds \/ Call!BodyStarts \/ UNCHANGED Call!vars
  PROVE  CallCutShort'
<1>1. /\ UNCHANGED <<callMode, strategy, stillborn, at, pc, attempt>> /\ fired \subseteq fired'
      /\ UNCHANGED <<executed, output, chunks, outcome>> /\ Call!Handed' \subseteq Call!Handed
  BY DEF Call!run, Call!signals, Call!work, Call!hooks, Call!vars, Call!Handed,
         Call!CallerCancels, Call!DeadlinePasses, Call!MiddlewareListChanges, Call!LateBodyEnds,
         Call!BodyStarts
<1>2. Call!Cancelled(attempt) => Call!Cancelled(attempt)' BY <1>1 DEF Call!Cancelled
<1>. QED BY <1>1, <1>2 DEF CallCutShort, CallUnended, CallFresh, CallDoomed, CallEngaged

LEMMA CallNextCutShort ==
  ASSUME CallKnownStrategies
  PROVE  CallTypes /\ CallGates /\ CallCutShort /\ [Call!Next]_Call!vars => CallCutShort'
BY CallContextCutsShort, CallStepsCutShort, CallRunEndsCutShort, CallAwaitsCutShort,
   CallAroundCutShort DEF Call!Next, Call!PipelineStep

LEMMA CallInitCutShort == Call!Init => CallCutShort
BY DEF Call!Init, CallCutShort, CallUnended, CallFresh, CallDoomed

LEMMA CallCutShortHolds ==
  ASSUME CallTypes, CallCutShort
  PROVE  Call!StillbornReachesNobody
BY DEF CallCutShort, CallDoomed, Call!StillbornReachesNobody

CallInv == CallIInv /\ CallGates /\ CallDryRun /\ CallCutShort
LEMMA CallInitInv ==
  ASSUME CallKnownModes, CallKnownStrategies
  PROVE  Call!Init => CallInv
BY CallInitIInv, CallInitGates, CallInitDryRun, CallInitCutShort DEF CallInv

LEMMA CallNextInv ==
  ASSUME CallKnownStrategies
  PROVE  CallInv /\ [Call!Next]_Call!vars => CallInv'
BY CallNextIInv, CallNextGates, CallNextDryRun, CallNextCutShort DEF CallInv, CallIInv

-----------------------------------------------------------------------------
(* Synchronous calls (SyncBridge).                                          *)

SyncTypes == /\ cached \in Sync!Loops \cup {0}
             /\ loops \in [Sync!Loops -> {"new", "idle", "running", "closed"}]
             /\ place \in [Threads -> {"idle", "none?", "open?", "create", "busy?", "run",
                                    "running", "bridge", "waiting", "drop", "close"}]
             /\ mine \in [Threads -> Sync!Loops \cup {0}]
             /\ answer \in [Threads -> {"none", "answered", "timeout", "failed"}]
             /\ overtaken \in [Threads -> BOOLEAN]

(* A loop that was handed out exists; one that is to be closed was dropped,  *)
(* and is not handed out again.                                              *)
SyncDropped ==
  /\ cached # 0 => loops[cached] # "new"
  /\ \A t \in Threads : place[t] \in {"running", "drop", "close"} /\ mine[t] # 0 =>
       loops[mine[t]] # "new" /\ (place[t] = "close" => mine[t] # cached)
  /\ \A t \in Threads : place[t] = "running" => mine[t] # 0

(* What a look at the loop has shown holds until the thread is overtaken.    *)
SyncSeen(t) ==
  place[t] \in {"open?", "busy?", "run"} /\ ~overtaken[t] =>
    /\ cached # 0
    /\ place[t] = "busy?" => loops[cached] # "closed"
    /\ place[t] = "run" => loops[cached] = "idle"
SyncIInv == /\ SyncTypes /\ SyncDropped /\ (\A t \in Threads : SyncSeen(t))
            /\ Sync!FailsOnlyWhenOvertaken

LEMMA SyncInitIInv == Sync!Init => SyncIInv
BY DEF Sync!Init, SyncIInv, SyncTypes, SyncDropped, SyncSeen, Sync!FailsOnlyWhenOvertaken

(* A step that leaves the loops alone keeps what the other threads have seen. *)
LEMMA SyncLooksOn ==
  ASSUME SyncIInv, MaxLoops \in Nat, NEW t \in Threads,
         \/ Sync!BeginCall(t) \/ Sync!LookForLoop(t) \/ Sync!LookWhetherOpen(t)
         \/ Sync!LookWhetherBusy(t) \/ Sync!StartWorker(t) \/ Sync!WorkerRuns(t)
         \/ Sync!WorkerAnswers(t) \/ Sync!BudgetSpent(t) \/ Sync!BeginClose(t)
  PROVE  SyncIInv'
<1>. USE DEF SyncIInv, Sync!Go, Sync!Ends
<1>1. CASE Sync!BeginCall(t)
  BY <1>1 DEF Sync!BeginCall, SyncTypes, SyncDropped, SyncSeen, Sync!FailsOnlyWhenOvertaken
<1>2. CASE Sync!LookForLoop(t)
  BY <1>2 DEF Sync!LookForLoop, SyncTypes, SyncDropped, SyncSeen, Sync!FailsOnlyWhenOvertaken
<1>3. CASE Sync!LookWhetherOpen(t)
  BY <1>3 DEF Sync!LookWhetherOpen, Sync!Look, SyncTypes, SyncDropped, SyncSeen,
    Sync!FailsOnlyWhenOvertaken
<1>4. CASE Sync!LookWhetherBusy(t)
  BY <1>4 DEF Sync!LookWhetherBusy, Sync!Look, SyncTypes, SyncDropped, SyncSeen,
    Sync!FailsOnlyWhenOvertaken
<1>5. CASE \/ Sync!StartWorker(t) \/ Sync!WorkerRuns(t) \/ Sync!WorkerAnswers(t)
           \/ Sync!BudgetSpent(t)
  BY <1>5 DEF Sync!StartWorker, Sync!WorkerRuns, Sync!WorkerAnswers, Sync!BudgetSpent,
              SyncTypes, SyncDropped, SyncSeen, Sync!FailsOnlyWhenOvertaken
<1>6. CASE Sync!BeginClose(t)
  BY <1>6 DEF Sync!BeginClose, SyncTypes, SyncDropped, SyncSeen, Sync!FailsOnlyWhenOvertaken
<1>. QED BY <1>1, <1>2, <1>3, <1>4, <1>5, <1>6

(* A new loop replaces the cached one: it is idle, and nobody is to close it. *)
LEMMA SyncNewLoop ==
  ASSUME SyncIInv, MaxLoops \in Nat, NEW t \in Threads, Sync!CreateLoop(t)
  PROVE  SyncIInv'
<1>. USE DEF SyncIInv
<1>1. PICK l \in Sync!Loops : /\ loops[l] = "new" /\ loops' = [loops EXCEPT ![l] = "idle"]
                         /\ cached' = l
  BY DEF Sync!CreateLoop
<1>2. /\ place[t] = "create" /\ place' = [place EXCEPT ![t] = "busy?"]
      /\ UNCHANGED <<mine, worker, answer, overtaken, entered>>
  BY DEF Sync!CreateLoop, Sync!Go
<1>3. l # 0 BY DEF Sync!Loops
<1>4. SyncTypes' BY <1>1, <1>2 DEF SyncTypes
<1>5. SyncDropped' BY <1>1, <1>2, <1>3 DEF SyncTypes, SyncDropped
<1>6. \A u \in Threads : SyncSeen(u)' BY <1>1, <1>2, <1>3 DEF SyncTypes, SyncSeen
<1>7. Sync!FailsOnlyWhenOvertaken' BY <1>2 DEF Sync!FailsOnlyWhenOvertaken
<1>. QED BY <1>4, <1>5, <1>6, <1>7

(* Who takes or drops the loop overtakes those that have looked at it; a     *)
(* loop that ends its run, or is closed, was cached for none of them.        *)
LEMMA SyncLoopMoves ==
  ASSUME SyncIInv, MaxLoops \in Nat, NEW t \in Threads,
         Sync!RunOnLoop(t) \/ Sync!CoroutineEnds(t) \/ Sync!DropLoop(t) \/ Sync!CloseLoop(t)
  PROVE  SyncIInv'
<1>. USE DEF SyncIInv, Sync!Go, Sync!Ends
<1>1. CASE Sync!RunOnLoop(t)
  <2>1. CASE cached # 0 /\ loops[cached] = "idle"
    <3>1. /\ place[t] = "run" /\ place' = [place EXCEPT ![t] = "running"]
          /\ loops' = [loops EXCEPT ![cached] = "running"]
          /\ mine' = [mine EXCEPT ![t] = cached]
          /\ overtaken' = [u \in Threads |-> \/ overtaken[u]
                                             \/ u # t /\ place[u] \in {"open?", "busy?", "run"}]
          /\ UNCHANGED <<cached, answer>>
      BY <1>1, <2>1 DEF Sync!RunOnLoop, Sync!Overtaking
    <3>2. SyncTypes' BY <2>1, <3>1 DEF SyncTypes
    <3>3. SyncDropped' BY <2>1, <3>1 DEF SyncTypes, SyncDropped
    <3>4. \A u \in Threads : SyncSeen(u)' BY <3>1 DEF SyncTypes, SyncSeen
    <3>5. Sync!FailsOnlyWhenOvertaken' BY <3>1 DEF Sync!FailsOnlyWhenOvertaken
    <3>. QED BY <3>2, <3>3, <3>4, <3>5
  <2>2. CASE ~(cached # 0 /\ loops[cached] = "idle")
    BY <1>1, <2>2 DEF Sync!RunOnLoop, SyncTypes, SyncDropped, SyncSeen,
      Sync!FailsOnlyWhenOvertaken
  <2>. QED BY <2>1, <2>2
<1>2. CASE Sync!CoroutineEnds(t)
  BY <1>2 DEF Sync!CoroutineEnds, SyncTypes, SyncDropped, SyncSeen, Sync!FailsOnlyWhenOvertaken
<1>3. CASE Sync!DropLoop(t)
  BY <1>3 DEF Sync!DropLoop, Sync!Overtaking, SyncTypes, SyncDropped, SyncSeen,
    Sync!FailsOnlyWhenOvertaken
<1>4. CASE Sync!CloseLoop(t)
  BY <1>4 DEF Sync!CloseLoop, SyncTypes, SyncDropped, SyncSeen, Sync!FailsOnlyWhenOvertaken
<1>. QED BY <1>1, <1>2, <1>3, <1>4

LEMMA SyncNextIInv ==
  ASSUME MaxLoops \in Nat
  PROVE  SyncIInv /\ [Sync!Next]_Sync!vars => SyncIInv'
<1>. SUFFICES ASSUME SyncIInv, [Sync!Next]_Sync!vars PROVE SyncIInv' OBVIOUS
<1>1. CASE UNCHANGED Sync!vars
  BY <1>1 DEF Sync!vars, SyncIInv, SyncTypes, SyncDropped, SyncSeen, Sync!FailsOnlyWhenOvertaken
<1>. QED BY <1>1, SyncLooksOn, SyncNewLoop, SyncLoopMoves DEF Sync!Next

-----------------------------------------------------------------------------
(* The policy (ExecutionPolicy).                                            *)

(* What holds of 0 and is inherited by the next number holds up to a bound. *)
LEMMA Upwards ==
  ASSUME NEW n \in Nat, NEW S, 0 \in S, \A k \in 0..n : k > 0 /\ k - 1 \in S => k \in S
  PROVE  \A k \in 0..n : k \in S
<1> DEFINE Bad == {k \in 0..n : k \notin S}
           R == {p \in Nat \X Nat : p[1] < p[2]}
<1>. SUFFICES ASSUME Bad # {} PROVE FALSE OBVIOUS
<1>1. IsWellFoundedOn(R, Nat) BY NatLessThanWellFounded DEF OpToRel
<1>2. Bad \subseteq Nat OBVIOUS
<1>3. PICK k \in Bad : \A y \in Bad : <<y, k>> \notin R
  <2>. HIDE DEF R, Bad
  <2>. QED BY <1>1, <1>2, WFMin
<1>4. k # 0 /\ k - 1 \in Bad /\ k - 1 \in Nat /\ k \in Nat OBVIOUS
<1>5. <<k - 1, k>> \in R BY <1>4
<1>. HIDE DEF R, Bad
<1>. QED BY <1>3, <1>4, <1>5

LEMMA LeastExists ==
  ASSUME NEW S \in SUBSET Nat, S # {}
  PROVE  \E x \in S : \A y \in S : x <= y
<1> DEFINE R == {p \in Nat \X Nat : p[1] < p[2]}
<1>1. IsWellFoundedOn(R, Nat) BY NatLessThanWellFounded DEF OpToRel
<1>2. \A x, y \in Nat : <<y, x>> \notin R => x <= y OBVIOUS
<1>. HIDE DEF R
<1>3. PICK x \in S : \A y \in S : <<y, x>> \notin R BY <1>1, WFMin
<1>. QED BY <1>2, <1>3

(* A function defined by recursion on a number, its steps given as a         *)
(* function.                                                                 *)
Follows(f, n, first, step) ==
  f[0] = first /\ \A k \in 1..n : f[k] = step[<<k, f[k - 1]>>]

LEMMA Recursion ==
  ASSUME NEW n \in Nat, NEW S, NEW first \in S, NEW step \in [(1..n) \X S -> S]
  PROVE  \E f \in [0..n -> S] : Follows(f, n, first, step)
<1> DEFINE IsUpTo(f, m) == f[0] = first /\ \A k \in 1..m : f[k] = step[<<k, f[k - 1]>>]
           Reached == {m \in 0..n : \E f \in [0..m -> S] : IsUpTo(f, m)}
<1>1. 0 \in Reached
  <2> DEFINE f == [k \in 0..0 |-> first]
  <2>1. f \in [0..0 -> S] /\ IsUpTo(f, 0) OBVIOUS
  <2>. HIDE DEF f, IsUpTo
  <2>2. \E g \in [0..0 -> S] : IsUpTo(g, 0) BY <2>1
  <2>. QED BY <2>2
<1>2. ASSUME NEW m \in 0..n, m > 0, m - 1 \in Reached PROVE m \in Reached
  <2>1. PICK f \in [0..(m - 1) -> S] : IsUpTo(f, m - 1) BY <1>2
  <2> DEFINE g == [k \in 0..m |-> IF k = m THEN step[<<m, f[m - 1]>>] ELSE f[k]]
  <2>2. m \in 1..n /\ m - 1 \in 0..(m - 1) BY <1>2
  <2>3. f[m - 1] \in S BY <2>2
  <2>4. <<m, f[m - 1]>> \in (1..n) \X S BY <2>2, <2>3
  <2>5. step[<<m, f[m - 1]>>] \in S BY <2>4
  <2>6. \A k \in 0..m : k = m \/ k \in 0..(m - 1) BY <1>2
  <2>7. g \in [0..m -> S] BY <2>5, <2>6
  <2>8. g[0] = first BY <2>1, <2>2
  <2>9. ASSUME NEW k \in 1..m PROVE g[k] = step[<<k, g[k - 1]>>]
    <3>1. CASE k = m
      <4>1. g[k - 1] = f[m - 1] BY <2>2, <3>1
      <4>. QED BY <3>1, <4>1
    <3>2. CASE k # m
      <4>1. k \in 1..(m - 1) BY <1>2, <3>2
      <4>2. g[k] = f[k] /\ g[k - 1] = f[k - 1] BY <1>2, <4>1
      <4>. QED BY <2>1, <4>1, <4>2
    <3>. QED BY <3>1, <3>2
  <2>. HIDE DEF g
  <2>. QED BY <1>2, <2>7, <2>8, <2>9
<1>3. n \in Reached
  <2>. HIDE DEF Reached
  <2>1. \A m \in 0..n : m > 0 /\ m - 1 \in Reached => m \in Reached BY <1>2
  <2>. QED BY <1>1, <2>1, Upwards
<1>. QED BY <1>3 DEF Follows

-----------------------------------------------------------------------------
(* Matching (Patterns).  Splitting goes character by character.              *)
Parts(T) == [closed : Seq(Seq(T)), open : Seq(T)]
SplitStep(part, char, separator) ==
  IF char = separator THEN [closed |-> Append(part.closed, part.open), open |-> <<>>]
  ELSE [closed |-> part.closed, open |-> Append(part.open, char)]
IsSplit(w, text, separator) ==
  /\ w[0] = [closed |-> <<>>, open |-> <<>>]
  /\ \A i \in 1..Len(text) : w[i] = SplitStep(w[i - 1], text[i], separator)

LEMMA SplitIs ==
  ASSUME NEW T, NEW text, Len(text) \in Nat, \A i \in 1..Len(text) : text[i] \in T, NEW separator
  PROVE  \E w \in [0..Len(text) -> Parts(T)] :
           /\ IsSplit(w, text, separator)
           /\ Governed!Split(text, separator) = Append(w[Len(text)].closed, w[Len(text)].open)
<1> DEFINE n == Len(text)
           none == [closed |-> <<>>, open |-> <<>>]
           step == [x \in (1..n) \X Parts(T) |-> SplitStep(x[2], text[x[1]], separator)]
           IsParts(f) == f = [i \in 0..n |->
             IF i = 0 THEN none
             ELSE IF text[i] = separator
                  THEN [closed |-> Append(f[i - 1].closed, f[i - 1].open), open |-> <<>>]
                  ELSE [closed |-> f[i - 1].closed, open |-> Append(f[i - 1].open, text[i])]]
           parts == CHOOSE f : IsParts(f)
<1>1. none \in Parts(T) BY DEF Parts
<1>2. \A part \in Parts(T), char \in T : SplitStep(part, char, separator) \in Parts(T)
  BY DEF Parts, SplitStep
<1>3. step \in [(1..n) \X Parts(T) -> Parts(T)] BY <1>2
<1>4. \A i \in 1..n, part \in Parts(T) : step[<<i, part>>] = SplitStep(part, text[i], separator)
  OBVIOUS
<1>5. Governed!Split(text, separator) = Append(parts[n].closed, parts[n].open)
  BY DEF Governed!Split
<1>6. n \in Nat OBVIOUS
<1>. HIDE DEF step, none, n
<1>7. PICK f \in [0..n -> Parts(T)] : Follows(f, n, none, step)
  BY <1>6, <1>1, <1>3, Recursion
<1>8. \A i \in 1..n : f[i] = SplitStep(f[i - 1], text[i], separator)
  <2>1. ASSUME NEW i \in 1..n PROVE f[i - 1] \in Parts(T)
    <3>1. i - 1 \in 0..n BY <1>6
    <3>. QED BY <3>1
  <2>. QED BY <1>4, <1>7, <2>1 DEF Follows
<1>9. IsParts(f)
  <2>1. \A i \in 0..n : i = 0 \/ i \in 1..n BY <1>6
  <2>2. f = [i \in 0..n |-> f[i]] OBVIOUS
  <2>. QED BY <1>7, <1>8, <2>1, <2>2 DEF SplitStep, Follows
<1>10. IsParts(parts) BY <1>9
<1>. HIDE DEF parts
<1>11. parts[0] = none /\ \A i \in 1..n : parts[i] = SplitStep(parts[i - 1], text[i], separator)
  <2>1. \A i \in 0..n : parts[i] =
             IF i = 0 THEN none
             ELSE IF text[i] = separator
                  THEN [closed |-> Append(parts[i - 1].closed, parts[i - 1].open), open |-> <<>>]
                  ELSE [closed |-> parts[i - 1].closed, open |-> Append(parts[i - 1].open, text[i])]
    BY <1>10
  <2>2. 0 \in 0..n /\ \A i \in 1..n : i \in 0..n /\ i # 0 BY <1>6
  <2>. QED BY <2>1, <2>2 DEF SplitStep
<1>12. \A i \in 0..n : parts[i] \in Parts(T)
  <2> DEFINE Fine == {i \in 0..n : parts[i] \in Parts(T)}
  <2>1. 0 \in Fine BY <1>6, <1>1, <1>11
  <2>2. ASSUME NEW i \in 0..n, i > 0, i - 1 \in Fine PROVE i \in Fine
    <3>1. i \in 1..n /\ text[i] \in T BY <1>6, <2>2 DEF n
    <3>. QED BY <1>2, <1>11, <2>2, <3>1
  <2>. SUFFICES \A i \in 0..n : i \in Fine OBVIOUS
  <2>. HIDE DEF Fine
  <2>3. \A i \in 0..n : i > 0 /\ i - 1 \in Fine => i \in Fine BY <2>2
  <2>. QED BY <1>6, <2>1, <2>3, Upwards
<1>13. parts = [i \in 0..n |-> parts[i]] BY <1>10
<1>14. parts \in [0..n -> Parts(T)] BY <1>12, <1>13
<1>. QED BY <1>5, <1>11, <1>14 DEF IsSplit, n, none

(* A place is 0 for none, or leaves the rest of the text, which may be empty. *)
LEMMA PlaceAfterIs ==
  ASSUME NEW T, NEW text \in Seq(T), NEW segment \in Seq(T), NEW glob,
         NEW spot \in 0..(Len(text) + 1)
  PROVE  LET reached == Governed!PlaceAfter(segment, text, spot, glob)
         IN /\ reached \in 0..(Len(text) + 1)
            /\ spot = 0 => reached = 0
            /\ spot # 0 => \A t \in 0..Len(text) :
                           reached # 0 /\ t + 1 >= reached <=>
                           \E s \in 0..Len(text) : /\ s + 1 >= spot /\ s + Len(segment) <= t
                                                   /\ Governed!Fits(segment, text, s + 1, glob)
<1> DEFINE n == Len(text)
           L == Len(segment)
           Fit(p) == Governed!Fits(segment, text, p, glob)
           found == {p \in spot..n : Fit(p)}
           reached == Governed!PlaceAfter(segment, text, spot, glob)
           Sound(x) == \A t \in 0..n : x # 0 /\ t + 1 >= x <=>
                         \E s \in 0..n : s + 1 >= spot /\ s + L <= t /\ Fit(s + 1)
<1>1. n \in Nat /\ L \in Nat OBVIOUS
<1>2. reached = IF spot = 0 \/ segment = <<>> THEN spot
              ELSE IF found = {} THEN 0 ELSE Governed!Min(found) + L
  BY DEF Governed!PlaceAfter
<1>3. \A p : Fit(p) => p + L <= n + 1 BY DEF Governed!Fits
<1>4. L = 0 => \A s \in 0..n : Fit(s + 1) BY DEF Governed!Fits
<1>. HIDE DEF n, L, Fit, reached
<1>5. CASE spot = 0 \/ segment = <<>>
  <2>1. reached = spot BY <1>2, <1>5
  <2>2. ASSUME spot # 0 PROVE Sound(spot)
    <3>1. L = 0 BY <1>5, <2>2 DEF L
    <3>2. ASSUME NEW t \in 0..n, t + 1 >= spot
          PROVE  \E s \in 0..n : s + 1 >= spot /\ s + L <= t /\ Fit(s + 1)
      <4>1. Fit(t + 1) /\ t + L <= t BY <1>4, <3>1
      <4>. QED BY <3>2, <4>1
    <3>3. ASSUME NEW t \in 0..n, NEW s \in 0..n, s + 1 >= spot, s + L <= t PROVE t + 1 >= spot
      BY <3>1, <3>3 DEF n
    <3>. QED BY <2>2, <3>2, <3>3
  <2>. QED BY <2>1, <2>2 DEF n, L, Fit, reached
<1>6. CASE spot # 0 /\ segment # <<>> /\ found = {}
  <2>1. reached = 0 BY <1>2, <1>6
  <2>2. ASSUME NEW s \in 0..n, s + 1 >= spot, Fit(s + 1) PROVE FALSE
    <3>1. L > 0 BY <1>6 DEF L
    <3>2. s + 1 + L <= n + 1 BY <1>3, <2>2
    <3>3. s + 1 \in spot..n BY <1>1, <2>2, <3>1, <3>2 DEF n
    <3>. QED BY <1>6, <2>2, <3>3
  <2>3. Sound(0) BY <2>2
  <2>. HIDE DEF Sound
  <2>4. Sound(reached) /\ reached \in 0..(n + 1) BY <1>1, <2>1, <2>3
  <2>. QED BY <1>6, <2>4 DEF Sound, n, L, Fit, reached
<1>7. CASE spot # 0 /\ segment # <<>> /\ found # {}
  <2> DEFINE least == Governed!Min(found)
  <2>1. found \subseteq Nat BY <1>1 DEF n
  <2>2. least \in found /\ \A p \in found : least <= p
    <3>1. \E x \in found : \A p \in found : x <= p
      <4>. HIDE DEF found
      <4>. QED BY <1>7, <2>1, LeastExists
    <3>. QED BY <3>1 DEF Governed!Min
  <2>3. reached = least + L BY <1>2, <1>7
  <2>. HIDE DEF least
  <2>4. least \in spot..n /\ Fit(least) BY <2>2
  <2>5. least \in Nat /\ spot \in Nat /\ least >= spot /\ least >= 1 /\ least + L <= n + 1
    BY <1>1, <1>3, <1>7, <2>4
  <2>6. reached \in 1..(n + 1) BY <1>1, <2>3, <2>5
  <2>7. ASSUME NEW t \in 0..n, t + 1 >= reached
        PROVE  \E s \in 0..n : s + 1 >= spot /\ s + L <= t /\ Fit(s + 1)
    <3>1. least - 1 \in 0..n /\ (least - 1) + 1 = least /\ (least - 1) + L <= t
      BY <1>1, <2>3, <2>5, <2>7
    <3>. QED BY <2>4, <2>5, <3>1
  <2>8. ASSUME NEW t \in 0..n, NEW s \in 0..n, s + 1 >= spot, s + L <= t, Fit(s + 1)
        PROVE  t + 1 >= reached
    <3>1. L > 0 BY <1>7 DEF L
    <3>2. s + 1 + L <= n + 1 BY <1>3, <2>8
    <3>3. s + 1 \in spot..n BY <1>1, <2>8, <3>1, <3>2 DEF n
    <3>4. least <= s + 1 BY <2>2, <2>8, <3>3
    <3>. QED BY <1>1, <2>3, <2>5, <2>8, <3>4
  <2>9. Sound(reached) BY <2>6, <2>7, <2>8
  <2>10. reached \in 0..(n + 1) BY <2>6
  <2>. HIDE DEF Sound
  <2>. QED BY <1>7, <2>9, <2>10 DEF Sound, n, L, Fit, reached
<1>. QED BY <1>5, <1>6, <1>7

ArePlaces(f, segments, text, spot, glob) ==
  /\ f[0] = spot
  /\ \A k \in 1..Len(segments) :
       f[k] = Governed!PlaceAfter(segments[k], text, f[k - 1], glob)

LEMMA PlaceAllIs ==
  ASSUME NEW T, NEW text \in Seq(T), NEW segments \in Seq(Seq(T)), NEW glob,
         NEW spot \in 0..(Len(text) + 1)
  PROVE  \E f \in [0..Len(segments) -> 0..(Len(text) + 1)] :
           /\ ArePlaces(f, segments, text, spot, glob)
           /\ Governed!PlaceAll(segments, text, spot, glob) = f[Len(segments)]
<1> DEFINE n == Len(segments)
           S == 0..(Len(text) + 1)
           After(k, p) == Governed!PlaceAfter(segments[k], text, p, glob)
           step == [x \in (1..n) \X S |-> After(x[1], x[2])]
           IsPlace(f) == f = [k \in 0..n |-> IF k = 0 THEN spot ELSE After(k, f[k - 1])]
           reached == CHOOSE f : IsPlace(f)
<1>1. \A k \in 1..n, p \in S : After(k, p) \in S
  <2>1. \A k \in 1..n : segments[k] \in Seq(T) OBVIOUS
  <2>. QED BY <2>1, PlaceAfterIs
<1>2. Governed!PlaceAll(segments, text, spot, glob) = reached[n] BY DEF Governed!PlaceAll
<1>3. n \in Nat /\ spot \in S OBVIOUS
<1>. HIDE DEF n, S, After
<1>4. step \in [(1..n) \X S -> S] BY <1>1
<1>5. \A k \in 1..n, p \in S : step[<<k, p>>] = After(k, p) OBVIOUS
<1>. HIDE DEF step
<1>6. PICK f \in [0..n -> S] : Follows(f, n, spot, step) BY <1>3, <1>4, Recursion
<1>7. \A k \in 1..n : f[k] = After(k, f[k - 1])
  <2>1. ASSUME NEW k \in 1..n PROVE f[k - 1] \in S
    <3>1. k - 1 \in 0..n BY <1>3
    <3>. QED BY <3>1
  <2>. QED BY <1>5, <1>6, <2>1 DEF Follows
<1>8. IsPlace(f)
  <2>1. \A k \in 0..n : k = 0 \/ k \in 1..n BY <1>3
  <2>2. f = [k \in 0..n |-> f[k]] OBVIOUS
  <2>. QED BY <1>6, <1>7, <2>1, <2>2 DEF Follows
<1>9. IsPlace(reached) BY <1>8
<1>. HIDE DEF reached
<1>10. reached[0] = spot /\ \A k \in 1..n : reached[k] = After(k, reached[k - 1])
  <2>1. \A k \in 0..n : reached[k] = IF k = 0 THEN spot ELSE After(k, reached[k - 1]) BY <1>9
  <2>2. 0 \in 0..n /\ \A k \in 1..n : k \in 0..n /\ k # 0 BY <1>3
  <2>. QED BY <2>1, <2>2
<1>11. \A k \in 0..n : reached[k] \in S
  <2> DEFINE Fine == {k \in 0..n : reached[k] \in S}
  <2>1. 0 \in Fine BY <1>3, <1>10
  <2>2. ASSUME NEW k \in 0..n, k > 0, k - 1 \in Fine PROVE k \in Fine
    <3>1. k \in 1..n BY <1>3, <2>2
    <3>. QED BY <1>1, <1>10, <2>2, <3>1
  <2>. SUFFICES \A k \in 0..n : k \in Fine OBVIOUS
  <2>. HIDE DEF Fine
  <2>3. \A k \in 0..n : k > 0 /\ k - 1 \in Fine => k \in Fine BY <2>2
  <2>. QED BY <1>3, <2>1, <2>3, Upwards
<1>12. reached = [k \in 0..n |-> reached[k]] BY <1>9
<1>13. reached \in [0..n -> S] BY <1>11, <1>12
<1>. QED BY <1>2, <1>10, <1>13 DEF ArePlaces, n, S, After

LEMMA PlaceAllStarts ==
  ASSUME NEW T, NEW text \in Seq(T), NEW segments \in Seq(Seq(T)), NEW glob,
         NEW spot \in 0..(Len(text) + 1)
  PROVE  LET reached == Governed!PlaceAll(segments, text, spot, glob)
         IN reached \in 0..(Len(text) + 1) /\ (Len(segments) = 0 => reached = spot)
<1>1. PICK f \in [0..Len(segments) -> 0..(Len(text) + 1)] :
             /\ ArePlaces(f, segments, text, spot, glob)
             /\ Governed!PlaceAll(segments, text, spot, glob) = f[Len(segments)]
  BY PlaceAllIs
<1>2. Len(segments) \in 0..Len(segments) OBVIOUS
<1>. QED BY <1>1, <1>2 DEF ArePlaces

LEMMA PlaceAllAppends ==
  ASSUME NEW T, NEW text \in Seq(T), NEW segments \in Seq(Seq(T)), NEW segment \in Seq(T),
         NEW glob, NEW spot \in 0..(Len(text) + 1)
  PROVE  LET reached == Governed!PlaceAll(segments, text, spot, glob)
         IN Governed!PlaceAll(Append(segments, segment), text, spot, glob)
              = Governed!PlaceAfter(segment, text, reached, glob)
<1> DEFINE n == Len(segments)
           S == 0..(Len(text) + 1)
           more == Append(segments, segment)
           After(s, p) == Governed!PlaceAfter(s, text, p, glob)
<1>1. PICK f \in [0..n -> S] : /\ ArePlaces(f, segments, text, spot, glob)
                               /\ Governed!PlaceAll(segments, text, spot, glob) = f[n]
  BY PlaceAllIs
<1>2. more \in Seq(Seq(T)) /\ Len(more) = n + 1 /\ more[n + 1] = segment /\ n \in Nat
      /\ \A k \in 1..n : more[k] = segments[k]
  OBVIOUS
<1>3. PICK g \in [0..(n + 1) -> S] : /\ ArePlaces(g, more, text, spot, glob)
                                     /\ Governed!PlaceAll(more, text, spot, glob) = g[n + 1]
  <2>. HIDE DEF more, n
  <2>1. \E g \in [0..Len(more) -> S] : /\ ArePlaces(g, more, text, spot, glob)
                                       /\ Governed!PlaceAll(more, text, spot, glob) = g[Len(more)]
    BY <1>2, PlaceAllIs
  <2>. QED BY <1>2, <2>1
<1>4. /\ f[0] = spot /\ \A k \in 1..n : f[k] = After(segments[k], f[k - 1])
      /\ g[0] = spot /\ \A k \in 1..(n + 1) : g[k] = After(more[k], g[k - 1])
  <2>. HIDE DEF more
  <2>. QED BY <1>1, <1>2, <1>3 DEF ArePlaces
<1>. HIDE DEF n, more, After
<1>5. f[n] = g[n]
  <2> DEFINE Same == {k \in 0..n : f[k] = g[k]}
  <2>1. 0 \in Same BY <1>2, <1>4
  <2>2. ASSUME NEW k \in 0..n, k > 0, k - 1 \in Same PROVE k \in Same
    <3>1. k \in 1..n /\ k \in 1..(n + 1) BY <1>2, <2>2
    <3>. QED BY <1>2, <1>4, <2>2, <3>1
  <2>. SUFFICES n \in Same OBVIOUS
  <2>. HIDE DEF Same
  <2>3. \A k \in 0..n : k > 0 /\ k - 1 \in Same => k \in Same BY <2>2
  <2>4. \A k \in 0..n : k \in Same BY <1>2, <2>1, <2>3, Upwards
  <2>. QED BY <1>2, <2>4
<1>6. g[n + 1] = After(segment, g[n])
  <2>1. n \in Nat BY <1>2
  <2>2. n + 1 \in 1..(n + 1) /\ (n + 1) - 1 = n BY <2>1
  <2>. QED BY <1>2, <1>4, <2>2
<1>7. n \in 0..n BY <1>2
<1>. QED BY <1>1, <1>3, <1>4, <1>5, <1>6, <1>7 DEF n, more, After

(* The reference, by what the first characters of a pattern can stand for.   *)
AreEnds(ends, pattern, text, glob) ==
  \A t \in 0..Len(text) :
    /\ t \in ends[0] <=> t = 0
    /\ \A p \in 1..Len(pattern) :
         t \in ends[p] <=>
           IF pattern[p] = Governed!Star THEN \E k \in 0..t : k \in ends[p - 1]
           ELSE /\ t > 0 /\ t - 1 \in ends[p - 1]
                /\ text[t] = pattern[p] \/ (glob /\ pattern[p] = Governed!Question)

LEMMA StandsIs ==
  ASSUME NEW T, NEW text \in Seq(T), NEW pattern \in Seq(T), NEW glob
  PROVE  \E ends \in [0..Len(pattern) -> SUBSET (0..Len(text))] :
           /\ AreEnds(ends, pattern, text, glob)
           /\ Governed!Stands(pattern, text, glob) <=> Len(text) \in ends[Len(pattern)]
<1> DEFINE m == Len(pattern)
           n == Len(text)
           S == SUBSET (0..n)
           Next1(p, E) ==
             IF pattern[p] = Governed!Star THEN {t \in 0..n : \E k \in E : k <= t}
             ELSE {t \in 1..n : /\ t - 1 \in E
                                /\ text[t] = pattern[p] \/ (glob /\ pattern[p] = Governed!Question)}
           step == [x \in (1..m) \X S |-> Next1(x[1], x[2])]
           IsEnds(f) == f = [p \in 0..m |-> IF p = 0 THEN {0} ELSE Next1(p, f[p - 1])]
           ends == CHOOSE f : IsEnds(f)
<1>1. m \in Nat /\ n \in Nat OBVIOUS
<1>2. Governed!Stands(pattern, text, glob) <=> n \in ends[m] BY DEF Governed!Stands
<1>. HIDE DEF m, n
<1>3. \A p \in 1..m, E \in S : Next1(p, E) \in S BY <1>1
<1>4. {0} \in S BY <1>1
<1>5. \A p \in 1..m, E \in S, t \in 0..n :
        t \in Next1(p, E) <=>
          IF pattern[p] = Governed!Star THEN \E k \in 0..t : k \in E
          ELSE /\ t > 0 /\ t - 1 \in E
               /\ text[t] = pattern[p] \/ (glob /\ pattern[p] = Governed!Question)
  <2>1. ASSUME NEW p \in 1..m, NEW E \in S, NEW t \in 0..n, pattern[p] = Governed!Star
        PROVE  t \in Next1(p, E) <=> \E k \in 0..t : k \in E
    <3>1. t \in Next1(p, E) <=> \E k \in E : k <= t BY <2>1
    <3>2. \A k \in E : k <= t <=> k \in 0..t BY <1>1
    <3>. QED BY <3>1, <3>2
  <2>2. ASSUME NEW p \in 1..m, NEW E \in S, NEW t \in 0..n, pattern[p] # Governed!Star
        PROVE  t \in Next1(p, E) <=>
                 /\ t > 0 /\ t - 1 \in E
                 /\ text[t] = pattern[p] \/ (glob /\ pattern[p] = Governed!Question)
    <3>1. t \in 1..n <=> t > 0 BY <1>1
    <3>. QED BY <2>2, <3>1
  <2>. QED BY <2>1, <2>2
<1>. HIDE DEF S, Next1
<1>6. step \in [(1..m) \X S -> S] BY <1>3
<1>7. \A p \in 1..m, E \in S : step[<<p, E>>] = Next1(p, E) OBVIOUS
<1>. HIDE DEF step
<1>8. PICK f \in [0..m -> S] : Follows(f, m, {0}, step) BY <1>1, <1>4, <1>6, Recursion
<1>9. \A p \in 1..m : f[p] = Next1(p, f[p - 1])
  <2>1. ASSUME NEW p \in 1..m PROVE f[p - 1] \in S
    <3>1. p - 1 \in 0..m BY <1>1
    <3>. QED BY <3>1
  <2>. QED BY <1>7, <1>8, <2>1 DEF Follows
<1>10. IsEnds(f)
  <2>1. \A p \in 0..m : p = 0 \/ p \in 1..m BY <1>1
  <2>2. f = [p \in 0..m |-> f[p]] OBVIOUS
  <2>. QED BY <1>8, <1>9, <2>1, <2>2 DEF Follows
<1>11. IsEnds(ends) BY <1>10
<1>. HIDE DEF ends
<1>12. ends[0] = {0} /\ \A p \in 1..m : ends[p] = Next1(p, ends[p - 1])
  <2>1. \A p \in 0..m : ends[p] = IF p = 0 THEN {0} ELSE Next1(p, ends[p - 1]) BY <1>11
  <2>2. 0 \in 0..m /\ \A p \in 1..m : p \in 0..m /\ p # 0 BY <1>1
  <2>. QED BY <2>1, <2>2
<1>13. \A p \in 0..m : ends[p] \in S
  <2> DEFINE Fine == {p \in 0..m : ends[p] \in S}
  <2>1. 0 \in Fine
    <3>1. 0 \in 0..m /\ ends[0] = {0} BY <1>1, <1>12
    <3>. QED BY <1>4, <3>1
  <2>2. ASSUME NEW p \in 0..m, p > 0, p - 1 \in Fine PROVE p \in Fine
    <3>1. p \in 1..m BY <1>1, <2>2
    <3>. QED BY <1>3, <1>12, <2>2, <3>1
  <2>. SUFFICES \A p \in 0..m : p \in Fine OBVIOUS
  <2>. HIDE DEF Fine
  <2>3. \A p \in 0..m : p > 0 /\ p - 1 \in Fine => p \in Fine BY <2>2
  <2>. QED BY <1>1, <2>1, <2>3, Upwards
<1>14. ends = [p \in 0..m |-> ends[p]] BY <1>11
<1>15. ends \in [0..m -> S] BY <1>13, <1>14
<1>16. ASSUME NEW p \in 1..m, NEW t \in 0..n
       PROVE  t \in ends[p] <=>
                IF pattern[p] = Governed!Star THEN \E k \in 0..t : k \in ends[p - 1]
                ELSE /\ t > 0 /\ t - 1 \in ends[p - 1]
                     /\ text[t] = pattern[p] \/ (glob /\ pattern[p] = Governed!Question)
  <2>1. p - 1 \in 0..m BY <1>1
  <2>2. ends[p - 1] \in S BY <1>13, <2>1
  <2>3. ends[p] = Next1(p, ends[p - 1]) BY <1>12
  <2>. QED BY <1>5, <2>2, <2>3
<1>17. AreEnds(ends, pattern, text, glob) BY <1>12, <1>16 DEF AreEnds, m, n
<1>. QED BY <1>2, <1>15, <1>17 DEF m, n, S

(* What the closed parts and the open one can stand for: the parts before    *)
(* the open one are placed as early as possible, and it ends the text.       *)
Matching(char, other, glob) == char = other \/ (glob /\ char = Governed!Question)
InBase(closed, t, text, glob) ==
  IF closed = <<>> THEN t = 0
  ELSE LET reached == Governed!PlaceAll(Tail(closed), text, 1 + Len(closed[1]), glob)
       IN Governed!Fits(closed[1], text, 1, glob) /\ reached # 0 /\ t + 1 >= reached
Covered(part, t, text, glob) ==
  /\ t >= Len(part.open) /\ InBase(part.closed, t - Len(part.open), text, glob)
  /\ Governed!Fits(part.open, text, t - Len(part.open) + 1, glob)

LEMMA CharStands ==
  ASSUME NEW T, NEW text \in Seq(T), NEW part \in Parts(T), NEW char \in T, NEW glob,
         char # Governed!Star, NEW t \in 0..Len(text)
  PROVE  Covered(SplitStep(part, char, Governed!Star), t, text, glob) <=>
           t > 0 /\ Covered(part, t - 1, text, glob) /\ Matching(char, text[t], glob)
<1> DEFINE L == Len(part.open)
           more == Append(part.open, char)
           base == InBase(part.closed, t - L - 1, text, glob)
<1>1. part.open \in Seq(T) /\ L \in Nat BY DEF Parts
<1>2. Len(more) = L + 1 /\ more[L + 1] = char /\ \A k \in 1..L : more[k] = part.open[k]
  BY <1>1
<1>3. SplitStep(part, char, Governed!Star) = [closed |-> part.closed, open |-> more]
  BY DEF SplitStep
<1>4. t - (L + 1) = t - L - 1 /\ (t - 1) - L = t - L - 1 BY <1>1
<1>5. Covered(SplitStep(part, char, Governed!Star), t, text, glob) <=>
        t >= L + 1 /\ base /\ Governed!Fits(more, text, t - L, glob)
  <2>1. t - (L + 1) + 1 = t - L BY <1>1
  <2>2. /\ SplitStep(part, char, Governed!Star).open = more
        /\ SplitStep(part, char, Governed!Star).closed = part.closed
    BY <1>3
  <2>. HIDE DEF L, more
  <2>. QED BY <1>2, <1>4, <2>1, <2>2 DEF Covered
<1>6. Covered(part, t - 1, text, glob) <=>
        t - 1 >= L /\ base /\ Governed!Fits(part.open, text, t - L, glob)
  <2>1. (t - 1) - L + 1 = t - L BY <1>1
  <2>. QED BY <1>4, <2>1 DEF Covered
<1>7. ASSUME t >= L + 1
      PROVE  Governed!Fits(more, text, t - L, glob) <=>
               Governed!Fits(part.open, text, t - L, glob) /\ Matching(char, text[t], glob)
  <2>1. t - L + (L + 1) <= Len(text) + 1 /\ t - L + L <= Len(text) + 1
    <3>1. Len(text) \in Nat /\ t \in Nat /\ t <= Len(text) OBVIOUS
    <3>2. L \in Nat BY <1>1
    <3>. HIDE DEF L
    <3>. QED BY <3>1, <3>2
  <2>2. t - L + (L + 1) - 1 = t BY <1>1
  <2>3. Governed!Fits(more, text, t - L, glob) <=>
          \A k \in 1..(L + 1) : Matching(more[k], text[t - L + k - 1], glob)
    BY <1>2, <2>1 DEF Governed!Fits, Matching
  <2>4. Governed!Fits(part.open, text, t - L, glob) <=>
          \A k \in 1..L : Matching(part.open[k], text[t - L + k - 1], glob)
    BY <2>1 DEF Governed!Fits, Matching
  <2>5. \A k \in 1..(L + 1) : k \in 1..L \/ k = L + 1 BY <1>1
  <2>6. L + 1 \in 1..(L + 1) /\ 1..L \subseteq 1..(L + 1) BY <1>1
  <2>. HIDE DEF L, more
  <2>. QED BY <1>2, <2>2, <2>3, <2>4, <2>5, <2>6
<1>8. t >= L + 1 <=> t > 0 /\ t - 1 >= L BY <1>1
<1>. HIDE DEF L, base, more
<1>. QED BY <1>5, <1>6, <1>7, <1>8

LEMMA TailAppends ==
  ASSUME NEW S, NEW list \in Seq(S), NEW x \in S, list # <<>>
  PROVE  /\ Append(list, x) # <<>> /\ Append(list, x)[1] = list[1] /\ list[1] \in S
         /\ Tail(Append(list, x)) = Append(Tail(list), x) /\ Tail(list) \in Seq(S)
<1>1. Len(list) \in Nat /\ Len(list) # 0 OBVIOUS
<1>2. Append(list, x) # <<>> /\ Append(list, x)[1] = list[1] /\ list[1] \in S BY <1>1
<1>. QED BY <1>2, HeadTailAppend, HeadTailProperties

LEMMA StarStands ==
  ASSUME NEW T, NEW text \in Seq(T), NEW part \in Parts(T), NEW glob, NEW t \in 0..Len(text)
  PROVE  Covered(SplitStep(part, Governed!Star, Governed!Star), t, text, glob) <=>
           \E k \in 0..t : Covered(part, k, text, glob)
<1> DEFINE n == Len(text)
           open == part.open
           closed == part.closed
           L == Len(open)
           more == Append(closed, open)
           Fit(s) == Governed!Fits(open, text, s, glob)
<1>1. open \in Seq(T) /\ closed \in Seq(Seq(T)) BY DEF Parts
<1>2. L \in Nat /\ n \in Nat BY <1>1
<1>3. SplitStep(part, Governed!Star, Governed!Star) = [closed |-> more, open |-> <<>>]
  BY DEF SplitStep
<1>4. Covered(SplitStep(part, Governed!Star, Governed!Star), t, text, glob) <=>
        InBase(more, t, text, glob)
  <2>1. Governed!Fits(<<>>, text, t + 1, glob) BY DEF Governed!Fits
  <2>2. Len(<<>>) = 0 /\ t >= 0 /\ t - 0 = t OBVIOUS
  <2>. HIDE DEF more
  <2>. QED BY <1>3, <2>1, <2>2 DEF Covered
<1>5. \A k \in Nat : Covered(part, k, text, glob) <=>
        k >= L /\ InBase(closed, k - L, text, glob) /\ Fit(k - L + 1)
  BY DEF Covered
<1>6. more # <<>> /\ Fit(1) => 1 + L <= n + 1 BY DEF Governed!Fits
<1>7. CASE closed = <<>>
  <2>1. more = <<open>> /\ more[1] = open /\ Tail(more) = <<>> /\ more # <<>> BY <1>1, <1>7
  <2>2. InBase(more, t, text, glob) <=>
          Fit(1) /\ Governed!PlaceAll(<<>>, text, 1 + L, glob) # 0
                 /\ t + 1 >= Governed!PlaceAll(<<>>, text, 1 + L, glob)
    BY <2>1 DEF InBase
  <2>3. Fit(1) => Governed!PlaceAll(<<>>, text, 1 + L, glob) = 1 + L
    <3> DEFINE none == Tail(more)
    <3>1. none \in Seq(Seq(T)) /\ none = <<>> /\ Len(none) = 0 BY <2>1
    <3>2. Fit(1) => 1 + L \in 0..(n + 1) BY <1>2, <1>6, <2>1
    <3>. SUFFICES ASSUME Fit(1) PROVE Governed!PlaceAll(<<>>, text, 1 + L, glob) = 1 + L
      OBVIOUS
    <3>3. 1 + L \in 0..(n + 1) BY <3>2
    <3> DEFINE start == 1 + L
    <3>4. start \in 0..(Len(text) + 1) BY <3>3
    <3>. HIDE DEF L, Fit, open, start, none
    <3>5. Governed!PlaceAll(none, text, start, glob) = start BY <3>1, <3>4, PlaceAllStarts
    <3>. QED BY <3>1, <3>5 DEF start
  <2>4. InBase(more, t, text, glob) <=> Fit(1) /\ t >= L BY <1>2, <2>2, <2>3
  <2>5. \A k \in Nat : InBase(closed, k - L, text, glob) <=> k - L = 0 BY <1>7 DEF InBase
  <2>6. (\E k \in 0..t : Covered(part, k, text, glob)) <=> Fit(1) /\ t >= L
    <3>1. \A k \in 0..t : k \in Nat BY <1>2
    <3>2. ASSUME NEW k \in 0..t, Covered(part, k, text, glob) PROVE Fit(1) /\ t >= L
      <4>1. k \in Nat /\ k <= t BY <1>2
      <4>2. k >= L /\ k - L = 0 /\ Fit(k - L + 1) BY <1>5, <2>5, <3>2, <4>1
      <4>3. k - L + 1 = 1 BY <4>2
      <4>. HIDE DEF L, Fit
      <4>. QED BY <1>2, <4>1, <4>2, <4>3
    <3>3. ASSUME Fit(1), t >= L PROVE \E k \in 0..t : Covered(part, k, text, glob)
      <4>1. L \in 0..t /\ L - L = 0 /\ L - L + 1 = 1 BY <1>2, <3>3
      <4>. HIDE DEF L, Fit, closed
      <4>2. InBase(closed, L - L, text, glob) BY <1>2, <2>5, <4>1
      <4>3. Fit(L - L + 1) BY <3>3, <4>1
      <4>4. L >= L BY <1>2
      <4>5. Covered(part, L, text, glob) BY <1>2, <1>5, <4>2, <4>3, <4>4
      <4>. QED BY <4>1, <4>5
    <3>. QED BY <3>2, <3>3
  <2>. QED BY <1>4, <2>4, <2>6
<1>8. CASE closed # <<>>
  <2> DEFINE first == closed[1]
             rest == Tail(closed)
             start == 1 + Len(first)
             reached == Governed!PlaceAll(rest, text, start, glob)
             begins == Governed!Fits(first, text, 1, glob)
  <2>1. /\ more # <<>> /\ more[1] = first /\ Tail(more) = Append(rest, open)
        /\ rest \in Seq(Seq(T)) /\ first \in Seq(T)
    <3>. HIDE DEF open, closed
    <3>. QED BY <1>1, <1>8, TailAppends, SMTT(20)
  <2>2. begins => start \in 1..(n + 1)
    <3>1. Len(first) \in Nat BY <2>1
    <3>. QED BY <3>1 DEF Governed!Fits
  <2>3. InBase(more, t, text, glob) <=>
          begins /\ Governed!PlaceAll(Append(rest, open), text, start, glob) # 0
                 /\ t + 1 >= Governed!PlaceAll(Append(rest, open), text, start, glob)
    BY <2>1 DEF InBase
  <2>4. \A k : InBase(closed, k, text, glob) <=> begins /\ reached # 0 /\ k + 1 >= reached
    BY <1>8 DEF InBase
  <2>5. ASSUME begins
        PROVE  /\ reached \in 0..(n + 1)
               /\ Governed!PlaceAll(Append(rest, open), text, start, glob)
                  = Governed!PlaceAfter(open, text, reached, glob)
    <3>1. start \in 0..(n + 1) BY <2>2, <2>5
    <3>. HIDE DEF rest, start, open
    <3>. QED BY <1>1, <2>1, <3>1, PlaceAllStarts, PlaceAllAppends
  <2>. HIDE DEF reached, begins, rest, start, first
  <2>6. ASSUME begins, reached # 0
        PROVE  InBase(more, t, text, glob) <=>
                 \E s \in 0..n : s + 1 >= reached /\ s + L <= t /\ Fit(s + 1)
    <3> DEFINE after == Governed!PlaceAfter(open, text, reached, glob)
    <3>1. InBase(more, t, text, glob) <=> after # 0 /\ t + 1 >= after BY <2>3, <2>5, <2>6
    <3>. HIDE DEF open
    <3>2. after # 0 /\ t + 1 >= after <=>
            \E s \in 0..n : s + 1 >= reached /\ s + L <= t /\ Fit(s + 1)
      BY <1>1, <2>5, <2>6, PlaceAfterIs
    <3>. QED BY <3>1, <3>2
  <2>7. begins /\ reached = 0 => ~InBase(more, t, text, glob)
    BY <1>1, <2>3, <2>5, PlaceAfterIs
  <2>. HIDE DEF Fit, L, closed, open, more, n
  <2>8. ASSUME NEW k \in 0..t, Covered(part, k, text, glob)
        PROVE  /\ begins /\ reached # 0
               /\ \E s \in 0..n : s + 1 >= reached /\ s + L <= t /\ Fit(s + 1)
    <3>1. k \in Nat /\ k <= t /\ t <= n /\ t \in Nat BY <1>2 DEF n
    <3>2. k >= L /\ begins /\ reached # 0 /\ (k - L) + 1 >= reached /\ Fit((k - L) + 1)
      BY <1>5, <2>4, <2>8, <3>1
    <3>3. k - L \in 0..n /\ (k - L) + L <= t BY <1>2, <3>1, <3>2
    <3>. QED BY <3>2, <3>3
  <2>9. ASSUME begins, reached # 0, NEW s \in 0..n, s + 1 >= reached, s + L <= t, Fit(s + 1)
        PROVE  \E k \in 0..t : Covered(part, k, text, glob)
    <3>1. s + L \in 0..t /\ s + L \in Nat /\ s + L >= L /\ (s + L) - L = s BY <1>2, <2>9
    <3>2. Covered(part, s + L, text, glob) BY <1>5, <2>4, <2>9, <3>1
    <3>. QED BY <3>1, <3>2
  <2>10. InBase(more, t, text, glob) => begins BY <2>3
  <2>. QED BY <1>4, <2>6, <2>7, <2>8, <2>9, <2>10
<1>. QED BY <1>7, <1>8

\* What the parts of a pattern's first characters say of these characters.
TellsStars(part, pattern, p) ==
  /\ part.closed = <<>> <=> \A i \in 1..p : pattern[i] # Governed!Star
  /\ part.closed = <<>> => /\ Len(part.open) = p
                           /\ \A i \in 1..p : part.open[i] = pattern[i]
  /\ p > 0 /\ pattern[1] = Governed!Star => part.closed[1] = <<>>
  /\ p > 0 /\ pattern[p] = Governed!Star => part.open = <<>>

LEMMA CharTells ==
  ASSUME NEW T, NEW pattern \in Seq(T), NEW part \in Parts(T), NEW p \in 1..Len(pattern),
         TellsStars(part, pattern, p - 1)
  PROVE  TellsStars(SplitStep(part, pattern[p], Governed!Star), pattern, p)
<1> DEFINE char == pattern[p]
           next == SplitStep(part, char, Governed!Star)
<1>1. part.closed \in Seq(Seq(T)) /\ part.open \in Seq(T) BY DEF Parts
<1>2. p \in Nat /\ p > 0 /\ \A i \in 1..p : i \in 1..(p - 1) \/ i = p OBVIOUS
<1>. SUFFICES TellsStars(next, pattern, p) OBVIOUS
<1>3. CASE char = Governed!Star
  <2>1. next.closed = Append(part.closed, part.open) /\ next.open = <<>>
    BY <1>3 DEF SplitStep
  <2>2. next.closed # <<>>
    <3>1. Len(next.closed) = Len(part.closed) + 1 BY <1>1, <2>1
    <3>. QED BY <1>1, <3>1
  <2>3. ~\A i \in 1..p : pattern[i] # Governed!Star BY <1>2, <1>3
  <2>4. ASSUME pattern[1] = Governed!Star PROVE next.closed[1] = <<>>
    <3>1. CASE p = 1
      <4>1. part.closed = <<>> /\ Len(part.open) = 0 BY <3>1 DEF TellsStars
      <4>2. part.open = <<>> BY <1>1, <4>1
      <4>. QED BY <1>1, <2>1, <4>1, <4>2
    <3>2. CASE p # 1
      <4>1. p - 1 > 0 /\ 1 \in 1..(p - 1) BY <3>2
      <4>2. part.closed[1] = <<>> /\ part.closed # <<>> BY <2>4, <4>1 DEF TellsStars
      <4>3. next.closed[1] = part.closed[1] BY <1>1, <2>1, <4>2
      <4>. QED BY <4>2, <4>3
    <3>. QED BY <3>1, <3>2
  <2>. HIDE DEF next
  <2>. QED BY <2>1, <2>2, <2>3, <2>4 DEF TellsStars
<1>4. CASE char # Governed!Star
  <2>1. next.closed = part.closed /\ next.open = Append(part.open, char)
    BY <1>4 DEF SplitStep
  <2>2. part.closed = <<>> <=> \A i \in 1..p : pattern[i] # Governed!Star
    BY <1>2, <1>4 DEF TellsStars
  <2>3. ASSUME part.closed = <<>>
        PROVE  Len(next.open) = p /\ \A i \in 1..p : next.open[i] = pattern[i]
    <3>1. Len(part.open) = p - 1 /\ \A i \in 1..(p - 1) : part.open[i] = pattern[i]
      BY <2>3 DEF TellsStars
    <3>2. /\ Len(next.open) = p /\ next.open[p] = char
          /\ \A i \in 1..(p - 1) : next.open[i] = part.open[i]
      BY <1>1, <1>2, <2>1, <3>1
    <3>. QED BY <1>2, <3>1, <3>2
  <2>4. ASSUME pattern[1] = Governed!Star PROVE part.closed[1] = <<>>
    <3>1. p # 1 BY <1>4, <2>4
    <3>2. p - 1 > 0 BY <3>1
    <3>. QED BY <2>4, <3>2 DEF TellsStars
  <2>. HIDE DEF next
  <2>. QED BY <1>4, <2>1, <2>2, <2>3, <2>4 DEF TellsStars
<1>. QED BY <1>3, <1>4

(* However far the walk has come, what its parts can stand for is what the   *)
(* characters before can stand for.                                          *)
LEMMA PatternStands ==
  ASSUME NEW T, NEW pattern \in Seq(T), NEW text \in Seq(T), NEW glob
  PROVE  \E part \in Parts(T) :
           /\ Governed!Segments(pattern) = Append(part.closed, part.open)
           /\ TellsStars(part, pattern, Len(pattern))
           /\ Governed!Stands(pattern, text, glob) <=> Covered(part, Len(text), text, glob)
<1> DEFINE m == Len(pattern)
           n == Len(text)
<1>1. m \in Nat /\ n \in Nat /\ \A p \in 1..m : pattern[p] \in T OBVIOUS
<1>2. PICK w \in [0..m -> Parts(T)] :
        /\ IsSplit(w, pattern, Governed!Star)
        /\ Governed!Split(pattern, Governed!Star) = Append(w[m].closed, w[m].open)
  BY <1>1, SplitIs
<1>3. PICK ends \in [0..m -> SUBSET (0..n)] :
        /\ AreEnds(ends, pattern, text, glob)
        /\ Governed!Stands(pattern, text, glob) <=> n \in ends[m]
  BY StandsIs
<1>4. /\ w[0] = [closed |-> <<>>, open |-> <<>>]
      /\ \A p \in 1..m : w[p] = SplitStep(w[p - 1], pattern[p], Governed!Star)
  BY <1>2 DEF IsSplit
<1>5. \A t \in 0..n :
        /\ t \in ends[0] <=> t = 0
        /\ \A p \in 1..m :
             t \in ends[p] <=>
               IF pattern[p] = Governed!Star THEN \E k \in 0..t : k \in ends[p - 1]
               ELSE t > 0 /\ t - 1 \in ends[p - 1] /\ Matching(pattern[p], text[t], glob)
  <2>1. \A p \in 1..m, t \in 0..n :
          /\ text[t] = pattern[p] \/ (glob /\ pattern[p] = Governed!Question)
          <=> Matching(pattern[p], text[t], glob)
    BY DEF Matching
  <2>. QED BY <1>3, <2>1 DEF AreEnds
<1> DEFINE Good(p) == /\ TellsStars(w[p], pattern, p)
                      /\ \A t \in 0..n : t \in ends[p] <=> Covered(w[p], t, text, glob)
<1>6. Good(0)
  <2>1. w[0].open = <<>> /\ w[0].closed = <<>> /\ Len(<<>>) = 0 BY <1>4
  <2>2. TellsStars(w[0], pattern, 0) BY <2>1 DEF TellsStars
  <2>3. ASSUME NEW t \in 0..n PROVE Covered(w[0], t, text, glob) <=> t = 0
    <3>1. t >= 0 /\ t - 0 = t /\ t + 0 <= n BY <1>1
    <3>2. Governed!Fits(<<>>, text, t - 0 + 1, glob) BY <1>1 DEF Governed!Fits
    <3>3. Covered(w[0], t, text, glob) <=> InBase(<<>>, t - 0, text, glob)
      BY <2>1, <3>1, <3>2 DEF Covered
    <3>. QED BY <3>1, <3>3 DEF InBase
  <2>. QED BY <1>5, <2>2, <2>3
<1>7. ASSUME NEW p \in 1..m, Good(p - 1) PROVE Good(p)
  <2>1. p - 1 \in 0..m /\ p - 1 \in Nat BY <1>1
  <2>2. w[p - 1] \in Parts(T) /\ pattern[p] \in T BY <1>1, <2>1
  <2>3. w[p] = SplitStep(w[p - 1], pattern[p], Governed!Star) BY <1>4
  <2>4. TellsStars(w[p], pattern, p) BY <1>7, <2>2, <2>3, CharTells
  <2>5. ASSUME NEW t \in 0..n, pattern[p] = Governed!Star
        PROVE  t \in ends[p] <=> Covered(w[p], t, text, glob)
    <3>1. t \in ends[p] <=> \E k \in 0..t : k \in ends[p - 1] BY <1>5, <2>5
    <3>2. \A k \in 0..t : k \in 0..n BY <1>1
    <3>3. Covered(w[p], t, text, glob) <=> \E k \in 0..t : Covered(w[p - 1], k, text, glob)
      BY <2>2, <2>3, <2>5, StarStands
    <3>. QED BY <1>7, <3>1, <3>2, <3>3
  <2>6. ASSUME NEW t \in 0..n, pattern[p] # Governed!Star
        PROVE  t \in ends[p] <=> Covered(w[p], t, text, glob)
    <3>1. t \in ends[p] <=>
            t > 0 /\ t - 1 \in ends[p - 1] /\ Matching(pattern[p], text[t], glob)
      BY <1>5, <2>6
    <3>2. Covered(w[p], t, text, glob) <=>
            t > 0 /\ Covered(w[p - 1], t - 1, text, glob) /\ Matching(pattern[p], text[t], glob)
      BY <2>2, <2>3, <2>6, CharStands
    <3>3. t > 0 => t - 1 \in 0..n BY <1>1
    <3>. QED BY <1>7, <3>1, <3>2, <3>3
  <2>. QED BY <2>4, <2>5, <2>6
<1>. HIDE DEF m
<1>8. \A p \in 0..m : Good(p)
  <2> DEFINE Fine == {p \in 0..m : Good(p)}
  <2>. HIDE DEF Good
  <2>1. 0 \in Fine BY <1>1, <1>6
  <2>2. ASSUME NEW p \in 0..m, p > 0, p - 1 \in Fine PROVE p \in Fine
    <3>1. p \in 1..m BY <1>1, <2>2
    <3>. QED BY <1>7, <2>2, <3>1
  <2>. SUFFICES \A p \in 0..m : p \in Fine OBVIOUS
  <2>. HIDE DEF Fine
  <2>3. \A p \in 0..m : p > 0 /\ p - 1 \in Fine => p \in Fine BY <2>2
  <2>. QED BY <1>1, <2>1, <2>3, Upwards
<1>9. Good(m) /\ n \in 0..n /\ m \in 0..m BY <1>1, <1>8
<1>10. w[m] \in Parts(T) BY <1>9
<1>. QED BY <1>2, <1>3, <1>9, <1>10 DEF Governed!Segments, m

LEMMA AppendEnds ==
  ASSUME NEW S, NEW list \in Seq(S), NEW x \in S
  PROVE  /\ Len(Append(list, x)) = Len(list) + 1
         /\ Governed!Last(Append(list, x)) = x /\ Governed!Front(Append(list, x)) = list
         /\ list = <<>> => Append(list, x)[1] = x
         /\ list # <<>> => /\ Append(list, x)[1] = list[1]
                           /\ Tail(Append(list, x)) = Append(Tail(list), x)
<1> DEFINE more == Append(list, x)
<1>1. /\ more \in Seq(S) /\ Len(more) = Len(list) + 1 /\ more[Len(list) + 1] = x
      /\ Len(list) \in Nat /\ \A i \in 1..Len(list) : more[i] = list[i]
  OBVIOUS
<1>2. SubSeq(more, 1, Len(list) + 1 - 1) = list
  <2>1. Len(list) + 1 - 1 = Len(list) BY <1>1
  <2>2. SubSeq(more, 1, Len(list)) \in Seq(S) /\ Len(SubSeq(more, 1, Len(list))) = Len(list)
        /\ \A i \in 1..Len(list) : SubSeq(more, 1, Len(list))[i] = list[i]
    BY <1>1
  <2>3. SubSeq(more, 1, Len(list)) = list BY <2>2, SeqEqual
  <2>. QED BY <2>1, <2>3
<1>3. list = <<>> => more[1] = x BY <1>1
<1>. HIDE DEF more
<1>. QED BY <1>1, <1>2, <1>3, TailAppends DEF Governed!Last, Governed!Front, more

LEMMA GlobIsExact ==
  ASSUME NEW T, NEW pattern \in Seq(T), NEW text \in Seq(T)
  PROVE  Governed!MatchGlob(pattern, text) <=> Governed!Stands(pattern, text, TRUE)
<1> DEFINE n == Len(text)
<1>1. PICK part \in Parts(T) :
        /\ Governed!Segments(pattern) = Append(part.closed, part.open)
        /\ Governed!Stands(pattern, text, TRUE) <=> Covered(part, n, text, TRUE)
  BY PatternStands
<1> DEFINE closed == part.closed
           end == part.open
           segments == Governed!Segments(pattern)
           L == Len(end)
           Ends == Governed!Fits(end, text, n - L + 1, TRUE)
<1>2. closed \in Seq(Seq(T)) /\ end \in Seq(T) /\ L \in Nat /\ n \in Nat BY DEF Parts
<1>3. /\ Len(segments) = Len(closed) + 1
      /\ Governed!Last(segments) = end /\ Governed!Front(segments) = closed
      /\ closed = <<>> => segments[1] = end
      /\ closed # <<>> => segments[1] = closed[1]
  <2>1. segments = Append(closed, end) BY <1>1
  <2>. HIDE DEF closed, end, segments
  <2>. QED BY <1>2, <2>1, AppendEnds
<1>4. closed = <<>> <=> Len(segments) = 1
  <2>1. Len(closed) \in Nat /\ (closed = <<>> <=> Len(closed) = 0) BY <1>2
  <2>. QED BY <1>3, <2>1
<1>5. Covered(part, n, text, TRUE) <=> n >= L /\ InBase(closed, n - L, text, TRUE) /\ Ends
  BY DEF Covered
<1>. HIDE DEF segments, closed, end, L, n
<1>6. CASE closed = <<>>
  <2>1. InBase(closed, n - L, text, TRUE) <=> n - L = 0 BY <1>6 DEF InBase
  <2>2. n >= L /\ n - L = 0 <=> L = n BY <1>2
  <2>3. L = n => n - L + 1 = 1 BY <1>2
  <2>4. Governed!MatchGlob(pattern, text) <=> L = n /\ Governed!Fits(end, text, 1, TRUE)
    BY <1>3, <1>4, <1>6 DEF Governed!MatchGlob, segments, L, n
  <2>. QED BY <1>1, <1>5, <2>1, <2>2, <2>3, <2>4
<1>7. CASE closed # <<>>
  <2> DEFINE reached == Governed!PlaceAll(Tail(closed), text, 1 + Len(closed[1]), TRUE)
             begins == Governed!Fits(closed[1], text, 1, TRUE)
  <2>1. InBase(closed, n - L, text, TRUE) <=> begins /\ reached # 0 /\ n - L + 1 >= reached
    BY <1>7 DEF InBase
  <2>2. Governed!EndsWith(text, end, TRUE) <=> L <= n /\ Ends
    BY DEF Governed!EndsWith, L, n
  <2>3. Governed!MatchGlob(pattern, text) <=>
          /\ begins /\ reached # 0
          /\ end # <<>> => n + 1 - reached >= L /\ L <= n /\ Ends
    BY <1>3, <1>4, <1>7, <2>2 DEF Governed!MatchGlob, segments, L, n
  <2>4. begins => reached \in 0..(n + 1)
    <3>1. closed[1] \in Seq(T) /\ Tail(closed) \in Seq(Seq(T)) BY <1>2, <1>7
    <3>2. begins => 1 + Len(closed[1]) \in 0..(n + 1) BY <1>2, <3>1 DEF Governed!Fits, n
    <3>. QED BY <3>1, <3>2, PlaceAllStarts DEF n
  <2>5. end = <<>> => L = 0 /\ Ends BY <1>2 DEF Governed!Fits, L, n
  <2>. HIDE DEF reached, begins, Ends
  <2>6. ASSUME begins
        PROVE  /\ n >= L /\ n - L + 1 >= reached <=> n + 1 - reached >= L /\ L <= n
               /\ L = 0 => n >= L /\ n - L + 1 >= reached
    <3>1. reached \in Int /\ reached <= n + 1 BY <1>2, <2>4, <2>6
    <3>. QED BY <1>2, <3>1
  <2>. QED BY <1>1, <1>5, <2>1, <2>3, <2>5, <2>6
<1>. QED BY <1>6, <1>7

LEMMA PatternIsExact ==
  ASSUME NEW T, NEW pattern \in Seq(T), NEW text \in Seq(T), pattern # <<>>
  PROVE  Governed!MatchPattern(pattern, text) <=> Governed!Stands(pattern, text, FALSE)
<1> DEFINE m == Len(pattern)
           n == Len(text)
<1>1. PICK part \in Parts(T) :
        /\ Governed!Segments(pattern) = Append(part.closed, part.open)
        /\ TellsStars(part, pattern, m)
        /\ Governed!Stands(pattern, text, FALSE) <=> Covered(part, n, text, FALSE)
  BY PatternStands
<1> DEFINE closed == part.closed
           end == part.open
           segments == Governed!Segments(pattern)
           L == Len(end)
           Ends == Governed!Fits(end, text, n - L + 1, FALSE)
<1>2. closed \in Seq(Seq(T)) /\ end \in Seq(T) /\ L \in Nat /\ n \in Nat /\ m \in Nat /\ m > 0
  BY DEF Parts
<1>3. /\ Len(segments) = Len(closed) + 1 /\ Governed!Last(segments) = end
      /\ closed # <<>> => segments[1] = closed[1] /\ Tail(segments) = Append(Tail(closed), end)
  <2>1. segments = Append(closed, end) BY <1>1
  <2>. HIDE DEF closed, end, segments
  <2>. QED BY <1>2, <2>1, AppendEnds
<1>4. closed = <<>> <=> ~Governed!Contains(pattern, Governed!Star)
  BY <1>1 DEF TellsStars, Governed!Contains
<1>5. /\ closed = <<>> => L = m /\ \A i \in 1..m : end[i] = pattern[i]
      /\ pattern[1] = Governed!Star => closed[1] = <<>>
      /\ Governed!Last(pattern) = Governed!Star => end = <<>>
  BY <1>1, <1>2 DEF TellsStars, Governed!Last
<1>6. Covered(part, n, text, FALSE) <=> n >= L /\ InBase(closed, n - L, text, FALSE) /\ Ends
  BY DEF Covered
<1>7. \A spot : Governed!Fits(end, text, spot, FALSE) <=>
                spot + L <= n + 1 /\ \A k \in 1..L : end[k] = text[spot + k - 1]
  BY DEF Governed!Fits
<1>. HIDE DEF segments, closed, end, L, n
<1>8. CASE closed = <<>>
  <2>1. InBase(closed, n - L, text, FALSE) <=> n - L = 0 BY <1>8 DEF InBase
  <2>2. end = pattern
    <3>1. Len(end) = Len(pattern) /\ \A i \in 1..Len(end) : end[i] = pattern[i]
      BY <1>5, <1>8 DEF L
    <3>. QED BY <1>2, <3>1, SeqEqual
  <2>3. Governed!MatchPattern(pattern, text) <=> end = text
    BY <1>4, <1>8, <2>2 DEF Governed!MatchPattern
  <2>4. ASSUME end = text PROVE n >= L /\ n - L = 0 /\ Ends
    <3>1. n = L BY <2>4 DEF n, L
    <3>2. n - L + 1 = 1 /\ 1 + L <= n + 1 /\ \A k \in 1..L : 1 + k - 1 = k BY <1>2, <3>1
    <3>3. Ends BY <1>7, <2>4, <3>2
    <3>. HIDE DEF Ends
    <3>. QED BY <1>2, <3>1, <3>3
  <2>5. ASSUME n >= L, n - L = 0, Ends PROVE end = text
    <3>1. n = L /\ n - L + 1 = 1 /\ \A k \in 1..L : 1 + k - 1 = k BY <1>2, <2>5
    <3>2. \A k \in 1..L : end[k] = text[k]
      <4>1. Governed!Fits(end, text, 1, FALSE) BY <2>5, <3>1
      <4>2. \A k \in 1..L : end[k] = text[1 + k - 1] BY <1>7, <4>1
      <4>. QED BY <3>1, <4>2
    <3>3. Len(end) = Len(text) /\ \A k \in 1..Len(end) : end[k] = text[k] BY <3>1, <3>2 DEF n, L
    <3>. QED BY <1>2, <3>3, SeqEqual
  <2>. HIDE DEF Ends
  <2>. QED BY <1>1, <1>6, <2>1, <2>3, <2>4, <2>5 DEF n
<1>9. CASE closed # <<>>
  <2> DEFINE rest == Tail(closed)
             start == 1 + Len(closed[1])
             reached == Governed!PlaceAll(rest, text, start, FALSE)
             last == Governed!PlaceAfter(end, text, reached, FALSE)
             begins == Governed!Fits(closed[1], text, 1, FALSE)
             StarAt(i) == pattern[i] = Governed!Star
  <2>1. InBase(closed, n - L, text, FALSE) <=> begins /\ reached # 0 /\ n - L + 1 >= reached
    BY <1>9 DEF InBase
  <2>2. closed[1] \in Seq(T) /\ rest \in Seq(Seq(T)) BY <1>2, <1>9
  <2>3. begins => start \in 0..(n + 1) BY <1>2, <2>2 DEF Governed!Fits, n
  <2>4. begins => /\ reached \in 0..(n + 1)
                  /\ Governed!PlaceAll(Append(rest, end), text, start, FALSE) = last
    <3>. SUFFICES ASSUME begins
                  PROVE  /\ reached \in 0..(n + 1)
                         /\ Governed!PlaceAll(Append(rest, end), text, start, FALSE) = last
      OBVIOUS
    <3>1. start \in 0..(Len(text) + 1) BY <2>3 DEF n
    <3>2. end \in Seq(T) /\ rest \in Seq(Seq(T)) BY <1>2, <2>2
    <3>. HIDE DEF begins, rest, start
    <3>3. reached \in 0..(Len(text) + 1) BY <3>1, <3>2, PlaceAllStarts
    <3>4. Governed!PlaceAll(Append(rest, end), text, start, FALSE) = last
      BY <3>1, <3>2, PlaceAllAppends, ZenonT(60)
    <3>. QED BY <3>3, <3>4 DEF n
  <2>5. pattern[1] = Governed!Star => closed[1] = <<>> /\ start = 1 /\ begins
    BY <1>2, <1>5 DEF Governed!Fits, n
  <2>6. Governed!MatchPattern(pattern, text) <=>
          /\ begins
          /\ Governed!PlaceAll(Append(rest, end), text, start, FALSE) # 0
          /\ Governed!Last(pattern) # Governed!Star => Governed!EndsWith(text, end, FALSE)
    <3>1. /\ segments[1] = closed[1] /\ Tail(segments) = Append(rest, end)
          /\ Governed!Last(segments) = end
      BY <1>3, <1>9
    <3>2. Governed!Contains(pattern, Governed!Star) BY <1>4, <1>9
    <3>. HIDE DEF begins, rest
    <3>. QED BY <2>5, <3>1, <3>2 DEF Governed!MatchPattern, segments, begins
  <2>7. Governed!EndsWith(text, end, FALSE) <=> L <= n /\ Ends
    BY DEF Governed!EndsWith, L, n
  <2>8. ASSUME begins, reached # 0, last # 0, L <= n, Ends PROVE n - L + 1 >= reached
    <3>1. reached \in 0..(n + 1) BY <2>4, <2>8
    <3>2. last \in 0..(n + 1)
      <4>. HIDE DEF reached
      <4>. QED BY <1>2, <3>1, PlaceAfterIs DEF n
    <3>3. n \in 0..n /\ n + 1 >= last
      <4>. HIDE DEF last
      <4>. QED BY <1>2, <3>2
    <3>4. \E s \in 0..n : s + 1 >= reached /\ s + L <= n
      <4>. HIDE DEF reached
      <4>. QED BY <1>2, <2>8, <3>1, <3>3, PlaceAfterIs DEF n, L
    <3>. HIDE DEF reached
    <3>. QED BY <1>2, <3>1, <3>4
  <2>9. ASSUME begins, reached # 0, L <= n, Ends, n - L + 1 >= reached PROVE last # 0
    <3>1. reached \in 0..(n + 1) BY <2>4, <2>9
    <3>2. n - L \in 0..n /\ (n - L) + L <= n /\ n \in 0..n BY <1>2, <2>9
    <3>. HIDE DEF reached
    <3>3. \E s \in 0..n : /\ s + 1 >= reached /\ s + L <= n
                          /\ Governed!Fits(end, text, s + 1, FALSE)
      BY <2>9, <3>2
    <3>. QED BY <1>2, <2>9, <3>1, <3>2, <3>3, PlaceAfterIs DEF n, L
  <2>10. begins /\ reached = 0 => last = 0 BY DEF Governed!PlaceAfter
  <2>11. ASSUME begins, reached # 0, end = <<>>
         PROVE  last # 0 /\ L = 0 /\ n >= L /\ Ends /\ n - L + 1 >= reached
    <3>1. reached \in 0..(n + 1) BY <2>4, <2>11
    <3>2. L = 0 /\ n - L + 1 = n + 1 BY <1>2, <2>11 DEF L
    <3>3. n + 1 + L <= n + 1 /\ \A k \in 1..L : end[k] = text[n + 1 + k - 1] BY <1>2, <3>2
    <3>4. Ends BY <1>7, <3>2, <3>3
    <3>5. last = reached BY <2>11 DEF Governed!PlaceAfter
    <3>. HIDE DEF reached, last, Ends
    <3>. QED BY <1>2, <2>11, <3>1, <3>2, <3>4, <3>5
  <2>12. n >= L <=> L <= n BY <1>2
  <2>. HIDE DEF reached, last, begins, Ends, rest
  <2>. QED BY <1>1, <1>5, <1>6, <2>1, <2>4, <2>6, <2>7, <2>8, <2>9, <2>10, <2>11, <2>12 DEF n
<1>. QED BY <1>8, <1>9

(* A pattern has finitely many segments, so its specificity is a number.     *)
LEMMA PatternIsRanked ==
  ASSUME NEW pattern, Len(pattern) \in Nat
  PROVE  Governed!Specificity(pattern) \in Nat
<1> DEFINE segments == Governed!Split(pattern, ".")
           literal == {k \in DOMAIN segments : ~Governed!Contains(segments[k], Governed!Star)}
           partial == {k \in DOMAIN segments : /\ Governed!Contains(segments[k], Governed!Star)
                                               /\ segments[k] # <<Governed!Star>>}
           T == {pattern[i] : i \in 1..Len(pattern)}
<1>1. \A S : Governed!Cardinality(S) = Cardinality(S) BY DEF Governed!Cardinality, Cardinality
<1>2. PICK w \in [0..Len(pattern) -> Parts(T)] :
             segments = Append(w[Len(pattern)].closed, w[Len(pattern)].open)
  <2>1. \A i \in 1..Len(pattern) : pattern[i] \in T OBVIOUS
  <2>. HIDE DEF T
  <2>. QED BY <2>1, SplitIs
<1>3. segments \in Seq(Seq(T))
  <2>. HIDE DEF segments, T
  <2>1. w[Len(pattern)] \in Parts(T) OBVIOUS
  <2>. QED BY <1>2, <2>1 DEF Parts
<1>4. DOMAIN segments = 1..Len(segments) /\ Len(segments) \in Nat
  <2>. HIDE DEF segments, T
  <2>. QED BY <1>3
<1>5. IsFiniteSet(DOMAIN segments) BY <1>4, FS_Interval
<1>. HIDE DEF segments
<1>6. literal \in SUBSET DOMAIN segments /\ partial \in SUBSET DOMAIN segments OBVIOUS
<1>. HIDE DEF literal, partial
<1>7. Cardinality(literal) \in Nat /\ Cardinality(partial) \in Nat
  BY <1>5, <1>6, FS_Subset, FS_CardinalityType
<1>8. \/ Governed!Specificity(pattern) = 0
      \/ Governed!Specificity(pattern) = 2 * Cardinality(literal) + Cardinality(partial)
  BY <1>1 DEF Governed!Specificity, segments, literal, partial
<1>. QED BY <1>7, <1>8

LEMMA RuleIsRanked ==
  ASSUME NEW rule
  PROVE  Governed!Restrictiveness(rule) \in 0..3
<1> DEFINE Approves == rule.requires_approval = TRUE
           Destroys == rule.destructive = TRUE
<1>1. Governed!Restrictiveness(rule) = (IF Approves THEN 2 ELSE 0) + (IF Destroys THEN 1 ELSE 0)
  BY DEF Governed!Restrictiveness
<1>. HIDE DEF Approves, Destroys
<1>. QED BY <1>1

\* A rule demands at least what a less restrictive one demands.
LEMMA RestrictiveDemands ==
  ASSUME NEW rule, NEW other, Governed!Restrictiveness(rule) <= Governed!Restrictiveness(other)
  PROVE  /\ rule.requires_approval = TRUE => other.requires_approval = TRUE
         /\ rule.destructive = TRUE => other.requires_approval = TRUE \/ other.destructive = TRUE
<1> DEFINE Approves(r) == r.requires_approval = TRUE
           Destroys(r) == r.destructive = TRUE
<1>1. \A r : Governed!Restrictiveness(r)
             = (IF Approves(r) THEN 2 ELSE 0) + (IF Destroys(r) THEN 1 ELSE 0)
  BY DEF Governed!Restrictiveness
<1>. HIDE DEF Approves, Destroys
<1>2. /\ Approves(rule) => Approves(other)
      /\ Destroys(rule) => Approves(other) \/ Destroys(other)
  BY <1>1
<1>. QED BY <1>2 DEF Approves, Destroys

(* Rules are ordered by two numbers, so what an outranked rule does not      *)
(* outrank, the better one does not outrank either.                          *)
Ranked(rule) == /\ Governed!Specificity(rule.pattern) \in Nat
                /\ Governed!Restrictiveness(rule) \in 0..3
LEMMA OutranksOrders ==
  ASSUME NEW a, NEW b, NEW c, Ranked(a), Ranked(b), Ranked(c)
  PROVE  /\ ~Governed!Outranks(a, a)
         /\ ~Governed!Outranks(a, b) /\ Governed!Outranks(c, b) => ~Governed!Outranks(a, c)
BY DEF Ranked, Governed!Outranks

(* The walk over the rules ends at one that none of those that match         *)
(* outranks, and at none only if none matches.                               *)
LEMMA MatchIsBest ==
  ASSUME NEW list, NEW id, Len(list) \in Nat, \A n \in 1..Len(list) : Ranked(list[n])
  PROVE  LET matched == Governed!Match(list, id)
             Matches(n) == Governed!MatchPattern(list[n].pattern, id)
         IN /\ matched \in 0..Len(list)
            /\ matched = 0 => \A n \in 1..Len(list) : ~Matches(n)
            /\ matched # 0 => /\ Matches(matched)
                              /\ \A n \in 1..Len(list) :
                                   Matches(n) => ~Governed!Outranks(list[n], list[matched])
<1> DEFINE L == Len(list)
           Matches(n) == Governed!MatchPattern(list[n].pattern, id)
           After(b, n) == IF Matches(n) /\ (b = 0 \/ Governed!Outranks(list[n], list[b]))
                          THEN n ELSE b
           IsBest(f, m) == f = [n \in 0..m |-> IF n = 0 THEN 0 ELSE After(f[n - 1], n)]
           Reached == {m \in 0..L : \E f : IsBest(f, m)}
           Good(b, m) == /\ b \in 0..m
                         /\ b = 0 => \A n \in 1..m : ~Matches(n)
                         /\ b # 0 => /\ Matches(b)
                                     /\ \A n \in 1..m :
                                          Matches(n) => ~Governed!Outranks(list[n], list[b])
<1>1. Governed!Match(list, id) = (CHOOSE f : IsBest(f, L))[L] BY DEF Governed!Match
<1>. HIDE DEF Matches
<1>2. ASSUME NEW m \in 1..L, NEW b, Good(b, m - 1) PROVE Good(After(b, m), m)
  <2>1. CASE ~Matches(m)
    <3>1. After(b, m) = b BY <2>1
    <3>2. \A n \in 1..m : n \in 1..(m - 1) \/ n = m OBVIOUS
    <3>. QED BY <1>2, <2>1, <3>1, <3>2
  <2>2. CASE Matches(m) /\ b = 0
    <3>1. After(b, m) = m BY <2>2
    <3>2. \A n \in 1..m : n \in 1..(m - 1) \/ n = m OBVIOUS
    <3>3. ~Governed!Outranks(list[m], list[m]) BY OutranksOrders
    <3>. QED BY <1>2, <2>2, <3>1, <3>2, <3>3
  <2>3. CASE Matches(m) /\ b # 0 /\ ~Governed!Outranks(list[m], list[b])
    <3>1. After(b, m) = b BY <2>3
    <3>2. \A n \in 1..m : n \in 1..(m - 1) \/ n = m OBVIOUS
    <3>. QED BY <1>2, <2>3, <3>1, <3>2
  <2>4. CASE Matches(m) /\ b # 0 /\ Governed!Outranks(list[m], list[b])
    <3>1. After(b, m) = m BY <2>4
    <3>2. \A n \in 1..m : n \in 1..(m - 1) \/ n = m OBVIOUS
    <3>3. ~Governed!Outranks(list[m], list[m]) BY OutranksOrders
    <3>4. ASSUME NEW n \in 1..(m - 1), Matches(n) PROVE ~Governed!Outranks(list[n], list[m])
      <4>1. ~Governed!Outranks(list[n], list[b]) BY <1>2, <2>4, <3>4
      <4>2. Ranked(list[n]) /\ Ranked(list[m]) /\ Ranked(list[b]) BY <1>2, <2>4
      <4>. QED BY <2>4, <4>1, <4>2, OutranksOrders
    <3>. QED BY <2>4, <3>1, <3>2, <3>3, <3>4
  <2>. QED BY <2>1, <2>2, <2>3, <2>4
<1>3. Good(0, 0) OBVIOUS
<1>4. L \in Nat OBVIOUS
<1>. HIDE DEF After, Good, L
<1>5. 0 \in Reached
  <2> DEFINE f == [n \in 0..0 |-> 0]
  <2>1. f = [n \in 0..0 |-> IF n = 0 THEN 0 ELSE After(f[n - 1], n)] OBVIOUS
  <2>2. IsBest(f, 0) BY <2>1
  <2>. HIDE DEF f, IsBest
  <2>3. \E g : IsBest(g, 0) BY <2>2
  <2>. QED BY <1>4, <2>3
<1>6. ASSUME NEW k \in 0..L, k > 0, k - 1 \in Reached PROVE k \in Reached
  <2>1. PICK f : IsBest(f, k - 1) BY <1>6
  <2> DEFINE g == [n \in 0..k |-> IF n = k THEN After(f[k - 1], k) ELSE f[n]]
  <2>2. \A n \in 0..(k - 1) : f[n] = IF n = 0 THEN 0 ELSE After(f[n - 1], n) BY <2>1
  <2>3. ASSUME NEW n \in 0..k PROVE g[n] = IF n = 0 THEN 0 ELSE After(g[n - 1], n)
    <3>1. CASE n = k
      <4>1. g[n] = After(f[k - 1], k) BY <3>1
      <4>2. g[n - 1] = f[k - 1] BY <1>4, <1>6, <3>1
      <4>. QED BY <1>6, <3>1, <4>1, <4>2
    <3>2. CASE n # k
      <4>1. n \in 0..(k - 1) /\ g[n] = f[n] BY <1>4, <2>3, <3>2
      <4>2. n # 0 => g[n - 1] = f[n - 1] BY <1>4, <2>3, <3>2
      <4>. QED BY <2>2, <4>1, <4>2
    <3>. QED BY <3>1, <3>2
  <2>4. IsBest(g, k)
    <3>1. g = [n \in 0..k |-> g[n]] OBVIOUS
    <3>. HIDE DEF g
    <3>. QED BY <2>3, <3>1
  <2>. QED BY <2>4
<1>7. PICK f : IsBest(f, L)
  <2>. HIDE DEF IsBest
  <2>1. L \in Reached
    <3>. HIDE DEF Reached
    <3>1. \A k \in 0..L : k > 0 /\ k - 1 \in Reached => k \in Reached BY <1>6
    <3>2. \A k \in 0..L : k \in Reached BY <1>4, <1>5, <3>1, Upwards
    <3>. QED BY <1>4, <3>2
  <2>. QED BY <2>1
<1> DEFINE best == CHOOSE g : IsBest(g, L)
<1>8. IsBest(best, L) BY <1>7
<1>9. Governed!Match(list, id) = best[L] BY <1>1
<1>. HIDE DEF best
<1>10. \A n \in 0..L : best[n] = IF n = 0 THEN 0 ELSE After(best[n - 1], n) BY <1>8
<1> DEFINE Fine == {n \in 0..L : Good(best[n], n)}
<1>11. 0 \in Fine BY <1>3, <1>4, <1>10
<1>12. ASSUME NEW k \in 0..L, k > 0, k - 1 \in Fine PROVE k \in Fine
  <2>1. k \in 1..L /\ Good(best[k - 1], k - 1) BY <1>4, <1>12
  <2>2. best[k] = After(best[k - 1], k) BY <1>4, <1>10, <2>1
  <2>. QED BY <1>2, <2>1, <2>2
<1>13. L \in Fine
  <2>. HIDE DEF Fine
  <2>1. \A k \in 0..L : k > 0 /\ k - 1 \in Fine => k \in Fine BY <1>12
  <2>2. \A k \in 0..L : k \in Fine BY <1>4, <1>11, <2>1, Upwards
  <2>. QED BY <1>4, <2>2
<1>14. Good(Governed!Match(list, id), L) BY <1>9, <1>13
<1>. QED BY <1>14 DEF Good, L, Matches

\* What from_dict() accepts: ranked rules, each flag a boolean or nothing.
Loaded(p) == /\ Len(p.rules) \in Nat /\ DOMAIN p.rules = 1..Len(p.rules)
             /\ \A n \in 1..Len(p.rules) :
                  /\ Ranked(p.rules[n])
                  /\ p.rules[n].requires_approval \in Governed!Flags

LEMMA LoadedFromDict ==
  ASSUME NEW document \in Documents, NEW p \in Governed!FromDict(document)
  PROVE  Loaded(p)
<1> DEFINE list == document["rules"]
           Read(raw) == [pattern |-> raw["pattern"],
                         requires_approval |-> Governed!Flag(raw, "requires_approval"),
                         destructive |-> Governed!Flag(raw, "destructive")]
<1>1. CASE "rules" \notin DOMAIN document
  <2>1. p.rules = <<>> BY <1>1 DEF Governed!FromDict
  <2>. QED BY <2>1 DEF Loaded
<1>2. CASE "rules" \in DOMAIN document
  <2>1. /\ p.rules = [n \in DOMAIN list |-> Read(list[n])]
        /\ \A n \in DOMAIN list : Governed!RuleLoads(list[n])
    BY <1>2 DEF Governed!FromDict
  <2>2. /\ Len(list) \in Nat /\ DOMAIN list = 1..Len(list)
        /\ \A n \in DOMAIN list : "pattern" \in DOMAIN list[n] => Len(list[n]["pattern"]) \in Nat
    BY <1>2, DocumentsAssumption
  <2>. HIDE DEF list
  <2>3. \A n \in DOMAIN list : p.rules[n] = Read(list[n]) BY <2>1
  <2>4. Len(p.rules) = Len(list) /\ DOMAIN p.rules = 1..Len(p.rules)
    <3> DEFINE S == {Read(list[n]) : n \in 1..Len(list)}
    <3>1. p.rules \in [1..Len(list) -> S] BY <2>1, <2>2
    <3>. HIDE DEF S
    <3>. QED BY <2>2, <3>1, SMTT(30)
  <2>5. ASSUME NEW n \in DOMAIN list
        PROVE  Ranked(p.rules[n]) /\ p.rules[n].requires_approval \in Governed!Flags
    <3>1. Governed!RuleLoads(list[n]) /\ p.rules[n] = Read(list[n]) BY <2>1, <2>3, <2>5
    <3>2. Len(list[n]["pattern"]) \in Nat BY <2>2, <2>5, <3>1 DEF Governed!RuleLoads
    <3>3. p.rules[n].pattern = list[n]["pattern"] BY <3>1
    <3>4. p.rules[n].requires_approval = Governed!Flag(list[n], "requires_approval") BY <3>1
    <3>5. Governed!Flag(list[n], "requires_approval") \in Governed!Flags
      BY <3>1 DEF Governed!RuleLoads, Governed!Flag, Governed!Flags
    <3>. QED BY <3>2, <3>3, <3>4, <3>5, PatternIsRanked, RuleIsRanked DEF Ranked
  <2>. QED BY <2>2, <2>4, <2>5 DEF Loaded
<1>. QED BY <1>1, <1>2

\* The rule a policy matches is one of the finest, and the most restrictive of those.
LEMMA MatchIsFinest ==
  ASSUME NEW p, Loaded(p), NEW id
  PROVE  LET matched == Governed!Match(p.rules, id)
             finest == Governed!Finest(p, id)
         IN /\ matched = 0 => finest = {}
            /\ matched # 0 =>
                 /\ matched \in finest
                 /\ \A n \in finest : Governed!Restrictiveness(p.rules[n])
                                      <= Governed!Restrictiveness(p.rules[matched])
<1> DEFINE matched == Governed!Match(p.rules, id)
           finest == Governed!Finest(p, id)
           candidates == Governed!Candidates(p, id)
<1>1. DOMAIN p.rules = 1..Len(p.rules) /\ \A n \in DOMAIN p.rules : Ranked(p.rules[n]) BY DEF Loaded
<1>2. \A n : n \in candidates <=> /\ n \in DOMAIN p.rules
                                  /\ Governed!MatchPattern(p.rules[n].pattern, id)
  BY DEF Governed!Candidates
<1>3. \A n : n \in finest <=> /\ n \in candidates
                              /\ \A m \in candidates : Governed!Specificity(p.rules[m].pattern)
                                                       <= Governed!Specificity(p.rules[n].pattern)
  BY DEF Governed!Finest
<1>4. /\ matched \in 0..Len(p.rules)
      /\ matched = 0 => candidates = {}
      /\ matched # 0 => /\ matched \in candidates
                        /\ \A n \in candidates : ~Governed!Outranks(p.rules[n], p.rules[matched])
  BY <1>1, <1>2, MatchIsBest DEF Loaded
<1>. HIDE DEF matched, finest, candidates
<1>5. ASSUME matched # 0, NEW n \in candidates
      PROVE  LET ofN == Governed!Specificity(p.rules[n].pattern)
                 ofMatched == Governed!Specificity(p.rules[matched].pattern)
             IN /\ ofN <= ofMatched
                /\ ofN = ofMatched => Governed!Restrictiveness(p.rules[n])
                                      <= Governed!Restrictiveness(p.rules[matched])
  <2>1. Ranked(p.rules[n]) /\ Ranked(p.rules[matched]) BY <1>1, <1>2, <1>4, <1>5
  <2>2. ~Governed!Outranks(p.rules[n], p.rules[matched]) BY <1>4, <1>5
  <2>. QED BY <2>1, <2>2 DEF Ranked, Governed!Outranks
<1>6. ASSUME matched # 0 PROVE matched \in finest BY <1>3, <1>4, <1>5, <1>6
<1>7. ASSUME matched # 0, NEW n \in finest
      PROVE  Governed!Restrictiveness(p.rules[n]) <= Governed!Restrictiveness(p.rules[matched])
  <2>1. n \in candidates /\ matched \in candidates BY <1>3, <1>4, <1>7
  <2>2. /\ Governed!Specificity(p.rules[n].pattern) \in Nat
        /\ Governed!Specificity(p.rules[matched].pattern) \in Nat
    BY <1>1, <1>2, <2>1 DEF Ranked
  <2>3. Governed!Specificity(p.rules[matched].pattern) <= Governed!Specificity(p.rules[n].pattern)
    BY <1>3, <1>7, <2>1
  <2>. QED BY <1>5, <1>7, <2>1, <2>2, <2>3
<1>. QED BY <1>3, <1>4, <1>6, <1>7 DEF matched, finest

LEMMA PolicyDemandStands ==
  ASSUME NEW p, Loaded(p), NEW id, NEW own
  PROVE  Governed!DemandStands(p, id, own)
<1> DEFINE matched == Governed!Match(p.rules, id)
           finest == Governed!Finest(p, id)
           rule == p.rules[matched]
           decision == Governed!Resolve(p, id, own)
<1>1. /\ matched = 0 => finest = {}
      /\ matched # 0 =>
           /\ matched \in finest
           /\ \A n \in finest :
                Governed!Restrictiveness(p.rules[n]) <= Governed!Restrictiveness(rule)
  BY MatchIsFinest
<1>2. Unset # TRUE /\ Unset # FALSE BY DocumentsAssumption
<1>3. matched # 0 => /\ decision.needs_approval
                          <=> \/ Governed!Effective(rule.requires_approval, own.requires_approval)
                              \/ /\ p.gate_destructive
                                 /\ Governed!Effective(rule.destructive, own.destructive)
  BY DEF Governed!Resolve, Governed!Decide
<1>4. matched = 0 => decision.needs_approval <=> \/ own.requires_approval
                                                 \/ p.gate_destructive /\ own.destructive
  BY DEF Governed!Resolve, Governed!Decide, Governed!NoRule, Governed!Effective
<1>. HIDE DEF matched, finest, decision, rule
<1>5. ASSUME NEW n \in finest, p.rules[n].requires_approval = TRUE PROVE decision.needs_approval
  <2>1. rule.requires_approval = TRUE BY <1>1, <1>5, RestrictiveDemands
  <2>. QED BY <1>1, <1>2, <1>3, <1>5, <2>1 DEF Governed!Effective
<1>6. ASSUME own.requires_approval, \A n \in finest : p.rules[n].requires_approval # FALSE
      PROVE  decision.needs_approval
  <2>1. CASE matched = 0 BY <1>4, <1>6, <2>1
  <2>2. CASE matched # 0
    <3>1. rule.requires_approval \in {TRUE, Unset}
      BY <1>1, <1>6, <2>2 DEF rule, finest, Governed!Finest, Governed!Candidates, Loaded,
        Governed!Flags
    <3>. QED BY <1>2, <1>3, <1>6, <2>2, <3>1 DEF Governed!Effective
  <2>. QED BY <2>1, <2>2
<1>7. ASSUME p.gate_destructive, NEW n \in finest, p.rules[n].destructive = TRUE
      PROVE  decision.needs_approval
  <2>1. rule.requires_approval = TRUE \/ rule.destructive = TRUE BY <1>1, <1>7, RestrictiveDemands
  <2>. QED BY <1>1, <1>2, <1>3, <1>7, <2>1 DEF Governed!Effective
<1>. QED BY <1>5, <1>6, <1>7 DEF Governed!DemandStands, decision, finest

PolicyIsLoaded == \A p \in demands : Loaded(p)
LEMMA PolicyNextLoaded ==
  PolicyIsLoaded /\ [Governed!Next]_<<demands, sets>> => PolicyIsLoaded'
<1>. SUFFICES ASSUME PolicyIsLoaded, [Governed!Next]_<<demands, sets>> PROVE PolicyIsLoaded'
  OBVIOUS
<1>1. ASSUME NEW document \in Documents, Governed!SetPolicy(document) PROVE PolicyIsLoaded'
  BY <1>1, LoadedFromDict DEF Governed!SetPolicy, PolicyIsLoaded
<1>2. CASE Governed!RemovePolicy BY <1>2 DEF Governed!RemovePolicy, PolicyIsLoaded
<1>3. CASE UNCHANGED <<demands, sets>> BY <1>3 DEF PolicyIsLoaded
<1>. QED BY <1>1, <1>2, <1>3 DEF Governed!Next

-----------------------------------------------------------------------------
(* Keys and trees (Trees, Config).  A key is a list of names, of whatever    *)
(* kind the names are.                                                       *)
IsKey(key) == Len(key) \in Nat /\ key = [i \in 1..Len(key) |-> key[i]]
NamesOf(key) == {key[i] : i \in 1..Len(key)}

LEMMA KeyIsSeq ==
  ASSUME NEW key, IsKey(key), NEW T, NamesOf(key) \subseteq T
  PROVE  key \in Seq(T) /\ DOMAIN key = 1..Len(key)
<1>1. key \in [1..Len(key) -> T] BY DEF IsKey, NamesOf
<1>. QED BY <1>1 DEF IsKey

LEMMA SeqIsKey == ASSUME NEW T, NEW key \in Seq(T) PROVE IsKey(key)
BY DEF IsKey

LEMMA SameKey ==
  ASSUME NEW a, NEW b, IsKey(a), IsKey(b), Len(a) = Len(b), \A i \in 1..Len(a) : a[i] = b[i]
  PROVE  a = b
BY DEF IsKey

LEMMA NoNames == \A key : IsKey(key) /\ Len(key) = 0 <=> key = <<>>
<1>1. <<>> \in Seq({}) /\ Len(<<>>) = 0 OBVIOUS
<1>2. IsKey(<<>>) BY <1>1, SeqIsKey
<1>3. ASSUME NEW key, IsKey(key), Len(key) = 0 PROVE key = <<>> BY <1>1, <1>2, <1>3, SameKey
<1>. QED BY <1>1, <1>2, <1>3

LEMMA AppendIs ==
  ASSUME NEW key, IsKey(key), NEW name
  PROVE  /\ IsKey(Append(key, name)) /\ Len(Append(key, name)) = Len(key) + 1
         /\ Append(key, name)[Len(key) + 1] = name
         /\ \A i \in 1..Len(key) : Append(key, name)[i] = key[i]
<1> DEFINE T == NamesOf(key) \cup {name}
<1>1. key \in Seq(T) /\ name \in T BY KeyIsSeq
<1>. HIDE DEF T
<1>2. Append(key, name) \in Seq(T) BY <1>1
<1>3. Len(Append(key, name)) = Len(key) + 1 /\ Append(key, name)[Len(key) + 1] = name BY <1>1
<1>4. \A i \in 1..Len(key) : Append(key, name)[i] = key[i] BY <1>1
<1>. QED BY <1>2, <1>3, <1>4, SeqIsKey

LEMMA UnderIs ==
  ASSUME NEW key, IsKey(key), NEW name
  PROVE  /\ IsKey(<<name>> \o key) /\ Len(<<name>> \o key) = Len(key) + 1
         /\ (<<name>> \o key)[1] = name
         /\ \A i \in 1..Len(key) : (<<name>> \o key)[i + 1] = key[i]
<1> DEFINE T == NamesOf(key) \cup {name}
<1>1. key \in Seq(T) /\ <<name>> \in Seq(T) BY KeyIsSeq
<1>. HIDE DEF T
<1>2. <<name>> \o key \in Seq(T) BY <1>1
<1>3. Len(<<name>> \o key) = Len(key) + 1 /\ (<<name>> \o key)[1] = name BY <1>1
<1>4. \A i \in 1..Len(key) : (<<name>> \o key)[i + 1] = key[i] BY <1>1
<1>. QED BY <1>2, <1>3, <1>4, SeqIsKey

LEMMA TailIs ==
  ASSUME NEW key, IsKey(key), Len(key) > 0
  PROVE  /\ IsKey(Tail(key)) /\ Len(Tail(key)) = Len(key) - 1
         /\ \A i \in 1..(Len(key) - 1) : Tail(key)[i] = key[i + 1]
<1> DEFINE T == NamesOf(key)
<1>1. key \in Seq(T) BY KeyIsSeq
<1>. HIDE DEF T
<1>2. key # <<>> BY <1>1
<1>3. Tail(key) \in Seq(T) /\ Len(Tail(key)) = Len(key) - 1 BY <1>1, <1>2
<1>4. \A i \in 1..(Len(key) - 1) : Tail(key)[i] = key[i + 1] BY <1>1, <1>2
<1>. QED BY <1>3, <1>4, SeqIsKey

LEMMA FirstIs ==
  ASSUME NEW key, IsKey(key), NEW n \in 0..Len(key)
  PROVE  /\ IsKey(SubSeq(key, 1, n)) /\ Len(SubSeq(key, 1, n)) = n
         /\ \A i \in 1..n : SubSeq(key, 1, n)[i] = key[i]
         /\ n = 0 => SubSeq(key, 1, n) = <<>>
<1> DEFINE T == NamesOf(key)
<1>1. key \in Seq(T) BY KeyIsSeq
<1>. HIDE DEF T
<1>2. SubSeq(key, 1, n) \in Seq(T) BY <1>1 DEF IsKey
<1>. QED BY <1>1, <1>2, SeqIsKey DEF IsKey

LEMMA FirstGrows ==
  ASSUME NEW key, IsKey(key), NEW n \in 1..Len(key)
  PROVE  Append(SubSeq(key, 1, n - 1), key[n]) = SubSeq(key, 1, n)
<1> DEFINE short == SubSeq(key, 1, n - 1)
           long == SubSeq(key, 1, n)
           a == Append(short, key[n])
<1>1. n - 1 \in 0..Len(key) /\ n \in 0..Len(key) /\ n \in Nat /\ Len(key) \in Nat BY DEF IsKey
<1>2. IsKey(short) /\ Len(short) = n - 1 /\ \A i \in 1..(n - 1) : short[i] = key[i]
  BY <1>1, FirstIs
<1>3. IsKey(long) /\ Len(long) = n /\ \A i \in 1..n : long[i] = key[i] BY <1>1, FirstIs
<1>4. IsKey(a) /\ Len(a) = n /\ a[n] = key[n] /\ \A i \in 1..(n - 1) : a[i] = short[i]
  BY <1>1, <1>2, AppendIs
<1>. HIDE DEF short, long, a
<1>5. \A i \in 1..n : i = n \/ i \in 1..(n - 1) BY <1>1
<1>. QED BY <1>2, <1>3, <1>4, <1>5, SameKey DEF a, long, short

LEMMA PrefixIs ==
  ASSUME NEW a, NEW b, IsKey(a), IsKey(b)
  PROVE  Conf!IsStrictPrefix(a, b) <=> Len(a) < Len(b) /\ \A i \in 1..Len(a) : a[i] = b[i]
<1>1. Len(a) \in Nat /\ Len(b) \in Nat /\ Len(a) \in 0..Len(a) BY DEF IsKey
<1>2. SubSeq(a, 1, Len(a)) = a
  BY <1>1, FirstIs, SameKey
<1>3. CASE Len(a) <= Len(b)
  <2>1. Len(a) \in 0..Len(b) BY <1>1, <1>3
  <2> DEFINE s == SubSeq(b, 1, Len(a))
  <2>2. IsKey(s) /\ Len(s) = Len(a) /\ \A i \in 1..Len(a) : s[i] = b[i] BY <2>1, FirstIs
  <2>. HIDE DEF s
  <2>3. a = s <=> \A i \in 1..Len(a) : a[i] = b[i] BY <2>2, SameKey
  <2>4. Conf!IsPrefix(a, b) <=> a = s BY <1>2, <1>3 DEF Conf!IsPrefix, s
  <2>5. Len(a) = Len(b) /\ (\A i \in 1..Len(a) : a[i] = b[i]) => a = b BY SameKey
  <2>. QED BY <1>1, <1>3, <2>3, <2>4, <2>5 DEF Conf!IsStrictPrefix
<1>4. CASE ~(Len(a) <= Len(b))
  BY <1>1, <1>4 DEF Conf!IsStrictPrefix, Conf!IsPrefix
<1>. QED BY <1>3, <1>4

LEMMA DictIs ==
  ASSUME NEW entries
  PROVE  /\ Conf!IsDict(Conf!Dict(entries)) /\ Conf!Dict(entries).of = entries
         /\ Conf!Names(Conf!Dict(entries)) = DOMAIN entries
BY DEF Conf!IsDict, Conf!Dict, Conf!Names

LEMMA AlongIs ==
  ASSUME NEW tree, NEW key, IsKey(key)
  PROVE  /\ Conf!Along(tree, key)[0] = tree
         /\ \A i \in 1..Len(key) :
              Conf!Along(tree, key)[i] = Conf!Along(tree, key)[i - 1].of[key[i]]
<1> DEFINE n == Len(key)
           IsWay(f, m) == f = [i \in 0..m |-> IF i = 0 THEN tree ELSE f[i - 1].of[key[i]]]
           Reached == {m \in 0..n : \E f : IsWay(f, m)}
           way == Conf!Along(tree, key)
<1>1. n \in Nat BY DEF IsKey
<1>2. 0 \in Reached
  <2> DEFINE f == [i \in 0..0 |-> tree]
  <2>1. IsWay(f, 0) OBVIOUS
  <2>. HIDE DEF f, IsWay
  <2>2. \E g : IsWay(g, 0) BY <2>1
  <2>. QED BY <1>1, <2>2
<1>3. ASSUME NEW m \in 0..n, m > 0, m - 1 \in Reached PROVE m \in Reached
  <2>1. PICK f : IsWay(f, m - 1) BY <1>3
  <2> DEFINE g == [i \in 0..m |-> IF i = m THEN f[m - 1].of[key[m]] ELSE f[i]]
  <2>2. m \in Nat /\ m - 1 \in Nat /\ \A i \in 0..m : i = m \/ i \in 0..(m - 1) BY <1>1, <1>3
  <2>3. \A i \in 0..(m - 1) : g[i] = f[i] BY <2>2
  <2>4. \A i \in 0..m : g[i] = IF i = 0 THEN tree ELSE g[i - 1].of[key[i]]
    <3>1. ASSUME NEW i \in 0..m PROVE g[i] = IF i = 0 THEN tree ELSE g[i - 1].of[key[i]]
      <4>1. CASE i = m
        <5>1. i # 0 /\ i - 1 = m - 1 /\ m - 1 \in 0..(m - 1) BY <1>3, <2>2, <4>1
        <5>2. g[i] = f[m - 1].of[key[m]] BY <4>1
        <5>3. g[i - 1] = f[m - 1] BY <2>3, <5>1
        <5>. QED BY <4>1, <5>1, <5>2, <5>3
      <4>2. CASE i # m
        <5>1. i \in 0..(m - 1) /\ (i # 0 => i - 1 \in 0..(m - 1)) BY <2>2, <4>2
        <5>2. f[i] = IF i = 0 THEN tree ELSE f[i - 1].of[key[i]] BY <2>1, <5>1
        <5>. QED BY <2>3, <5>1, <5>2
      <4>. QED BY <4>1, <4>2
    <3>. QED BY <3>1
  <2>5. g = [i \in 0..m |-> g[i]] OBVIOUS
  <2>. HIDE DEF g
  <2>6. IsWay(g, m) BY <2>4, <2>5
  <2>. HIDE DEF IsWay
  <2>. QED BY <1>3, <2>6
<1>4. \E f : IsWay(f, n)
  <2>. HIDE DEF n
  <2>1. \A m \in 0..n : m > 0 /\ m - 1 \in Reached => m \in Reached BY <1>3
  <2>. HIDE DEF Reached
  <2>2. n \in Reached BY <1>1, <1>2, <2>1, Upwards
  <2>. QED BY <2>2 DEF Reached
<1>5. way = CHOOSE f : IsWay(f, n) BY DEF Conf!Along
<1>6. IsWay(way, n)
  <2>. HIDE DEF IsWay, way, n
  <2>. QED BY <1>4, <1>5
<1>. HIDE DEF way
<1>7. \A i \in 0..n : way[i] = IF i = 0 THEN tree ELSE way[i - 1].of[key[i]] BY <1>6
<1>8. 0 \in 0..n /\ \A i \in 1..n : i \in 0..n /\ i # 0 BY <1>1
<1>. QED BY <1>7, <1>8 DEF way

(* Ways that meet, and go by the same names from there, stay together.       *)
SameNames(key, way, a, b, n) == \A j \in 1..n : key[a + j] = way[b + j]
Together(tree, key, a, other, way, b, n) ==
  \A j \in 0..n : Conf!Along(tree, key)[a + j] = Conf!Along(other, way)[b + j]
LEMMA OnTheSameWay ==
  ASSUME NEW tree, NEW key, NEW other, NEW way, IsKey(key), IsKey(way),
         NEW a \in Nat, NEW b \in Nat, NEW n \in Nat, a + n <= Len(key), b + n <= Len(way),
         Conf!Along(tree, key)[a] = Conf!Along(other, way)[b], SameNames(key, way, a, b, n)
  PROVE  Together(tree, key, a, other, way, b, n)
<1> DEFINE x == Conf!Along(tree, key)
           y == Conf!Along(other, way)
           Same == {j \in 0..n : x[a + j] = y[b + j]}
<1>1. Len(key) \in Nat /\ Len(way) \in Nat BY DEF IsKey
<1>2. \A i \in 1..Len(key) : x[i] = x[i - 1].of[key[i]] BY AlongIs
<1>3. \A i \in 1..Len(way) : y[i] = y[i - 1].of[way[i]] BY AlongIs
<1>. HIDE DEF x, y
<1>4. 0 \in Same BY DEF x, y
<1>5. ASSUME NEW j \in 0..n, j > 0, j - 1 \in Same PROVE j \in Same
  <2>1. /\ a + j \in 1..Len(key) /\ b + j \in 1..Len(way) /\ j \in 1..n
        /\ (a + j) - 1 = a + (j - 1) /\ (b + j) - 1 = b + (j - 1)
    BY <1>1, <1>5
  <2>2. x[a + j] = x[a + (j - 1)].of[key[a + j]] BY <1>2, <2>1
  <2>3. y[b + j] = y[b + (j - 1)].of[way[b + j]] BY <1>3, <2>1
  <2>. QED BY <1>5, <2>1, <2>2, <2>3 DEF SameNames
<1>6. \A j \in 0..n : j \in Same
  <2>. HIDE DEF Same
  <2>1. \A j \in 0..n : j > 0 /\ j - 1 \in Same => j \in Same BY <1>5
  <2>. QED BY <1>4, <2>1, Upwards
<1>. QED BY <1>6 DEF x, y, Together

LEMMA AlongFirst ==
  ASSUME NEW tree, NEW key, IsKey(key), NEW n \in 0..Len(key)
  PROVE  /\ Conf!Holds(tree, SubSeq(key, 1, n)) <=> Conf!HoldsTo(tree, key, n)
         /\ Conf!HoldsTo(tree, key, n) =>
              Conf!GetNested(tree, SubSeq(key, 1, n)) = Conf!Along(tree, key)[n]
<1> DEFINE short == SubSeq(key, 1, n)
<1>1. IsKey(short) /\ Len(short) = n /\ \A i \in 1..n : short[i] = key[i] BY FirstIs
<1>2. n \in Nat /\ n <= Len(key) BY DEF IsKey
<1>. HIDE DEF short
<1>3. Conf!Along(tree, short)[0] = Conf!Along(tree, key)[0] BY <1>1, AlongIs
<1>4. \A j \in 0..n : Conf!Along(tree, short)[j] = Conf!Along(tree, key)[j]
  <2> DEFINE z == 0
  <2>1. z \in Nat /\ z + n <= Len(short) /\ z + n <= Len(key) BY <1>1, <1>2
  <2>2. SameNames(short, key, z, z, n) BY <1>1 DEF SameNames
  <2>3. Conf!Along(tree, short)[z] = Conf!Along(tree, key)[z] BY <1>3
  <2>4. \A j \in 0..n : z + j = j BY <1>2
  <2>. HIDE DEF z
  <2>5. Together(tree, short, z, tree, key, z, n)
    BY <1>1, <1>2, <2>1, <2>2, <2>3, OnTheSameWay
  <2>. TAKE j \in 0..n
  <2>6. Conf!Along(tree, short)[z + j] = Conf!Along(tree, key)[z + j] BY <2>5 DEF Together
  <2>7. z + j = j BY <2>4
  <2>. QED BY <2>6, <2>7
<1>6. Conf!Holds(tree, short) <=> Conf!HoldsTo(tree, key, n)
  <2>1. \A j \in 1..n : j - 1 \in 0..n BY <1>2
  <2>. QED BY <1>1, <1>4, <2>1 DEF Conf!Holds, Conf!HoldsTo
<1>7. n \in 0..n BY <1>2
<1>. QED BY <1>1, <1>4, <1>6, <1>7 DEF Conf!GetNested, short

LEMMA HoldsUnder ==
  ASSUME NEW tree, NEW key, IsKey(key), Len(key) > 0
  PROVE  Conf!Holds(tree, key) <=> /\ key[1] \in Conf!Names(tree)
                                   /\ Conf!Holds(tree.of[key[1]], Tail(key))
<1> DEFINE n == Len(key) - 1
           rest == Tail(key)
           below == tree.of[key[1]]
           x == Conf!Along(tree, key)
           y == Conf!Along(below, rest)
<1>1. IsKey(rest) /\ Len(rest) = n /\ \A i \in 1..n : rest[i] = key[i + 1] BY TailIs
<1>2. n \in Nat /\ Len(key) = n + 1 /\ 1 \in 1..Len(key) BY DEF IsKey
<1>3. x[0] = tree /\ x[1] = x[1 - 1].of[key[1]] BY <1>2, AlongIs
<1>4. y[0] = below BY <1>1, AlongIs
<1>5. x[1] = y[0] BY <1>3, <1>4
<1>. HIDE DEF rest, below, n
<1>6. \A j \in 0..n : x[j + 1] = y[j]
  <2> DEFINE z == 0
             one == 1
  <2>1. one \in Nat /\ z \in Nat /\ one + n <= Len(key) /\ z + n <= Len(rest) BY <1>1, <1>2
  <2>2. SameNames(key, rest, one, z, n) BY <1>1, <1>2 DEF SameNames
  <2>3. x[one] = y[z] BY <1>5
  <2>4. \A j \in 0..n : z + j = j /\ one + j = j + 1 BY <1>2
  <2>. HIDE DEF z, one
  <2>5. Together(tree, key, one, below, rest, z, n)
    BY <1>1, <1>2, <2>1, <2>2, <2>3, OnTheSameWay
  <2>. TAKE j \in 0..n
  <2>6. Conf!Along(tree, key)[one + j] = Conf!Along(below, rest)[z + j] BY <2>5 DEF Together
  <2>7. z + j = j /\ one + j = j + 1 BY <2>4
  <2>. QED BY <2>6, <2>7
<1>. HIDE DEF x, y
<1>7. \A j \in 1..n : x[j] = y[j - 1] /\ rest[j] = key[j + 1]
  <2>1. \A j \in 1..n : j - 1 \in 0..n /\ (j - 1) + 1 = j BY <1>2
  <2>. QED BY <1>1, <1>6, <2>1
<1>8. (\A j \in 1..(n + 1) : key[j] \in Conf!Names(x[j - 1]))
      <=> key[1] \in Conf!Names(x[0]) /\ \A j \in 1..n : key[j + 1] \in Conf!Names(x[j])
  <2>1. \A j \in 1..(n + 1) : j = 1 \/ j - 1 \in 1..n BY <1>2
  <2>2. \A j \in 1..n : j + 1 \in 1..(n + 1) /\ (j + 1) - 1 = j BY <1>2
  <2>3. 1 \in 1..(n + 1) /\ 1 - 1 = 0 BY <1>2
  <2>4. \A j \in 1..(n + 1) : j = 1 => j - 1 = 0 OBVIOUS
  <2>5. \A j \in 1..(n + 1) : (j - 1) + 1 = j BY <1>2
  <2>. QED BY <2>1, <2>2, <2>3, <2>4, <2>5
<1>. QED BY <1>1, <1>2, <1>3, <1>7, <1>8 DEF Conf!Holds, Conf!HoldsTo, x, y, rest, below

LEMMA HoldsStep ==
  ASSUME NEW tree, NEW key, NEW n \in Nat, n > 0
  PROVE  Conf!HoldsTo(tree, key, n)
         <=> Conf!HoldsTo(tree, key, n - 1) /\ key[n] \in Conf!Names(Conf!Along(tree, key)[n - 1])
<1>1. \A j \in 1..n : j = n \/ j \in 1..(n - 1) OBVIOUS
<1>2. n \in 1..n /\ \A j \in 1..(n - 1) : j \in 1..n OBVIOUS
<1>. QED BY <1>1, <1>2 DEF Conf!HoldsTo

LEMMA HoldsLess ==
  ASSUME NEW tree, NEW key, NEW n \in Nat, NEW m \in 0..n, Conf!HoldsTo(tree, key, n)
  PROVE  Conf!HoldsTo(tree, key, m)
<1>1. \A j \in 1..m : j \in 1..n OBVIOUS
<1>. QED BY <1>1 DEF Conf!HoldsTo

(* The keys found level by level are those that the tree holds.              *)
More(tree, keys) ==
  UNION {{Append(key, name) : name \in Conf!Names(Conf!GetNested(tree, key))} : key \in keys}

LEMMA LevelsAre ==
  ASSUME NEW tree, NEW depth \in Nat
  PROVE  \E f : /\ f[0] = {<<>>} /\ \A n \in 1..depth : f[n] = More(tree, f[n - 1])
                /\ Conf!KeysWithin(tree, depth) = UNION {f[n] : n \in 1..depth}
<1> DEFINE last == depth
           IsLevels(f, m) == f = [n \in 0..m |-> IF n = 0 THEN {<<>>} ELSE More(tree, f[n - 1])]
           Reached == {m \in 0..last : \E f : IsLevels(f, m)}
           below == CHOOSE f : IsLevels(f, last)
<1>1. Conf!KeysWithin(tree, depth) = UNION {below[n] : n \in 1..last} BY DEF Conf!KeysWithin, More
<1>2. 0 \in Reached
  <2> DEFINE f == [n \in 0..0 |-> {<<>>}]
  <2>1. IsLevels(f, 0) OBVIOUS
  <2>. HIDE DEF f, IsLevels
  <2>2. \E g : IsLevels(g, 0) BY <2>1
  <2>. QED BY <2>2
<1>3. ASSUME NEW m \in 0..last, m > 0, m - 1 \in Reached PROVE m \in Reached
  <2>1. PICK f : IsLevels(f, m - 1) BY <1>3
  <2> DEFINE g == [n \in 0..m |-> IF n = m THEN More(tree, f[m - 1]) ELSE f[n]]
  <2>2. m \in Nat /\ m - 1 \in Nat /\ \A n \in 0..m : n = m \/ n \in 0..(m - 1) BY <1>3
  <2>3. \A n \in 0..(m - 1) : g[n] = f[n] BY <2>2
  <2>4. \A n \in 0..m : g[n] = IF n = 0 THEN {<<>>} ELSE More(tree, g[n - 1])
    <3>1. ASSUME NEW n \in 0..m PROVE g[n] = IF n = 0 THEN {<<>>} ELSE More(tree, g[n - 1])
      <4>1. CASE n = m
        <5>1. n # 0 /\ n - 1 = m - 1 /\ m - 1 \in 0..(m - 1) BY <1>3, <2>2, <4>1
        <5>2. g[n] = More(tree, f[m - 1]) BY <4>1
        <5>3. g[n - 1] = f[m - 1] BY <2>3, <5>1
        <5>. QED BY <5>1, <5>2, <5>3
      <4>2. CASE n # m
        <5>1. n \in 0..(m - 1) /\ (n # 0 => n - 1 \in 0..(m - 1)) BY <2>2, <4>2
        <5>2. f[n] = IF n = 0 THEN {<<>>} ELSE More(tree, f[n - 1]) BY <2>1, <5>1
        <5>. QED BY <2>3, <5>1, <5>2
      <4>. QED BY <4>1, <4>2
    <3>. QED BY <3>1
  <2>5. g = [n \in 0..m |-> g[n]] OBVIOUS
  <2>. HIDE DEF g
  <2>6. IsLevels(g, m) BY <2>4, <2>5
  <2>. HIDE DEF IsLevels
  <2>. QED BY <1>3, <2>6
<1>4. \E f : IsLevels(f, last)
  <2>1. \A m \in 0..last : m > 0 /\ m - 1 \in Reached => m \in Reached BY <1>3
  <2>. HIDE DEF Reached
  <2>2. last \in Reached BY <1>2, <2>1, Upwards
  <2>. QED BY <2>2 DEF Reached
<1>5. IsLevels(below, last)
  <2>. HIDE DEF IsLevels, last
  <2>. QED BY <1>4
<1>. HIDE DEF below
<1>6. \A n \in 0..last : below[n] = IF n = 0 THEN {<<>>} ELSE More(tree, below[n - 1]) BY <1>5
<1>7. 0 \in 0..last /\ \A n \in 1..last : n \in 0..last /\ n # 0 OBVIOUS
<1>8. below[0] = {<<>>} /\ \A n \in 1..last : below[n] = More(tree, below[n - 1]) BY <1>6, <1>7
<1>. QED BY <1>1, <1>8

LEMMA KeysWithinAre ==
  ASSUME NEW tree, NEW depth \in Nat
  PROVE  \A key : key \in Conf!KeysWithin(tree, depth)
                  <=> IsKey(key) /\ Len(key) \in 1..depth /\ Conf!Holds(tree, key)
<1>1. PICK f : /\ f[0] = {<<>>} /\ \A n \in 1..depth : f[n] = More(tree, f[n - 1])
               /\ Conf!KeysWithin(tree, depth) = UNION {f[n] : n \in 1..depth}
  BY LevelsAre
<1> DEFINE Is(key, n) == IsKey(key) /\ Len(key) = n /\ Conf!Holds(tree, key)
           Good == {n \in 0..depth : \A key : key \in f[n] <=> Is(key, n)}
<1>2. 0 \in Good
  <2>1. \A key : IsKey(key) /\ Len(key) = 0 <=> key = <<>> BY NoNames
  <2>2. ASSUME NEW key, Len(key) = 0 PROVE Conf!Holds(tree, key)
    BY <2>2 DEF Conf!Holds, Conf!HoldsTo
  <2>3. \A key : key \in f[0] <=> Is(key, 0) BY <1>1, <2>1, <2>2
  <2>. QED BY <2>3
<1>3. ASSUME NEW n \in 0..depth, n > 0, n - 1 \in Good PROVE n \in Good
  <2>1. n \in Nat /\ n \in 1..depth /\ n - 1 \in Nat BY <1>3
  <2>2. \A short : short \in f[n - 1] <=> Is(short, n - 1) BY <1>3
  <2>3. f[n] = More(tree, f[n - 1]) BY <1>1, <2>1
  <2>. HIDE DEF Good
  <2>4. ASSUME NEW key, key \in f[n] PROVE Is(key, n)
    <3>1. PICK short \in f[n - 1] :
            \E name \in Conf!Names(Conf!GetNested(tree, short)) : key = Append(short, name)
      BY <2>3, <2>4 DEF More
    <3>2. PICK name \in Conf!Names(Conf!GetNested(tree, short)) : key = Append(short, name)
      BY <3>1
    <3>3. Is(short, n - 1) BY <2>2
    <3>4. /\ IsKey(key) /\ Len(key) = n /\ key[n] = name
          /\ \A i \in 1..(n - 1) : key[i] = short[i]
      BY <2>1, <3>2, <3>3, AppendIs
    <3>5. n - 1 \in 0..Len(key) /\ n \in 1..Len(key) BY <2>1, <3>4
    <3> DEFINE first == SubSeq(key, 1, n - 1)
    <3>6. IsKey(first) /\ Len(first) = n - 1 /\ \A i \in 1..(n - 1) : first[i] = key[i]
      BY <3>4, <3>5, FirstIs
    <3>7. /\ Conf!Holds(tree, first) <=> Conf!HoldsTo(tree, key, n - 1)
          /\ Conf!HoldsTo(tree, key, n - 1) =>
               Conf!GetNested(tree, first) = Conf!Along(tree, key)[n - 1]
      BY <3>4, <3>5, AlongFirst
    <3>. HIDE DEF first
    <3>8. first = short BY <3>3, <3>4, <3>6, SameKey
    <3>9. Conf!HoldsTo(tree, key, n - 1) /\ key[n] \in Conf!Names(Conf!Along(tree, key)[n - 1])
      BY <3>2, <3>3, <3>4, <3>7, <3>8
    <3>10. Conf!HoldsTo(tree, key, n) BY <2>1, <3>9, HoldsStep
    <3>. QED BY <3>4, <3>10 DEF Conf!Holds
  <2>5. ASSUME NEW key, Is(key, n) PROVE key \in f[n]
    <3> DEFINE short == SubSeq(key, 1, n - 1)
    <3>1. n - 1 \in 0..Len(key) /\ n \in 1..Len(key) BY <2>1, <2>5
    <3>2. IsKey(short) /\ Len(short) = n - 1 BY <2>5, <3>1, FirstIs
    <3>3. Conf!HoldsTo(tree, key, n) BY <2>5 DEF Conf!Holds
    <3>4. Conf!HoldsTo(tree, key, n - 1) /\ key[n] \in Conf!Names(Conf!Along(tree, key)[n - 1])
      BY <2>1, <3>3, HoldsStep
    <3>5. Conf!Holds(tree, short) /\ Conf!GetNested(tree, short) = Conf!Along(tree, key)[n - 1]
      BY <2>5, <3>1, <3>4, AlongFirst
    <3>6. key = Append(short, key[n])
      <4>1. Append(short, key[n]) = SubSeq(key, 1, n) BY <2>5, <3>1, FirstGrows
      <4>2. n \in 0..Len(key) BY <3>1
      <4>3. SubSeq(key, 1, n) = key BY <2>5, <4>2, FirstIs, SameKey
      <4>. QED BY <4>1, <4>3
    <3>7. short \in f[n - 1] BY <2>2, <3>2, <3>5
    <3>. HIDE DEF short
    <3>. QED BY <2>3, <3>4, <3>5, <3>6, <3>7 DEF More
  <2>. QED BY <2>4, <2>5 DEF Good
<1>4. \A n \in 0..depth : n \in Good
  <2>. HIDE DEF Good
  <2>1. \A n \in 0..depth : n > 0 /\ n - 1 \in Good => n \in Good BY <1>3
  <2>. QED BY <1>2, <2>1, Upwards
<1>5. \A n \in 1..depth : \A key : key \in f[n] <=> Is(key, n)
  <2>1. \A n \in 1..depth : n \in 0..depth OBVIOUS
  <2>. QED BY <1>4, <2>1
<1>. HIDE DEF Good
<1>6. \A key : key \in Conf!KeysWithin(tree, depth) <=> \E n \in 1..depth : key \in f[n] BY <1>1
<1>. QED BY <1>5, <1>6

LEMMA KeysAre ==
  ASSUME NEW tree, MaxNesting \in Nat
  PROVE  \A key : key \in Conf!AllKeys(tree)
                  <=> IsKey(key) /\ Len(key) \in 1..MaxNesting /\ Conf!Holds(tree, key)
BY KeysWithinAre DEF Conf!AllKeys

(* What two trees are merged to, where both have a dict.                     *)
Both(base, over) ==
  {<<>>} \cup {key \in Conf!AllKeys(base) : Conf!HasDict(base, key) /\ Conf!HasDict(over, key)}
Branch(base, over, f, key, n) ==
  IF n \notin Conf!Names(Conf!GetNested(over, key)) THEN Conf!GetNested(base, key).of[n]
  ELSE IF Append(key, n) \in Both(base, over) THEN f[Append(key, n)]
  ELSE Conf!GetNested(over, key).of[n]
MergedAt(base, over, f, key) ==
  Conf!Dict([n \in Conf!Names(Conf!GetNested(base, key))
                     \cup Conf!Names(Conf!GetNested(over, key)) |-> Branch(base, over, f, key, n)])

LEMMA BothAre ==
  ASSUME NEW base, NEW over, MaxNesting \in Nat
  PROVE  \A key \in Both(base, over) : IsKey(key) /\ Len(key) \in 0..MaxNesting
<1>1. IsKey(<<>>) /\ Len(<<>>) = 0 BY NoNames
<1>2. \A key \in Conf!AllKeys(base) : IsKey(key) /\ Len(key) \in 1..MaxNesting BY KeysAre
<1>. QED BY <1>1, <1>2 DEF Both

LEMMA MergeIs ==
  ASSUME NEW base, NEW over, MaxNesting \in Nat
  PROVE  \E f : /\ Conf!DeepMerge(base, over) = f[<<>>]
                /\ \A key \in Both(base, over) : f[key] = MergedAt(base, over, f, key)
<1> DEFINE last == MaxNesting
           both == Both(base, over)
           Deep(m) == {key \in both : Len(key) >= last - m}
           IsMerge(f, keys) == f = [key \in keys |-> MergedAt(base, over, f, key)]
           Reached == {m \in 0..last : \E f : IsMerge(f, Deep(m))}
           merged == CHOOSE f : IsMerge(f, both)
<1>1. Conf!DeepMerge(base, over) = merged[<<>>]
  BY DEF Conf!DeepMerge, Both, MergedAt, Branch
<1>2. \A key \in both : IsKey(key) /\ Len(key) \in 0..last BY BothAre
<1>3. \A key \in both : \A n : Append(key, n) \in both => Len(Append(key, n)) = Len(key) + 1
  BY <1>2, AppendIs
<1>4. ASSUME NEW f, NEW g, NEW key \in both,
             \A n : Append(key, n) \in both => f[Append(key, n)] = g[Append(key, n)]
      PROVE  MergedAt(base, over, f, key) = MergedAt(base, over, g, key)
  <2>1. \A n : Branch(base, over, f, key, n) = Branch(base, over, g, key, n) BY <1>4 DEF Branch
  <2>. QED BY <2>1 DEF MergedAt
<1>. HIDE DEF both, merged
<1>5. 0 \in Reached
  <2> DEFINE f == [key \in Deep(0) |-> MergedAt(base, over, <<>>, key)]
  <2>1. \A key \in Deep(0) : key \in both /\ \A n : Append(key, n) \notin both
    <3>. SUFFICES ASSUME NEW key \in Deep(0), NEW n, Append(key, n) \in both PROVE FALSE OBVIOUS
    <3>1. key \in both /\ Len(key) = last BY <1>2
    <3>2. Len(Append(key, n)) = last + 1 BY <1>3, <3>1
    <3>3. Len(Append(key, n)) \in 0..last BY <1>2
    <3>. QED BY <3>2, <3>3
  <2>2. \A key \in Deep(0) : MergedAt(base, over, <<>>, key) = MergedAt(base, over, f, key)
    BY <1>4, <2>1
  <2>3. IsMerge(f, Deep(0)) BY <2>2
  <2>. HIDE DEF f, IsMerge, Deep
  <2>. QED BY <2>3
<1>6. ASSUME NEW m \in 0..last, m > 0, m - 1 \in Reached PROVE m \in Reached
  <2>1. PICK f : IsMerge(f, Deep(m - 1)) BY <1>6
  <2> DEFINE g == [key \in Deep(m) |-> IF key \in Deep(m - 1) THEN f[key]
                                       ELSE MergedAt(base, over, f, key)]
  <2>2. \A key \in Deep(m - 1) : key \in Deep(m) BY <1>2
  <2>3. \A key \in Deep(m - 1) : g[key] = f[key] BY <2>2
  <2>4. \A key \in Deep(m) : \A n : Append(key, n) \in both => Append(key, n) \in Deep(m - 1)
    <3>. SUFFICES ASSUME NEW key \in Deep(m), NEW n, Append(key, n) \in both
                  PROVE  Append(key, n) \in Deep(m - 1)
      OBVIOUS
    <3>1. Len(Append(key, n)) = Len(key) + 1 /\ Len(key) \in Nat /\ Len(key) >= last - m
      BY <1>2, <1>3
    <3>. QED BY <3>1
  <2>. HIDE DEF g
  <2>5. \A key \in Deep(m) : key \in both OBVIOUS
  <2>6. ASSUME NEW key \in Deep(m)
        PROVE  MergedAt(base, over, f, key) = MergedAt(base, over, g, key)
    <3>. HIDE DEF Deep
    <3>. QED BY <1>4, <2>3, <2>4, <2>5
  <2>7. \A key \in Deep(m - 1) : f[key] = MergedAt(base, over, f, key) BY <2>1
  <2>8. g = [key \in Deep(m) |-> MergedAt(base, over, g, key)]
    <3>1. \A key \in Deep(m) : g[key] = MergedAt(base, over, f, key) BY <2>7 DEF g
    <3>2. g = [key \in Deep(m) |-> g[key]] BY DEF g
    <3>. HIDE DEF Deep
    <3>. QED BY <2>6, <3>1, <3>2
  <2>9. \E h : IsMerge(h, Deep(m)) BY <2>8
  <2>. HIDE DEF IsMerge, Deep
  <2>. QED BY <1>6, <2>9
<1>7. \E f : IsMerge(f, both)
  <2>1. \A m \in 0..last : m > 0 /\ m - 1 \in Reached => m \in Reached BY <1>6
  <2>2. Deep(last) = both BY <1>2
  <2>3. last \in Reached
    <3>. HIDE DEF Reached
    <3>. QED BY <1>5, <2>1, Upwards
  <2>. HIDE DEF IsMerge, Deep
  <2>. QED BY <2>2, <2>3
<1>8. IsMerge(merged, both)
  <2>. HIDE DEF IsMerge
  <2>. QED BY <1>7 DEF merged
<1>9. \A key \in both : merged[key] = MergedAt(base, over, merged, key) BY <1>8
<1>. QED BY <1>1, <1>9 DEF both

(* The way along a key in what is merged, from where both have a dict.       *)
LEMMA BothHold ==
  ASSUME NEW base, NEW over, NEW key, IsKey(key), NEW n \in 0..Len(key),
         SubSeq(key, 1, n) \in Both(base, over)
  PROVE  /\ Conf!HoldsTo(base, key, n) /\ Conf!HoldsTo(over, key, n)
         /\ Conf!GetNested(base, SubSeq(key, 1, n)) = Conf!Along(base, key)[n]
         /\ Conf!GetNested(over, SubSeq(key, 1, n)) = Conf!Along(over, key)[n]
<1> DEFINE short == SubSeq(key, 1, n)
<1>1. \A tree : /\ Conf!Holds(tree, short) <=> Conf!HoldsTo(tree, key, n)
                /\ Conf!HoldsTo(tree, key, n) =>
                     Conf!GetNested(tree, short) = Conf!Along(tree, key)[n]
  <2>. TAKE tree
  <2>. QED BY AlongFirst
<1>2. \A tree : short = <<>> => Conf!Holds(tree, short) BY NoNames DEF Conf!Holds, Conf!HoldsTo
<1>. HIDE DEF short
<1>3. Conf!Holds(base, short) /\ Conf!Holds(over, short) BY <1>2 DEF Both, Conf!HasDict, short
<1>. QED BY <1>1, <1>3 DEF short

LEMMA MergeStep ==
  ASSUME NEW base, NEW over, NEW f, NEW key, IsKey(key), NEW n \in 1..Len(key),
         \A p \in Both(base, over) : f[p] = MergedAt(base, over, f, p),
         SubSeq(key, 1, n - 1) \in Both(base, over),
         Conf!Along(f[<<>>], key)[n - 1] = f[SubSeq(key, 1, n - 1)],
         key[n] \in Conf!Names(Conf!Along(base, key)[n - 1])
                      \cup Conf!Names(Conf!Along(over, key)[n - 1])
  PROVE  /\ key[n] \in Conf!Names(Conf!Along(f[<<>>], key)[n - 1])
         /\ Conf!Along(f[<<>>], key)[n] =
              IF key[n] \notin Conf!Names(Conf!Along(over, key)[n - 1])
              THEN Conf!Along(base, key)[n]
              ELSE IF SubSeq(key, 1, n) \in Both(base, over) THEN f[SubSeq(key, 1, n)]
              ELSE Conf!Along(over, key)[n]
<1> DEFINE p == SubSeq(key, 1, n - 1)
           old == Conf!GetNested(base, p)
           new == Conf!GetNested(over, p)
<1>1. n - 1 \in 0..Len(key) BY DEF IsKey
<1>2. old = Conf!Along(base, key)[n - 1] /\ new = Conf!Along(over, key)[n - 1] BY <1>1, BothHold
<1>3. Append(p, key[n]) = SubSeq(key, 1, n) BY FirstGrows
<1>4. /\ Conf!Along(f[<<>>], key)[n] = Conf!Along(f[<<>>], key)[n - 1].of[key[n]]
      /\ Conf!Along(base, key)[n] = Conf!Along(base, key)[n - 1].of[key[n]]
      /\ Conf!Along(over, key)[n] = Conf!Along(over, key)[n - 1].of[key[n]]
  BY AlongIs
<1>. HIDE DEF p
<1>5. f[p] = MergedAt(base, over, f, p) BY DEF p
<1> DEFINE names == Conf!Names(old) \cup Conf!Names(new)
           entries == [m \in names |-> Branch(base, over, f, p, m)]
<1>6. f[p] = Conf!Dict(entries) BY <1>5 DEF MergedAt
<1>7. Conf!Names(f[p]) = names /\ f[p].of = entries
  <2>1. DOMAIN entries = names OBVIOUS
  <2>. HIDE DEF entries, names
  <2>. QED BY <1>6, <2>1, DictIs
<1>8. key[n] \in names BY <1>2
<1>9. f[p].of[key[n]] = Branch(base, over, f, p, key[n])
  <2>. HIDE DEF names
  <2>. QED BY <1>7, <1>8
<1>10. Conf!Along(f[<<>>], key)[n - 1] = f[p] BY DEF p
<1>11. Branch(base, over, f, p, key[n]) =
         IF key[n] \notin Conf!Names(new) THEN old.of[key[n]]
         ELSE IF SubSeq(key, 1, n) \in Both(base, over) THEN f[SubSeq(key, 1, n)]
         ELSE new.of[key[n]]
  BY <1>3 DEF Branch
<1>. HIDE DEF old, new, entries
<1>. QED BY <1>2, <1>4, <1>7, <1>8, <1>9, <1>10, <1>11

(* Merging takes all of the tree that is put over the other.                 *)
LEMMA MergeTakes ==
  ASSUME NEW base, NEW over, NEW key, IsKey(key), MaxNesting \in Nat, Conf!Holds(over, key)
  PROVE  Conf!Holds(Conf!DeepMerge(base, over), key)
<1>1. PICK f : /\ Conf!DeepMerge(base, over) = f[<<>>]
               /\ \A p \in Both(base, over) : f[p] = MergedAt(base, over, f, p)
  BY MergeIs
<1> DEFINE x == Conf!Along(f[<<>>], key)
           o == Conf!Along(over, key)
           Is(n) == /\ Conf!HoldsTo(f[<<>>], key, n)
                    /\ \/ SubSeq(key, 1, n) \in Both(base, over) /\ x[n] = f[SubSeq(key, 1, n)]
                       \/ x[n] = o[n]
           Reached == {n \in 0..Len(key) : Is(n)}
<1>2. Len(key) \in Nat BY DEF IsKey
<1>3. 0 \in Reached
  <2>1. SubSeq(key, 1, 0) = <<>> BY <1>2, FirstIs
  <2>2. x[0] = f[<<>>] BY AlongIs
  <2>3. <<>> \in Both(base, over) BY DEF Both
  <2>4. Conf!HoldsTo(f[<<>>], key, 0) BY DEF Conf!HoldsTo
  <2>5. x[0] = f[SubSeq(key, 1, 0)] /\ SubSeq(key, 1, 0) \in Both(base, over)
    BY <2>1, <2>2, <2>3
  <2>6. Is(0)
    <3>. HIDE DEF x
    <3>. QED BY <2>4, <2>5
  <2>. HIDE DEF Is
  <2>. QED BY <1>2, <2>6
<1>4. ASSUME NEW n \in 0..Len(key), n > 0, n - 1 \in Reached PROVE n \in Reached
  <2>1. n \in Nat /\ n \in 1..Len(key) BY <1>2, <1>4
  <2>2. Is(n - 1) BY <1>4
  <2>3. Conf!HoldsTo(over, key, n) BY <1>2, HoldsLess DEF Conf!Holds
  <2>4. key[n] \in Conf!Names(o[n - 1]) BY <2>1, <2>3, HoldsStep
  <2>5. x[n] = x[n - 1].of[key[n]] /\ o[n] = o[n - 1].of[key[n]] BY <2>1, AlongIs
  <2>6. CASE x[n - 1] = o[n - 1]
    <3>1. x[n] = o[n] /\ key[n] \in Conf!Names(x[n - 1]) BY <2>4, <2>5, <2>6
    <3>. QED BY <2>1, <2>2, <3>1, HoldsStep
  <2>7. CASE SubSeq(key, 1, n - 1) \in Both(base, over) /\ x[n - 1] = f[SubSeq(key, 1, n - 1)]
    <3>1. /\ key[n] \in Conf!Names(x[n - 1])
          /\ x[n] = IF key[n] \notin Conf!Names(o[n - 1]) THEN Conf!Along(base, key)[n]
                    ELSE IF SubSeq(key, 1, n) \in Both(base, over) THEN f[SubSeq(key, 1, n)]
                    ELSE o[n]
      BY <1>1, <2>1, <2>4, <2>7, MergeStep
    <3>. QED BY <2>1, <2>2, <2>4, <3>1, HoldsStep
  <2>. QED BY <2>2, <2>6, <2>7
<1>5. Is(Len(key))
  <2>1. \A n \in 0..Len(key) : n > 0 /\ n - 1 \in Reached => n \in Reached BY <1>4
  <2>. HIDE DEF Is
  <2>2. Len(key) \in Reached
    <3>. HIDE DEF Reached
    <3>1. \A n \in 0..Len(key) : n \in Reached BY <1>2, <1>3, <2>1, Upwards
    <3>. QED BY <1>2, <3>1
  <2>. QED BY <2>2
<1>. QED BY <1>1, <1>5 DEF Conf!Holds

(* It keeps what the other held, but below a leaf that is put over it.       *)
LEMMA MergeKeeps ==
  ASSUME NEW base, NEW over, NEW key, IsKey(key), MaxNesting \in Nat,
         Len(key) <= MaxNesting + 1, Conf!Holds(base, key),
         \A leaf \in Conf!Leaves(over) : ~Conf!IsStrictPrefix(leaf, key)
  PROVE  Conf!Holds(Conf!DeepMerge(base, over), key)
<1>1. PICK f : /\ Conf!DeepMerge(base, over) = f[<<>>]
               /\ \A p \in Both(base, over) : f[p] = MergedAt(base, over, f, p)
  BY MergeIs
<1> DEFINE x == Conf!Along(f[<<>>], key)
           b == Conf!Along(base, key)
           o == Conf!Along(over, key)
           Is(n) == /\ Conf!HoldsTo(f[<<>>], key, n)
                    /\ \/ SubSeq(key, 1, n) \in Both(base, over) /\ x[n] = f[SubSeq(key, 1, n)]
                       \/ x[n] = b[n]
                       \/ n = Len(key)
           Reached == {n \in 0..Len(key) : Is(n)}
<1>2. Len(key) \in Nat BY DEF IsKey
<1>3. 0 \in Reached
  <2>1. SubSeq(key, 1, 0) = <<>> BY <1>2, FirstIs
  <2>2. x[0] = f[<<>>] BY AlongIs
  <2>3. <<>> \in Both(base, over) BY DEF Both
  <2>4. Conf!HoldsTo(f[<<>>], key, 0) BY DEF Conf!HoldsTo
  <2>5. x[0] = f[SubSeq(key, 1, 0)] /\ SubSeq(key, 1, 0) \in Both(base, over)
    BY <2>1, <2>2, <2>3
  <2>6. Is(0)
    <3>. HIDE DEF x
    <3>. QED BY <2>4, <2>5
  <2>. HIDE DEF Is
  <2>. QED BY <1>2, <2>6
<1>4. ASSUME NEW n \in 0..Len(key), n > 0, n - 1 \in Reached PROVE n \in Reached
  <2>1. n \in Nat /\ n \in 1..Len(key) /\ n - 1 \in 0..Len(key) /\ n - 1 # Len(key)
    BY <1>2, <1>4
  <2>2. Is(n - 1) BY <1>4
  <2>3. Conf!HoldsTo(base, key, n) BY <1>2, HoldsLess DEF Conf!Holds
  <2>4. key[n] \in Conf!Names(b[n - 1]) BY <2>1, <2>3, HoldsStep
  <2>5. x[n] = x[n - 1].of[key[n]] /\ b[n] = b[n - 1].of[key[n]] BY <2>1, AlongIs
  <2>6. CASE x[n - 1] = b[n - 1]
    <3>1. x[n] = b[n] /\ key[n] \in Conf!Names(x[n - 1]) BY <2>4, <2>5, <2>6
    <3>. QED BY <2>1, <2>2, <3>1, HoldsStep
  <2>7. CASE SubSeq(key, 1, n - 1) \in Both(base, over) /\ x[n - 1] = f[SubSeq(key, 1, n - 1)]
    <3> DEFINE p == SubSeq(key, 1, n)
    <3>1. /\ key[n] \in Conf!Names(x[n - 1])
          /\ x[n] = IF key[n] \notin Conf!Names(o[n - 1]) THEN b[n]
                    ELSE IF p \in Both(base, over) THEN f[p] ELSE o[n]
      BY <1>1, <2>1, <2>4, <2>7, MergeStep
    <3>2. ASSUME key[n] \in Conf!Names(o[n - 1]), p \notin Both(base, over), n # Len(key)
          PROVE  FALSE
      <4>1. n + 1 \in 1..Len(key) /\ n \in 1..MaxNesting /\ n < Len(key) /\ (n + 1) - 1 = n
        BY <1>2, <2>1, <3>2
      <4>2. Conf!HoldsTo(over, key, n)
        <5>1. Conf!HoldsTo(over, key, n - 1) BY <2>1, <2>7, BothHold
        <5>. QED BY <2>1, <3>2, <5>1, HoldsStep
      <4>3. /\ IsKey(p) /\ Len(p) = n /\ \A i \in 1..n : p[i] = key[i]
            /\ Conf!Holds(base, p) /\ Conf!GetNested(base, p) = b[n] /\ Conf!Holds(over, p)
        <5>1. IsKey(p) /\ Len(p) = n /\ \A i \in 1..n : p[i] = key[i] BY FirstIs
        <5>2. Conf!Holds(base, p) /\ Conf!GetNested(base, p) = b[n] BY <2>3, AlongFirst
        <5>3. Conf!Holds(over, p) BY <4>2, AlongFirst
        <5>. QED BY <5>1, <5>2, <5>3
      <4>4. key[n + 1] \in Conf!Names(b[n])
        <5>1. Conf!HoldsTo(base, key, n + 1)
          <6>1. n + 1 \in 0..Len(key) BY <4>1
          <6>. QED BY <1>2, <6>1, HoldsLess DEF Conf!Holds
        <5>. QED BY <2>1, <4>1, <5>1, HoldsStep
      <4>. HIDE DEF p
      <4>5. Conf!HasDict(base, p) BY <4>3, <4>4 DEF Conf!HasDict, Conf!Names
      <4>6. p \in Conf!AllKeys(base) /\ p \in Conf!AllKeys(over) BY <4>1, <4>3, KeysAre
      <4>7. p \in Conf!Leaves(over) BY <3>2, <4>5, <4>6 DEF Both, Conf!Leaves
      <4>8. Conf!IsStrictPrefix(p, key) BY <4>1, <4>3, PrefixIs
      <4>. QED BY <4>7, <4>8
    <3>. QED BY <2>1, <2>2, <3>1, <3>2, HoldsStep
  <2>. QED BY <2>1, <2>2, <2>6, <2>7
<1>5. Is(Len(key))
  <2>1. \A n \in 0..Len(key) : n > 0 /\ n - 1 \in Reached => n \in Reached BY <1>4
  <2>. HIDE DEF Is
  <2>2. Len(key) \in Reached
    <3>. HIDE DEF Reached
    <3>1. \A n \in 0..Len(key) : n \in Reached BY <1>2, <1>3, <2>1, Upwards
    <3>. QED BY <1>2, <3>1
  <2>. QED BY <2>2
<1>. QED BY <1>1, <1>5 DEF Conf!Holds

(* What is put into a tree, and what a tree that is set at a key still holds. *)
LEMMA PutIs ==
  ASSUME NEW tree, NEW name, NEW sub
  PROVE  /\ Conf!Names(Conf!Put(tree, name, sub)) = Conf!Names(tree) \cup {name}
         /\ Conf!Put(tree, name, sub).of[name] = sub
         /\ \A n \in Conf!Names(tree) : n # name => Conf!Put(tree, name, sub).of[n] = tree.of[n]
<1> DEFINE names == Conf!Names(tree) \cup {name}
           entries == [n \in names |-> IF n = name THEN sub ELSE tree.of[n]]
<1>1. Conf!Put(tree, name, sub) = Conf!Dict(entries) BY DEF Conf!Put
<1>2. DOMAIN entries = names /\ entries[name] = sub
      /\ \A n \in Conf!Names(tree) : n # name => entries[n] = tree.of[n]
  OBVIOUS
<1>. HIDE DEF entries
<1>. QED BY <1>1, <1>2, DictIs

Now(tree, key, i) ==
  IF Conf!HoldsTo(tree, key, i) THEN Conf!Along(tree, key)[i] ELSE Conf!Empty
SetAt(tree, key, sub, f, i) ==
  IF i = Len(key) THEN sub ELSE Conf!Put(Now(tree, key, i), key[i + 1], f[i + 1])
LEMMA SetIs ==
  ASSUME NEW tree, NEW key, IsKey(key), NEW sub
  PROVE  \E f : /\ Conf!SetNested(tree, key, sub) = f[0]
                /\ \A i \in 0..Len(key) : f[i] = SetAt(tree, key, sub, f, i)
<1> DEFINE last == Len(key)
           From(m) == {i \in 0..last : i >= last - m}
           IsPut(f, places) == f = [i \in places |-> SetAt(tree, key, sub, f, i)]
           Reached == {m \in 0..last : \E f : IsPut(f, From(m))}
           put == CHOOSE f : IsPut(f, 0..last)
<1>1. Conf!SetNested(tree, key, sub) = put[0] BY DEF Conf!SetNested, SetAt, Now
<1>2. last \in Nat BY DEF IsKey
<1>. HIDE DEF put, last
<1>3. ASSUME NEW f, NEW g, NEW i \in 0..last, i # last => f[i + 1] = g[i + 1]
      PROVE  SetAt(tree, key, sub, f, i) = SetAt(tree, key, sub, g, i)
  BY <1>3 DEF SetAt, last
<1>4. 0 \in Reached
  <2> DEFINE f == [i \in From(0) |-> SetAt(tree, key, sub, <<>>, i)]
  <2>1. \A i \in From(0) : i \in 0..last /\ i = last BY <1>2
  <2>2. \A i \in From(0) : SetAt(tree, key, sub, <<>>, i) = SetAt(tree, key, sub, f, i)
    <3>. HIDE DEF From, f
    <3>. QED BY <1>3, <2>1
  <2>3. IsPut(f, From(0)) BY <2>2
  <2>. HIDE DEF f, IsPut, From
  <2>4. \E g : IsPut(g, From(0)) BY <2>3
  <2>. QED BY <1>2, <2>4
<1>5. ASSUME NEW m \in 0..last, m > 0, m - 1 \in Reached PROVE m \in Reached
  <2>1. PICK f : IsPut(f, From(m - 1)) BY <1>5
  <2> DEFINE g == [i \in From(m) |-> IF i \in From(m - 1) THEN f[i]
                                     ELSE SetAt(tree, key, sub, f, i)]
  <2>2. \A i \in From(m - 1) : i \in From(m) BY <1>2
  <2>3. \A i \in From(m - 1) : g[i] = f[i] BY <2>2
  <2>4. \A i \in From(m) : i \in 0..last /\ (i # last => i + 1 \in From(m - 1)) BY <1>2
  <2>. HIDE DEF g
  <2>5. ASSUME NEW i \in From(m)
        PROVE  SetAt(tree, key, sub, f, i) = SetAt(tree, key, sub, g, i)
    <3>. HIDE DEF From
    <3>. QED BY <1>3, <2>3, <2>4
  <2>6. \A i \in From(m - 1) : f[i] = SetAt(tree, key, sub, f, i) BY <2>1
  <2>7. g = [i \in From(m) |-> SetAt(tree, key, sub, g, i)]
    <3>1. \A i \in From(m) : g[i] = SetAt(tree, key, sub, f, i) BY <2>6 DEF g
    <3>2. g = [i \in From(m) |-> g[i]] BY DEF g
    <3>. HIDE DEF From
    <3>. QED BY <2>5, <3>1, <3>2
  <2>8. \E h : IsPut(h, From(m)) BY <2>7
  <2>. HIDE DEF IsPut, From
  <2>. QED BY <1>5, <2>8
<1>6. \E f : IsPut(f, 0..last)
  <2>1. \A m \in 0..last : m > 0 /\ m - 1 \in Reached => m \in Reached BY <1>5
  <2>2. From(last) = 0..last BY <1>2
  <2>3. last \in Reached
    <3>. HIDE DEF Reached
    <3>1. \A m \in 0..last : m \in Reached BY <1>2, <1>4, <2>1, Upwards
    <3>. QED BY <1>2, <3>1
  <2>. HIDE DEF IsPut, From
  <2>. QED BY <2>2, <2>3
<1>7. IsPut(put, 0..last)
  <2>. HIDE DEF IsPut
  <2>. QED BY <1>6 DEF put
<1>8. \A i \in 0..last : put[i] = SetAt(tree, key, sub, put, i) BY <1>7
<1>. QED BY <1>1, <1>8 DEF last

LEMMA SetKeeps ==
  ASSUME NEW tree, NEW key, IsKey(key), NEW sub, NEW k, IsKey(k), Conf!Holds(tree, k),
         ~Conf!IsStrictPrefix(key, k)
  PROVE  Conf!Holds(Conf!SetNested(tree, key, sub), k)
<1>1. PICK f : /\ Conf!SetNested(tree, key, sub) = f[0]
               /\ \A i \in 0..Len(key) : f[i] = SetAt(tree, key, sub, f, i)
  BY SetIs
<1> DEFINE x == Conf!Along(f[0], k)
           t == Conf!Along(tree, k)
           Is(n) == /\ Conf!HoldsTo(f[0], k, n)
                    /\ \/ x[n] = t[n]
                       \/ n <= Len(key) /\ x[n] = f[n] /\ \A j \in 1..n : k[j] = key[j]
           Reached == {n \in 0..Len(k) : Is(n)}
<1>2. Len(k) \in Nat /\ Len(key) \in Nat BY DEF IsKey
<1>3. 0 \in Reached
  <2>1. x[0] = f[0] BY AlongIs
  <2>2. Conf!HoldsTo(f[0], k, 0) BY DEF Conf!HoldsTo
  <2>3. 0 <= Len(key) /\ \A j \in 1..0 : k[j] = key[j] BY <1>2
  <2>4. Is(0)
    <3>. HIDE DEF x
    <3>. QED BY <2>1, <2>2, <2>3
  <2>. HIDE DEF Is
  <2>. QED BY <1>2, <2>4
<1>4. ASSUME NEW n \in 0..Len(k), n > 0, n - 1 \in Reached PROVE n \in Reached
  <2>1. n \in Nat /\ n \in 1..Len(k) /\ n - 1 \in Nat BY <1>2, <1>4
  <2>2. Is(n - 1) BY <1>4
  <2>3. \A i \in 1..n : k[i] \in Conf!Names(t[i - 1]) BY <2>1 DEF Conf!Holds, Conf!HoldsTo
  <2>4. k[n] \in Conf!Names(t[n - 1]) BY <2>1, <2>3
  <2>5. x[n] = x[n - 1].of[k[n]] /\ t[n] = t[n - 1].of[k[n]] BY <2>1, AlongIs
  <2>6. CASE x[n - 1] = t[n - 1]
    <3>1. x[n] = t[n] /\ k[n] \in Conf!Names(x[n - 1]) BY <2>4, <2>5, <2>6
    <3>2. Conf!HoldsTo(f[0], k, n) BY <2>1, <2>2, <3>1, HoldsStep
    <3>. HIDE DEF x, t
    <3>. QED BY <3>1, <3>2
  <2>7. CASE n - 1 <= Len(key) /\ x[n - 1] = f[n - 1] /\ \A j \in 1..(n - 1) : k[j] = key[j]
    <3>1. n - 1 < Len(key)
      <4>1. SUFFICES ASSUME n - 1 = Len(key) PROVE FALSE BY <1>2, <2>1, <2>7
      <4>2. Len(key) < Len(k) /\ \A j \in 1..Len(key) : key[j] = k[j] BY <1>2, <2>1, <2>7, <4>1
      <4>. QED BY <4>2, PrefixIs
    <3>2. \A j \in 0..(n - 1) : Conf!Along(tree, key)[j] = t[j]
      <4> DEFINE z == 0
                 m == n - 1
      <4>1. z \in Nat /\ m \in Nat /\ z + m <= Len(key) /\ z + m <= Len(k) BY <1>2, <2>1, <3>1
      <4>2. SameNames(key, k, z, z, m) BY <2>1, <2>7 DEF SameNames
      <4>3. Conf!Along(tree, key)[z] = Conf!Along(tree, k)[z] BY AlongIs
      <4>4. \A j \in 0..m : z + j = j BY <2>1
      <4>. HIDE DEF z, m
      <4>5. Together(tree, key, z, tree, k, z, m) BY <4>1, <4>2, <4>3, OnTheSameWay
      <4>6. ASSUME NEW j \in 0..m PROVE Conf!Along(tree, key)[j] = Conf!Along(tree, k)[j]
        <5>1. Conf!Along(tree, key)[z + j] = Conf!Along(tree, k)[z + j]
          BY <4>5 DEF Together
        <5>. QED BY <4>4, <5>1
      <4>. QED BY <4>6 DEF m
    <3>. HIDE DEF t, x
    <3>3. Conf!HoldsTo(tree, key, n - 1)
      <4>1. \A j \in 1..(n - 1) : j \in 1..n /\ j - 1 \in 0..(n - 1) BY <2>1
      <4>. QED BY <2>3, <2>7, <3>2, <4>1 DEF Conf!HoldsTo
    <3>4. Now(tree, key, n - 1) = t[n - 1]
      <4>1. n - 1 \in 0..(n - 1) BY <2>1
      <4>. QED BY <3>2, <3>3, <4>1 DEF Now
    <3>5. f[n - 1] = Conf!Put(t[n - 1], key[n], f[n])
      <4>1. n - 1 \in 0..Len(key) /\ n - 1 # Len(key) /\ (n - 1) + 1 = n BY <1>2, <2>1, <3>1
      <4>. QED BY <1>1, <3>4, <4>1 DEF SetAt
    <3>6. k[n] \in Conf!Names(x[n - 1]) BY <2>4, <2>7, <3>5, PutIs
    <3>7. x[n] = IF k[n] = key[n] THEN f[n] ELSE t[n] BY <2>4, <2>5, <2>7, <3>5, PutIs
    <3>8. Conf!HoldsTo(f[0], k, n) BY <2>1, <2>2, <3>6, HoldsStep DEF x
    <3>9. \A j \in 1..n : j = n \/ j \in 1..(n - 1) BY <2>1
    <3>10. n <= Len(key) BY <1>2, <2>1, <3>1
    <3>. QED BY <2>7, <3>7, <3>8, <3>9, <3>10
  <2>. QED BY <2>2, <2>6, <2>7
<1>5. Is(Len(k))
  <2>1. \A n \in 0..Len(k) : n > 0 /\ n - 1 \in Reached => n \in Reached BY <1>4
  <2>. HIDE DEF Is
  <2>2. Len(k) \in Reached
    <3>. HIDE DEF Reached
    <3>1. \A n \in 0..Len(k) : n \in Reached BY <1>2, <1>3, <2>1, Upwards
    <3>. QED BY <1>2, <3>1
  <2>. QED BY <2>2
<1>. QED BY <1>1, <1>5 DEF Conf!Holds

(* A mount holds all of the tree that is mounted, and what was held before,  *)
(* but below a leaf of that tree.                                            *)
LEMMA MountTakes ==
  ASSUME NEW whole, NEW ns, NEW tree, NEW key, IsKey(key), MaxNesting \in Nat,
         Conf!Holds(tree, key)
  PROVE  Conf!Holds(Conf!Merged(whole, ns, tree), <<ns>> \o key)
<1> DEFINE k == <<ns>> \o key
           below == Conf!DeepMerge(IF Conf!IsDict(Conf!Entry(whole, ns))
                                   THEN Conf!Entry(whole, ns) ELSE Conf!Empty, tree)
<1>1. /\ IsKey(k) /\ Len(k) = Len(key) + 1 /\ k[1] = ns
      /\ \A i \in 1..Len(key) : k[i + 1] = key[i]
  BY UnderIs
<1>2. Conf!Merged(whole, ns, tree) = Conf!Put(whole, ns, below) BY DEF Conf!Merged
<1>3. Conf!Holds(below, key) BY MergeTakes
<1>. HIDE DEF k, below
<1>4. Tail(k) = key
  <2>1. Len(key) \in Nat /\ Len(k) > 0 BY <1>1 DEF IsKey
  <2>2. /\ IsKey(Tail(k)) /\ Len(Tail(k)) = Len(k) - 1
        /\ \A i \in 1..(Len(k) - 1) : Tail(k)[i] = k[i + 1]
    BY <1>1, <2>1, TailIs
  <2>3. Len(Tail(k)) = Len(key) BY <1>1, <2>1, <2>2
  <2>4. \A i \in 1..Len(key) : Tail(k)[i] = key[i] BY <1>1, <2>1, <2>2
  <2>. QED BY <2>2, <2>3, <2>4, SameKey
<1>5. /\ k[1] \in Conf!Names(Conf!Merged(whole, ns, tree))
      /\ Conf!Merged(whole, ns, tree).of[k[1]] = below
  BY <1>1, <1>2, PutIs
<1>6. Len(k) > 0 BY <1>1 DEF IsKey
<1>. QED BY <1>1, <1>3, <1>4, <1>5, <1>6, HoldsUnder DEF k

LEMMA MountKeeps ==
  ASSUME NEW whole, NEW ns, NEW tree, NEW k, IsKey(k), MaxNesting \in Nat,
         Len(k) \in 1..(MaxNesting + 1), Conf!Holds(whole, k),
         \A leaf \in Conf!Leaves(tree) : ~Conf!IsStrictPrefix(<<ns>> \o leaf, k)
  PROVE  Conf!Holds(Conf!Merged(whole, ns, tree), k)
<1> DEFINE old == Conf!Entry(whole, ns)
           base == IF Conf!IsDict(old) THEN old ELSE Conf!Empty
           below == Conf!DeepMerge(base, tree)
           rest == Tail(k)
<1>1. Conf!Merged(whole, ns, tree) = Conf!Put(whole, ns, below) BY DEF Conf!Merged
<1>2. /\ IsKey(rest) /\ Len(rest) = Len(k) - 1
      /\ \A i \in 1..(Len(k) - 1) : rest[i] = k[i + 1]
  BY TailIs
<1>3. k[1] \in Conf!Names(whole) /\ Conf!Holds(whole.of[k[1]], rest) BY HoldsUnder
<1>. HIDE DEF rest, below
<1>4. CASE k[1] # ns
  <2>1. /\ k[1] \in Conf!Names(Conf!Merged(whole, ns, tree))
        /\ Conf!Merged(whole, ns, tree).of[k[1]] = whole.of[k[1]]
    BY <1>1, <1>3, <1>4, PutIs
  <2>. QED BY <1>3, <2>1, HoldsUnder DEF rest
<1>5. CASE k[1] = ns
  <2>1. /\ k[1] \in Conf!Names(Conf!Merged(whole, ns, tree))
        /\ Conf!Merged(whole, ns, tree).of[k[1]] = below
    BY <1>1, <1>5, PutIs
  <2>2. Conf!Holds(below, rest)
    <3>1. CASE Len(rest) = 0 BY <3>1 DEF Conf!Holds, Conf!HoldsTo
    <3>2. CASE Len(rest) # 0
      <4>1. old = whole.of[ns] BY <1>3, <1>5 DEF Conf!Entry
      <4>2. Len(rest) \in Nat /\ Len(rest) > 0 /\ Len(rest) <= MaxNesting + 1
        BY <1>2, <3>2 DEF IsKey
      <4>. HIDE DEF old
      <4>3. Conf!Holds(old, rest) BY <1>3, <1>5, <4>1
      <4>4. rest[1] \in Conf!Names(old) BY <1>2, <4>2, <4>3, HoldsUnder
      <4>5. base = old BY <4>4 DEF Conf!Names
      <4>6. \A leaf \in Conf!Leaves(tree) : ~Conf!IsStrictPrefix(leaf, rest)
        <5>. SUFFICES ASSUME NEW leaf \in Conf!Leaves(tree), Conf!IsStrictPrefix(leaf, rest)
                      PROVE  FALSE
          OBVIOUS
        <5> DEFINE whole1 == <<ns>> \o leaf
        <5>1. IsKey(leaf) BY KeysAre DEF Conf!Leaves
        <5>2. Len(leaf) < Len(rest) /\ \A i \in 1..Len(leaf) : leaf[i] = rest[i]
          BY <1>2, <5>1, PrefixIs
        <5>3. /\ IsKey(whole1) /\ Len(whole1) = Len(leaf) + 1 /\ whole1[1] = ns
              /\ \A i \in 1..Len(leaf) : whole1[i + 1] = leaf[i]
          BY <5>1, UnderIs
        <5>. HIDE DEF whole1
        <5>4. Len(leaf) \in Nat BY <5>1 DEF IsKey
        <5>5. Len(whole1) < Len(k) BY <1>2, <4>2, <5>2, <5>3, <5>4
        <5>6. ASSUME NEW i \in 1..Len(whole1) PROVE whole1[i] = k[i]
          <6>1. CASE i = 1 BY <1>5, <5>3, <6>1
          <6>2. CASE i # 1
            <7>1. i - 1 \in 1..Len(leaf) /\ (i - 1) + 1 = i BY <5>3, <5>4, <6>2
            <7>2. whole1[i] = leaf[i - 1] BY <5>3, <7>1
            <7>3. leaf[i - 1] = rest[i - 1] BY <5>2, <7>1
            <7>4. i - 1 \in 1..(Len(k) - 1) BY <1>2, <5>2, <5>4, <7>1
            <7>5. rest[i - 1] = k[i] BY <1>2, <7>1, <7>4
            <7>. QED BY <7>2, <7>3, <7>5
          <6>. QED BY <6>1, <6>2
        <5>7. Conf!IsStrictPrefix(whole1, k) BY <5>3, <5>5, <5>6, PrefixIs
        <5>. QED BY <5>7 DEF whole1
      <4>7. Conf!Holds(base, rest) BY <4>3, <4>5
      <4>. HIDE DEF base
      <4>. QED BY <1>2, <4>2, <4>6, <4>7, MergeKeeps DEF below
    <3>. QED BY <3>1, <3>2
  <2>. QED BY <1>5, <2>1, <2>2, HoldsUnder DEF rest
<1>. QED BY <1>4, <1>5

-----------------------------------------------------------------------------
(* Configuration.  A step keeps each mounted key in the mounts, in the data  *)
(* and in what the reloads in progress have copied of the mounts, until a    *)
(* leaf is put above it.                                                     *)
AllHold(key) ==
  /\ Conf!Holds(mounts, key) /\ Conf!Holds(data, key)
  /\ \A t \in Users : reload[t] # Missing => Conf!Holds(reload[t].mounts, key)
ConfInv ==
  /\ DOMAIN reload = Users
  /\ \A t \in Users : reload[t] # Missing => "mounts" \in DOMAIN reload[t]
  /\ \A key \in mounted : IsKey(key) /\ Len(key) \in 1..(MaxNesting + 1)
  /\ ~overlapped => \A key \in mounted : AllHold(key)

LEMMA ConfStarts == Conf!Init => ConfInv
BY DEF Conf!Init, ConfInv

LEMMA SetIsKept ==
  ASSUME ConfInv, NEW t, NEW key, IsKey(key), NEW value, Conf!Set(t, key, value)
  PROVE  ConfInv'
<1>1. /\ mounted' = {k \in mounted : ~Conf!IsStrictPrefix(key, k)}
      /\ reload' = reload /\ overlapped' = overlapped
      /\ data' = Conf!SetNested(data, key, value)
      /\ mounts' = mounts \/ mounts' = Conf!SetNested(mounts, key, value)
  BY DEF Conf!Set
<1>2. ASSUME ~overlapped, NEW k \in mounted' PROVE AllHold(k)'
  <2>1. k \in mounted /\ ~Conf!IsStrictPrefix(key, k) /\ IsKey(k) BY <1>1 DEF ConfInv
  <2>2. AllHold(k) BY <1>2, <2>1 DEF ConfInv
  <2>3. Conf!Holds(data', k) BY <1>1, <2>1, <2>2, SetKeeps DEF AllHold
  <2>4. Conf!Holds(mounts', k) BY <1>1, <2>1, <2>2, SetKeeps DEF AllHold
  <2>. QED BY <1>1, <2>2, <2>3, <2>4 DEF AllHold
<1>. QED BY <1>1, <1>2 DEF ConfInv

LEMMA MountIsKept ==
  ASSUME ConfInv, MaxNesting \in Nat, NEW t, NEW ns, NEW tree, Conf!Mount(t, ns, tree)
  PROVE  ConfInv'
<1> DEFINE now == {<<ns>> \o key : key \in Conf!Leaves(tree)}
<1>1. /\ mounted' = now \cup {k \in mounted : \A leaf \in now : ~Conf!IsStrictPrefix(leaf, k)}
      /\ reload' = reload
      /\ overlapped' = (overlapped \/ \E u \in Users : reload[u] # Missing)
      /\ data' = Conf!Merged(data, ns, tree)
      /\ mounts' = Conf!Merged(mounts, ns, tree)
  BY DEF Conf!Mount
<1>2. \A leaf \in Conf!Leaves(tree) :
        IsKey(leaf) /\ Len(leaf) \in 1..MaxNesting /\ Conf!Holds(tree, leaf)
  BY KeysAre DEF Conf!Leaves
<1>3. ASSUME NEW k \in now
      PROVE  /\ IsKey(k) /\ Len(k) \in 1..(MaxNesting + 1)
             /\ Conf!Holds(data', k) /\ Conf!Holds(mounts', k)
  <2>1. PICK leaf \in Conf!Leaves(tree) : k = <<ns>> \o leaf OBVIOUS
  <2>2. IsKey(leaf) /\ Len(leaf) \in 1..MaxNesting /\ Conf!Holds(tree, leaf) BY <1>2
  <2>3. IsKey(k) /\ Len(k) = Len(leaf) + 1 BY <2>1, <2>2, UnderIs
  <2>4. Conf!Holds(data', k) /\ Conf!Holds(mounts', k) BY <1>1, <2>1, <2>2, MountTakes
  <2>. QED BY <2>2, <2>3, <2>4
<1>4. ASSUME NEW k \in mounted, \A leaf \in now : ~Conf!IsStrictPrefix(leaf, k), ~overlapped'
      PROVE  Conf!Holds(data', k) /\ Conf!Holds(mounts', k)
  <2>1. IsKey(k) /\ Len(k) \in 1..(MaxNesting + 1) BY DEF ConfInv
  <2>2. Conf!Holds(data, k) /\ Conf!Holds(mounts, k) BY <1>1, <1>4 DEF ConfInv, AllHold
  <2>3. \A leaf \in Conf!Leaves(tree) : ~Conf!IsStrictPrefix(<<ns>> \o leaf, k) BY <1>4
  <2>. HIDE DEF now
  <2>. QED BY <1>1, <2>1, <2>2, <2>3, MountKeeps
<1>. HIDE DEF now
<1>5. \A k \in mounted' : IsKey(k) /\ Len(k) \in 1..(MaxNesting + 1) BY <1>1, <1>3 DEF ConfInv
<1>6. ASSUME ~overlapped', NEW k \in mounted' PROVE AllHold(k)'
  <2>1. Conf!Holds(data', k) /\ Conf!Holds(mounts', k) BY <1>1, <1>3, <1>4, <1>6
  <2>2. \A u \in Users : reload'[u] = Missing BY <1>1, <1>6
  <2>. QED BY <2>1, <2>2 DEF AllHold
<1>. QED BY <1>1, <1>5, <1>6 DEF ConfInv

LEMMA ReplaceIsKept ==
  ASSUME ConfInv, MaxNesting \in Nat, NEW t \in Users, Conf!Replace(t)
  PROVE  ConfInv'
<1> DEFINE kept == reload[t].mounts
           fresh == reload[t].loaded.data
           entries == [ns \in Conf!Names(fresh) \cup Conf!Names(kept) |->
                         IF ns \in Conf!Names(kept)
                         THEN Conf!Merged(fresh, ns, kept.of[ns]).of[ns] ELSE fresh.of[ns]]
<1>1. /\ reload[t] # Missing /\ data' = Conf!Dict(entries) /\ mounts' = kept
      /\ reload' = [reload EXCEPT ![t] = Missing]
      /\ mounted' = mounted /\ overlapped' = overlapped
  BY DEF Conf!Replace
<1>2. ASSUME NEW ns \in Conf!Names(kept)
      PROVE  /\ ns \in Conf!Names(data')
             /\ data'.of[ns] = Conf!Merged(fresh, ns, kept.of[ns]).of[ns]
  <2>. HIDE DEF kept, fresh
  <2>1. DOMAIN entries = Conf!Names(fresh) \cup Conf!Names(kept) OBVIOUS
  <2>2. entries[ns] = Conf!Merged(fresh, ns, kept.of[ns]).of[ns] OBVIOUS
  <2>. HIDE DEF entries
  <2>. QED BY <1>1, <2>1, <2>2, DictIs
<1>. HIDE DEF kept, fresh, entries
<1>3. ASSUME NEW k, IsKey(k), Len(k) > 0, Conf!Holds(kept, k) PROVE Conf!Holds(data', k)
  <2> DEFINE ns == k[1]
             below == Conf!Merged(fresh, ns, kept.of[ns]).of[ns]
  <2>1. ns \in Conf!Names(kept) /\ Conf!Holds(kept.of[ns], Tail(k)) BY <1>3, HoldsUnder
  <2>2. IsKey(Tail(k)) BY <1>3, TailIs
  <2>3. Conf!Holds(below, Tail(k)) BY <2>1, <2>2, MergeTakes, PutIs DEF Conf!Merged
  <2>4. ns \in Conf!Names(data') /\ data'.of[ns] = below BY <1>2, <2>1
  <2>. HIDE DEF below
  <2>. QED BY <1>3, <2>3, <2>4, HoldsUnder
<1>4. ASSUME ~overlapped, NEW k \in mounted PROVE AllHold(k)'
  <2>1. IsKey(k) /\ Len(k) > 0 /\ AllHold(k) BY <1>4 DEF ConfInv
  <2>2. Conf!Holds(kept, k) BY <1>1, <2>1 DEF AllHold, kept
  <2>3. Conf!Holds(data', k) /\ Conf!Holds(mounts', k) BY <1>1, <1>3, <2>1, <2>2
  <2>4. \A u \in Users : reload'[u] # Missing => reload'[u] = reload[u] BY <1>1 DEF ConfInv
  <2>. QED BY <2>1, <2>3, <2>4 DEF AllHold
<1>5. /\ DOMAIN reload' = Users
      /\ \A u \in Users : reload'[u] # Missing => "mounts" \in DOMAIN reload'[u]
  BY <1>1 DEF ConfInv
<1>. QED BY <1>1, <1>4, <1>5 DEF ConfInv

LEMMA ConfSteps ==
  ASSUME ConfInv, MaxNesting \in Nat, \A s \in Settings : IsKey(s[1]), [Conf!Next]_Conf!vars
  PROVE  ConfInv'
<1>1. ASSUME reload' = reload, mounts' = mounts, data' = data, mounted' = mounted,
             overlapped' = overlapped
      PROVE  ConfInv'
  BY <1>1 DEF ConfInv, AllHold
<1>2. CASE UNCHANGED Conf!vars BY <1>1, <1>2 DEF Conf!vars
<1>3. ASSUME NEW t \in Users, Conf!StartReload(t) PROVE ConfInv'
  <2> DEFINE copy == [step |-> "read", mounts |-> mounts, loaded |-> Missing]
  <2>1. /\ reload' = [reload EXCEPT ![t] = copy] /\ mounts' = mounts /\ data' = data
        /\ mounted' = mounted /\ overlapped' = overlapped
    BY <1>3 DEF Conf!StartReload, Conf!content
  <2>2. copy.mounts = mounts /\ "mounts" \in DOMAIN copy OBVIOUS
  <2>. HIDE DEF copy
  <2>3. DOMAIN reload' = Users /\ \A u \in Users : reload'[u] = IF u = t THEN copy ELSE reload[u]
    BY <2>1 DEF ConfInv
  <2>. QED BY <2>1, <2>2, <2>3 DEF ConfInv, AllHold
<1>4. ASSUME NEW t \in Users, Conf!ReadFile(t) PROVE ConfInv'
  <2> DEFINE old == reload[t]
             fresh == Conf!LoadDocument(disk[tier])
             new == IF Conf!Loads(disk[tier])
                    THEN [old EXCEPT !.step = "replace", !.loaded = fresh] ELSE Missing
  <2>1. /\ reload[t] # Missing /\ reload' = [reload EXCEPT ![t] = new]
        /\ mounts' = mounts /\ data' = data /\ mounted' = mounted /\ overlapped' = overlapped
    BY <1>4 DEF Conf!ReadFile, Conf!content
  <2>2. "mounts" \in DOMAIN old BY <2>1 DEF ConfInv
  <2>. HIDE DEF old, fresh
  <2>3. new # Missing => "mounts" \in DOMAIN new /\ new.mounts = old.mounts BY <2>2
  <2>. HIDE DEF new
  <2>4. DOMAIN reload' = Users /\ \A u \in Users : reload'[u] = IF u = t THEN new ELSE reload[u]
    BY <2>1 DEF ConfInv
  <2>. QED BY <2>1, <2>3, <2>4 DEF ConfInv, AllHold, old
<1>5. ASSUME NEW t \in Users, Conf!Replace(t) PROVE ConfInv' BY <1>5, ReplaceIsKept
<1>6. ASSUME NEW t \in Users, NEW s \in Settings, Conf!Set(t, s[1], s[2]) PROVE ConfInv'
  BY <1>6, SetIsKept
<1>7. ASSUME NEW t \in Users, NEW a \in Additions, Conf!Mount(t, a[1], a[2]) PROVE ConfInv'
  BY <1>7, MountIsKept
<1>8. ASSUME NEW ns, Conf!RegisterNamespace(ns) PROVE ConfInv'
  BY <1>1, <1>8 DEF Conf!RegisterNamespace, Conf!content
<1>9. ASSUME NEW text, Conf!EditFile(text) PROVE ConfInv'
  BY <1>1, <1>9 DEF Conf!EditFile, Conf!content
<1>10. CASE Conf!Next BY <1>3, <1>4, <1>5, <1>6, <1>7, <1>8, <1>9, <1>10 DEF Conf!Next
<1>. QED BY <1>2, <1>10

-----------------------------------------------------------------------------
(* Rules of a file (RuleLint).                                              *)

(* Rules are matched as policies are.                                       *)
LEMMA MatchesAlike ==
  ASSUME NEW pattern, NEW text
  PROVE  Lint!MatchPattern(pattern, text) <=> Governed!MatchPattern(pattern, text)
<1>1. \A s, c : Lint!Split(s, c) = Governed!Split(s, c) BY DEF Lint!Split, Governed!Split
<1>2. \A s : Lint!Segments(s) = Governed!Segments(s)
  BY <1>1 DEF Lint!Segments, Governed!Segments, Lint!Star, Governed!Star
<1>3. \A s, t, p, g : Lint!Fits(s, t, p, g) = Governed!Fits(s, t, p, g)
  BY DEF Lint!Fits, Governed!Fits, Lint!Question, Governed!Question
<1>4. \A s, t, g : Lint!EndsWith(t, s, g) = Governed!EndsWith(t, s, g)
  BY <1>3 DEF Lint!EndsWith, Governed!EndsWith
<1>5. \A s, t, p, g : Lint!PlaceAll(s, t, p, g) = Governed!PlaceAll(s, t, p, g)
  BY DEF Lint!PlaceAll, Governed!PlaceAll, Lint!PlaceAfter, Governed!PlaceAfter,
    Lint!Fits, Governed!Fits, Lint!Question, Governed!Question, Lint!Min, Governed!Min
<1>. QED
  BY <1>2, <1>3, <1>4, <1>5
  DEF Lint!MatchPattern, Governed!MatchPattern, Lint!Star, Governed!Star, Lint!Contains,
    Governed!Contains, Lint!Last, Governed!Last

(* What stars alone stand for is everything.                                *)
LEMMA StarsMatch ==
  ASSUME NEW T, NEW pattern \in Seq(T), NEW text \in Seq(T), pattern # <<>>,
         \A i \in DOMAIN pattern : pattern[i] = Lint!Star
  PROVE  Lint!MatchPattern(pattern, text)
<1> DEFINE m == Len(pattern)
           n == Len(text)
<1>1. PICK ends \in [0..m -> SUBSET (0..n)] :
        /\ AreEnds(ends, pattern, text, FALSE)
        /\ Governed!Stands(pattern, text, FALSE) <=> n \in ends[m]
  BY StandsIs
<1>2. m \in Nat /\ n \in Nat /\ m > 0 OBVIOUS
<1>3. \A p \in 1..m : pattern[p] = Governed!Star BY DEF Lint!Star, Governed!Star
<1>4. \A t \in 0..n, p \in 1..m : t \in ends[p] <=> \E k \in 0..t : k \in ends[p - 1]
  BY <1>1, <1>3 DEF AreEnds
<1> DEFINE Reached == {p \in 0..m : 0 \in ends[p]}
<1>5. 0 \in Reached BY <1>1, <1>2 DEF AreEnds
<1>6. ASSUME NEW p \in 0..m, p > 0, p - 1 \in Reached PROVE p \in Reached
  <2>1. p \in 1..m /\ 0 \in 0..n /\ 0 \in 0..0 BY <1>2, <1>6
  <2>. QED BY <1>4, <1>6, <2>1
<1>7. m - 1 \in Reached
  <2>1. \A p \in 0..m : p > 0 /\ p - 1 \in Reached => p \in Reached BY <1>6
  <2>2. m - 1 \in 0..m BY <1>2
  <2>3. \A p \in 0..m : p \in Reached
    <3>. HIDE DEF Reached
    <3>. QED BY <1>2, <1>5, <2>1, Upwards
  <2>. QED BY <2>2, <2>3
<1>8. n \in ends[m]
  <2>1. n \in 0..n /\ 0 \in 0..n /\ m \in 1..m BY <1>2
  <2>. QED BY <1>4, <1>7, <2>1
<1>. QED BY <1>1, <1>8, MatchesAlike, PatternIsExact

(* "?" is literal, and stands for nothing in a text that has none.          *)
LEMMA QuestionMatchesNothing ==
  ASSUME NEW T, NEW pattern \in Seq(T), NEW text \in Seq(T),
         Lint!Contains(pattern, Lint!Question), \A i \in DOMAIN text : text[i] # Lint!Question
  PROVE  ~Lint!MatchPattern(pattern, text)
<1> DEFINE m == Len(pattern)
           n == Len(text)
<1>1. PICK ends \in [0..m -> SUBSET (0..n)] :
        /\ AreEnds(ends, pattern, text, FALSE)
        /\ Governed!Stands(pattern, text, FALSE) <=> n \in ends[m]
  BY StandsIs
<1>2. m \in Nat /\ n \in Nat OBVIOUS
<1>3. PICK q \in 1..m : pattern[q] = Lint!Question BY DEF Lint!Contains
<1>4. pattern[q] # Governed!Star BY <1>3 DEF Lint!Question, Governed!Star
<1> DEFINE Reached == {k \in 0..(m - q) : ends[q + k] = {}}
<1>5. 0 \in Reached
  <2>1. \A t \in 0..n : t \notin ends[q]
    <3>. SUFFICES ASSUME NEW t \in 0..n, t \in ends[q] PROVE FALSE OBVIOUS
    <3>1. t > 0 /\ text[t] = pattern[q] BY <1>1, <1>4 DEF AreEnds
    <3>. QED BY <1>2, <1>3, <3>1
  <2>2. ends[q] \subseteq 0..n /\ q + 0 = q /\ 0 \in 0..(m - q) BY <1>1, <1>2
  <2>. QED BY <2>1, <2>2
<1>6. ASSUME NEW k \in 0..(m - q), k > 0, k - 1 \in Reached PROVE k \in Reached
  <2> DEFINE p == q + k
  <2>1. p \in 1..m /\ p - 1 \in 0..m /\ p - 1 = q + (k - 1) BY <1>2, <1>6
  <2>2. ends[p - 1] = {} BY <1>6, <2>1
  <2>. HIDE DEF p
  <2>3. \A t \in 0..n : t \notin ends[p] BY <1>1, <2>1, <2>2 DEF AreEnds
  <2>4. ends[p] = {} BY <1>1, <2>1, <2>3
  <2>. QED BY <2>4 DEF p
<1>7. ends[m] = {}
  <2>1. \A k \in 0..(m - q) : k > 0 /\ k - 1 \in Reached => k \in Reached BY <1>6
  <2>2. m - q \in Nat /\ q + (m - q) = m BY <1>2
  <2>3. \A k \in 0..(m - q) : k \in Reached
    <3>. HIDE DEF Reached
    <3>. QED BY <1>5, <2>1, <2>2, Upwards
  <2>4. m - q \in 0..(m - q) BY <2>2
  <2>. QED BY <2>2, <2>3, <2>4
<1>8. pattern # <<>> BY <1>3
<1>. QED BY <1>1, <1>7, <1>8, MatchesAlike, PatternIsExact

(* What is reported as matching nothing matches nothing: neither an id nor,  *)
(* as a caller, the sentinel.                                                *)
PatternLists == Seq({NotA} \cup Seq(STRING))

LEMMA DeadIsDead ==
  ASSUME NEW field \in {"callers", "targets"}, NEW patterns \in PatternLists,
         Lint!Strings(patterns), ~Lint!ShapeFault(patterns), Lint!NeverMatches(field, patterns)
  PROVE  Lint!Dead(field, patterns, KnownIds)
<1> DEFINE values == KnownIds \cup (IF field = "callers" THEN {Lint!External} ELSE {})
<1>. SUFFICES ASSUME NEW value \in values, NEW system \in BOOLEAN
              PROVE  ~Lint!MatchPatterns(patterns, value, system)
  BY DEF Lint!Dead
<1> DEFINE T == STRING \cup {"@external"}
<1>1. /\ value \in Seq(T) /\ \A i \in DOMAIN value : value[i] # Lint!Question
      /\ field = "targets" => value # Lint!External
  <2>1. Lint!External \in Seq(T) BY DEF Lint!External
  <2>2. \A i \in DOMAIN Lint!External : Lint!External[i] # Lint!Question
    BY DEF Lint!External, Lint!Question
  <2>3. \A s \in Seq(STRING) : s \in Seq(T) OBVIOUS
  <2>. QED BY <2>1, <2>2, <2>3, IdsAssumption
<1>2. \A i \in DOMAIN patterns : patterns[i] \in Seq(T) /\ patterns[i] # <<>>
  BY DEF PatternLists, Lint!Strings, Lint!ShapeFault
<1>. HIDE DEF T
<1>3. patterns # <<>> /\ Len(patterns) \in Nat /\ 1 \in DOMAIN patterns
      /\ DOMAIN patterns = 1..Len(patterns)
  BY DEF PatternLists, Lint!ShapeFault
<1>4. Lint!Or # Lint!Not /\ Lint!External # Lint!System
  BY DEF Lint!Or, Lint!Not, Lint!External, Lint!System
<1>5. ASSUME NEW i \in DOMAIN patterns, Lint!Contains(patterns[i], Lint!Question)
      PROVE  ~Lint!MatchOne(patterns[i], value, system)
  <2>1. patterns[i] # Lint!External /\ patterns[i] # Lint!System
    BY <1>5 DEF Lint!Contains, Lint!Question, Lint!External, Lint!System
  <2>2. ~Lint!MatchPattern(patterns[i], value) BY <1>1, <1>2, <1>5, QuestionMatchesNothing
  <2>. QED BY <2>1, <2>2 DEF Lint!MatchOne
<1>6. CASE patterns[1] = Lint!Not
  <2>1. Len(patterns) = 2 /\ 2 \in DOMAIN patterns BY <1>3, <1>6 DEF Lint!ShapeFault
  <2>2. \A i \in DOMAIN patterns[2] : patterns[2][i] = Lint!Star BY <1>6 DEF Lint!NeverMatches
  <2>3. patterns[2][1] = Lint!Star BY <1>2, <2>1, <2>2
  <2>4. patterns[2] # Lint!External /\ patterns[2] # Lint!System
    BY <2>3 DEF Lint!Star, Lint!External, Lint!System
  <2>5. Lint!MatchPattern(patterns[2], value) BY <1>1, <1>2, <2>1, <2>2, StarsMatch
  <2>. QED BY <1>4, <1>6, <2>4, <2>5 DEF Lint!MatchPatterns, Lint!MatchOne
<1>7. CASE patterns[1] # Lint!Not
  <2> DEFINE those == IF patterns[1] = Lint!Or THEN 2..Len(patterns) ELSE DOMAIN patterns
             operands == IF patterns[1] = Lint!Or THEN Tail(patterns) ELSE patterns
  <2>1. \A i \in those : i \in DOMAIN patterns BY <1>3
  <2>2. Lint!MatchPatterns(patterns, value, system) =>
          \E i \in those : Lint!MatchOne(patterns[i], value, system)
    BY <1>7 DEF Lint!MatchPatterns
  <2>3. \A i \in those : \E k \in DOMAIN operands : operands[k] = patterns[i]
    <3>1. CASE patterns[1] = Lint!Or
      <4>. SUFFICES ASSUME NEW i \in 2..Len(patterns)
                    PROVE  \E k \in DOMAIN Tail(patterns) : Tail(patterns)[k] = patterns[i]
        BY <3>1
      <4>1. i - 1 \in 1..Len(Tail(patterns)) /\ Tail(patterns)[i - 1] = patterns[(i - 1) + 1]
            /\ (i - 1) + 1 = i
        BY <1>3 DEF PatternLists
      <4>2. DOMAIN Tail(patterns) = 1..Len(Tail(patterns)) BY <1>3 DEF PatternLists
      <4>. QED BY <4>1, <4>2
    <3>2. CASE patterns[1] # Lint!Or BY <3>2
    <3>. QED BY <3>1, <3>2
  <2>4. CASE \A k \in DOMAIN operands : Lint!Contains(operands[k], Lint!Question)
    <3>1. \A i \in those : Lint!Contains(patterns[i], Lint!Question)
      <4>. HIDE DEF operands, those
      <4>. QED BY <2>3, <2>4
    <3>. HIDE DEF those
    <3>. QED BY <1>5, <2>1, <2>2, <3>1
  <2>5. CASE field = "targets" /\ \A k \in DOMAIN operands : operands[k] = Lint!External
    <3>1. \A i \in those : patterns[i] = Lint!External
      <4>. HIDE DEF operands, those
      <4>. QED BY <2>3, <2>5
    <3>2. \A i \in those : ~Lint!MatchOne(patterns[i], value, system)
      <4>. HIDE DEF those
      <4>1. value # Lint!External BY <1>1, <2>5
      <4>. QED BY <1>4, <3>1, <4>1 DEF Lint!MatchOne
    <3>. HIDE DEF those
    <3>. QED BY <2>2, <3>2
  <2>6. \/ \A k \in DOMAIN operands : Lint!Contains(operands[k], Lint!Question)
        \/ field = "targets" /\ \A k \in DOMAIN operands : operands[k] = Lint!External
    BY <1>7 DEF Lint!NeverMatches
  <2>. QED BY <2>4, <2>5, <2>6
<1>. QED BY <1>6, <1>7

(* What stands at each depth of conditions, from the outside in.             *)
LEMMA DepthsAre ==
  ASSUME NEW conditions, MaxNesting \in Nat
  PROVE  /\ Lint!Levels(conditions)[0] = {conditions}
         /\ \A n \in 1..MaxNesting :
              Lint!Levels(conditions)[n] =
                UNION {Lint!Inside(c) : c \in Lint!Levels(conditions)[n - 1]}
<1> DEFINE last == MaxNesting
           Below(f, n) == IF n = 0 THEN {conditions} ELSE UNION {Lint!Inside(c) : c \in f[n - 1]}
           IsLevels(f, m) == f = [n \in 0..m |-> Below(f, n)]
           Reached == {m \in 0..last : \E f : IsLevels(f, m)}
           levels == CHOOSE f : IsLevels(f, last)
<1>1. Lint!Levels(conditions) = levels BY DEF Lint!Levels
<1>2. \A f, g, n : n = 0 \/ f[n - 1] = g[n - 1] => Below(f, n) = Below(g, n) OBVIOUS
<1>. HIDE DEF Below
<1>3. 0 \in Reached
  <2> DEFINE f == [n \in 0..0 |-> Below(<<>>, n)]
  <2>1. \A n \in 0..0 : Below(<<>>, n) = Below(f, n) BY <1>2
  <2>2. IsLevels(f, 0) BY <2>1
  <2>. HIDE DEF f, IsLevels
  <2>. QED BY <2>2
<1>4. ASSUME NEW m \in 0..last, m > 0, m - 1 \in Reached PROVE m \in Reached
  <2>1. PICK f : IsLevels(f, m - 1) BY <1>4
  <2> DEFINE g == [n \in 0..m |-> IF n = m THEN Below(f, m) ELSE f[n]]
  <2>2. \A n \in 0..m : n = 0 \/ (n - 1 \in 0..m /\ n - 1 # m /\ (n # m => n \in 0..(m - 1)))
    OBVIOUS
  <2>3. \A n \in 0..m : n = 0 \/ f[n - 1] = g[n - 1] BY <2>2
  <2>4. 0 \in 0..(m - 1) BY <1>4
  <2>5. \A n \in 0..m : g[n] = Below(f, n) BY <2>1, <2>2, <2>4
  <2>6. g = [n \in 0..m |-> g[n]] OBVIOUS
  <2>. HIDE DEF g
  <2>7. \A n \in 0..m : g[n] = Below(g, n) BY <1>2, <2>3, <2>5
  <2>8. g = [n \in 0..m |-> Below(g, n)] BY <2>6, <2>7
  <2>9. \E h : IsLevels(h, m) BY <2>8
  <2>. HIDE DEF IsLevels
  <2>. QED BY <1>4, <2>9
<1>5. IsLevels(levels, last)
  <2>1. \A m \in 0..last : m > 0 /\ m - 1 \in Reached => m \in Reached BY <1>4
  <2>2. \A m \in 0..last : m \in Reached
    <3>. HIDE DEF Reached
    <3>. QED BY <1>3, <2>1, Upwards
  <2>3. last \in 0..last OBVIOUS
  <2>4. \E f : IsLevels(f, last) BY <2>2, <2>3
  <2>. HIDE DEF IsLevels
  <2>. QED BY <2>4 DEF levels
<1>6. \A n \in 0..last : levels[n] = Below(levels, n)
  <2>. HIDE DEF levels
  <2>. QED BY <1>5
<1>7. 0 \in 0..last /\ \A n \in 1..last : n \in 0..last /\ n # 0 OBVIOUS
<1>. HIDE DEF levels
<1>. QED BY <1>1, <1>6, <1>7 DEF Below

(* The evaluation, from the inside out.                                      *)
OutcomesAt(conditions, handlers, seen, n, below) ==
  [c \in Lint!Levels(conditions)[n] |->
     IF c = NotA THEN "unevaluable"
     ELSE Lint!AllOf({Lint!EvaluateCondition(key, c[key], handlers, seen, below) :
                        key \in DOMAIN c})]

LEMMA EvaluationIs ==
  ASSUME NEW conditions, NEW handlers, NEW seen, MaxNesting \in Nat
  PROVE  \E f : /\ Lint!EvaluateConditions(conditions, handlers, seen) = f[0][conditions]
                /\ \A n \in 0..MaxNesting :
                     f[n] = OutcomesAt(conditions, handlers, seen, n,
                                       IF n < MaxNesting THEN f[n + 1] ELSE <<>>)
<1> DEFINE last == MaxNesting
           Body(f, n) == OutcomesAt(conditions, handlers, seen, n,
                                    IF n < last THEN f[n + 1] ELSE <<>>)
           Deep(m) == (last - m)..last
           IsEvaluation(f, levels) == f = [n \in levels |-> Body(f, n)]
           Reached == {m \in 0..last : \E f : IsEvaluation(f, Deep(m))}
           outcomes == CHOOSE f : IsEvaluation(f, 0..last)
<1>1. Lint!EvaluateConditions(conditions, handlers, seen) = outcomes[0][conditions]
  BY DEF Lint!EvaluateConditions, OutcomesAt
<1>2. \A f, g, n : n < last /\ f[n + 1] = g[n + 1] => Body(f, n) = Body(g, n) OBVIOUS
<1>3. \A f, g : Body(f, last) = Body(g, last) OBVIOUS
<1>. HIDE DEF Body
<1>4. 0 \in Reached
  <2> DEFINE f == [n \in Deep(0) |-> Body(<<>>, n)]
  <2>1. \A n \in Deep(0) : Body(<<>>, n) = Body(f, n) BY <1>3
  <2>2. IsEvaluation(f, Deep(0)) BY <2>1
  <2>. HIDE DEF f, IsEvaluation, Deep
  <2>. QED BY <2>2
<1>5. ASSUME NEW m \in 0..last, m > 0, m - 1 \in Reached PROVE m \in Reached
  <2>1. PICK f : IsEvaluation(f, Deep(m - 1)) BY <1>5
  <2> DEFINE g == [n \in Deep(m) |-> IF n \in Deep(m - 1) THEN f[n] ELSE Body(f, n)]
  <2>2. \A n \in Deep(m) : n < last => n + 1 \in Deep(m) /\ n + 1 \in Deep(m - 1) OBVIOUS
  <2>3. \A n \in Deep(m) : n < last => f[n + 1] = g[n + 1] BY <2>2
  <2>4. \A n \in Deep(m) : n < last \/ n = last OBVIOUS
  <2>5. \A n \in Deep(m) : g[n] = Body(f, n) BY <2>1
  <2>6. g = [n \in Deep(m) |-> g[n]] OBVIOUS
  <2>. HIDE DEF g
  <2>7. \A n \in Deep(m) : g[n] = Body(g, n)
    <3>. HIDE DEF Deep
    <3>. QED BY <1>2, <1>3, <2>3, <2>4, <2>5
  <2>8. IsEvaluation(g, Deep(m))
    <3>. HIDE DEF Deep
    <3>. QED BY <2>6, <2>7
  <2>. HIDE DEF IsEvaluation, Deep
  <2>. QED BY <1>5, <2>8
<1>6. IsEvaluation(outcomes, 0..last)
  <2>1. \A m \in 0..last : m > 0 /\ m - 1 \in Reached => m \in Reached BY <1>5
  <2>2. \A m \in 0..last : m \in Reached
    <3>. HIDE DEF Reached
    <3>. QED BY <1>4, <2>1, Upwards
  <2>3. last \in 0..last /\ Deep(last) = 0..last OBVIOUS
  <2>4. \E f : IsEvaluation(f, 0..last) BY <2>2, <2>3
  <2>. HIDE DEF IsEvaluation
  <2>. QED BY <2>4 DEF outcomes
<1>7. \A n \in 0..last : outcomes[n] = Body(outcomes, n)
  <2>. HIDE DEF outcomes
  <2>. QED BY <1>6
<1>. HIDE DEF outcomes
<1>. QED BY <1>1, <1>7 DEF Body

(* What a compound of conditions comes to.                                   *)
LEMMA CompoundsAre ==
  ASSUME NEW key \in {"$or", "$not", "arguments"}, NEW value, NEW handlers, NEW seen, NEW below,
         value # NotA
  PROVE  LET result == Lint!EvaluateCondition(key, value, handlers, seen, below) IN
         /\ key = "$or" => result = Lint!AnyOf({below[value[i]] : i \in DOMAIN value})
         /\ key = "$not" => result = Lint!Negated(below[value])
         /\ key = "arguments" => result = Lint!EvaluateArguments(value, seen.present)
<1>1. key \notin Lint!BuiltInKeys BY DEF Lint!BuiltInKeys
<1>2. CASE key = "$or"
  <2>1. key # "$not" /\ key # "arguments" BY <1>2
  <2>. QED BY <1>1, <1>2, <2>1, Zenon DEF Lint!EvaluateCondition
<1>3. CASE key = "$not"
  <2>1. key # "$or" /\ key # "arguments" BY <1>3
  <2>. QED BY <1>1, <1>3, <2>1, Zenon DEF Lint!EvaluateCondition
<1>4. CASE key = "arguments"
  <2>1. key # "$or" /\ key # "$not" BY <1>4
  <2>. QED BY <1>1, <1>4, <2>1, Zenon DEF Lint!EvaluateCondition
<1>. QED BY <1>2, <1>3, <1>4

(* One condition on what can be evaluated can be evaluated.                 *)
Decided == {"satisfied", "unsatisfied"}

LEMMA ConditionIsDecided ==
  ASSUME NEW conditions, NEW handlers, NEW seen, NEW below,
         Lint!FaultFree(conditions, handlers \cup Lint!BuiltInKeys), seen.present # Absent,
         \A key \in handlers : seen.answers[key] \in Decided,
         \A inner \in Lint!Inside(conditions) : inner # NotA /\ below[inner] \in Decided,
         NEW key \in DOMAIN conditions
  PROVE  Lint!EvaluateCondition(key, conditions[key], handlers, seen, below) \in Decided
<1> DEFINE value == conditions[key]
<1>1. \A holds : Lint!Outcome(holds) \in Decided BY DEF Lint!Outcome, Decided
<1>2. conditions # NotA BY DEF Lint!FaultFree
<1>3. CASE key = "$or"
  <2>1. value # NotA BY <1>3 DEF Lint!FaultFree
  <2> DEFINE outcomes == {below[value[i]] : i \in DOMAIN value}
  <2>2. \A i \in DOMAIN value : value[i] \in Lint!Inside(conditions)
    BY <1>2, <1>3, <2>1 DEF Lint!Inside
  <2>3. \A one \in outcomes : one \in Decided BY <2>2
  <2>4. Lint!EvaluateCondition(key, value, handlers, seen, below) = Lint!AnyOf(outcomes)
    BY <1>3, <2>1, CompoundsAre
  <2>. HIDE DEF outcomes, value
  <2>5. Lint!AnyOf(outcomes) \in Decided BY <2>3 DEF Lint!AnyOf, Decided
  <2>. QED BY <2>4, <2>5 DEF value
<1>4. CASE key = "$not"
  <2>1. value \in Lint!Inside(conditions) BY <1>2, <1>4 DEF Lint!Inside
  <2>2. value # NotA /\ below[value] \in Decided BY <2>1
  <2>. HIDE DEF value
  <2>3. Lint!EvaluateCondition(key, value, handlers, seen, below) = Lint!Negated(below[value])
    BY <1>4, <2>2, CompoundsAre
  <2>4. Lint!Negated(below[value]) \in Decided BY <2>2 DEF Lint!Negated, Decided
  <2>. QED BY <2>3, <2>4 DEF value
<1>5. CASE key = "arguments"
  <2>1. ~Lint!ArgumentsFault(value) BY <1>5 DEF Lint!FaultFree
  <2>2. value # NotA BY <2>1 DEF Lint!ArgumentsFault
  <2>. HIDE DEF value
  <2>3. Lint!EvaluateCondition(key, value, handlers, seen, below) =
          Lint!EvaluateArguments(value, seen.present)
    BY <1>5, <2>2, CompoundsAre
  <2>4. Lint!EvaluateArguments(value, seen.present) \in Decided
    BY <1>1, <2>1 DEF Lint!EvaluateArguments
  <2>. QED BY <2>3, <2>4 DEF value
<1>6. CASE key \in Lint!BuiltInKeys
  <2>. HIDE DEF value
  <2>1. key \notin {"$or", "$not", "arguments"} BY <1>6 DEF Lint!BuiltInKeys
  <2>2. Lint!EvaluateCondition(key, value, handlers, seen, below) =
          Lint!EvaluateBuiltIn(key, value, seen)
    BY <1>6, <2>1 DEF Lint!EvaluateCondition
  <2>. QED BY <1>1, <2>2 DEF Lint!EvaluateBuiltIn, value
<1>7. CASE key \notin {"$or", "$not", "arguments"} \cup Lint!BuiltInKeys
  <2>1. key \in handlers BY <1>7 DEF Lint!FaultFree
  <2>2. Lint!EvaluateCondition(key, value, handlers, seen, below) = seen.answers[key]
    BY <1>7, <2>1 DEF Lint!EvaluateCondition
  <2>. QED BY <2>1, <2>2
<1>. QED BY <1>3, <1>4, <1>5, <1>6, <1>7

(* What the precheck lets through can be evaluated at every depth, from the  *)
(* deepest one outwards.                                                     *)
LEMMA PrecheckedIsDecided ==
  ASSUME NEW conditions, NEW handlers, NEW seen, MaxNesting \in Nat,
         Lint!PrecheckConditions(conditions, handlers \cup Lint!BuiltInKeys),
         \A inner \in Lint!Levels(conditions)[MaxNesting] : Lint!Inside(inner) = {},
         seen.present # Absent, \A key \in handlers : seen.answers[key] \in Decided
  PROVE  Lint!EvaluateConditions(conditions, handlers, seen) \in Decided
<1> DEFINE last == MaxNesting
           levels == Lint!Levels(conditions)
<1>1. PICK f : /\ Lint!EvaluateConditions(conditions, handlers, seen) = f[0][conditions]
               /\ \A n \in 0..last :
                    f[n] = OutcomesAt(conditions, handlers, seen, n,
                                      IF n < last THEN f[n + 1] ELSE <<>>)
  BY EvaluationIs
<1>2. conditions \in levels[0]
      /\ \A n \in 1..last : levels[n] = UNION {Lint!Inside(c) : c \in levels[n - 1]}
  BY DepthsAre
<1>3. \A n \in 0..last : \A c \in levels[n] : Lint!FaultFree(c, handlers \cup Lint!BuiltInKeys)
  BY DEF Lint!PrecheckConditions
<1>4. \A c \in levels[last] : Lint!Inside(c) = {} OBVIOUS
<1>. HIDE DEF levels
<1> DEFINE AllDecided(n) == \A c \in levels[n] : f[n][c] \in Decided
           Reached == {m \in 0..last : AllDecided(last - m)}
<1>5. ASSUME NEW n \in 0..last, NEW below, f[n] = OutcomesAt(conditions, handlers, seen, n, below),
             \A c \in levels[n] : \A inner \in Lint!Inside(c) :
               inner # NotA /\ below[inner] \in Decided
      PROVE  AllDecided(n)
  <2>. SUFFICES ASSUME NEW c \in levels[n] PROVE f[n][c] \in Decided OBVIOUS
  <2>1. Lint!FaultFree(c, handlers \cup Lint!BuiltInKeys) BY <1>3
  <2>2. c # NotA BY <2>1 DEF Lint!FaultFree
  <2> DEFINE outcomes == {Lint!EvaluateCondition(key, c[key], handlers, seen, below) :
                            key \in DOMAIN c}
  <2>3. \A one \in outcomes : one \in Decided
    <3>. SUFFICES ASSUME NEW key \in DOMAIN c
                  PROVE  Lint!EvaluateCondition(key, c[key], handlers, seen, below) \in Decided
      OBVIOUS
    <3>1. \A inner \in Lint!Inside(c) : inner # NotA /\ below[inner] \in Decided BY <1>5
    <3>. QED BY <2>1, <3>1, ConditionIsDecided
  <2>4. f[n][c] = Lint!AllOf(outcomes) BY <1>5, <2>2 DEF OutcomesAt, levels
  <2>. HIDE DEF outcomes
  <2>5. Lint!AllOf(outcomes) \in Decided BY <2>3 DEF Lint!AllOf, Decided
  <2>. QED BY <2>4, <2>5
<1>6. 0 \in Reached
  <2>1. last \in 0..last /\ ~(last < last) /\ last - 0 = last OBVIOUS
  <2>2. f[last] = OutcomesAt(conditions, handlers, seen, last, <<>>) BY <1>1, <2>1
  <2>3. AllDecided(last)
    <3>. HIDE DEF AllDecided
    <3>. QED BY <1>4, <1>5, <2>1, <2>2
  <2>. QED BY <2>1, <2>3
<1>7. ASSUME NEW m \in 0..last, m > 0, m - 1 \in Reached PROVE m \in Reached
  <2> DEFINE n == last - m
  <2>1. n \in 0..last /\ n < last /\ n + 1 \in 1..last /\ n + 1 \in 0..last /\ (n + 1) - 1 = n
        /\ last - (m - 1) = n + 1
    BY <1>7
  <2>2. AllDecided(n + 1) BY <1>7, <2>1
  <2>. HIDE DEF n
  <2>3. f[n] = OutcomesAt(conditions, handlers, seen, n, f[n + 1]) BY <1>1, <2>1
  <2>4. ASSUME NEW c \in levels[n], NEW inner \in Lint!Inside(c)
        PROVE  inner # NotA /\ f[n + 1][inner] \in Decided
    <3>1. inner \in levels[n + 1] BY <1>2, <2>1
    <3>2. Lint!FaultFree(inner, handlers \cup Lint!BuiltInKeys) BY <1>3, <2>1, <3>1
    <3>. QED BY <2>2, <3>1, <3>2 DEF Lint!FaultFree
  <2>5. AllDecided(n)
    <3>. HIDE DEF AllDecided
    <3>. QED BY <1>5, <2>1, <2>3, <2>4
  <2>. QED BY <2>5 DEF n
<1>8. \A m \in 0..last : m > 0 /\ m - 1 \in Reached => m \in Reached BY <1>7
<1>9. \A m \in 0..last : m \in Reached
  <2>. HIDE DEF Reached
  <2>. QED BY <1>6, <1>8, Upwards
<1>10. last \in 0..last /\ last - last = 0 OBVIOUS
<1>11. AllDecided(0) BY <1>9, <1>10
<1>. QED BY <1>1, <1>2, <1>11

(* Every rule of a policy stands in a file, in which it was acceptable.      *)
Readable == UNION {Lint!Discover(spot.root, spot.directory, spot.files) : spot \in RulePlaces}

LEMMA RulesComeFromFiles ==
  ASSUME NEW policy \in Readable, NEW n \in DOMAIN policy
  PROVE  \E spot \in RulePlaces : \E path \in DOMAIN spot.files :
           \E raw \in RawRules(spot.files[path]) :
             Lint!Loads(raw) /\ policy[n] = Lint!FromFile(raw)
<1>1. PICK spot \in RulePlaces :
        policy \in Lint!Discover(spot.root, spot.directory, spot.files)
  BY DEF Readable
<1>2. PICK path \in DOMAIN spot.files :
        /\ spot.files[path] \notin {Absent, Directory}
        /\ policy \in Lint!Load(spot.files[path])
  <2> DEFINE disk0 == spot.files
             Found(p) == Lint!At(disk0, p, Absent)
  <2>1. \A p : Found(p) # Absent => p \in DOMAIN disk0 /\ Found(p) = disk0[p] BY DEF Lint!At
  <2>2. \E p : Found(p) \notin {Absent, Directory} /\ policy \in Lint!Load(Found(p))
    BY <1>1 DEF Lint!Discover
  <2>. HIDE DEF Found
  <2>. QED BY <2>1, <2>2
<1> DEFINE document == spot.files[path]
           list == document["rules"]
<1>3. document \notin {NotA, Directory} BY <1>2 DEF Lint!Load
<1>4. Lint!At(document, "rules", NotA) # NotA BY <1>2 DEF Lint!Load
<1>5. \A i \in DOMAIN list : Lint!Loads(list[i]) BY <1>2 DEF Lint!Load
<1>6. policy = [i \in DOMAIN list |-> Lint!FromFile(list[i])] BY <1>2 DEF Lint!Load
<1>7. n \in DOMAIN list /\ policy[n] = Lint!FromFile(list[n]) BY <1>6
<1>8. list[n] # NotA /\ Lint!Loads(list[n]) BY <1>5, <1>7 DEF Lint!Loads
<1>9. list[n] \in RawRules(document) BY <1>3, <1>4, <1>7, <1>8 DEF RawRules
<1>. QED BY <1>7, <1>8, <1>9

(* What the lint and the constructor make of such a rule.                    *)
RuleIsSound(rule, handlers, seen) ==
  /\ ~Lint!Finding(rule, handlers) /\ seen.present # Absent /\ rule.conditions # Absent =>
       Lint!EvaluateConditions(rule.conditions, handlers, seen) # "unevaluable"
  /\ \A field \in {"callers", "targets"} :
       /\ ~Lint!ShapeFault(rule[field])
       /\ Lint!Strings(rule[field]) /\ Lint!NeverMatches(field, rule[field]) =>
            Lint!Dead(field, rule[field], KnownIds)

LEMMA LoadedRuleIsSound ==
  ASSUME NEW spot \in RulePlaces, NEW path \in DOMAIN spot.files,
         NEW raw \in RawRules(spot.files[path]), Lint!Loads(raw),
         NEW view \in CallViews, NEW handlers \in SUBSET Handlers
  PROVE  RuleIsSound(Lint!FromFile(raw), handlers, view)
<1> DEFINE rule == Lint!FromFile(raw)
           conditions == Lint!At(raw, "conditions", Absent)
<1>1. /\ rule.conditions = conditions
      /\ rule["callers"] = raw["callers"] /\ rule["targets"] = raw["targets"]
      /\ "callers" \in DOMAIN raw /\ "targets" \in DOMAIN raw
      /\ raw["callers"] # NotA /\ raw["targets"] # NotA
      /\ ~Lint!ShapeFault(rule["callers"]) /\ ~Lint!ShapeFault(rule["targets"])
  BY DEF Lint!FromFile, Lint!Loads, Lint!Acceptable
<1>2. /\ \A field \in {"callers", "targets"} \cap DOMAIN raw :
           raw[field] # NotA => raw[field] \in PatternLists
      /\ conditions # Absent =>
           \A inner \in Lint!Levels(conditions)[MaxNesting] : Lint!Inside(inner) = {}
  BY RulesAssumption DEF PatternLists
<1>. HIDE DEF conditions, rule
<1>3. ASSUME NEW field \in {"callers", "targets"}
      PROVE  /\ ~Lint!ShapeFault(rule[field])
             /\ Lint!Strings(rule[field]) /\ Lint!NeverMatches(field, rule[field]) =>
                  Lint!Dead(field, rule[field], KnownIds)
  <2>1. rule[field] \in PatternLists /\ ~Lint!ShapeFault(rule[field]) BY <1>1, <1>2
  <2>. QED BY <2>1, DeadIsDead
<1>4. ASSUME ~Lint!Finding(rule, handlers), view.present # Absent, rule.conditions # Absent
      PROVE  Lint!EvaluateConditions(rule.conditions, handlers, view) # "unevaluable"
  <2>1. Lint!PrecheckConditions(conditions, handlers \cup Lint!BuiltInKeys)
    BY <1>1, <1>4 DEF Lint!Finding
  <2>2. \A key \in handlers : view.answers[key] \in Decided BY IdsAssumption DEF Decided
  <2>3. Lint!EvaluateConditions(conditions, handlers, view) \in Decided
    BY <1>1, <1>2, <1>4, <2>1, <2>2, SettingsAssumption, PrecheckedIsDecided
  <2>. QED BY <1>1, <2>3 DEF Decided
<1>. QED BY <1>3, <1>4 DEF RuleIsSound, rule

LEMMA ReadableIsSound ==
  ASSUME NEW policy \in Readable, NEW view \in CallViews, NEW handlers \in SUBSET Handlers
  PROVE  Lint!LintIsSound(policy, handlers, view, KnownIds)
<1>1. \A n \in DOMAIN policy : RuleIsSound(policy[n], handlers, view)
  BY RulesComeFromFiles, LoadedRuleIsSound
<1>. QED BY <1>1 DEF Lint!LintIsSound, RuleIsSound

-----------------------------------------------------------------------------
(* The parts together.                                                     *)
RequestsInv ==
  /\ CallInv /\ SyncIInv /\ PolicyIsLoaded /\ ConfInv
  /\ asked \subseteq AskedPatterns /\ linted \subseteq Readable /\ sought \subseteq Namespaces

(* They share no variable: a step of one is a stutter of the rest.           *)
LEMMA StepsApart ==
  ASSUME [RequestsNext]_<<vars, calling, bridge, governed, configuration>>
  PROVE  /\ [Call!Next]_Call!vars /\ [Sync!Next]_Sync!vars /\ [Governed!Next]_<<demands, sets>>
         /\ [Conf!Next]_Conf!vars
<1>. USE DEF calling, bridge, governed, configuration, Call!vars, Sync!vars, Conf!vars
<1>1. CASE AccessMoves BY <1>1 DEF AccessMoves
<1>2. CASE CallMoves BY <1>2 DEF CallMoves
<1>3. CASE SyncMoves BY <1>3 DEF SyncMoves
<1>4. CASE PolicyMoves BY <1>4 DEF PolicyMoves
<1>5. CASE ConfMoves BY <1>5 DEF ConfMoves
<1>6. CASE Asks BY <1>6 DEF Asks
<1>7. CASE Reads BY <1>7 DEF Reads
<1>8. CASE Seeks BY <1>8 DEF Seeks
<1>9. CASE UNCHANGED <<vars, calling, bridge, governed, configuration>> BY <1>9
<1>. QED BY <1>1, <1>2, <1>3, <1>4, <1>5, <1>6, <1>7, <1>8, <1>9 DEF RequestsNext

LEMMA CallAssumptions == CallKnownModes /\ CallKnownStrategies
BY RequestsAssumption, SliceAssumption DEF CallKnownModes, CallKnownStrategies

LEMMA RequestsNextInv ==
  RequestsInv /\ [RequestsNext]_<<vars, calling, bridge, governed, configuration>> => RequestsInv'
<1>. SUFFICES ASSUME RequestsInv, [RequestsNext]_<<vars, calling, bridge, governed, configuration>>
              PROVE  RequestsInv'
  OBVIOUS
<1>1. CallInv' BY StepsApart, CallAssumptions, CallNextInv DEF RequestsInv
<1>2. SyncIInv' BY StepsApart, RequestsAssumption, SyncNextIInv DEF RequestsInv
<1>3. PolicyIsLoaded' BY StepsApart, PolicyNextLoaded DEF RequestsInv
<1>4. (asked \subseteq AskedPatterns)'
  BY DEF RequestsInv, RequestsNext, AccessMoves, CallMoves, SyncMoves, PolicyMoves, ConfMoves,
    Asks, Reads, Seeks, governed
<1>5. (linted \subseteq Readable)'
  <2>1. CASE Reads BY <2>1 DEF Reads, Readable
  <2>2. CASE ~Reads
    BY <2>2 DEF RequestsInv, RequestsNext, AccessMoves, CallMoves, SyncMoves, PolicyMoves,
      ConfMoves, Asks, Seeks, governed, Readable
  <2>. QED BY <2>1, <2>2
<1>6. ConfInv'
  <2>1. \A s \in Settings : IsKey(s[1]) BY SettingsAssumption, SeqIsKey
  <2>. QED BY <2>1, StepsApart, SettingsAssumption, ConfSteps DEF RequestsInv
<1>7. (sought \subseteq Namespaces)'
  BY DEF RequestsInv, RequestsNext, AccessMoves, CallMoves, SyncMoves, PolicyMoves, ConfMoves,
    Asks, Reads, Seeks, governed
<1>. QED BY <1>1, <1>2, <1>3, <1>4, <1>5, <1>6, <1>7 DEF RequestsInv

THEOREM RequestsInvariant ==
  RequestsSpec => []RequestsInv
<1>1. RequestsInit => RequestsInv
  BY CallAssumptions, CallInitInv, SyncInitIInv, ConfStarts
  DEF RequestsInit, RequestsInv, Governed!Init, PolicyIsLoaded
<1>. QED BY <1>1, RequestsNextInv, PTL DEF RequestsSpec

(* In every preset a module runs, or streams, only after each step in front  *)
(* of it has passed in the same attempt, and with the handler's approval     *)
(* where one is needed: no retry, skipped step or late answer of another     *)
(* attempt stands in for a gate.                                             *)
THEOREM BodiesStartBehindGates ==
  RequestsSpec => []GatesPrecedeBody
<1>1. RequestsInv => GatesPrecedeBody
  BY CallGatesHold DEF RequestsInv, CallInv, CallIInv, GatesPrecedeBody
<1>. QED BY <1>1, RequestsInvariant, PTL

(* Whatever times out and is retried, two attempts of one call never run the *)
(* module at the same time; a body the call no longer waits for has had its  *)
(* token fired, unless the coroutine of the call itself was interrupted; and *)
(* a consumer sees the chunks of one attempt.                                *)
THEOREM AttemptsTakeTurns ==
  RequestsSpec => []AttemptsDoNotMix
<1>1. RequestsInv => AttemptsDoNotMix
  BY CallAttemptsHold DEF RequestsInv, CallInv, AttemptsDoNotMix
<1>. QED BY <1>1, RequestsInvariant, PTL

(* A cancellation ends the call with that error: nothing recovers it, and    *)
(* nothing is tried again.                                                   *)
THEOREM CancellationEndsTheCall ==
  RequestsSpec => []CancellationIsNotRecovered
<1>1. RequestsInv => CancellationIsNotRecovered
  BY DEF RequestsInv, CallInv, CallIInv, CancellationIsNotRecovered
<1>. QED BY <1>1, RequestsInvariant, PTL

(* A dry run starts no module and no hook, runs a step only behind what      *)
(* provides what it requires, is valid only if every pure step in front of   *)
(* the module passed, and asks the module's own code only behind the ACL.    *)
THEOREM DryRunsAreSound ==
  RequestsSpec => []DryRunIsSound
<1>1. RequestsInv => DryRunIsSound
  BY CallDryRunHolds DEF RequestsInv, CallInv, CallIInv, DryRunIsSound
<1>. QED BY <1>1, RequestsInvariant, PTL

(* An attempt whose token was cancelled before it began, by the caller or by *)
(* the timeout of the attempt that it repeats, asks no hook and no approval  *)
(* handler, hands over no body and no stream, then or later, and does not    *)
(* return: whatever the preset, the retries, and what starts late.           *)
THEOREM StillbornAttemptsReachNobody ==
  RequestsSpec => []StillbornReachesNobody
<1>1. RequestsInv => StillbornReachesNobody
  BY CallCutShortHolds DEF RequestsInv, CallInv, CallIInv, StillbornReachesNobody
<1>. QED BY <1>1, RequestsInvariant, PTL

(* A call that _run_async_in_sync fails for its loop was overtaken: without  *)
(* another thread that runs or drops the loop between two looks at it, no    *)
(* call fails, however often the loop was closed or replaced before.         *)
THEOREM NoFailureWithoutRace ==
  RequestsSpec => []FailsOnlyWhenOvertaken
<1>1. RequestsInv => FailsOnlyWhenOvertaken
  BY DEF RequestsInv, SyncIInv, FailsOnlyWhenOvertaken
<1>. QED BY <1>1, RequestsInvariant, PTL

(* Whatever policy an executor is given, and in whatever order its rules     *)
(* stand: an approval that one of the most specific rules demands is not     *)
(* waived by the others, nor is the module's own demand unless one of those  *)
(* rules lifts it.                                                           *)
THEOREM DemandsStand ==
  RequestsSpec => []DemandedApprovalStands
<1>1. RequestsInv => DemandedApprovalStands
  BY PolicyDemandStands
  DEF RequestsInv, PolicyIsLoaded, DemandedApprovalStands, Governed!DemandedApprovalStands
<1>. QED BY <1>1, RequestsInvariant, PTL

(* Neither matcher ever goes back, and neither needs to: for every pattern    *)
(* and text, over whatever characters, each finds a match exactly where the   *)
(* pattern stands for the text.                                               *)
THEOREM MatchingIsExact ==
  ASSUME NEW T, NEW pattern \in Seq(T), NEW text \in Seq(T)
  PROVE  Governed!MatchesAreExact(pattern, text)
BY GlobIsExact, PatternIsExact DEF Governed!MatchesAreExact

(* So whatever pattern a request brings is matched exactly with every id.     *)
THEOREM MatchesAreAlwaysExact ==
  RequestsSpec => []MatchesAreExact
<1>1. ASSUME RequestsInv PROVE MatchesAreExact
  <2>. SUFFICES ASSUME NEW pattern \in asked, NEW text \in AskedTexts
                PROVE  Governed!MatchesAreExact(pattern, text)
    BY DEF MatchesAreExact
  <2>1. pattern \in Seq(Characters) /\ text \in Seq(Characters)
    BY <1>1, TextsAssumption DEF RequestsInv
  <2>. QED BY <2>1, MatchingIsExact
<1>. QED BY <1>1, RequestsInvariant, PTL

(* Whatever rules a file holds and however deep their conditions are nested:  *)
(* a rule without a finding can be evaluated in every context that has the    *)
(* arguments and whose handlers answer, and one that is reported as matching  *)
(* nothing matches no id.                                                     *)
THEOREM LintsAreSound ==
  RequestsSpec => []LintIsSound
<1>1. RequestsInv => LintIsSound BY ReadableIsSound DEF RequestsInv, LintIsSound
<1>. QED BY <1>1, RequestsInvariant, PTL

(* However often the file is edited and reloaded, and whatever else is       *)
(* mounted or set: each key that was mounted is there to be read, and there  *)
(* to be mounted again, until a leaf is put above it; but for a mount that   *)
(* comes between the two sections of a reload.                               *)
THEOREM MountsStay ==
  RequestsSpec => []MountsAreKept
<1>1. RequestsInv => MountsAreKept
  BY DEF RequestsInv, ConfInv, AllHold, MountsAreKept, Conf!MountsAreKept
<1>. QED BY <1>1, RequestsInvariant, PTL
=============================================================================

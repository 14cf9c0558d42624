----------------------------- MODULE ModuleCall -----------------------------
(***************************************************************************)
(* One call of Executor.call_async, .call_async_with_trace, .stream or      *)
(* .validate: PipelineEngine runs the built-in steps of a strategy, MiddlewareManager runs the hooks *)
(* around the module, and the executor turns failures into recoveries and  *)
(* retries.  Steps that await (the approval handler, each hook, the module *)
(* body, each chunk) are actions of their own, so that the caller's cancel *)
(* token, the deadline and the middleware list change in between.          *)
(* Left out: custom steps, step middlewares and per-step configuration.    *)
(***************************************************************************)
EXTENDS Naturals, FiniteSets, SequencesExt

CONSTANTS Order,         \* the middlewares, highest priority first
          RetryMW,       \* the one that is a RetryMiddleware
          MaxRetries,    \* its max_retries, a natural number
          MaxRepeat,     \* executor.max_module_repeat, at least 1
          Modes,         \* which of "call", "trace", "stream", "validate" are called
          Strategies     \* names of the presets under study

Middlewares == ToSet(Order)

Standard == <<"context_creation", "call_chain_guard", "module_lookup", "acl_check",
              "approval_gate", "middleware_before", "input_validation", "execute",
              "output_validation", "middleware_after", "return_result">>
Internal == <<"context_creation", "call_chain_guard", "module_lookup", "middleware_before",
              "input_validation", "execute", "output_validation", "middleware_after",
              "return_result">>
Performance == <<"context_creation", "call_chain_guard", "module_lookup", "acl_check",
                 "approval_gate", "input_validation", "execute", "output_validation",
                 "return_result">>
Minimal == <<"context_creation", "module_lookup", "execute", "return_result">>
Presets == [standard |-> Standard, internal |-> Internal, performance |-> Performance,
            minimal |-> Minimal]
PostStream == {"output_validation", "middleware_after", "return_result"}
PostSteps(steps) == SelectSeq(steps, LAMBDA s : s \in PostStream)

Pure == ToSet(Standard) \ {"approval_gate", "middleware_before", "execute", "middleware_after"}
Requires(s) == CASE s \in {"acl_check", "approval_gate"} -> {"context", "module"}
                 [] s \in {"input_validation", "execute"} -> {"module"}
                 [] s = "output_validation" -> {"module", "output"}
                 [] s = "call_chain_guard" -> {"context"}
                 [] s = "return_result" -> {"output"}
                 [] OTHER -> {}
Provides(s) == CASE s = "context_creation" -> {"context"}
                 [] s = "module_lookup" -> {"module"}
                 [] s = "execute" -> {"output"}
                 [] OTHER -> {}

VARIABLES
  mode,       \* call, trace, stream, post (validation after a stream) or validate
  strategy, i,  \* ExecutionStrategy.steps and the engine's index into it
  stillborn,  \* was this attempt's token cancelled before the attempt began? (history)
  pc,         \* "step", or what the call awaits: "approval", "before", "body", ...
  trace,      \* steps that this run of the engine completed
  unavailable, \* dry run: what no completed step provides
  attempt,    \* runs of the engine; also the repeats of the module in call_chain
  retries,    \* the RetryMiddleware's counter in context.data
  policy,     \* gated by annotation or policy, handler configured, strict
  token,      \* is there an _approval_token in the inputs?
  aclAsks,    \* acl_approval_required
  approved,   \* has the handler approved this attempt?
  fired,      \* cancel tokens that were cancelled; 0 is the caller's, a that of attempt a
  late,       \* has the global deadline passed?
  installed,  \* middlewares in the manager
  todo,       \* hooks that the current pass has still to call
  executed,   \* executed_middlewares
  queued,     \* attempts whose module.execute the loop or the thread pool has yet to start
  bodies,     \* attempts whose module.execute is running
  output,     \* attempt that produced ctx.output, 0 for none
  chunks,     \* attempts that have yielded chunks to the consumer
  error,      \* the error being recovered from or raised
  outcome     \* how the call ended

run == <<mode, strategy, stillborn>>
gates == <<policy, token, aclAsks, approved>>
hooks == <<todo, executed>>
signals == <<fired, late, installed>>
work == <<queued, bodies>>
vars == <<mode, strategy, stillborn, i, pc, trace, unavailable, attempt, retries, policy, token,
          aclAsks, approved, fired, late, installed, todo, executed, queued, bodies, output,
          chunks, error, outcome>>

Errors == {"none", "cancelled", "frequency", "unavailable", "denied", "invalid",
           "transient", "fatal", "timeout"}
Retryable == {"transient", "timeout"}
Outcomes == {"none", "returned", "recovered", "raised", "abandoned", "interrupted",
             "valid", "invalid"}

Stack == SelectSeq(Order, LAMBDA m : m \in installed)

Init ==
  /\ mode \in Modes /\ strategy \in {Presets[s] : s \in Strategies}
  /\ stillborn = FALSE /\ i = 1 /\ pc = "step" /\ trace = {} /\ unavailable = {}
  /\ attempt = 0 /\ retries = 0
  /\ policy \in [gated : BOOLEAN, handler : BOOLEAN, strict : BOOLEAN]
  /\ token \in BOOLEAN /\ aclAsks = FALSE /\ approved = FALSE
  /\ fired = {} /\ late = FALSE /\ installed = Middlewares
  /\ todo = <<>> /\ executed = <<>>
  /\ queued = {} /\ bodies = {} /\ output = 0 /\ chunks = {}
  /\ error = "none" /\ outcome = "none"

\* CancelToken.is_cancelled: each attempt's token is a child of the one before.
Cancelled(a) == \E n \in 0..a : n \in fired

\* Attempts whose body runs, or will run: nothing takes back what was handed over.
Handed == queued \cup bodies

-----------------------------------------------------------------------------
(* PipelineEngine.run *)
Step == strategy[i]
Runs(s) == s \in Pure /\ Requires(s) \cap unavailable = {}

At(s) == /\ pc = "step" /\ i <= Len(strategy) /\ Step = s
         /\ mode = "validate" => Runs(s)

DryRunSkipsKeepingProvides ==
  /\ mode = "validate" /\ pc = "step" /\ i <= Len(strategy) /\ ~Runs(Step)
  /\ i' = i + 1
  /\ UNCHANGED <<run, pc, trace, unavailable, attempt, retries, gates, signals, hooks, work,
                 output, chunks, error, outcome>>

DryRunSkips ==
  /\ mode = "validate" /\ pc = "step" /\ i <= Len(strategy) /\ ~Runs(Step)
  /\ unavailable' = unavailable \cup Provides(Step)
  /\ i' = i + 1
  /\ UNCHANGED <<run, pc, trace, attempt, retries, gates, signals, hooks, work, output,
                 chunks, error, outcome>>

\* The step returned "continue".
Continue(s) ==
  /\ trace' = trace \cup {s} /\ i' = i + 1 /\ pc' = "step"
  /\ unavailable' = unavailable \ Provides(s)
  /\ UNCHANGED <<error, outcome>>

Ends(how) == pc' = "ended" /\ outcome' = how

\* The step raised e.  A dry run records it and goes on without what the step
\* provides; the run after a stream only reports it; otherwise the executor
\* recovers, unless the error is a cancellation.
FailureRecoveringAll(e, ran) ==
  /\ executed' = ran
  /\ IF mode \in {"validate", "post"}
     THEN Ends("returned") /\ UNCHANGED <<i, trace, unavailable, todo, error>>
     ELSE /\ error' = e /\ UNCHANGED <<i, trace, unavailable>>
          /\ IF ran = <<>> THEN Ends("raised") /\ todo' = <<>>
             ELSE pc' = "on_error" /\ todo' = Reverse(ran) /\ UNCHANGED outcome

Failure(e, ran) ==
  /\ executed' = ran
  /\ CASE mode = "validate" ->
            /\ unavailable' = unavailable \cup Provides(Step)
            /\ pc' = "step" /\ i' = i + 1
            /\ UNCHANGED <<trace, todo, error, outcome>>
       [] mode = "post" ->
            /\ Ends("returned") /\ error' = e
            /\ UNCHANGED <<i, trace, unavailable, todo>>
       [] mode \in {"call", "trace", "stream"} ->
            /\ error' = e
            /\ IF e = "cancelled" \/ ran = <<>>
               THEN Ends("raised") /\ todo' = <<>>
               ELSE /\ pc' = "on_error" /\ todo' = Reverse(ran)
                    /\ UNCHANGED outcome
            /\ UNCHANGED <<i, trace, unavailable>>

\* The strategy is exhausted; stream() yields the output of a module that does not
\* stream as its only chunk.
RunEnds ==
  /\ pc = "step" /\ i > Len(strategy) /\ mode # "validate"
  /\ IF mode = "stream" /\ output = 0
     THEN pc' = "chunks" /\ UNCHANGED <<chunks, outcome>>
     ELSE Ends("returned") /\ chunks' = IF mode = "stream" THEN {attempt} ELSE chunks
  /\ UNCHANGED <<run, i, trace, unavailable, attempt, retries, gates, signals, hooks, work,
                 output, error>>

-----------------------------------------------------------------------------
(* validate() around the dry run: the context may belong to another         *)
(* executor; then the module itself is asked, by preflight() and preview(), *)
(* if it was found and the ACL did not refuse the caller.                   *)
Refused == {s \in ToSet(strategy) : Runs(s) /\ s \notin trace}
Verdict == IF Refused = {} THEN "valid" ELSE "invalid"

BindingRefused ==
  /\ mode = "validate" /\ attempt = 0 /\ pc = "step" /\ Ends("invalid")
  /\ UNCHANGED <<run, i, trace, unavailable, attempt, retries, gates, signals, hooks, work,
                 output, chunks, error>>

DryRunEnds ==
  /\ mode = "validate" /\ pc = "step" /\ i > Len(strategy)
  /\ IF "module_lookup" \in trace /\ "acl_check" \notin Refused
     THEN pc' = "introspection" /\ UNCHANGED outcome
     ELSE Ends(Verdict)
  /\ UNCHANGED <<run, i, trace, unavailable, attempt, retries, gates, signals, hooks, work,
                 output, chunks, error>>

\* Whatever preflight() and preview() do, they only add warnings.
IntrospectionEnds ==
  /\ pc = "introspection" /\ Ends(Verdict)
  /\ UNCHANGED <<run, i, trace, unavailable, attempt, retries, gates, signals, hooks, work,
                 output, chunks, error>>

-----------------------------------------------------------------------------
(* The built-in steps up to the module.                                     *)
CreateContextUnlinked ==
  /\ At("context_creation")
  /\ attempt' = attempt + 1 /\ stillborn' = Cancelled(attempt)
  /\ fired' = fired \ {attempt}
  /\ Continue("context_creation")
  /\ UNCHANGED <<mode, strategy, retries, gates, late, installed, hooks, work, output, chunks>>

\* A child context of ctx.context: on a retry that is the last attempt's, so the
\* token is linked to that attempt's and the module repeats in the call chain.
CreateContext ==
  /\ At("context_creation")
  /\ attempt' = attempt + 1 /\ stillborn' = Cancelled(attempt)
  /\ Continue("context_creation")
  /\ UNCHANGED <<mode, strategy, retries, gates, signals, hooks, work, output, chunks>>

CallChainGuardUnaware ==
  /\ At("call_chain_guard")
  /\ IF attempt > MaxRepeat THEN Failure("frequency", executed)
     ELSE Continue("call_chain_guard") /\ UNCHANGED hooks
  /\ UNCHANGED <<run, attempt, retries, gates, signals, work, output, chunks>>

CallChainGuard ==
  /\ At("call_chain_guard")
  /\ CASE Cancelled(attempt)  -> Failure("cancelled", executed)
       [] ~Cancelled(attempt) /\ attempt > MaxRepeat -> Failure("frequency", executed)
       [] OTHER -> Continue("call_chain_guard") /\ UNCHANGED hooks
  /\ UNCHANGED <<run, attempt, retries, gates, signals, work, output, chunks>>

\* The registry and the toggles answer for this instant; input and output
\* schemas accept or refuse.
CheckOrRaise(s, e) ==
  /\ At(s)
  /\ \/ Continue(s) /\ UNCHANGED hooks
     \/ Failure(e, executed)
  /\ UNCHANGED <<run, attempt, retries, gates, signals, work, output, chunks>>

ModuleLookup == CheckOrRaise("module_lookup", "unavailable")
InputValidation == CheckOrRaise("input_validation", "invalid")
OutputValidation == CheckOrRaise("output_validation", "invalid")

ACLCheck ==
  /\ At("acl_check")
  /\ \E access \in {"allow", "ask", "deny"} :
       /\ aclAsks' = (access = "ask")
       /\ IF access = "deny" THEN Failure("denied", executed)
          ELSE Continue("acl_check") /\ UNCHANGED hooks
  /\ UNCHANGED <<run, attempt, retries, policy, token, approved, signals, work, output, chunks>>

NeedsApproval == policy.gated \/ aclAsks

\* The token leaves the inputs whether or not approval is needed.
ApprovalGate ==
  /\ At("approval_gate")
  /\ token' = FALSE /\ approved' = FALSE
  /\ \/ /\ ~NeedsApproval \/ (~policy.handler /\ ~policy.strict)
        /\ Continue("approval_gate") /\ UNCHANGED hooks
     \/ /\ NeedsApproval /\ ~policy.handler /\ policy.strict
        /\ Failure("denied", executed)
     \/ /\ NeedsApproval /\ policy.handler
        /\ pc' = "approval"
        /\ UNCHANGED <<i, trace, unavailable, hooks, error, outcome>>
  /\ UNCHANGED <<run, attempt, retries, policy, aclAsks, signals, work, output, chunks>>

\* check_approval(token) or request_approval() answers; only "approved" passes.
ApprovalAnswer ==
  /\ pc = "approval"
  /\ \/ approved' = TRUE /\ Continue("approval_gate") /\ UNCHANGED hooks
     \/ approved' = FALSE /\ Failure("denied", executed)
  /\ UNCHANGED <<run, attempt, retries, policy, token, aclAsks, signals, work, output, chunks>>

\* execute_before_async takes a snapshot of the list and walks it.
MiddlewareBefore ==
  /\ At("middleware_before")
  /\ todo' = Stack /\ executed' = <<>> /\ pc' = "before"
  /\ UNCHANGED <<run, i, trace, unavailable, attempt, retries, gates, signals, work, output,
                 chunks, error, outcome>>

BeforeHook ==
  /\ pc = "before"
  /\ IF todo = <<>> THEN Continue("middleware_before") /\ UNCHANGED hooks
     ELSE \/ /\ todo' = Tail(todo) /\ executed' = Append(executed, Head(todo))
             /\ UNCHANGED <<i, pc, trace, unavailable, error, outcome>>
          \/ \E e \in {"transient", "fatal", "cancelled"} :
               Failure(e, Append(executed, Head(todo)))
  /\ UNCHANGED <<run, attempt, retries, gates, signals, work, output, chunks>>

-----------------------------------------------------------------------------
(* BuiltinExecute: the last look at the token and the deadline; then the    *)
(* module is scheduled, as a task of the loop or a job of the thread pool,   *)
(* and awaited under a timeout.  It starts when they come to it, whatever    *)
(* happened since the look; what it does after the wait is discarded.        *)
Execute ==
  /\ At("execute")
  /\ CASE Cancelled(attempt) -> Failure("cancelled", executed) /\ UNCHANGED <<fired, queued>>
       [] ~Cancelled(attempt) /\ late ->
            Failure("timeout", executed) /\ fired' = fired \cup {attempt} /\ UNCHANGED queued
       [] OTHER ->
            /\ \/ /\ pc' = "body" /\ queued' = queued \cup {attempt}
                  /\ UNCHANGED <<i, trace>>
               \/ /\ mode = "stream"                     \* a StreamingModule
                  /\ trace' = trace \cup {"execute"}
                  /\ i' = Len(strategy)                   \* skip_to return_result
                  /\ UNCHANGED <<pc, queued>>
            /\ UNCHANGED <<unavailable, fired, hooks, error, outcome>>
  /\ UNCHANGED <<run, attempt, retries, gates, late, installed, bodies, output, chunks>>

\* Even if the call timed out or was interrupted: asyncio.wait cancels no future.
BodyStarts ==
  \E a \in queued :
    /\ queued' = queued \ {a} /\ bodies' = bodies \cup {a}
    /\ UNCHANGED <<run, i, pc, trace, unavailable, attempt, retries, gates, signals, hooks,
                   output, chunks, error, outcome>>

BodyReturns ==
  /\ pc = "body" /\ attempt \in bodies
  /\ bodies' = bodies \ {attempt} /\ output' = attempt
  /\ Continue("execute")
  /\ UNCHANGED <<run, attempt, retries, gates, signals, hooks, queued, chunks>>

BodyRaises ==
  /\ pc = "body" /\ attempt \in bodies
  /\ bodies' = bodies \ {attempt}
  /\ \E e \in {"transient", "fatal"} \cup {c \in {"cancelled"} : Cancelled(attempt)} :
       Failure(e, executed)
  /\ UNCHANGED <<run, attempt, retries, gates, signals, queued, output, chunks>>

BodyTimesOutOnDeadline ==
  /\ pc = "body" /\ late
  /\ fired' = fired \cup {attempt}
  /\ Failure("timeout", executed)
  /\ UNCHANGED <<run, attempt, retries, gates, late, installed, work, output, chunks>>

BodyTimesOut ==
  /\ pc = "body"
  /\ fired' = fired \cup {attempt}
  /\ Failure("timeout", executed)
  /\ UNCHANGED <<run, attempt, retries, gates, late, installed, work, output, chunks>>

\* _discard_late_execution
LateBodyEnds ==
  \E a \in bodies :
    /\ pc # "body" \/ a # attempt
    /\ bodies' = bodies \ {a}
    /\ UNCHANGED <<run, i, pc, trace, unavailable, attempt, retries, gates, signals, hooks,
                   queued, output, chunks, error, outcome>>

\* execute_after_async walks a snapshot of its own, in reverse.
MiddlewareAfter ==
  /\ At("middleware_after")
  /\ todo' = Reverse(Stack) /\ pc' = "after"
  /\ UNCHANGED <<run, i, trace, unavailable, attempt, retries, gates, signals, executed, work,
                 output, chunks, error, outcome>>

AfterHook ==
  /\ pc = "after"
  /\ IF todo = <<>> THEN Continue("middleware_after") /\ UNCHANGED <<hooks, retries>>
     ELSE \/ /\ todo' = Tail(todo) /\ UNCHANGED executed
             /\ retries' = IF Head(todo) = RetryMW THEN 0 ELSE retries
             /\ UNCHANGED <<i, pc, trace, unavailable, error, outcome>>
          \/ /\ Head(todo) # RetryMW /\ UNCHANGED retries
             /\ \E e \in {"transient", "fatal", "cancelled"} : Failure(e, executed)
  /\ UNCHANGED <<run, attempt, gates, signals, work, output, chunks>>

ReturnResult ==
  /\ At("return_result")
  /\ Continue("return_result")
  /\ UNCHANGED <<run, attempt, retries, gates, signals, hooks, work, output, chunks>>

-----------------------------------------------------------------------------
(* Recovery: execute_on_error_async, the first answer wins.                 *)
ResumeAtExecute ==
  /\ i' = SelectInSeq(strategy, LAMBDA s : s = "execute") /\ pc' = "step"
  /\ trace' = {} /\ executed' = <<>> /\ todo' = <<>> /\ output' = 0 /\ error' = "none"
  /\ UNCHANGED <<unavailable, outcome>>

\* A stream and a call with trace ignore the signal and raise what they caught.
RaiseInstead == /\ Ends("raised") /\ todo' = <<>>
                /\ UNCHANGED <<i, trace, unavailable, executed, output, error>>

\* _reset_pipe_ctx_for_retry
Retry ==
  IF mode = "call"
  THEN /\ i' = 1 /\ pc' = "step" /\ trace' = {}
       /\ executed' = <<>> /\ todo' = <<>> /\ output' = 0 /\ error' = "none"
       /\ UNCHANGED <<unavailable, outcome>>
  ELSE RaiseInstead

OnErrorHook ==
  /\ pc = "on_error"
  /\ CASE todo = <<>> ->
            /\ Ends("raised")
            /\ UNCHANGED <<i, trace, unavailable, retries, hooks, output, error>>
       [] todo # <<>> /\ Head(todo) = RetryMW /\ error \in Retryable /\ retries < MaxRetries ->
            retries' = retries + 1 /\ Retry
       [] OTHER ->
            /\ UNCHANGED <<i, trace, unavailable, retries, executed, output, error>>
            /\ \/ todo' = Tail(todo) /\ UNCHANGED <<pc, outcome>>
               \/ Head(todo) # RetryMW /\ Ends("recovered") /\ todo' = <<>>
  /\ UNCHANGED <<run, attempt, gates, signals, work, chunks>>

-----------------------------------------------------------------------------
(* Executor.stream after the pipeline: chunks go to the consumer as they    *)
(* come, then the tail of the strategy runs on the accumulated output.      *)
StreamChunk ==
  /\ pc = "chunks"
  /\ IF late THEN Failure("timeout", executed) /\ UNCHANGED chunks
     ELSE /\ chunks' = chunks \cup {attempt}
          /\ UNCHANGED <<i, pc, trace, unavailable, hooks, error, outcome>>
  /\ UNCHANGED <<run, attempt, retries, gates, signals, work, output>>

StreamFails ==
  /\ pc = "chunks"
  /\ \E e \in {"transient", "fatal", "invalid"} \cup {c \in {"cancelled"} : Cancelled(attempt)} :
       Failure(e, executed)
  /\ UNCHANGED <<run, attempt, retries, gates, signals, work, output, chunks>>

StreamEnds ==
  /\ pc = "chunks"
  /\ mode' = "post" /\ strategy' = PostSteps(strategy) /\ UNCHANGED stillborn
  /\ i' = 1 /\ pc' = "step" /\ output' = attempt
  /\ UNCHANGED <<trace, unavailable, attempt, retries, gates, signals, hooks, work, chunks,
                 error, outcome>>

\* The consumer closes the generator; GeneratorExit passes every handler.
StreamAbandoned ==
  /\ pc = "chunks" /\ Ends("abandoned")
  /\ UNCHANGED <<run, i, trace, unavailable, attempt, retries, gates, signals, hooks, work,
                 output, chunks, error>>

-----------------------------------------------------------------------------
(* Around the call.                                                         *)
CallerCancels ==
  /\ pc # "ended" /\ 0 \notin fired /\ fired' = fired \cup {0}
  /\ UNCHANGED <<run, i, pc, trace, unavailable, attempt, retries, gates, late, installed, hooks,
                 work, output, chunks, error, outcome>>

DeadlinePasses ==
  /\ pc # "ended" /\ attempt > 0 /\ ~late /\ late' = TRUE
  /\ UNCHANGED <<run, i, pc, trace, unavailable, attempt, retries, gates, fired, installed, hooks,
                 work, output, chunks, error, outcome>>

MiddlewareListChanges ==
  /\ pc # "ended"
  /\ \E m \in Middlewares :
       installed' = IF m \in installed THEN installed \ {m} ELSE installed \cup {m}
  /\ UNCHANGED <<run, i, pc, trace, unavailable, attempt, retries, gates, fired, late, hooks,
                 work, output, chunks, error, outcome>>

\* asyncio cancels the coroutine at an await: asyncio.wait leaves the module running.
Interrupted ==
  /\ pc \in {"approval", "before", "body", "after", "on_error", "chunks", "introspection"}
  /\ Ends("interrupted")
  /\ UNCHANGED <<run, i, trace, unavailable, attempt, retries, gates, signals, hooks, work,
                 output, chunks, error>>

-----------------------------------------------------------------------------
PipelineStep == \/ RunEnds \/ DryRunSkips \/ CreateContext \/ CallChainGuard \/ ModuleLookup
                \/ ACLCheck \/ ApprovalGate \/ MiddlewareBefore \/ BeforeHook
                \/ InputValidation \/ Execute \/ OutputValidation \/ MiddlewareAfter
                \/ AfterHook \/ ReturnResult \/ OnErrorHook
                \/ BindingRefused \/ DryRunEnds \/ IntrospectionEnds

Next == \/ PipelineStep \/ ApprovalAnswer
        \/ BodyStarts \/ BodyReturns \/ BodyRaises \/ BodyTimesOut \/ LateBodyEnds
        \/ StreamChunk \/ StreamFails \/ StreamEnds \/ StreamAbandoned
        \/ CallerCancels \/ DeadlinePasses \/ MiddlewareListChanges \/ Interrupted

Spec == Init /\ [][Next]_vars

(* The coroutine of the call runs whenever it can, hooks and the approval   *)
(* handler answer, and executor.default_timeout (30 s) ends the wait for a  *)
(* module.  Neither a module nor a stream has to end by itself.             *)
FairSpec == Spec /\ WF_vars(PipelineStep) /\ WF_vars(ApprovalAnswer) /\ WF_vars(BodyTimesOut)

-----------------------------------------------------------------------------
TypeOK ==
  /\ mode \in {"call", "trace", "stream", "post", "validate"}
  /\ i \in 1..(Len(strategy) + 1)
  /\ pc \in {"step", "approval", "before", "body", "after", "on_error", "chunks",
            "introspection", "ended"}
  /\ trace \subseteq ToSet(Standard) /\ unavailable \subseteq {"context", "module", "output"}
  /\ attempt \in 0..(MaxRepeat + 1) /\ retries \in 0..MaxRetries
  /\ fired \subseteq 0..attempt /\ Handed \cup chunks \subseteq 1..attempt
  /\ queued \cap bodies = {} /\ stillborn \in BOOLEAN
  /\ output \in 0..attempt
  /\ installed \subseteq Middlewares
  /\ ToSet(todo) \cup ToSet(executed) \subseteq Middlewares
  /\ error \in Errors /\ outcome \in Outcomes

(* The module runs, or streams, only when every step that the strategy puts  *)
(* before it has passed in this very attempt, and, where approval is needed  *)
(* and a handler is there, the handler has approved this attempt: a retry    *)
(* inherits nothing.                                                         *)
GatesPrecedeBody ==
  pc \in {"body", "chunks"} =>
    /\ \A n \in 1..Len(strategy) : strategy[n] = "execute" =>
         ToSet(SubSeq(strategy, 1, n - 1)) \subseteq trace
    /\ "approval_gate" \in ToSet(strategy) /\ NeedsApproval /\ policy.handler => approved

(* A module body that the call no longer waits for has had its cancel token  *)
(* fired, so a cooperative module can stop.  The code keeps this for         *)
(* timeouts; cancelling the coroutine of the call breaks it.                 *)
Told(a) == (pc = "body" /\ a = attempt) \/ Cancelled(a)
AbandonedBodyIsTold == \A a \in bodies : Told(a)

(* A timeout abandons a body that is running, or that has yet to start, and  *)
(* is retryable, and a stream may fail between chunks: yet no two attempts   *)
(* of one call run the module at the same time, an abandoned body has been   *)
(* told to stop, and a consumer sees the chunks of one attempt only.         *)
HandedAreTold == \A a \in Handed : Told(a)
AttemptsDoNotMix ==
  /\ Cardinality(Handed) <= 1 /\ (outcome # "interrupted" => HandedAreTold)
  /\ chunks # {} => chunks = {attempt}

(* An attempt whose token was cancelled before it began, by the caller or by *)
(* the timeout of an attempt that it repeats, reaches nobody: no hook and no *)
(* approval handler is asked, no body and no stream handed over, then or     *)
(* later, and the call does not return.  (What is cancelled after the last   *)
(* look may still start: the module alone can tell, from its token.)         *)
StillbornReachesNobody ==
  stillborn /\ mode # "validate" =>
    /\ pc \in {"step", "ended"} /\ executed = <<>> /\ outcome \in {"none", "raised"}
    /\ attempt \notin Handed \cup chunks /\ output = 0

(* A cancellation is never recovered: no on_error hook sees it, and the call *)
(* neither returns a substitute nor tries again (D-20).                      *)
CancellationIsNotRecovered ==
  error = "cancelled" /\ mode # "post" => pc = "ended" /\ outcome = "raised"

(* A dry run touches nothing outside the pipeline, and runs a step only when *)
(* what the step requires was provided by a step that completed.  It is      *)
(* valid only if every pure step in front of the module passed, and the      *)
(* module's own code is asked only once the ACL, where the strategy has it,  *)
(* has let the caller through.                                               *)
BeforeModule == {strategy[n] : n \in {m \in 1..Len(strategy) :
                                       \E e \in (m + 1)..Len(strategy) : strategy[e] = "execute"}}
DryRunIsSound ==
  mode = "validate" =>
    /\ Handed = {} /\ executed = <<>> /\ pc \in {"step", "introspection", "ended"}
    /\ outcome # "raised"
    /\ UNION {Requires(s) : s \in trace} \subseteq UNION {Provides(s) : s \in trace}
    /\ outcome = "valid" => Pure \cap BeforeModule \subseteq trace
    /\ pc = "introspection" => {"module_lookup"} \cup (BeforeModule \cap {"acl_check"}) \subseteq trace

(* A call that is not a stream ends, whatever the module and the middlewares *)
(* do: retries run out even if an after hook resets their counter.           *)
CallEnds == mode \in {"call", "trace", "post", "validate"} ~> pc = "ended"

(* RetryMiddleware asks the executor to re-run the module: an attempt ends   *)
(* as cancelled only if the caller, or a middleware, asked for that.         *)
CancelledOnlyOnRequest ==
  [][error # "cancelled" /\ error' = "cancelled" /\ pc \notin {"before", "after"}
       => 0 \in fired]_vars
=============================================================================

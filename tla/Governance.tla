----------------------------- MODULE Governance -----------------------------
(* What gates the control modules: the strategies of executors, presets,    *)
(* built from a file or shared between executors, as they are edited; the    *)
(* providers that executors bring and bind into the gates they find; the     *)
(* client that wires them; and governance_state(), the report on all of it.  *)
EXTENDS Naturals, SequencesExt

CONSTANTS None,
          Executors,
          Shared,             \* strategies that were built beforehand
          SysControl,         \* the control modules that register_sys_modules() registers
          OtherControl,       \* others in their namespace
          Demanding,          \* control modules that declare requires_approval
          Acls, Handlers,
          Policies,           \* records [strict, waives] of an execution policy
          Given,              \* what an executor may be given: records of providers, or None
          Presets,            \* the names of presets that executors are built with
          Prebuilt,           \* presets, with providers, that the shared strategies may start as
          Edits,              \* what programs do to a strategy
          Pipelines,          \* the pipeline sections of configuration files
          Configs,            \* the other settings a client reads, and the ACL it discovers
          MaxOps              \* bound: operations in a behaviour

VARIABLES steps,              \* the step list of each executor's own and each shared strategy
          executor,           \* what each executor runs and was given
          registered,         \* the control modules in the registry
          ops

vars == <<steps, executor, registered, ops>>
Control == SysControl \cup OtherControl

-----------------------------------------------------------------------------
\* Steps: the built-in ones are known by their kind, which is also their name.
Kinds == <<"context_creation", "call_chain_guard", "module_lookup", "acl_check", "approval_gate",
           "middleware_before", "input_validation", "execute", "output_validation",
           "middleware_after", "return_result">>
Fixed == {"context_creation", "module_lookup", "execute", "return_result"}
NotReplaceable ==
  {"context_creation", "module_lookup", "middleware_before", "middleware_after", "return_result"}
Requires(kind) ==
  CASE kind = "call_chain_guard" -> {"context"}
    [] kind \in {"acl_check", "approval_gate"} -> {"context", "module"}
    [] kind \in {"input_validation", "execute"} -> {"module"}
    [] kind = "output_validation" -> {"module", "output"}
    [] kind \in {"return_result", "consumer"} -> {"output"}
    [] OTHER -> {}
Provides(kind) ==
  CASE kind = "context_creation" -> {"context"}
    [] kind = "module_lookup" -> {"module"}
    [] kind = "execute" -> {"output"}
    [] OTHER -> {}

Nothing == [acl |-> None, handler |-> None, policy |-> None]
Step(name, kind, providers) == [name |-> name, kind |-> kind, with |-> providers, fields |-> {}]
Named(list, name) == {i \in DOMAIN list : list[i].name = name}

\* The fields that would weaken a gate
GateFieldViolations(step, fields) ==
  CASE step.kind = "acl_check" -> fields \cap {"ignore_errors", "match_modules"}
    [] step.kind = "approval_gate" -> fields \cap {"ignore_errors", "match_modules", "pure"}
    [] OTHER -> {}

DependenciesMet(list) ==
  \A i \in DOMAIN list :
    Requires(list[i].kind) \subseteq UNION {Provides(list[j].kind) : j \in 1..i - 1}

-----------------------------------------------------------------------------
\* One edit: the list it leaves, and whether it was refused.  A step is inserted before
\* the dependencies are looked at, and stays.
Done(list) == [steps |-> list, ok |-> TRUE]
Refused(list) == [steps |-> list, ok |-> FALSE]
Edited(list, edit) ==
  LET found == Named(list, edit.at)
      i == CHOOSE i \in found : TRUE
      others == IF edit.op = "replace" THEN found ELSE {}
      taken == edit.op # "remove" /\ Named(list, edit.step.name) \ others # {}
      place == IF edit.op = "insert_after" THEN i + 1 ELSE i
      inserted == InsertAt(list, place, edit.step)
  IN CASE found = {} \/ taken -> Refused(list)
       [] edit.op \in {"insert_after", "insert_before"} /\ found # {} /\ ~taken ->
            [steps |-> inserted, ok |-> DependenciesMet(inserted)]
       [] edit.op = "remove" /\ found # {} ->
            IF list[i].kind \in Fixed THEN Refused(list) ELSE Done(RemoveAt(list, i))
       [] edit.op = "replace" /\ found # {} /\ ~taken ->
            IF list[i].kind \in NotReplaceable THEN Refused(list)
            ELSE Done(ReplaceAt(list, i, edit.step))

\* A field of a step is set, by a program or from a file.
Configured(list, edit) ==
  LET found == Named(list, edit.at)
      i == CHOOSE i \in found : TRUE
  IN IF found = {} \/ GateFieldViolations(list[i], edit.fields) # {} THEN Refused(list)
     ELSE Done([list EXCEPT ![i].fields = @ \cup edit.fields])

Applied(list, edit) ==
  IF edit.op = "configure" THEN Configured(list, edit) ELSE Edited(list, edit)

-----------------------------------------------------------------------------
\* _bind_providers(): what the executor holds replaces what the gates hold.
Preferred(mine, its) == IF mine # None THEN mine ELSE its
BoundStep(step, own) ==
  CASE step.kind = "acl_check" -> [step EXCEPT !.with.acl = Preferred(own.acl, @)]
    [] step.kind = "approval_gate" ->
         [step EXCEPT !.with.handler = Preferred(own.handler, @),
                      !.with.policy = Preferred(own.policy, @)]
    [] OTHER -> step
Bound(list, own) == [i \in DOMAIN list |-> BoundStep(list[i], own)]

\* build_standard_strategy(), and what the presets keep of its steps
Kept ==
  [standard |-> Kinds,
   internal |-> <<"context_creation", "call_chain_guard", "module_lookup", "middleware_before",
                  "input_validation", "execute", "output_validation", "middleware_after",
                  "return_result">>,
   testing |-> <<"context_creation", "module_lookup", "middleware_before", "input_validation",
                 "execute", "output_validation", "middleware_after", "return_result">>,
   performance |-> <<"context_creation", "call_chain_guard", "module_lookup", "acl_check",
                     "approval_gate", "input_validation", "execute", "output_validation",
                     "return_result">>,
   minimal |-> <<"context_creation", "module_lookup", "execute", "return_result">>]
BuiltIn(kinds) == [i \in DOMAIN kinds |-> Step(kinds[i], kinds[i], Nothing)]
Preset(name, own) == Bound(BuiltIn(Kept[name]), own)

\* build_strategy_from_config(): removals, fields, then insertions; any refusal is an error.
FromConfig(pipeline, own) ==
  LET built[n \in 0..Len(pipeline)] ==
        IF n = 0 THEN Done(Preset("standard", own))
        ELSE IF built[n - 1].ok THEN Applied(built[n - 1].steps, pipeline[n])
        ELSE built[n - 1]
  IN built[Len(pipeline)]

-----------------------------------------------------------------------------
Unbuilt == [strategy |-> None, own |-> Nothing]
Built(e) == executor[e].strategy # None
Running(e) == steps[executor[e].strategy]

Init ==
  /\ \E start \in [Shared -> Prebuilt] :
       steps = [o \in Executors \cup Shared |->
                  IF o \in Shared THEN Preset(start[o][1], start[o][2]) ELSE <<>>]
  /\ executor = [e \in Executors |-> Unbuilt]
  /\ registered \in SUBSET Control
  /\ ops = 0

Counted == ops < MaxOps /\ ops' = ops + 1

\* Executor(): a strategy of its own, or one that was passed or registered by name
Owns(e, list, own) ==
  /\ ~Built(e)
  /\ executor' = [executor EXCEPT ![e] = [strategy |-> e, own |-> own]]
  /\ steps' = [steps EXCEPT ![e] = Bound(list, own)]

Construct(e, name, own) ==
  /\ Counted /\ Owns(e, Preset(name, own), own)
  /\ UNCHANGED registered
ConstructFromConfig(e, pipeline, own) ==
  /\ Counted /\ FromConfig(pipeline, own).ok /\ Owns(e, FromConfig(pipeline, own).steps, own)
  /\ UNCHANGED registered
ConstructOn(e, s, own) ==
  /\ Counted /\ ~Built(e)
  /\ executor' = [executor EXCEPT ![e] = [strategy |-> s, own |-> own]]
  /\ steps' = [steps EXCEPT ![s] = Bound(@, own)]
  /\ UNCHANGED registered

\* set_acl(), set_approval_handler() and set_policy(), which may also take the policy away
Put(step, kind, provider, value) ==
  IF step.kind = kind THEN [step EXCEPT !.with[provider] = value] ELSE step
Set(e, kind, provider, value) ==
  /\ Counted /\ Built(e)
  /\ executor' = [executor EXCEPT ![e].own[provider] = value]
  /\ steps' = [steps EXCEPT ![executor[e].strategy] =
                 [i \in DOMAIN @ |-> Put(@[i], kind, provider, value)]]
  /\ UNCHANGED registered
SetProvider(e) ==
  \/ \E acl \in Acls : Set(e, "acl_check", "acl", acl)
  \/ \E handler \in Handlers : Set(e, "approval_gate", "handler", handler)
  \/ \E policy \in Policies \cup {None} : Set(e, "approval_gate", "policy", policy)

\* A call through another strategy binds this executor's providers into it.
CallThrough(e, s) ==
  /\ Counted /\ Built(e)
  /\ steps' = [steps EXCEPT ![s] = Bound(@, executor[e].own)]
  /\ UNCHANGED <<executor, registered>>

Edit(o, edit) ==
  /\ Counted /\ steps[o] # <<>>
  /\ steps' = [steps EXCEPT ![o] = Applied(@, edit).steps]
  /\ UNCHANGED <<executor, registered>>

-----------------------------------------------------------------------------
\* register_sys_modules(): the control modules come with the events, and an id that is
\* taken is skipped.
Enabled(config) == config.enabled /\ config.events /\ config.control
SysModules(config) == IF Enabled(config) THEN SysControl ELSE {}

\* APCore(): an executor of its own, which the ACL that is found is set on; or the caller's
OpenClient(e, config, policy) ==
  LET own == [Nothing EXCEPT !.policy = policy]
      built == FromConfig(config.pipeline, own)
      gated == [own EXCEPT !.acl = config.acl]
  IN /\ Counted /\ built.ok
     /\ Owns(e, built.steps, gated)
     /\ registered' = registered \cup SysModules(config)
OpenClientOn(e, config) ==
  /\ Counted /\ Built(e)
  /\ registered' = registered \cup SysModules(config)
  /\ UNCHANGED <<steps, executor>>

Register(m) ==
  /\ Counted /\ m \notin registered
  /\ registered' = registered \cup {m}
  /\ UNCHANGED <<steps, executor>>
Unregister(m) ==
  /\ Counted /\ m \in registered
  /\ registered' = registered \ {m}
  /\ UNCHANGED <<steps, executor>>

Next ==
  \/ \E e \in Executors, own \in Given :
       \/ \E name \in Presets : Construct(e, name, own)
       \/ \E pipeline \in Pipelines : ConstructFromConfig(e, pipeline, own)
       \/ \E s \in Shared : ConstructOn(e, s, own)
  \/ \E e \in Executors :
       \/ SetProvider(e)
       \/ \E s \in Shared : CallThrough(e, s)
       \/ \E config \in Configs :
            OpenClientOn(e, config) \/ \E p \in Policies \cup {None} : OpenClient(e, config, p)
  \/ \E o \in Executors \cup Shared, edit \in Edits : Edit(o, edit)
  \/ \E m \in Control : Register(m) \/ Unregister(m)

Spec == Init /\ [][Next]_vars

-----------------------------------------------------------------------------
\* governance_state(): the gates are found by type, and report what they hold themselves.
HeldByExecutor(list, kind, provider, own) == {own[provider]}
Holding(list, kind, provider, own) ==
  LET gates == {i \in DOMAIN list : list[i].kind = kind}
  IN IF gates = {} THEN {own[provider]} ELSE {list[i].with[provider] : i \in gates}

Wired(list, kind) == \E i \in DOMAIN list : list[i].kind = kind
UnprotectedControlSurface(e) ==
  LET list == Running(e)
      own == executor[e].own
      policies == Holding(list, "approval_gate", "policy", own)
      acl_configured == Holding(list, "acl_check", "acl", own) # {None}
      handler_configured == Holding(list, "approval_gate", "handler", own) # {None}
      policy_strict == \E p \in policies : p # None /\ p.strict
  IN /\ registered # {}
     /\ ~(acl_configured /\ Wired(list, "acl_check"))
     /\ ~(/\ Wired(list, "approval_gate") /\ registered \subseteq Demanding
          /\ handler_configured \/ policy_strict)

\* A policy that lifts the demand; a gate that can stop a call of a control module
Waived(step) ==
  step.kind = "approval_gate" /\ step.with.policy # None /\ step.with.policy.waives
Stops(step, m) ==
  /\ step.fields \cap {"ignore_errors", "match_modules"} = {}
  /\ \/ step.kind = "acl_check" /\ step.with.acl # None
     \/ /\ step.kind = "approval_gate" /\ m \in Demanding /\ ~Waived(step)
        /\ step.with.handler # None \/ (step.with.policy # None /\ step.with.policy.strict)
Before(list) == {i \in DOMAIN list : \A j \in 1..i : list[j].name # "execute"}

GatesInFront(list) ==
  \A i \in DOMAIN list : list[i].kind \in {"acl_check", "approval_gate"} => i \in Before(list)

(* Where no unprotected control surface is reported and the gates stand in  *)
(* front of the module, each call of a control module meets a gate that can *)
(* stop it, or that a policy told to let it pass; where one is reported,    *)
(* there is a control module that nothing stops.  (The report does not look *)
(* where gates stand: one that a program puts behind the module counts.)    *)
ReportIsSound ==
  \A e \in Executors : Built(e) =>
    IF UnprotectedControlSurface(e)
    THEN \E m \in registered : \A i \in Before(Running(e)) : ~Stops(Running(e)[i], m)
    ELSE GatesInFront(Running(e)) =>
           \A m \in registered : \E i \in Before(Running(e)) :
             Stops(Running(e)[i], m) \/ Waived(Running(e)[i])
=============================================================================

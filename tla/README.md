# Verification of apcore-python

TLA+ models of the parts of apcore whose correctness depends on order, on
concurrency or on failure, their TLC configurations, and theorems about them
checked by TLAPS. Paths below are relative to `src/src/apcore/`.

apcore runs *modules* (named units with an input and an output schema) through
a pipeline of governance steps: a registry holds them, an executor calls them
through ACL, approval, middlewares and validation, a task manager calls them in
the background, and system modules, events and observability stand around that.

## 1. Inventory

| Component | State it keeps | Operations | Hard behaviour |
|---|---|---|---|
| Task manager `async_task.py` | task records in a store, `_async_tasks`, semaphore, reaper | submit, `_run` (retry loop), cancel, shutdown, cleanup, reaper | cancellation against completion, retry and never-started coroutines; permits on every exit path; stores that suspend |
| Executor and pipeline `executor.py`, `pipeline.py`, `builtin_steps.py`, `cancel.py` | `PipelineContext`, the call's `Context`, cancel tokens, deadline | call_async, call_async_with_trace, stream, validate | retries re-enter the pipeline; timeouts abandon a running body; a cancellation inside nested wrappers; streams that fail half-way; dry runs that carry on after a failed step |
| Synchronous calls `executor.py` | one cached event loop, worker threads with a budget | call, validate, call_with_trace, close | the loop is looked up attribute by attribute without a lock |
| Middleware chain `middleware/manager.py`, `middleware/retry.py` | the installed list, the list of executed middlewares, retry counters | before, after, on_error passes, add, remove | the list changes during a call; a hook fails after others ran; recovery against retry |
| Registry `registry/registry.py` | modules, versions, reservations, drain marks, reference counts, Events | register (plain, versioned, internal), unregister, acquire, release, safe_unregister, hot reload | hooks run outside the lock; per-id counts; drains under re-registration |
| Discovery and reload `registry/scanner.py`, `dependencies.py`, `version.py`, `sys_modules/control.py` | the ids in flight | scan, load order, discover, reload_module (single, bulk) | links and entry order; cycles and missing dependencies; overlapping discoveries; restoring after a failed reload |
| Circuit breaker `middleware/circuit_breaker.py` | state, rolling window, `opened_at`, probe flag per (module, caller) | before, after, on_error, reset | who is the probe; late reports; probes that never report |
| ACL `acl.py`, `acl_handlers.py` | rules, default effect, condition handlers | check_access, async_check_access, add_rule, remove_rule, reload, register_condition, load, discover, validate_rules | three-valued conditions; pending approvals; rules that change during a check; a precheck beside the evaluation |
| Patterns `utils/pattern.py` | - | match_pattern, match_glob, specificity | matching without going back |
| Governance policy, approval `policy.py`, `approval.py` | pattern entries, stored approvals | from_dict, resolve, request_approval | equally specific rules that disagree |
| Strategy editing and wiring `pipeline.py`, `pipeline_config.py`, `executor.py`, `client.py` | a strategy's step list, the providers bound into its gates | insert, remove, replace, configure, from_registry, set_acl, set_approval_handler, set_policy, governance_state | gates removed, replaced or duplicated; strategies that executors share; the report on all of it |
| Configuration `config.py` | layered dictionaries, namespaces, mounts | load, discover, get, set, mount, reload, environment overrides | order of layers and of variables; how a variable's name becomes a key; reload against mount and set |
| Schemas `schema/` | caches | load, resolve references, strict conversion, validate | reference cycles, files and depth; a schema rewritten while it is walked |
| Redaction `utils/redaction.py`, `observability/context_logger.py` | - | redact by schema, by name, by pattern | marks behind references, branches and recursion |
| Events `events/` | subscribers, executor, pending deliveries, circuit per subscriber | subscribe, emit, flush, shutdown | threads, retries, dead letters that emit again |
| Observability `observability/` | span queue, error history (two indexes and a heap), usage and metrics | on_end, flush, shutdown, record, query | bounded queue, worker against shutdown, two indexes that must agree |
| System modules `sys_modules/` | overrides file or store, toggle state | update_config, toggle_feature, health, usage, manifest | set-validate-rollback, lost updates |
| Context `context.py`, `trace_context.py` | shared data and services | create, child, serialise | what a child shares with its parent |
| Client, bindings, decorator, extensions, errors, utilities | wiring and data types | - | - |

How they interact: the task manager and the client call the executor; the
executor's `context_creation` step derives a child context with its own cancel
token, `module_lookup` reads the registry, `acl_check` asks the ACL and
`approval_gate` the policy and the approval handler, `middleware_before`,
`middleware_after` and the executor's error path run the middlewares (the
circuit breaker is one of them), and `execute` awaits the module under the
deadline. A synchronous call runs the same coroutine on a cached loop or on a
thread of its own. The registry's file watcher and the system modules unload
and reload modules from other threads; a reload runs a whole discovery.
`PROJECT.json` lists every component with its status.

What makes each modelled component correct, in a sentence:

* task manager: a record is admitted below the cap, runs under a permit,
  settles exactly once, and nothing runs or writes behind a settled record;
* call: every attempt passes every gate, attempts of one call do not mix, a
  cancellation ends the call and is recovered by nobody, every call ends, and a
  dry run has no effect and does not call a refused call valid;
* synchronous calls: a call fails for its loop only if another thread took it;
* registry: only the loaded module and version are visible, hooks run once, a
  drain is woken and leaves no mark;
* discovery and reload: what can be ordered is ordered, a module is found once
  whatever the links, nothing registered is replaced, and a failed reload keeps
  the module;
* circuit breaker: one probe per half-open period, recovery when calls go on;
* ACL: the first match of one consistent policy, never more permissive for a
  condition that could not be evaluated, and a rule that loads without a finding
  can be evaluated;
* policy: an approval that a most specific rule demands is not waived by the
  order of the rules;
* wiring: the report on the control modules' gates is what those gates do;
* configuration: the last layer that sets a key wins, what is mounted stays
  mounted, and every key of a namespace can be set from the environment;
* schemas: resolving references keeps the meaning, and the strict form asks for
  the same answers;
* redaction: what is marked is hidden, and nothing else;
* span processor: a span is exported at most once, and none vanishes uncounted;
* events: what was accepted before a shutdown is delivered or cancelled, and
  nothing runs on a closed loop;
* error history: its two indexes and its heap agree;
* control modules: a rejected value leaves no trace, a persisted one is not lost.

## 2. Modules

Each component module declares its parameters as CONSTANTS (with a named
ASSUME where something is needed), has one action per operation or per stretch
of code between two suspension points or lock boundaries, and ends with its
properties. `MC...` modules give the constants small values; `..._proofs`
modules hold the theorems. Several modules also define *variants* of an
operator or action (`WalkWithoutPending`, `FailKeepingProbe`,
`CreateContextUnlinked`, ...): each is a plausible mistake in the code it
stands beside. No specification uses them; they exist to confirm that the
property that guards against the mistake does fail under it. `PROJECT.json`
says which property each one breaks.

### Background tasks: `TaskLifecycle`, `AsyncTaskManager`, `SharedTaskStore`

`TaskLifecycle` is the abstract promise about a record: admission below
`max_tasks`, at most `max_concurrent` RUNNING, at most `max_retries` retries,
one settlement, expiry only after it. `AsyncTaskManager` is the manager over
the default in-memory store, whose coroutines never suspend: the code between
two suspensions (semaphore, `call_async`, backoff, awaiting another task) is
one action. `runner[t]` says where the coroutine `_run` is suspended, `handles`
is `_async_tasks`, `cancelling` holds CancelledErrors still to be delivered,
`client` what each caller of `cancel()` or `shutdown()` is doing. The detailed
module implements the abstract one (`Implements`) with the identity mapping on
`status`, `retries` and `budget`.

`SharedTaskStore` is the same runner over a store that suspends and hands out
copies: fetch, recheck and save are separate steps, and managers of other
processes cancel and clean up in between.

### One call: `ModuleCall`, `SyncBridge`

`PipelineEngine.run` over the step sequence of a preset, one action per step,
with an action for each await inside one (approval handler, hooks, module body,
chunks). `i` is the step, `pc` what is awaited, `todo` and `executed` the
middleware passes, `attempt` the number of the attempt and so of its child
context and token, `fired` the tokens that were cancelled (0 is the caller's),
`queued` the attempts whose body was handed to the loop or the thread pool and
has not started, `bodies` the module bodies that run. `Execute` looks at the
token and hands over, `BodyStarts` is the first step of the body, and a cancel or
the timeout may fall between the two: nothing takes the body back (the model is of
the timed wait, `builtin_steps.py:1302-1311`). So a body may start although its
token is cancelled; what no body does is start for an attempt that began under a
cancelled token (`StillbornReachesNobody`, with the history variable
`stillborn`). `Retry` is the executor's answer to a RetrySignal; `OnErrorHook` is the recovery pass in reverse order. The mode "trace"
is `call_async_with_trace`, which raises what the engine recorded instead of
recovering in the same way; "validate" is a dry run, whose report (`Verdict`)
and whose calls of the module's own `preflight()` and `preview()`
(`IntrospectionEnds`) are part of the model.

`SyncBridge` is what stands between `call()` and that coroutine: each look at
`_sync_loop` is a step (`LookWhetherOpen`, `LookWhetherBusy`, ...), the worker of
a bridged call has a budget, and `close()` is modelled statement by statement.
What the coroutine does is `ModuleCall`'s.

### `Registry`

Threads that register (all doors), unregister, acquire, release, drain, and
the watcher thread that reloads or deletes. Each critical section under
`_lock` is one action; `thread[th]` records what a thread holds between two of
them, `life` which hooks ran on an instance.

### Discovery and reload: `LoadOrder`, `ExtensionScan`, `Discovery`

`LoadOrder` holds version hints, the topological order and the depth-first search
that names a cycle when some modules are left over, turn by turn as the code
takes them (the stack, what was visited, what is on the path), as functions of a
batch. `ExtensionScan` walks directories whose entries come in any order, as a
stack of frames with the entries each has left; links, roots inside roots and the
depth limit are part of it. `Discovery` is `discover()` (plan, drop conflicts, reserve,
load, publish) and `ReloadModule`, single and bulk, by several threads; it takes
the plan from `LoadOrder`. `Unfit` is what
`register_internal()` never takes: an ephemeral id, and a module that declares
streaming without `stream()`, both of which discovery from files lets in. Three
history variables name the reasons for which the code leaves a module gone after
its reload: `lost`, its previous instance failed to load again; `overtaken`,
another call had its id in flight or registered; `refused`, its previous instance
is unfit. The docstring of `_restore_after_failed_reload()` allows only the first.

### `Governance`

Strategies under edit, the executors that run or share them, the providers
(ACL, approval handler, policy) bound into their gates, the client that wires
control modules, and `governance_state()`, compared with what the gates would
decide for a control module. The report asks which gates a strategy has and what
they hold, not where they stand, so a gate that a program inserts behind the
module counts as one; `GatesInFront` is the condition under which the report is
held to what calls meet.

### `CircuitBreaker`

One circuit and the calls through its hooks; a slot of `Calls` makes one call
after another. `admitted` and `silent` are history: who was admitted since the
circuit became HALF_OPEN, and whether one of them ended without a hook hearing
of it. Time is the single fact the code asks about, whether the recovery
window has passed (`elapsed`).

### `AccessControl`

`ACL` as a machine: a check snapshots the rules, walks them one at a time and
composes its decision, while rules and handlers change. `RuleOutcome` is the
evaluation of one rule (pattern faults, precheck, conditions with `$or`,
`$not`), `Decides` the reference definition of what a rule list decides.

### Rules, patterns and policies: `Patterns`, `RuleLint`, `ExecutionPolicy`

`Patterns` translates the greedy matching of `utils/pattern.py`; its reference
definition (`Stands`) is the set of beginnings of the text that each beginning of
the pattern can stand for. `RuleLint` is the ACL before any
call: which rules a file or the constructor accepts, where the file is found,
what the precheck refuses and `validate_rules()` reports, and the evaluation
of the built-in conditions, the second walk over the same structure. Both walks go
level by level, down to `MaxNesting` levels (a bound on what rules nest, not on the
walks); an evaluation starts from the innermost.
`ExecutionPolicy` reads a policy document, ranks the matching rules and decides
what the gate asks for; an executor is given another policy, or none, at any
time. The walk over the rules is a function of how many it has passed.

### Configuration: `Trees`, `Config`, `EnvKeys`

`Trees` are the dictionaries configurations and schemas are made of; what a key
leads to, and what setting it changes, is told along the key, name by name.
`Config` is the object with its tiers, layers, namespaces and mounts; two trees
are merged level by level, down to `MaxNesting` names (a bound on what documents
nest, not on the walk). `reload()` is two critical sections, and `shared` says
which namespaces' mounted dict is also the live one. `mounted` is history: the
keys mounted so far, without those that a later mount or `set()` put a leaf above,
and `MountsAreKept` asks for each of them both in the stored mounts, which the next
reload applies, and in the live data. `EnvKeys` turns the rest of a variable's name into a key, in both
styles; its reference is that every key of a namespace's defaults is some
variable's. The search of the defaults, which calls itself on what follows a split, is
a table: by names left, by rest, by tree so far below. In `Requests`, `Seeks` asks for
the keys of one of `Namespaces` at a time.

### Schemas and redaction: `SchemaRefs`, `StrictSchema`, `Redaction`

`SchemaRefs` rewrites a schema while it walks it, in an order given from
outside, and keeps the references the code keeps; `Unfolds`
is the reference definition: followed down to a depth, the resolved schema says
what the written one says.
`StrictSchema` converts to strict mode; its reference is the set of replies each
form accepts. `Redaction` walks data along a schema that is a graph of nodes;
its reference says declaratively which positions some mark reaches.

### `SpanProcessor`

The bounded queue between the threads that end spans and those that flush.
Putting into the queue, counting what it refused, taking from it, exporting one
span, and each check of an event or flag are actions of their own, so the worker, `force_flush()` and `shutdown()`
interleave as they do on the real queue; `batch` is what a thread has taken and
not exported. A deadline is the choice to give up. Spans are numbered in the
order in which they end.

### `EventEmitter`

The emitter's subscribers, its pool and the single loop that deliveries take in
turn under the loop lock, the retries and dead letters of a delivery, the
circuit around a configured subscriber (whose transitions emit again from
inside a delivery), and `shutdown()` in its three stages: flag, pool, loop.
`emit()` is two actions, the check of the flag and the submission.

### `ErrorHistory`

`record()` is two actions: the time is read before the lock is taken. Entries
are mutable objects in the code, so the model numbers objects and the indexes
hold numbers; the heap keeps the items of refreshed and evicted objects, as the
lazy deletion does, and `deque.remove()` removes by equality.

### `SystemControl`

`update_config` (read, set, check with rollback, event, persist) and
`toggle_feature` by several threads; the overrides go through a store without a
lock or through a path under its lock, reads and writes may fail, and the
process may die and load what is there. `saved` is history: the value last
written for each name.

### Compositions: `Requests`, `Services`, `Catalog`

Three modules put side by side what runs beside one another in one process:
`Requests` extends the ACL with a call, the bridge to it, the policy that its
gate asks, the patterns that are matched with ids (`asked`), the rules that are read
from a file (`linted`) and the configuration
that others use and reload meanwhile, `Services` extends
the breaker with the spans, events, errors and control modules, and `Catalog`
the registry with discovery and reload and with the strategies that gate calls.
(`Discovery` has a picture of the registry of its own: the table and the ids in
flight, without versions, users and drains.) Their parts share no state (the
pipeline hears one of three answers from the ACL, whatever its rules are, and
whether to ask for approval from the policy), so a step of the composition is a step of one part that leaves the
others alone, in any interleaving. The properties of the parts are stated there
again under their names, and the theorems are about these specifications.

### `MCServices`, `MCRequests`, `MCRegistry`

For TLC, all interleavings of parts that do not interact would only multiply
their states: a behaviour of these modules moves one part (`subject`), the
others resting in a fixed state, so its behaviours are those of the parts, each
under its own fairness. `MCServices` extends `Services`; `MCRequests` extends
`Requests` and adds the functions on keys, schemas and sensitive data,
whose `input` ranges over all inputs of a bounded size; `MCRegistry` extends
`Catalog`, whose batches and directory trees it gives. `MCCalls` serves two runs of a single call.

## 3. Runs

| Run | Bounds | Shows |
|---|---|---|
| `tasks_safety` | 3 tasks, 1 permit, cap 2, 1 retry, 1 client, symmetric tasks | refinement of `TaskLifecycle`; settled means stopped; permits conserved |
| `tasks_live` | 2 tasks, of which one may be retried once, 1 permit, 2 clients | no orphaned record, every task settles, every cancel and shutdown returns |
| `shared_store` (violation) | 1 task, 1 other process | a cancel between recheck and save is overwritten with RUNNING |
| `requests` | calls: 2 middlewares, 1 retry, 2 attempts, calls, traced calls, streams and dry runs through three presets; synchronous calls: 3 threads, 3 calls or closes, 3 loops; ACL: 9 rules, lists of up to 3, 2 keys, 2 changes; policies: one set (`MaxSets`), of two full or three partial rules over patterns that tie; configuration: 2 threads, 3 operations, 4 disks, 5 file texts, 4 environments, 2 namespaces; functions: the inputs below | gates, attempts, cancellation, dry runs, termination; the bridge; first match on a snapshot, fail closed; no waived approval; layers, mounts; each function against its reference |
| `call_timeout_retry` (violation) | the defaults of RetryMiddleware and of the guard | a retry after a timeout inherits a cancelled token |
| `call_interrupted` (violation) | 1 middleware | cancelling the coroutine leaves the body running with its token unset |
| `schema_refs` (violation) | two definitions, two files with the same names | a lazy reference of one file is looked up in another |
| `registry` | registry: 1 id, 3 module objects, 2 versions, 3 threads and the watcher, symmetric; order: 77k batches of up to 3 modules; scan: 3 root sets over one tree with links; discovery: 2 threads, 2 calls, 9 kinds of files, 2 ids of which one is ephemeral; wiring: 2 executors, 1 shared strategy, 3 operations, 12 edits | visibility, hooks, drains; load order; scan; reload keeps the module, nothing is replaced; the report is what the gates do |
| `registry_drain` (violation) | 1 drainer, 2 callers | a module acquired between lifting the drain mark and unregistering |
| `services` | breaker: 4 callers, window 4, opens at half of at least 2; spans: 4, queue 3, batch 1, a flusher and a closer; events: 2, a wrapped and a plain subscriber, 2 attempts; errors: 4 kinds of 3 modules, 5 records, 1 per module, 2 in all; control: 2 callers, a key and a toggle, 1 restart | one probe with its flag, recovery; spans accounted for; nothing outlives a shutdown; indexes and heap agree; no rejected value left, no override lost |
| `span_shutdown` (violation) | 4 spans, batches of 1 | shutdown leaves spans in the queue |
| `error_indexes` (violation) | 4 kinds, 1 per module, 2 in all | an eviction by the total limit leaves a second heap item of the entry behind, which takes a new entry out of one index and not the other |

Inputs of the functions in `requests`: patterns of up to four characters over
two letters and both wildcards, against words of up to four; every array of up
to three of ten patterns in a rule, and conditions three levels deep; defaults of up to
three names and three levels whose names underscores make ambiguous; schemas of
two definitions and a property that refer to one another, to themselves, to
nothing and to another file, walked in two orders; objects of two properties,
one named like a keyword; schemas of two marked, referring, branching or
recursive nodes below a root, over data three levels deep.

Why the bounds are enough. Ids, tasks and circuits share no state beyond what
is modelled (the semaphore and the cap, the per-id tables), so contention needs
two tasks for one permit and a third for the cap, and one id for the registry.
The registry needs three module objects for a module to be replaced while its
replacement is being replaced, and a thread each for the user, the drainer and
the intruder. One retry is enough to re-enter every retried path, and two
attempts to overlap; the defaults (three) are used where the finding depends on
them. Three threads let one close the bridge's loop between the looks of the two
others at it. A discovery or reload needs one other to be overtaken by, and two
ids for one module's bad file to fail the reload of another. Two executors and a
strategy are enough for a gate to be rebound by the one that does not own it.
In the configuration, one operation can come between the two halves of a
`reload()` and a third can show the loss. Four breaker slots give a probe, a
stale call and two competitors; the window must only be able to fill and to
trim. Batches of one and a queue of three make a backlog of more than the two
batches that a shutdown takes. Four kinds of errors in three modules, one
allowed per module and two in all, make both evictions happen and one kind
return after it was evicted. Two events are enough for one to wait for the loop
while the other holds it, and for a circuit's own event to be emitted from a
delivery. Two control calls race on one key, or a key and a toggle on one file,
and a restart may come between any two steps. Three ACL rules give a pending
approval, a passed rule and a match, and the nine rules cover every operator and
fault; two changes are needed to alter both rules and handlers during one check.

Named bounds: `MaxRetries`, `MaxRepeat` (also a real setting), `MaxRules`,
`MaxChanges`, `MaxSpans`, `MaxEvents`, `MaxRecords`, `MaxClock`, `MaxRestarts`,
`MaxOps`, `MaxCalls`, `MaxLoops`; `MaxDepth` is a real setting. Task ids, module
objects and threads are finite sets. Deadlock is not checked where the system
may stop (all tasks settled, the call ended, every instance used up, changes
exhausted, a shutdown finished, a function's input given).

Fairness. Tasks (`FairSpec`): weak fairness of each runner and client step that
only the event loop schedules, since asyncio runs every ready callback, and of
the module returning; none for clients to start anything. Strong fairness is
used only where a waiter competes for the semaphore, which asyncio serves first
come first served. Calls: weak fairness of the pipeline with its hooks, of the
approval handler's answer and of the timeout that ends the wait for a module
(`executor.default_timeout` is 30 s by default); none for the module or a
stream to end by itself, nor for cancellation or list changes. Breaker: callers
keep calling, calls end, the window passes; a probe that ends without any hook
hearing of it is excluded by the premise of `Recovers`, because the code does
stay HALF_OPEN then (see the hazards). No fairness is assumed for the other
components: their properties are safety.

### Disagreements found

Each has a run that reaches it; quotations are in `PROJECT.json`.

1. `async_task.py:872`: with a shared store, the recheck and the save are two
   operations, and the window is not "non-corrupting": CANCELLED becomes RUNNING.
2. `builtin_steps.py:257`: a retry after a timeout is started under the token
   that the timeout has cancelled, so it fails as cancelled.
3. `builtin_steps.py:1311`: cancelling a call's coroutine leaves the module
   running, its token unset, while the task record says CANCELLED and the
   permit is free.
4. `registry/registry.py:2240`: `safe_unregister()` returns True although a
   caller acquired the module between its two critical sections.
5. `observability/batch_span_processor.py:204`: `shutdown()` exports at most two
   batches of the backlog, the worker's last and its own, and then shuts the
   exporter down; the rest is neither exported nor counted as dropped.
6. `observability/error_history.py:340`: an error recorded twice in one
   millisecond leaves two equal heap items. An eviction by the total limit pops
   one of them; when the error is recorded again in that millisecond, the other
   passes the guard and evicts the new entry from one index only.
   (`_evict_module()` leaves items behind too; the run does not need it.)
7. `schema/ref_resolver.py:106`: the references being copied are remembered
   without their document, so a definition of another file counts as visited
   when the schema has one of its name, and is looked up in the wrong document.

Others met while modelling, without a run of their own; the model has the
behaviour in each case, or leaves it out where it says so.

Calls and tasks:

* `async_task.py:601`: a `submit()` during `shutdown()` is not in the snapshot
  that it walks, so its task survives.
* `builtin_steps.py:253`: a retry derives its context from the failed
  attempt's, so its `caller_id` is the module itself; the ACL is asked about
  another caller than before.
* `utils/call_chain.py:88`: each retry repeats the module in the call chain, so
  `max_module_repeat = 3` refuses the third of the default three retries.
* `executor.py:640-642`: two threads that both find the cached loop idle run it
  both, and one call raises RuntimeError, although a test in
  `tests/test_executor.py` says "Concurrent sync call() invocations should not
  raise."; `FailsOnlyWhenOvertaken` is the statement the code does keep.
* `executor.py:1024`: a bridged call whose budget is spent is told to stop, but
  the worker's `finally` drains the tasks left on its loop, the call among
  them, so it runs on; the docstring (974-978) says it is unwound. `close()`
  leaks a running loop, and so do two threads that both create one.
* `middleware/circuit_breaker.py:176`: any success closes a HALF_OPEN circuit,
  not only the probe's, although the module docstring (18-19) says the probe's.
* `pipeline.py:400`: an insertion that the dependency check refuses has already
  changed the strategy. `executor.py:477`: a strategy shared by executors is
  bound to the ACL, handler and policy of the last one. `set_policy(None)`
  leaves the old policy in the strategies handed to single calls.
* `builtin_steps.py:1259` against 1307 and 1310: the token is looked at before the
  body is handed over, and the body starts although it is cancelled in between.
* A policy that waives the approval of a control module leaves neither gate
  engaged for it, while the report's flag is False as if none were demanded.
* `middleware/manager.py:102-119` (not modelled): `use()` notes an identity
  before `add()` may raise.

Registry and ACL:

* `registry/registry.py:2188`: counts are kept per id, so a release of a module
  that was replaced lowers its successor's count. 1460: `unregister()` drops a
  drain's Event without setting it. 1413: a versioned registration that fails
  discards another's reservation.
* `sys_modules/control.py:683`: the restore after a failed reload goes through
  `register_internal()`, which refuses an id that another call has in flight or
  registered, an ephemeral id (`registry.py:2617`) and a module that declares
  streaming without `stream()` (2634; discovery, 1179-1222, does not look). The
  module is gone then, although the docstring (666-667) says "What it does prevent
  is the worse outcome: a failed hot-fix making a WORKING module disappear.";
  `ReloadKeepsTheModule` names these exceptions (`overtaken`, `refused`).
* `acl.py:2628`: `reload()` loses a rule that is added after it read the file.
* `policy.py:161` against 169: a rule that waives an approval ranks no lower
  than an equally specific one that leaves the module's own demand in effect, so
  the earlier of the two wins, not "the more restrictive rule".

Configuration, schemas and redaction:

* `config.py:1807-1809` against 1618 and 1664-1668: what counts as declared is
  not what the docstring says. `config.py:1789`: in namespace mode,
  `set("executor.x")` hides the keys of `apcore.executor`.
* `schema/loader.py:404`: a lazy reference left from another file, or from
  `definitions` at a file's root, is not in the resolved root. An alias that
  leads back to itself through another definition is refused as circular even
  where it would end.
* A `None` under a sensitive key stays in what is recorded but is replaced in
  logs; logs are cut off at depth 32; a pattern made of separators only matches
  every key; `x-sensitive` at a schema's root is not looked at.

Events and control:

* `events/emitter.py:236`: an `emit()` that passed the flag before a shutdown
  raises out of `submit()` instead of being dropped (docstring, 226); in
  update_config that leaves a change applied and not persisted.
* `sys_modules/control.py:245`: of two overlapping updates of one key, a
  rejected one may put back the other's rejected value.
* `sys_modules/control.py:122`: the store's read-modify-write loses concurrent
  updates, and `FileOverridesStore.load()` reports no overrides when it cannot
  read, so that the next save drops the others. `register_sys_modules()` always
  passes a store when a path is configured, so the locked path is taken only
  by modules constructed by hand.

## 4. Theorems

| Module | Theorems | From |
|---|---|---|
| `AsyncTaskManager_proofs` | `TypeCorrect`, `SettledTasksAreStopped`, `PermitsAreConserved`, `NoTaskIsOrphaned`, `ShutdownLeavesNothingActive`, `ImplementsLifecycle` | `ManagerAssumption` |
| `CircuitBreaker_proofs` | `TypeCorrect`, `OneProbeAlways`, `ProbeIsRunningAlways`, `ProbeIsSoundAlways`, `NotPostponed` | `BreakerAssumption` |
| `AccessControl_proofs` | `TypeCorrect`, `FirstMatchAlwaysWins`, `FailsClosed` | `PolicyAssumption` |
| `Registry_proofs` | `TypeCorrect`, `OnlyCurrentIsVisible`, `NoDrainIsStuck`, `HooksArePaired` | `RegistryAssumption` |
| `Catalog_proofs` | `RegistryIsUndisturbed`, `NothingIsReplaced`, `ReloadsKeepTheModule`, `OrderNamesNeedsFirst`, `CyclesAreDeclared`, `BlockedModulesHaveAReason`, `LoadOrdersAreSound`, `ScansFindEachModule`, `ReportsTellTheTruth` | `RegistryAssumption`, `DiscoveryAssumption`, `BatchesAssumption`, `TreesAssumption`, `ProvidersAssumption`, `EditsAssumption` |
| `Requests_proofs` | `RequestsInvariant`, `BodiesStartBehindGates`, `AttemptsTakeTurns`, `CancellationEndsTheCall`, `DryRunsAreSound`, `StillbornAttemptsReachNobody`, `NoFailureWithoutRace`, `DemandsStand`, `MatchingIsExact`, `MatchesAreAlwaysExact`, `LintsAreSound`, `MountsStay` | `RequestsAssumption`, `SliceAssumption`, `DocumentsAssumption`, `TextsAssumption`, `RulesAssumption`, `IdsAssumption`, `SettingsAssumption` |
| `EnvKeys_proofs` | `AllKeysCanBeSet` | `NamesAssumption`, those of `Requests_proofs` |
| `Services_proofs` | `ServicesInvariant`, `SpansAccounted`, `DeliveriesEnd`, `DeliveriesMoveOn`, `ErrorsAreListedEverywhere`, `RejectedValuesVanish`, `OverridesSurvive` | `ControlAssumption`, `BoundsAssumption` |

The assumptions are what the code gives: bounds and limits are natural numbers
in range, the ids used are finitely many, rules have the shape the loader
accepts, the modes and presets are the executor's (`RequestsAssumption`), nobody
is called `None`, settings are not module ids, and the file on disk is within
the constraints (`ControlAssumption`). Module ids are finitely many and are
numbers, since their order is that of strings and only their order matters
(`DiscoveryAssumption`); providers have the constructor's types
(`ProvidersAssumption`), and an edit brings a step of the declared types, without
the fields that the class of a gate refuses (`EditsAssumption`). The rules of a policy document are a list and its
patterns are texts (`DocumentsAssumption`), which `from_dict()` and `PolicyRule`
check; patterns and ids that are matched are texts (`TextsAssumption`), and what is
set is set under a list of names, nesting being a number (`SettingsAssumption`). The
namespaces that variables name keys of have defaults, a `max_depth` and names that are
texts and not empty (`NamesAssumption`). In a
rule file a field of patterns is a list of texts or of what is none, or no list, and
conditions end at some depth (`RulesAssumption`); an id has no wildcard in it and is
not the sentinel of external callers, which the registry's pattern for ids excludes
(`IdsAssumption`, which also says that the handlers in question answer). A
batch lists each id once, with finitely many dependencies, since its callers build
it from a dict (`BatchesAssumption`). Of a tree of files: a root is inside itself,
an entry of a directory inside a root is inside it too unless it is a link, and a
node is a file, a directory or a link (`TreesAssumption`). TLC evaluates each of them on the
instance of its run. `SliceAssumption` has no free constant: it says that
filtering a preset for the steps that run after a stream gives a sequence of
such steps, which TLC evaluates for each preset and the provers cannot, since
`SelectSeq` is recursive.

*Compositions.* The invariant is the conjunction of the parts' invariants.
`StepsApart` says that each part either makes a step of its own or stutters,
so each conjunct is preserved by the lemma of its part.

*Tasks.* The inductive invariant joins the types, the agreement of each record
with its coroutine (active exactly while a coroutine or an awaiting cancel()
owes it a write), the conservation of permits (a cardinality, through the
library's finite-set facts) and what a shutdown has passed. None of the
properties is inductive alone: permits depend on RUNNING meaning "calling",
which depends on settled records having no coroutine. The refinement is proved
step by step: every action maps to the abstract action of its name or to a
stutter.

*Breaker.* `OneProbe` is a cardinality; the invariant replaces it by "any two
admitted calls are equal", and adds that the flag holds exactly while somebody
is admitted, which needs HALF_OPEN to be the only state with a flag.

*ACL.* `WalkSound` says what the loop has established about the rules it has
passed; a match is never a pending rule, so the approvals pending up to the
match are those before it. `FailsClosed` needs more: outcomes are ordered with
"unevaluable" below everything, `AllOf`, `AnyOf`, `Negated` and the whole
`RuleOutcome` are shown monotone in that order (in the answers and in the set
of registered handlers), the invariant `Faithful` says that each recorded
outcome is below the complete one, and `DecisionMonotone` turns this into an
order of decisions: deny, allow with approval, allow.

*Registry.* The invariant is ownership: a module object belongs to one thread
that loads it, to the tables under one id, or to one thread that is to unload
it, and its life agrees with its owner. Visibility and the pairing of hooks are
both consequences; neither is inductive without it, since a reload hands an
object from the tables to a thread and back. That a table with a version has a
latest one needs the well-foundedness of finite subsets. For the drains, the
counts are bounded by the number of users (a cardinality), and a registered
Event belongs to a drain of its id that either waits for users or was woken.

*Call.* Three invariants, each inductive on the ones before it.
`CallIInv`: a body that was told to stop has fired the token of its attempt, and
each attempt's token is a child of the one before, so every later attempt starts
cancelled: that is why one body at most is running. The lemma `CallFailureLeads`
says once, for all steps, where an error may lead.
`CallGates`: the strategy is well-formed (a step occurs once, and before
`execute` stand the steps it needs), what is awaited belongs to the step it is
awaited in, and, unless it is a dry run, every step before the current one that
stands before `execute` is in the trace; a gate that was passed was engaged and answered. The trace is emptied
by a retry together with the step, so a grant of an earlier attempt never counts.
That a stream is never retried (`CallOneStream`) is what keeps the chunks of two
attempts apart.
`CallDryRun`: a dry run starts nothing and ends without raising; of the steps it
has passed, what they provide is unavailable exactly for those that are not in the
trace, and each step in the trace had its requirements provided by steps in the
trace. `DryRunIsSound` follows since only what is unavailable makes it skip.
`CallCutShort`, for `StillbornReachesNobody`: an attempt that began under a cancelled
token is never past the call-chain guard without an error, and the presets have that
guard before `execute`, so the attempt hands nothing over, runs no middleware, and
returns nothing. Of a body that was handed over before the cancellation nothing is claimed
but that its token tells it.

*Synchronous calls.* What a look at the loop has shown (there is one, it is not
closed, it is idle) stays true until the thread is overtaken, and a loop that
was dropped is never cached again.

*Policy.* Rules are ordered by two numbers, specificity and restrictiveness, so
that the walk keeps, after each rule, one that none of those passed outranks
(`MatchIsBest`, by induction on the rules passed). The rule it ends with is thus
one of the most specific, and demands at least what any other of those demands.
That a specificity is a number needs that a pattern has finitely many segments.

*Matching.* The walk goes over the segments between the stars, the reference over
the characters, so the two meet in a statement about each beginning of the pattern:
what it can stand for is what the segments that ended, each at its earliest place,
and then the open segment can cover (`PatternStands`, by induction on its length).
A star makes the set of ends upward closed, so its least element, which is the
greedy place, tells all of it: no other placement of the earlier segments leaves
more room (`StarStands`, `CharTells`). What is left is the end of the text: a last
segment that fits there, behind the place reached, is a placement (`GlobIsExact`);
in `match_pattern()`, where the last segment is first searched and then compared
with the end, one that is found earlier and one at the end agree (`PatternIsExact`).
The functions are recursive in an index, so each comes with the lemma that it
follows its equation (`Recursion`).

*Control.* Who saves through the path holds its lock, and what it has read is
still what is there. While nobody overlaps on a key, the one caller that sets it
carries an accepted old value, and what it checks is what it set.

*Spans.* A span that ended is in one place: queued once, in the batch of one
thread, exported once, or lost; taking and exporting move it on, and the dropped
counter with the refusals not yet counted is the cardinality of the lost spans.

*Events.* An event has one submission ahead of it, and the three stages of a
shutdown each leave less behind: once the pool is closed no delivery is queued,
and once shutdown() has returned none runs, which needs that only a queued
delivery is ever started. `DeliveriesMoveOn` is the action property beside it: no
step brings a finished, refused or cancelled delivery back.

*Errors.* The two indexes and the heap hold numbers of objects whose contents
change. The invariant says that the index files each object under its own
fingerprint, that no two heap items share a sequence number (so that of two live
items one comes first, and exactly the live top is evicted), and that an object
the index lists has an item with its current time in the heap and is in its
module's deque. `deque.remove()` removes by equality, which is sound because equal
entries have equal fingerprints. A minimal heap item exists by the well-foundedness
of finite subsets. The stronger agreement, of the deque with the index, is false
(see `error_indexes`).

*Discovery and reload.* The plan first: what the load order returns is a list of
ids of the batch, whatever the hints and cycles, because the queue and the order
never hold anything else. `OrderNamesNeedsFirst` says more of it: a list that
`resolve_dependencies()` returns has each module of the batch once, after every
module it needs. The invariant of the loop is that a module's in-degree is the
number of its declared needs less the number of modules among them that the order
has (each id is declared once per entry, and released once, when it is taken from
the queue), and that queue and order together hold, once each, exactly the modules
of in-degree zero. So the needs of a module in the queue are all in the order: what
it needs is finite, and of two such sets with one cardinality the smaller is the
whole. A module that lists a dependency twice keeps an in-degree above zero, which
is why the theorem is about orders returned and not about batches. That a sorted
list of a finite set exists is an induction on its cardinality. When modules are
left over, the depth-first search either returns a cycle or ends without one.
`CyclesAreDeclared`: the path on its stack follows declared dependencies among the
modules left, so what it cuts off at the module met again is a cycle of them. A
search that ends must end: each turn takes an edge that no earlier turn took, which
bounds the turns by the edges, so the bound of the walk is never what stops it.
`BlockedModulesHaveAReason`: a search that ends without a cycle has left each
visited module after all it leads to, and then a module that is left over without a
missing, a doubled or a blocked dependency would have been taken from the queue. Then
the two invariants. `Reserves`:
who loads a module has its id for himself (in flight, not registered, and no other
loader of it), which makes a publication an insertion. `NotLost`: an id that is
not registered was removed by a client, is among `lost`, `overtaken` or `refused`, or is in
the hands of a reload that has its previous instance and has not ended. Each step
of a reload hands this on, also where it fails; it needs what each step of a
caller has in hand (`HandShape`: the instance is the one of the id, only a reload
restores). `MovesOn`, `StartsToLoad`, `LoadEnds` and `Unpublishes` say it once for
the four kinds of steps that nineteen actions are made of.

*Scan.* Each frame of the walk owes what the entries it has left lead to, within
the depth that is left; what is reached from a root is found already or owed by
some frame, and nothing is found that is not reached (`ScansFindEachModule`). A
directory is entered once per real path, so the frames ahead of it are those that
can still owe what it holds: roots inside roots, and links back to a root, are
covered by the root. Ids are found once, at the first file that gives them, and a
node's kind says whether it is listed, entered or passed over.

*Configuration.* What a tree holds is told along a key: each name is one of the
tree that the names before it lead to (`AlongIs`, `HoldsUnder`, `KeysAre`). A merge
takes all of the tree put over the other (`MergeTakes`), and keeps what the other
held unless a leaf is put above it (`MergeKeeps`): as long as both have a dict, the
way along the key goes through what is merged; after that it is the way in one of
them. Setting a key keeps every key but those below it (`SetKeeps`). `ConfInv` then
says that each key in `mounted` is held by the stored mounts, by the live data, and
by the copy that each reload in progress has taken, which is what a reload needs
when it replaces both: the property alone is not inductive, since the copy is older
than either.

*Names of variables.* A key of names is written, and what is written is read. In
nested style the reader stands behind a letter with the key read so far, and the
written rest before it (`Stands`): a doubled underscore adds one to the last name
(`ReadsLetter`), so a name is read as it was (`ReadsName`), and the single underscore
between two names opens the next one because what follows it is no underscore
(`ReadsSeparator`); hence the condition on the first letter of a name. In auto style an
answer is exact when it is a key of the tree that is spelled so, and there is one if
any key is (`IsAnswer`). A table whose row for one name less is exact gives an exact
row (`MatchAnswers`): a key of several names has an underscore behind its first name
where the search splits (`TailFits`, `JoinCanSplit`), and the first split that is
answered gives a key (`NameInFront`); by induction the search is (`MatchIsExact`).

*Gates.* The invariant is that each strategy is a list of legal steps, kept by
presets, edits, files and by binding providers. A legal gate holds no field that
lets a call past it, so what it holds is what it decides by; the rest is the
report's definition. A pipeline file is applied edit by edit, by induction on its
length.

*Rules.* Two walks, one verdict: from the deepest level of a rule's conditions
outwards, every condition that the precheck lets through has an outcome
(`PrecheckedIsDecided`): a fault free compound is as decided as what stands inside it,
which is decided already, and an answer is missing nowhere else. That reported
patterns are dead rests on the exactness of matching: a pattern of stars stands for
every text, and one with "?" only for texts that have it (`DeadIsDead`). Every rule of
a loaded policy stands in some file, where it had the shape that this needs.

Only model-checked: liveness (`Settles`, `ClientsReturn`, `CallEnds`,
`Recovers`), which the prover cannot do under fairness; everything about
`SharedTaskStore`; and four invariants of `requests`. `SchemaRefs`, `StrictSchema` and
`Redaction` rewrite a tree while they walk it, so their recursion goes over trees that
none of their inputs contains: they keep recursive operators, about which the prover
cannot reason, and `RefsKeepMeaning`, `StrictIsExact` and `RedactionIsExact` with them.
(Where a walk only reads its tree, as in `EnvKeys` and `RuleLint`, a table over its
levels does without.) `LayersCompose` says of every value in two modes which of four
layers it comes from. It speaks of keys none of which leads through another's leaf, as
in the environments and files of the run: a variable that sets a leaf above another's
key takes that key away, in the code as in `SetNested`. A theorem would need that as a
condition on all layers together; the lemmas on trees say what is held, which is its
first half.

## 5. Not modelled

The components marked `not_modelled` in `PROJECT.json` carry their reason: pure
I/O and formatting (exporters, logging, subscribers), wiring without a state
machine of its own (client, bindings, decorators), or data types. Of the
modelled ones these parts are left out:

* tasks: store failures, and admission across processes;
* call: custom steps, step middlewares and per-step configuration; duplicate
  detection and priority insertion of middlewares;
* registry: introspection, events, schema caching, ephemeral ids; in discovery,
  metadata merging and multi-class files; in reload, suspend and resume hooks,
  events and audit entries;
* ACL: the audit sink and the warnings. A rule object that a client mutates
  after handing it to the ACL is outside the model, and so is a second
  `reload()` at the same time as the first;
* approvals: the built-in handlers and the polling of stored approvals;
* configuration: `bind()` and typed access, coercion of values, the constraints
  one by one (a value "bad" stands for what they refuse), deprecation reports;
* schemas: the generated Pydantic models and the validator, which are the
  libraries' behaviour;
* redaction: regular expressions are the set of strings they find; the field
  patterns of the logging middleware and the writing of log lines;
* events: a wrapped subscriber that also watches dead letters, event patterns,
  backoff delays; error history: the mirrors to a store and the fingerprint's
  normalisation; control: the audit log, restricted keys, keys that overlap.

Three hazards in `PROJECT.json` have no property. Counts per id
(`registry.py:2188`) lead to the verdict that `CleanMeansUnused` reaches
already. That `acl.reload()` loses a rule added meanwhile, and that a stopped
worker drains the call it was told to give up, are behaviours of the code that
the models have; no invariant of the code is contradicted by the first, and the
second would only restate the `finally` block.

## 6. Plan

What is worth doing next, in order:

1. `LayersCompose` from the lemmas on trees, with the value beside the key, for layers
   none of whose keys leads through another's leaf; `Redaction` as what is hidden at
   each place of a value, for a proof of `RedactionIsExact`.
2. The order of two reloads of one batch.
3. Custom steps and step middlewares in `ModuleCall`; bindings and multi-class
   files in `Discovery`; the approval store with its polling; what derived
   contexts share.

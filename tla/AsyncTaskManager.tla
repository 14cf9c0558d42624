-------------------------- MODULE AsyncTaskManager --------------------------
(***************************************************************************)
(* apcore.async_task.AsyncTaskManager with the default InMemoryTaskStore,  *)
(* in one event loop.  The store's coroutines never suspend and hand out   *)
(* live records, so the code between two suspension points (the semaphore, *)
(* executor.call_async, the backoff sleep, awaiting another task) is one   *)
(* step.  SharedTaskStore models the manager over a store that suspends.   *)
(***************************************************************************)
EXTENDS Naturals, FiniteSets

CONSTANTS Tasks,          \* task ids
          Clients,        \* coroutines that call cancel() or shutdown()
          MaxConcurrent,  \* max_concurrent
          MaxTasks,       \* max_tasks
          MaxRetries,     \* bound on RetryConfig.max_retries
          NoTask

ASSUME ManagerAssumption == /\ IsFiniteSet(Tasks)
                            /\ NoTask \notin Tasks
                            /\ MaxConcurrent \in Nat \ {0}
                            /\ MaxTasks \in Nat
                            /\ MaxRetries \in Nat

VARIABLES
  status, retries, budget, \* TaskInfo.status, .retry_count, .max_retries
  runner,      \* where the task's _run coroutine is suspended
  handles,     \* keys of _async_tasks
  cancelling,  \* tasks with a CancelledError still to be delivered
  permits,     \* value of the semaphore
  client,      \* what each client coroutine is doing
  reaper       \* whether the reaper task runs

records == <<status, retries, budget>>
vars == <<status, retries, budget, runner, handles, cancelling, permits, client, reaper>>

Active == {"pending", "running"}
Terminal == {"completed", "failed", "cancelled"}
Stages == {"none", "created", "waiting", "calling", "backoff", "done"}

WithStatus(S) == {t \in Tasks : status[t] \in S}
Calling == {t \in Tasks : runner[t] = "calling"}

\* A client is idle, awaits a task it cancelled, or walks the snapshot of shutdown().
ClientState == [op : {"idle", "shutdown"}, target : Tasks \cup {NoTask},
                todo : SUBSET Tasks, visited : SUBSET Tasks]
Idle == [op |-> "idle", target |-> NoTask, todo |-> {}, visited |-> {}]

Init == /\ status = [t \in Tasks |-> "unborn"]
        /\ retries = [t \in Tasks |-> 0]
        /\ budget = [t \in Tasks |-> 0]
        /\ runner = [t \in Tasks |-> "none"]
        /\ handles = {}
        /\ cancelling = {}
        /\ permits = MaxConcurrent
        /\ client = [c \in Clients |-> Idle]
        /\ reaper = FALSE

Save(t, s) == status' = [status EXCEPT ![t] = s]
Goto(t, stage) == runner' = [runner EXCEPT ![t] = stage]

-----------------------------------------------------------------------------
\* submit(): the capacity check and the PENDING save are one critical section.
SubmitCountingRunning(t) ==
  /\ status[t] = "unborn"
  /\ Cardinality(WithStatus({"running"})) < MaxTasks
  /\ \E m \in 0..MaxRetries : budget' = [budget EXCEPT ![t] = m]
  /\ Save(t, "pending")
  /\ Goto(t, "created")
  /\ handles' = handles \cup {t}
  /\ UNCHANGED <<retries, cancelling, permits, client, reaper>>

Submit(t) ==
  /\ status[t] = "unborn"
  /\ Cardinality(WithStatus(Active)) < MaxTasks
  /\ \E m \in 0..MaxRetries : budget' = [budget EXCEPT ![t] = m]
  /\ Save(t, "pending")
  /\ Goto(t, "created")
  /\ handles' = handles \cup {t}
  /\ UNCHANGED <<retries, cancelling, permits, client, reaper>>

-----------------------------------------------------------------------------
(* The coroutine _run.  A step that CancelledError does not interrupt needs *)
(* t \notin cancelling: the event loop throws the error at the next resume. *)

\* Top of the while loop: re-read the record, then queue for the semaphore.
Attempt(t) ==
  /\ runner[t] \in {"created", "backoff"} /\ t \notin cancelling
  /\ Goto(t, IF status[t] \in Active THEN "waiting" ELSE "done")
  /\ UNCHANGED <<records, handles, cancelling, permits, client, reaper>>

\* The semaphore is granted; a record that is already terminal is left alone.
Acquire(t) ==
  /\ runner[t] = "waiting" /\ t \notin cancelling /\ permits > 0
  /\ \/ /\ status[t] \in Terminal
        /\ Goto(t, "done")
        /\ UNCHANGED <<status, permits>>
     \/ /\ status[t] \notin Terminal
        /\ Goto(t, "calling") /\ Save(t, "running")
        /\ permits' = permits - 1
  /\ UNCHANGED <<retries, budget, handles, cancelling, client, reaper>>

\* Every write goes through _store_reached_terminal.
Settle(t, s) == IF status[t] \in Terminal THEN UNCHANGED status ELSE Save(t, s)

CallReturns(t) ==
  /\ runner[t] = "calling" /\ t \notin cancelling
  /\ Settle(t, "completed")
  /\ Goto(t, "done") /\ permits' = permits + 1
  /\ UNCHANGED <<retries, budget, handles, cancelling, client, reaper>>

CallRaisesKeepingPermit(t) ==
  /\ runner[t] = "calling" /\ t \notin cancelling
  /\ Settle(t, "failed") /\ Goto(t, "done")
  /\ UNCHANGED <<retries, budget, permits, handles, cancelling, client, reaper>>

\* An Exception out of call_async: back off for another attempt, or FAILED.
CallRaises(t) ==
  /\ runner[t] = "calling" /\ t \notin cancelling
  /\ \/ /\ retries[t] < budget[t] /\ status[t] \notin Terminal
        /\ retries' = [retries EXCEPT ![t] = @ + 1]
        /\ Save(t, "pending") /\ Goto(t, "backoff")
     \/ /\ retries[t] >= budget[t] \/ status[t] \in Terminal
        /\ Settle(t, "failed") /\ Goto(t, "done")
        /\ UNCHANGED retries
  /\ permits' = permits + 1
  /\ UNCHANGED <<budget, handles, cancelling, client, reaper>>

\* CancelledError in a task that has not started: the body never runs.
CancelledBeforeStart(t) ==
  /\ runner[t] = "created" /\ t \in cancelling
  /\ Goto(t, "done") /\ cancelling' = cancelling \ {t}
  /\ UNCHANGED <<records, handles, permits, client, reaper>>

\* CancelledError in the semaphore, in the call, or in the backoff sleep.
CancelledInside(t) ==
  /\ runner[t] \in {"waiting", "calling", "backoff"} /\ t \in cancelling
  /\ Settle(t, "cancelled")
  /\ Goto(t, "done") /\ cancelling' = cancelling \ {t}
  /\ permits' = IF runner[t] = "calling" THEN permits + 1 ELSE permits
  /\ UNCHANGED <<retries, budget, handles, client, reaper>>

\* What call_async awaits (a hook, or the module itself when there is no timeout)
\* may catch CancelledError and carry on.
CallAbsorbsCancel(t) ==
  /\ runner[t] = "calling" /\ t \in cancelling
  /\ cancelling' = cancelling \ {t}
  /\ UNCHANGED <<records, runner, handles, permits, client, reaper>>

\* The done callback that submit() attached runs one loop iteration later.
DoneCallback(t) ==
  /\ runner[t] = "done" /\ t \in handles
  /\ handles' = handles \ {t}
  /\ UNCHANGED <<records, runner, cancelling, permits, client, reaper>>

-----------------------------------------------------------------------------
(* cancel() up to "await async_task" on an active record, as client state   *)
(* `next`: without a local handle it writes CANCELLED at once.              *)
InterruptWithoutAwait(c, t, next) ==
  /\ Save(t, "cancelled")
  /\ cancelling' = IF runner[t] = "done" THEN cancelling ELSE cancelling \cup {t}
  /\ client' = [client EXCEPT ![c] = next]

Interrupt(c, t, next) ==
  IF t \in handles
  THEN /\ cancelling' = IF runner[t] = "done" THEN cancelling ELSE cancelling \cup {t}
       /\ client' = [client EXCEPT ![c] = [next EXCEPT !.target = t]]
       /\ UNCHANGED status
  ELSE /\ Save(t, "cancelled")
       /\ client' = [client EXCEPT ![c] = next]
       /\ UNCHANGED cancelling

CancelCall(c, t) ==
  /\ client[c] = Idle /\ status[t] \in Active
  /\ Interrupt(c, t, Idle)
  /\ UNCHANGED <<retries, budget, runner, handles, permits, reaper>>

\* The awaited task is over: re-read, and cancel what is still active.
PostWriteForgotten(c) ==
  /\ client[c].target # NoTask /\ runner[client[c].target] = "done"
  /\ client' = [client EXCEPT ![c].target = NoTask]
  /\ UNCHANGED <<records, runner, handles, cancelling, permits, reaper>>

CancelSettled(c) ==
  LET t == client[c].target IN
  /\ t # NoTask /\ runner[t] = "done"
  /\ IF status[t] \in Active THEN Save(t, "cancelled") ELSE UNCHANGED status
  /\ client' = [client EXCEPT ![c].target = NoTask]
  /\ UNCHANGED <<retries, budget, runner, handles, cancelling, permits, reaper>>

\* shutdown(): stop the reaper, then one cancel() after the other over a snapshot.
Shutdown(c) ==
  /\ client[c] = Idle
  /\ reaper' = FALSE
  /\ client' = [client EXCEPT ![c] = [op |-> "shutdown", target |-> NoTask,
                   todo |-> WithStatus(Active \cup Terminal), visited |-> {}]]
  /\ UNCHANGED <<records, runner, handles, cancelling, permits>>

ShutdownAfter(c, t) ==
  [client[c] EXCEPT !.todo = @ \ {t}, !.visited = @ \cup {t}]

ShutdownVisitsAgain(c) ==
  /\ client[c].op = "shutdown" /\ client[c].target = NoTask
  /\ \E t \in client[c].todo :
       IF status[t] \in Active
       THEN Interrupt(c, t, client[c])
       ELSE UNCHANGED <<status, cancelling, client>>
  /\ UNCHANGED <<retries, budget, runner, handles, permits, reaper>>

ShutdownVisits(c) ==
  /\ client[c].op = "shutdown" /\ client[c].target = NoTask
  /\ \E t \in client[c].todo :
       IF status[t] \in Active
       THEN Interrupt(c, t, ShutdownAfter(c, t))
       ELSE /\ client' = [client EXCEPT ![c] = ShutdownAfter(c, t)]
            /\ UNCHANGED <<status, cancelling>>
  /\ UNCHANGED <<retries, budget, runner, handles, permits, reaper>>

ShutdownReturns(c) ==
  /\ client[c].op = "shutdown" /\ client[c].target = NoTask /\ client[c].todo = {}
  /\ client' = [client EXCEPT ![c] = Idle]
  /\ UNCHANGED <<records, runner, handles, cancelling, permits, reaper>>

-----------------------------------------------------------------------------
(* cleanup() and the reaper's sweep delete the terminal records older than  *)
(* an age; ages are abstracted, so any set of terminal records may expire.  *)
Expire(S) ==
  /\ S # {} /\ S \subseteq WithStatus(Terminal)
  /\ status' = [t \in Tasks |-> IF t \in S THEN "deleted" ELSE status[t]]
  /\ handles' = handles \ S
  /\ UNCHANGED <<retries, budget, runner, cancelling, permits, client, reaper>>

Cleanup == \E S \in SUBSET Tasks : Expire(S)

ReapSweep == reaper /\ \E S \in SUBSET Tasks : Expire(S)

StartReaper == /\ ~reaper /\ reaper' = TRUE
               /\ UNCHANGED <<records, runner, handles, cancelling, permits, client>>

StopReaper == /\ reaper /\ reaper' = FALSE
              /\ UNCHANGED <<records, runner, handles, cancelling, permits, client>>

-----------------------------------------------------------------------------
CallEnds(t) == CallReturns(t) \/ CallRaises(t) \/ (runner[t] = "calling" /\ CancelledInside(t))

RunnerStep(t) == \/ Attempt(t) \/ Acquire(t) \/ CallReturns(t) \/ CallRaises(t)
                 \/ CancelledBeforeStart(t) \/ CancelledInside(t)
                 \/ CallAbsorbsCancel(t) \/ DoneCallback(t)

ClientStep(c) == \/ CancelSettled(c) \/ Shutdown(c) \/ ShutdownVisits(c)
                 \/ ShutdownReturns(c)

Next == \/ \E t \in Tasks : Submit(t) \/ RunnerStep(t)
        \/ \E c \in Clients, t \in Tasks : CancelCall(c, t)
        \/ \E c \in Clients : ClientStep(c)
        \/ Cleanup \/ ReapSweep \/ StartReaper \/ StopReaper

Spec == Init /\ [][Next]_vars

(* The event loop resumes every ready coroutine, asyncio.Semaphore is FIFO  *)
(* (hence SF on Acquire), and a module call ends: by itself, by an error, a *)
(* timeout of the executor or a cancellation.  Nobody has to call cancel(), *)
(* shutdown() or cleanup().                                                 *)
Fairness ==
  /\ \A t \in Tasks : /\ WF_vars(Attempt(t)) /\ SF_vars(Acquire(t))
                      /\ WF_vars(CallEnds(t)) /\ WF_vars(CancelledBeforeStart(t))
                      /\ WF_vars(CancelledInside(t)) /\ WF_vars(DoneCallback(t))
  /\ \A c \in Clients : /\ WF_vars(CancelSettled(c)) /\ WF_vars(ShutdownVisits(c))
                        /\ WF_vars(ShutdownReturns(c))

FairSpec == Spec /\ Fairness

-----------------------------------------------------------------------------
\* Types of the variables; a retry count never exceeds the record's budget.
TypeOK ==
  /\ status \in [Tasks -> Active \cup Terminal \cup {"unborn", "deleted"}]
  /\ budget \in [Tasks -> 0..MaxRetries]
  /\ retries \in [Tasks -> 0..MaxRetries]
  /\ \A t \in Tasks : retries[t] <= budget[t]
  /\ runner \in [Tasks -> Stages]
  /\ handles \subseteq Tasks /\ cancelling \subseteq Tasks
  /\ permits \in 0..MaxConcurrent
  /\ client \in [Clients -> ClientState]
  /\ reaper \in BOOLEAN

(* A record that is settled or expired has no coroutine behind it: its       *)
(* call_async is over, none will start, and no write is still to come.  (The *)
(* module body may outlive call_async: ModuleCall.)                          *)
SettledMeansStopped ==
  \A t \in Tasks : status[t] \in Terminal \cup {"deleted"} => runner[t] = "done"

(* Every semaphore permit is held by exactly one module call, on every path  *)
(* out of the call (return, error, retry, cancellation), and a record says   *)
(* RUNNING exactly while its call holds one.                                 *)
PermitsConserved ==
  /\ permits + Cardinality(Calling) = MaxConcurrent
  /\ Calling = WithStatus({"running"})

(* No record stays active without anybody left to settle it: if its          *)
(* coroutine is over (it was cancelled before its first step), a cancel()    *)
(* that awaits it still owes the CANCELLED write.                            *)
NoOrphan ==
  \A t \in Tasks : status[t] \in Active /\ runner[t] = "done"
                     => \E c \in Clients : client[c].target = t

(* shutdown() leaves nothing active behind it: every record of its snapshot  *)
(* that it has passed, and does not await, stays settled from then on.       *)
ShutdownDrains ==
  \A c \in Clients : \A t \in client[c].visited \ {client[c].target} :
    status[t] \notin Active

(* The manager implements the abstract life cycle of a task record: cap on   *)
(* admission, cap on RUNNING, bounded retries, one settlement.               *)
Lifecycle == INSTANCE TaskLifecycle
Implements == Lifecycle!Spec

(* Every submitted task settles, whatever is cancelled, retried or waiting.  *)
Settles == \A t \in Tasks : status[t] \in Active ~> status[t] \notin Active

(* cancel() and shutdown() return, although they wait for other coroutines   *)
(* and a module may absorb the cancellation.                                 *)
ClientsReturn == \A c \in Clients : client[c] # Idle ~> client[c] = Idle
=============================================================================

--------------------------- MODULE TaskLifecycle ---------------------------
(***************************************************************************)
(* What apcore's background task manager promises about a task record,     *)
(* whatever store, event loop and cancellation protocol implement it:      *)
(* a record is admitted below the cap, is RUNNING for at most              *)
(* MaxConcurrent tasks at a time, is retried at most maxRetries times,     *)
(* settles once, and is never active again after that.                     *)
(***************************************************************************)
EXTENDS Naturals, FiniteSets

CONSTANTS Tasks,          \* the task ids (UUIDs) that submit() may draw
          MaxConcurrent,  \* AsyncTaskManager(max_concurrent=...)
          MaxTasks,       \* AsyncTaskManager(max_tasks=...)
          MaxRetries      \* bound on RetryConfig.max_retries

VARIABLES status,   \* status of each task's record
          retries,  \* TaskInfo.retry_count
          budget    \* TaskInfo.max_retries

lifecycleVars == <<status, retries, budget>>

Active == {"pending", "running"}
Terminal == {"completed", "failed", "cancelled"}
Statuses == Active \cup Terminal \cup {"unborn", "deleted"}

WithStatus(S) == {t \in Tasks : status[t] \in S}

Init == /\ status = [t \in Tasks |-> "unborn"]
        /\ retries = [t \in Tasks |-> 0]
        /\ budget = [t \in Tasks |-> 0]

Move(t, from, to) == /\ status[t] \in from
                     /\ status' = [status EXCEPT ![t] = to]

Admit(t) == /\ Cardinality(WithStatus(Active)) < MaxTasks
            /\ Move(t, {"unborn"}, "pending")
            /\ \E m \in 0..MaxRetries : budget' = [budget EXCEPT ![t] = m]
            /\ UNCHANGED retries

Dispatch(t) == /\ Cardinality(WithStatus({"running"})) < MaxConcurrent
               /\ Move(t, {"pending"}, "running")
               /\ UNCHANGED <<retries, budget>>

Retry(t) == /\ retries[t] < budget[t]
            /\ Move(t, {"running"}, "pending")
            /\ retries' = [retries EXCEPT ![t] = @ + 1]
            /\ UNCHANGED budget

Complete(t) == Move(t, {"running"}, "completed") /\ UNCHANGED <<retries, budget>>

Fail(t) == /\ retries[t] = budget[t]
           /\ Move(t, {"running"}, "failed")
           /\ UNCHANGED <<retries, budget>>

Cancel(t) == Move(t, Active, "cancelled") /\ UNCHANGED <<retries, budget>>

Expire(S) == /\ S # {} /\ S \subseteq WithStatus(Terminal)
             /\ status' = [t \in Tasks |-> IF t \in S THEN "deleted" ELSE status[t]]
             /\ UNCHANGED <<retries, budget>>

Next == \/ \E t \in Tasks : \/ Admit(t) \/ Dispatch(t) \/ Retry(t)
                            \/ Complete(t) \/ Fail(t) \/ Cancel(t)
        \/ \E S \in SUBSET Tasks : Expire(S)

Spec == Init /\ [][Next]_lifecycleVars
=============================================================================

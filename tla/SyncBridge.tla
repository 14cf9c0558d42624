----------------------------- MODULE SyncBridge -----------------------------
(* Executor._run_async_in_sync, through which call(), validate() and         *)
(* call_with_trace() run their coroutine: on an event loop that all threads  *)
(* share, looked up attribute by attribute without a lock, or on a thread    *)
(* with a loop of its own; and close(), which gives the shared loop up.      *)
EXTENDS Naturals

CONSTANTS Threads,
          MaxLoops,      \* bound of the loops that are created
          MaxOps         \* bound of the calls and close()s

VARIABLES
  cached,     \* self._sync_loop, 0 for None
  status,     \* of each loop: "new", "idle", "running", "closed"
  pc,         \* where each thread is
  mine,       \* the loop a thread runs on, or is about to close
  worker,     \* the thread a call was handed to
  outcome,    \* of a thread's last call
  overtaken,  \* did another thread run or drop the loop since this one looked?
  ops

vars == <<cached, status, pc, mine, worker, outcome, overtaken, ops>>
Loops == 1..MaxLoops

Init ==
  /\ cached = 0 /\ status = [l \in Loops |-> "new"]
  /\ pc = [t \in Threads |-> "idle"] /\ mine = [t \in Threads |-> 0]
  /\ worker = [t \in Threads |-> "none"] /\ outcome = [t \in Threads |-> "none"]
  /\ overtaken = [t \in Threads |-> FALSE] /\ ops = 0

Go(t, place) == pc' = [pc EXCEPT ![t] = place]
Ends(t, how) == Go(t, "idle") /\ outcome' = [outcome EXCEPT ![t] = how]
Overtaking(t) ==
  overtaken' = [u \in Threads |-> overtaken[u] \/ (u # t /\ pc[u] \in {"open?", "busy?", "run"})]

\* A thread is inside a running loop of its own, or in none; a call that timed out on a
\* worker is followed by another one only when the worker is done.
BeginCall(t) ==
  /\ pc[t] = "idle" /\ ops < MaxOps /\ worker[t] \in {"none", "done"}
  /\ \E inside \in BOOLEAN : Go(t, IF inside THEN "bridge" ELSE "none?")
  /\ ops' = ops + 1
  /\ worker' = [worker EXCEPT ![t] = "none"] /\ outcome' = [outcome EXCEPT ![t] = "none"]
  /\ overtaken' = [overtaken EXCEPT ![t] = FALSE]
  /\ UNCHANGED <<cached, status, mine>>

LookForLoop(t) ==
  /\ pc[t] = "none?"
  /\ Go(t, IF cached = 0 THEN "create" ELSE "open?")
  /\ UNCHANGED <<cached, status, mine, worker, outcome, overtaken, ops>>

\* Each look reads the attribute again: None in the middle is an AttributeError.
Look(t, place, next) ==
  /\ pc[t] = place
  /\ IF cached = 0 THEN Ends(t, "failed") ELSE Go(t, next) /\ UNCHANGED outcome
  /\ UNCHANGED <<cached, status, mine, worker, overtaken, ops>>

LookWhetherOpen(t) ==
  Look(t, "open?", IF cached # 0 /\ status[cached] = "closed" THEN "create" ELSE "busy?")

CreateLoop(t) ==
  /\ pc[t] = "create"
  /\ \E l \in Loops :
       /\ status[l] = "new" /\ \A k \in 1..(l - 1) : status[k] # "new"
       /\ status' = [status EXCEPT ![l] = "idle"] /\ cached' = l
  /\ Go(t, "busy?")
  /\ UNCHANGED <<mine, worker, outcome, overtaken, ops>>

LookNoFurther(t) == Look(t, "busy?", "run")
LookWhetherBusy(t) ==
  Look(t, "busy?", IF cached # 0 /\ status[cached] = "running" THEN "bridge" ELSE "run")

\* run_until_complete() refuses a loop that runs or is closed.
RunOnLoop(t) ==
  /\ pc[t] = "run"
  /\ IF cached # 0 /\ status[cached] = "idle"
     THEN /\ status' = [status EXCEPT ![cached] = "running"] /\ mine' = [mine EXCEPT ![t] = cached]
          /\ Go(t, "running") /\ Overtaking(t) /\ UNCHANGED outcome
     ELSE Ends(t, "failed") /\ UNCHANGED <<status, mine, overtaken>>
  /\ UNCHANGED <<cached, worker, ops>>

CoroutineEnds(t) ==
  /\ pc[t] = "running"
  /\ status' = [status EXCEPT ![mine[t]] = "idle"]
  /\ Ends(t, "answered")
  /\ UNCHANGED <<cached, mine, worker, overtaken, ops>>

-----------------------------------------------------------------------------
(* _run_in_new_thread()                                                     *)
StartWorker(t) ==
  /\ pc[t] = "bridge"
  /\ worker' = [worker EXCEPT ![t] = "starting"] /\ Go(t, "waiting")
  /\ UNCHANGED <<cached, status, mine, outcome, overtaken, ops>>

\* thread_target(): the outcome is reported before what is left on the loop is waited for.
WorkerRuns(t) ==
  /\ \/ worker[t] = "starting" /\ worker' = [worker EXCEPT ![t] = "running"]
     \/ worker[t] = "running" /\ worker' = [worker EXCEPT ![t] = "draining"]
     \/ worker[t] \in {"draining", "stopped"} /\ worker' = [worker EXCEPT ![t] = "done"]
  /\ UNCHANGED <<cached, status, pc, mine, outcome, overtaken, ops>>

WorkerAnswers(t) ==
  /\ pc[t] = "waiting" /\ worker[t] \in {"draining", "done"} /\ Ends(t, "answered")
  /\ UNCHANGED <<cached, status, mine, worker, overtaken, ops>>

\* The budget is spent: a loop that runs is stopped.
BudgetSpent(t) ==
  /\ pc[t] = "waiting" /\ worker[t] \in {"starting", "running"} /\ Ends(t, "timeout")
  /\ worker' = [worker EXCEPT ![t] = IF @ = "running" THEN "stopped" ELSE @]
  /\ UNCHANGED <<cached, status, mine, overtaken, ops>>

-----------------------------------------------------------------------------
(* close(), statement by statement: a loop that runs refuses to be closed.  *)
BeginClose(t) ==
  /\ pc[t] = "idle" /\ ops < MaxOps
  /\ ops' = ops + 1 /\ mine' = [mine EXCEPT ![t] = cached] /\ Go(t, "drop")
  /\ UNCHANGED <<cached, status, worker, outcome, overtaken>>

DropLoop(t) ==
  /\ pc[t] = "drop"
  /\ cached' = 0 /\ Go(t, "close") /\ Overtaking(t)
  /\ UNCHANGED <<status, mine, worker, outcome, ops>>

CloseLoop(t) ==
  /\ pc[t] = "close"
  /\ status' = [l \in Loops |-> IF l = mine[t] /\ status[l] = "idle" THEN "closed" ELSE status[l]]
  /\ Go(t, "idle")
  /\ UNCHANGED <<cached, mine, worker, outcome, overtaken, ops>>

Next ==
  \E t \in Threads :
    \/ BeginCall(t) \/ LookForLoop(t) \/ LookWhetherOpen(t) \/ CreateLoop(t) \/ LookWhetherBusy(t)
    \/ RunOnLoop(t) \/ CoroutineEnds(t) \/ StartWorker(t) \/ WorkerRuns(t) \/ WorkerAnswers(t)
    \/ BudgetSpent(t) \/ BeginClose(t) \/ DropLoop(t) \/ CloseLoop(t)

Spec == Init /\ [][Next]_vars

-----------------------------------------------------------------------------
(* A call fails for its loop only if another thread ran or gave up the loop *)
(* between this thread's looks at it: a loop that was busy before, with a   *)
(* call of another thread or with the one this call is nested in, or that   *)
(* was closed before, makes no call fail.                                   *)
FailsOnlyWhenOvertaken == \A t \in Threads : outcome[t] = "failed" => overtaken[t]
=============================================================================

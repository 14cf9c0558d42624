--------------------------- MODULE SharedTaskStore ---------------------------
(***************************************************************************)
(* AsyncTaskManager over a store shared between processes.  Every store    *)
(* operation suspends and hands out copies, so a runner's check, change    *)
(* and save are three steps, and managers in other processes, which have   *)
(* no asyncio handle for the task, cancel and clean up in between.  The    *)
(* semaphore and cancellation by the owning process are in                 *)
(* AsyncTaskManager.                                                       *)
(***************************************************************************)
EXTENDS Naturals

CONSTANTS Tasks,      \* records submitted by the owning process
          Processes,  \* other processes whose managers share the store
          MaxRetries, \* RetryConfig.max_retries of every task
          NoTask

VARIABLES record,   \* what the store holds: status and retry_count
          info,     \* the copy that each runner works on
          stage,    \* the runner's next store operation or suspension
          cancel,   \* the cancel() call of each other process
          expired   \* ids that a cleanup() elsewhere has listed and not deleted yet

vars == <<record, info, stage, cancel, expired>>

Active == {"pending", "running"}
Terminal == {"completed", "failed", "cancelled"}
Idle == [stage |-> "idle", target |-> NoTask]

Fetching == [op |-> "fetch"]
Checking(s) == [op |-> "check", as |-> s]
Saving(s) == [op |-> "save", as |-> s]
Suspended(w) == [op |-> w]

Init == /\ record = [t \in Tasks |-> [status |-> "pending", retries |-> 0]]
        /\ info = record
        /\ stage = [t \in Tasks |-> Fetching]
        /\ cancel = [p \in Processes |-> Idle]
        /\ expired = {}

Goto(t, s) == stage' = [stage EXCEPT ![t] = s]

\* Top of the while loop.
Fetch(t) ==
  /\ stage[t] = Fetching
  /\ info' = [info EXCEPT ![t] = record[t]]
  /\ Goto(t, IF record[t].status \in Active THEN Checking("running") ELSE Suspended("over"))
  /\ UNCHANGED <<record, cancel, expired>>

\* _store_reached_terminal, consulted before each write.
Recheck(t) ==
  /\ stage[t].op = "check"
  /\ Goto(t, IF record[t].status \in Terminal THEN Suspended("over") ELSE Saving(stage[t].as))
  /\ UNCHANGED <<record, info, cancel, expired>>

\* The write itself: the runner's copy replaces whatever the store holds.
Write(t) ==
  LET s == stage[t].as
      copy == [status |-> s, retries |-> info[t].retries + (IF s = "pending" THEN 1 ELSE 0)]
  IN /\ stage[t].op = "save"
     /\ info' = [info EXCEPT ![t] = copy]
     /\ record' = [record EXCEPT ![t] = copy]
     /\ Goto(t, CASE s = "running" -> Suspended("calling")
                  [] s = "pending" -> Suspended("backoff")
                  [] OTHER -> Suspended("over"))
     /\ UNCHANGED <<cancel, expired>>

CallEnds(t) ==
  /\ stage[t] = Suspended("calling")
  /\ \/ Goto(t, Checking("completed"))
     \/ Goto(t, Checking(IF info[t].retries < MaxRetries THEN "pending" ELSE "failed"))
  /\ UNCHANGED <<record, info, cancel, expired>>

BackoffEnds(t) ==
  /\ stage[t] = Suspended("backoff")
  /\ Goto(t, Fetching)
  /\ UNCHANGED <<record, info, cancel, expired>>

-----------------------------------------------------------------------------
\* cancel() without a local handle: get, get again, save the second copy.
CancelReads(p, t) ==
  /\ cancel[p] = Idle /\ record[t].status \in Active
  /\ cancel' = [cancel EXCEPT ![p] = [stage |-> "read", target |-> t]]
  /\ UNCHANGED <<record, info, stage, expired>>

CancelRereads(p) ==
  /\ cancel[p].stage = "read"
  /\ cancel' = [cancel EXCEPT ![p] =
       LET now == record[cancel[p].target] IN
       IF now.status \in Active
       THEN [stage |-> "write", target |-> @.target, copy |-> [now EXCEPT !.status = "cancelled"]]
       ELSE Idle]
  /\ UNCHANGED <<record, info, stage, expired>>

CancelWrites(p) ==
  /\ cancel[p].stage = "write"
  /\ record' = [record EXCEPT ![cancel[p].target] = cancel[p].copy]
  /\ cancel' = [cancel EXCEPT ![p] = Idle]
  /\ UNCHANGED <<info, stage, expired>>

\* cleanup() elsewhere lists the terminal records, then deletes them by id.
CleanupLists ==
  /\ expired = {}
  /\ expired' \in SUBSET {t \in Tasks : record[t].status \in Terminal}
  /\ UNCHANGED <<record, info, stage, cancel>>

CleanupDeletes ==
  \E t \in expired :
    /\ record' = [record EXCEPT ![t].status = "absent"]
    /\ expired' = expired \ {t}
    /\ UNCHANGED <<info, stage, cancel>>

Next == \/ \E t \in Tasks : Fetch(t) \/ Recheck(t) \/ Write(t) \/ CallEnds(t) \/ BackoffEnds(t)
        \/ \E p \in Processes : (\E t \in Tasks : CancelReads(p, t)) \/ CancelRereads(p) \/ CancelWrites(p)
        \/ CleanupLists \/ CleanupDeletes

Spec == Init /\ [][Next]_vars

(* protocol-spec 5.8 as the runner's docstring quotes it: nothing leaves a   *)
(* terminal state except by deletion, so the window between the check and    *)
(* the save costs at most one extra terminal write.                          *)
TerminalIsFinal ==
  [][\A t \in Tasks : record[t].status \in Terminal
                        => record'[t].status \in Terminal \cup {"absent"}]_vars
=============================================================================

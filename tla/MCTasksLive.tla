---------------------------- MODULE MCTasksLive ----------------------------
(* Two tasks share one permit and t1 may be retried; two clients cancel and *)
(* shut down at the same time, so each may find the other half-way.         *)
EXTENDS AsyncTaskManager

CONSTANTS t1, t2, c1, c2

MCTasks == {t1, t2}
MCClients == {c1, c2}

\* A submission is never forced by Fairness, so leaving some out is sound.
MCNext == Next /\ budget'[t2] = 0
MCSpec == Init /\ [][MCNext]_vars /\ Fairness
=============================================================================

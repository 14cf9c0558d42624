--------------------------- MODULE MCTasksSafety ---------------------------
(* Three tasks compete for two slots and one permit, with one retry each,   *)
(* while one client cancels and shuts down.                                 *)
EXTENDS AsyncTaskManager, TLC

CONSTANTS t1, t2, t3, c1

MCTasks == {t1, t2, t3}
MCClients == {c1}
MCSymmetry == Permutations(MCTasks)
=============================================================================

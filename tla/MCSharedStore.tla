--------------------------- MODULE MCSharedStore ---------------------------
(* One task of the owning process and one manager in another process. *)
EXTENDS SharedTaskStore

CONSTANTS t1, p1
MCTasks == {t1}
MCProcesses == {p1}
=============================================================================

--------------------------- MODULE MCRegistryDrain ---------------------------
(* One drainer and two other callers of one id, no file events.             *)
EXTENDS Registry

CONSTANTS a, m1, m2, th1, th2, th3, w

MCIds == {a}
MCInstances == {m1, m2}
MCVersions == {1}
MCThreads == {th1, th2, th3, w}
MCDrainers == {th1}
=============================================================================

------------------------------- MODULE MCErrors -------------------------------
(* Two threads record four kinds of errors of three modules, each of which  *)
(* may list one.                                                            *)
EXTENDS ErrorHistory

CONSTANTS m1, m2, m3, t1, t2

MCThreads == {t1, t2}
MCErrorSet == {<<m1, "a">>, <<m1, "b">>, <<m2, "a">>, <<m3, "a">>}
=============================================================================

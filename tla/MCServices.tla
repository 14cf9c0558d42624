------------------------------ MODULE MCServices ------------------------------
(* Small services, of which one (the subject) moves in a behaviour while the *)
(* others rest.                                                              *)
EXTENDS Services

CONSTANTS k1, k2, k3, k4,            \* calls through the breaker
          flusher, closer1,          \* threads of the span processor
          plain, wrapped, caller,    \* subscribers and a caller of emit()
          m1, m2, m3,                \* modules that fail
          t1, t2                     \* threads of the others

MCCalls == {k1, k2, k3, k4}
MCFlushers == {flusher}
MCClosers == {closer1}
MCEmitters == {caller}
MCSubscribers == {plain, wrapped}
MCWatchers == {plain}
MCWrapped == {wrapped}
MCThreads == {t1, t2}
MCFingerprints == {<<m1, "a">>, <<m1, "b">>, <<m2, "a">>, <<m3, "a">>}
MCFileConfig == [k \in {"timeout"} |-> "old"]

VARIABLE subject

MCInit == /\ subject \in {"breaker", "spans", "events", "errors", "control"}
          /\ ServicesInit
          /\ subject # "control" => persistence = "path"

MCNext == /\ UNCHANGED subject
          /\ \/ subject = "breaker" /\ BreakerMoves
             \/ subject = "spans" /\ SpansMove
             \/ subject = "events" /\ EventsMove
             \/ subject = "errors" /\ ErrorsMove
             \/ subject = "control" /\ ControlMoves

\* The breaker's fairness, for the behaviours that are about it
MCSpec == /\ MCInit /\ [][MCNext]_<<subject, vars, spans, events, errors, control>>
          /\ subject = "breaker" => Fairness
=============================================================================

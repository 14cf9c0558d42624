--------------------------- MODULE CircuitBreaker ---------------------------
(***************************************************************************)
(* apcore.middleware.circuit_breaker: one circuit (one module, one caller) *)
(* and the concurrent calls that pass through its hooks.  Each hook body   *)
(* runs under the record's lock and is one action.  The module call that   *)
(* surrounds the hooks decides which of them run; the call module shows    *)
(* the four ways a call ends.  Events and the context key are left out.    *)
(***************************************************************************)
EXTENDS Integers, Sequences, FiniteSets

CONSTANTS Calls,        \* call slots: a slot makes one call after another
          WindowSize, MinSamples,
          RateNum, RateDen  \* open_threshold = RateNum / RateDen

ASSUME BreakerAssumption ==
  /\ WindowSize \in Nat \ {0} /\ MinSamples \in 1..WindowSize
  /\ RateNum \in Nat /\ RateDen \in Nat \ {0} /\ RateNum <= RateDen

VARIABLES
  state,    \* record.state
  window,   \* record.window, oldest outcome first
  elapsed,  \* recovery_window_ms has passed since opened_at
  probe,    \* record.probe_in_flight
  phase,    \* where each call is: outside, running, or between after() and its end
  admitted, \* the calls admitted since the circuit last became HALF_OPEN
  silent    \* one of them ended without the breaker hearing of it

vars == <<state, window, elapsed, probe, phase, admitted, silent>>

Init == /\ state = "CLOSED" /\ window = <<>> /\ elapsed = FALSE /\ probe = FALSE
        /\ phase = [c \in Calls |-> "outside"]
        /\ admitted = {} /\ silent = FALSE

\* window.append(ok); _trim()
Recorded(ok) == IF Len(window) < WindowSize THEN Append(window, ok)
                ELSE Append(Tail(window), ok)
Errors(w) == Cardinality({i \in DOMAIN w : ~w[i]})
TooManyErrors(w) == Len(w) >= MinSamples /\ Errors(w) * RateDen >= RateNum * Len(w)

RipeWhenWindowEmpty == state = "OPEN" /\ elapsed /\ window = <<>>

\* _maybe_transition_to_half_open(), the first thing before() and get_state() do
Ripe == state = "OPEN" /\ elapsed
Now == IF Ripe THEN "HALF_OPEN" ELSE state
ProbeNow == ~Ripe /\ probe
AdmittedNow == IF Ripe THEN {} ELSE admitted
SilentNow == ~Ripe /\ silent

Leave(c) == phase' = [phase EXCEPT ![c] = "outside"]

-----------------------------------------------------------------------------
\* before() that lets the call pass
Admit(c) ==
  /\ phase[c] = "outside" /\ Now # "OPEN" /\ ~(Now = "HALF_OPEN" /\ ProbeNow)
  /\ state' = Now /\ probe' = (Now = "HALF_OPEN")
  /\ phase' = [phase EXCEPT ![c] = "running"]
  /\ admitted' = IF Now = "HALF_OPEN" THEN AdmittedNow \cup {c} ELSE admitted
  /\ silent' = SilentNow
  /\ UNCHANGED <<window, elapsed>>

\* before() raising CircuitBreakerOpenError, which on_error() then ignores.  The
\* record only changes when the recovery window has passed, and then the call passes.
Reject(c) ==
  /\ phase[c] = "outside"
  /\ Now = "OPEN" \/ (Now = "HALF_OPEN" /\ ProbeNow)
  /\ UNCHANGED vars

\* after()
Succeed(c) ==
  /\ phase[c] = "running"
  /\ phase' = [phase EXCEPT ![c] = "after"]
  /\ IF state = "HALF_OPEN"
     THEN /\ state' = "CLOSED" /\ window' = <<>> /\ elapsed' = FALSE /\ probe' = FALSE
          /\ admitted' = {} /\ silent' = FALSE
     ELSE window' = Recorded(TRUE) /\ UNCHANGED <<state, elapsed, probe, admitted, silent>>

FailKeepingProbe(c) ==
  /\ phase[c] \in {"running", "after"} /\ Leave(c)
  /\ window' = Recorded(FALSE)
  /\ IF state = "HALF_OPEN" \/ (state = "CLOSED" /\ TooManyErrors(window'))
     THEN state' = "OPEN" /\ elapsed' = FALSE /\ admitted' = {} /\ silent' = FALSE
     ELSE UNCHANGED <<state, elapsed, admitted, silent>>
  /\ UNCHANGED probe

FailReopeningOpen(c) ==
  /\ phase[c] \in {"running", "after"} /\ Leave(c)
  /\ window' = Recorded(FALSE)
  /\ IF state = "HALF_OPEN" \/ TooManyErrors(window')
     THEN /\ state' = "OPEN" /\ elapsed' = FALSE /\ probe' = FALSE
          /\ admitted' = {} /\ silent' = FALSE
     ELSE UNCHANGED <<state, elapsed, probe, admitted, silent>>

\* on_error(); a call whose after() ran gets it when an outer middleware's after() raises
Fail(c) ==
  /\ phase[c] \in {"running", "after"} /\ Leave(c)
  /\ window' = Recorded(FALSE)
  /\ IF state = "HALF_OPEN" \/ (state = "CLOSED" /\ TooManyErrors(window'))
     THEN /\ state' = "OPEN" /\ elapsed' = FALSE /\ probe' = FALSE
          /\ admitted' = {} /\ silent' = FALSE
     ELSE UNCHANGED <<state, elapsed, probe, admitted, silent>>

Return(c) ==
  /\ phase[c] = "after" /\ Leave(c)
  /\ UNCHANGED <<state, window, elapsed, probe, admitted, silent>>

\* A call ends and neither hook records it: it was cancelled, or its stream was
\* abandoned; a middleware nearer to the module answered its error with an output or a
\* RetrySignal; or its error is the CircuitBreakerOpenError of a call it made itself.
EndSilently(c) ==
  /\ phase[c] = "running" /\ Leave(c)
  /\ silent' = (silent \/ c \in admitted)
  /\ UNCHANGED <<state, window, elapsed, probe, admitted>>

-----------------------------------------------------------------------------
TimePasses == /\ state = "OPEN" /\ ~elapsed /\ elapsed' = TRUE
              /\ UNCHANGED <<state, window, probe, phase, admitted, silent>>

\* get_state(), when it changes something
Observe == /\ Ripe /\ state' = "HALF_OPEN" /\ probe' = FALSE
           /\ admitted' = {} /\ silent' = FALSE
           /\ UNCHANGED <<window, elapsed, phase>>

Reset == /\ state' = "CLOSED" /\ window' = <<>> /\ elapsed' = FALSE /\ probe' = FALSE
         /\ admitted' = {} /\ silent' = FALSE
         /\ UNCHANGED phase

Next == \/ \E c \in Calls : \/ Admit(c) \/ Reject(c) \/ Succeed(c) \/ Fail(c)
                            \/ Return(c) \/ EndSilently(c)
        \/ TimePasses \/ Observe \/ Reset

\* Time passes; a caller that keeps calling is let in whenever the breaker keeps
\* letting it in; a call that is running ends, one way or another.
Fairness == /\ WF_vars(TimePasses)
            /\ \A c \in Calls : /\ WF_vars(Admit(c))
                                /\ WF_vars(Succeed(c) \/ Fail(c) \/ Return(c) \/ EndSilently(c))

Spec == Init /\ [][Next]_vars
FairSpec == Spec /\ Fairness

-----------------------------------------------------------------------------
TypeOK ==
  /\ state \in {"CLOSED", "OPEN", "HALF_OPEN"}
  /\ window \in Seq(BOOLEAN) /\ Len(window) <= WindowSize
  /\ elapsed \in BOOLEAN /\ probe \in BOOLEAN /\ silent \in BOOLEAN
  /\ phase \in [Calls -> {"outside", "running", "after"}]
  /\ admitted \subseteq Calls

(* Between two state changes a HALF_OPEN circuit admits one call, however   *)
(* many are waiting and whatever older calls report meanwhile; and it turns *)
(* the others away only on account of that call, never of one admitted      *)
(* before the circuit opened or before an earlier probe failed.             *)
OneProbe ==
  /\ Cardinality(admitted) <= 1
  /\ probe <=> admitted # {}
  /\ admitted # {} => state = "HALF_OPEN"

(* A circuit turns callers away because of a probe only while that probe is *)
(* running, unless it ended without either hook recording it.               *)
ProbeIsRunning ==
  probe /\ ~silent => \E c \in admitted : phase[c] = "running"

(* A probe is alone, and callers are turned away because of it no longer    *)
(* than it runs, unless it ended silently.                                  *)
ProbeIsSound == OneProbe /\ ProbeIsRunning

(* An open circuit gets a probe through and the probe settles the circuit,  *)
(* as long as callers keep calling and no probe ends silently.              *)
Recovers == /\ state # "CLOSED" ~> state = "CLOSED" \/ silent \/ admitted # {}
            /\ admitted # {} ~> silent \/ admitted = {}

(* A burst of late failures of calls admitted earlier cannot push the       *)
(* recovery of an open circuit back: time that has passed is not lost.      *)
RecoveryIsNotPostponed ==
  [][state = "OPEN" /\ elapsed => elapsed' \/ state' = "CLOSED"]_vars
=============================================================================

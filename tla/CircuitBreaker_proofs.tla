------------------------ MODULE CircuitBreaker_proofs ------------------------
(* For any number of calls, window and thresholds: the circuit's type, one  *)
(* probe per HALF_OPEN period, and a probe flag that stands for a running   *)
(* probe.                                                                   *)
EXTENDS CircuitBreaker, FiniteSetTheorems, TLAPS

\* OneProbe without cardinalities: what the actions preserve.
ProbeOwned ==
  /\ probe <=> admitted # {}
  /\ admitted # {} => state = "HALF_OPEN"
  /\ \A c, d \in admitted : c = d

IInv == TypeOK /\ ProbeOwned /\ ProbeIsRunning

(* The bounded window: appending and trimming keeps at most WindowSize      *)
(* outcomes.                                                                *)
LEMMA WindowBounded ==
  ASSUME TypeOK, NEW ok \in BOOLEAN
  PROVE  Recorded(ok) \in Seq(BOOLEAN) /\ Len(Recorded(ok)) <= WindowSize
<1>1. WindowSize \in Nat \ {0} BY BreakerAssumption
<1>2. window \in Seq(BOOLEAN) /\ Len(window) \in Nat /\ Len(window) <= WindowSize
  BY DEF TypeOK
<1>3. CASE Len(window) < WindowSize
  BY <1>1, <1>2, <1>3 DEF Recorded
<1>4. CASE ~(Len(window) < WindowSize)
  <2>1. window # <<>> BY <1>1, <1>2, <1>4
  <2>2. Tail(window) \in Seq(BOOLEAN) /\ Len(Tail(window)) = Len(window) - 1
    BY <1>2, <2>1
  <2>. QED BY <1>1, <1>2, <1>4, <2>2 DEF Recorded
<1>. QED BY <1>3, <1>4

LEMMA EmptyWindow == <<>> \in Seq(BOOLEAN) /\ Len(<<>>) <= WindowSize
<1>1. WindowSize \in Nat BY BreakerAssumption
<1>2. <<>> \in Seq(BOOLEAN) /\ Len(<<>>) = 0 OBVIOUS
<1>. QED BY <1>1, <1>2

LEMMA InitIInv == Init => IInv
BY EmptyWindow DEF Init, IInv, TypeOK, ProbeOwned, ProbeIsRunning

(* A call is let in as the probe only when no probe holds the flag, so it   *)
(* is the only member of admitted and it is running.                        *)
LEMMA AdmitIInv == ASSUME IInv, NEW c \in Calls, Admit(c) PROVE IInv'
<1>. USE DEF IInv, Admit, Ripe, Now, ProbeNow, AdmittedNow, SilentNow
<1>1. TypeOK' BY DEF TypeOK
<1>2. CASE state' = "HALF_OPEN"
  <2>1. admitted' = {c} /\ probe' = TRUE /\ phase'[c] = "running"
    BY <1>2 DEF TypeOK, ProbeOwned
  <2>. QED BY <1>1, <1>2, <2>1 DEF ProbeOwned, ProbeIsRunning
<1>3. CASE state' # "HALF_OPEN"
  <2>1. admitted' = {} /\ probe' = FALSE
    BY <1>3 DEF TypeOK, ProbeOwned
  <2>. QED BY <1>1, <2>1 DEF ProbeOwned, ProbeIsRunning
<1>. QED BY <1>2, <1>3

(* after() and on_error(): in HALF_OPEN they drop the flag with the probe;  *)
(* in the other states there is no probe to disturb.                        *)
LEMMA SettleIInv ==
  ASSUME IInv, NEW c \in Calls, Succeed(c) \/ Fail(c) \/ Return(c)
  PROVE  IInv'
<1>1. TypeOK'
  <2>1. window' \in Seq(BOOLEAN) /\ Len(window') <= WindowSize
    <3>1. window' \in {window, <<>>, Recorded(TRUE), Recorded(FALSE)}
      BY DEF Succeed, Fail, Return
    <3>2. window \in Seq(BOOLEAN) /\ Len(window) <= WindowSize BY DEF IInv, TypeOK
    <3>. QED BY <3>1, <3>2, EmptyWindow, WindowBounded DEF IInv
  <2>. QED BY <2>1 DEF IInv, TypeOK, Succeed, Fail, Return, Leave
<1>2. CASE state = "HALF_OPEN" /\ ~Return(c)
  <2>1. admitted' = {} /\ probe' = FALSE BY <1>2 DEF Succeed, Fail
  <2>. QED BY <1>1, <2>1 DEF IInv, ProbeOwned, ProbeIsRunning
<1>3. CASE state # "HALF_OPEN"
  <2>1. admitted = {} /\ probe = FALSE BY <1>3 DEF IInv, TypeOK, ProbeOwned
  <2>2. admitted' = {} /\ probe' = FALSE BY <1>3, <2>1 DEF Succeed, Fail, Return
  <2>. QED BY <1>1, <2>2 DEF IInv, ProbeOwned, ProbeIsRunning
<1>4. CASE Return(c)
  <2>1. UNCHANGED <<state, probe, admitted, silent>> /\ phase[c] = "after"
    BY <1>4 DEF Return
  <2>2. \A d \in Calls : phase[d] = "running" => phase'[d] = "running"
    BY <1>4 DEF IInv, TypeOK, Return, Leave
  <2>. QED BY <1>1, <2>1, <2>2 DEF IInv, TypeOK, ProbeOwned, ProbeIsRunning
<1>. QED BY <1>2, <1>3, <1>4

(* A call that ends silently is either not the probe, or marks the circuit. *)
LEMMA SilentIInv == ASSUME IInv, NEW c \in Calls, EndSilently(c) PROVE IInv'
<1>. USE DEF IInv, EndSilently, Leave
<1>1. TypeOK' BY DEF TypeOK
<1>2. ProbeOwned' BY DEF ProbeOwned
<1>3. \A d \in Calls \ {c} : phase'[d] = phase[d] BY DEF TypeOK
<1>4. ProbeIsRunning' BY <1>3 DEF TypeOK, ProbeIsRunning
<1>. QED BY <1>1, <1>2, <1>4

LEMMA OtherIInv ==
  ASSUME IInv, TimePasses \/ Observe \/ Reset \/ UNCHANGED vars
  PROVE  IInv'
<1>1. TypeOK'
  BY EmptyWindow DEF IInv, TypeOK, TimePasses, Observe, Reset, vars
<1>2. ProbeOwned' /\ ProbeIsRunning'
  BY DEF IInv, ProbeOwned, ProbeIsRunning, TimePasses, Observe, Reset, vars
<1>. QED BY <1>1, <1>2 DEF IInv

LEMMA NextIInv == IInv /\ [Next]_vars => IInv'
<1>. SUFFICES ASSUME IInv, [Next]_vars PROVE IInv'
  OBVIOUS
<1>1. ASSUME NEW c \in Calls, Admit(c) PROVE IInv' BY <1>1, AdmitIInv
<1>2. ASSUME NEW c \in Calls, Reject(c) PROVE IInv' BY <1>2, OtherIInv DEF Reject
<1>3. ASSUME NEW c \in Calls, Succeed(c) \/ Fail(c) \/ Return(c) PROVE IInv'
  BY <1>3, SettleIInv
<1>4. ASSUME NEW c \in Calls, EndSilently(c) PROVE IInv' BY <1>4, SilentIInv
<1>. QED BY <1>1, <1>2, <1>3, <1>4, OtherIInv DEF Next

(* Every state of every behaviour has the type and owned-probe shape.       *)
THEOREM Inductive == Spec => []IInv
BY InitIInv, NextIInv, PTL DEF Spec

THEOREM TypeCorrect == Spec => []TypeOK
<1>1. IInv => TypeOK BY DEF IInv
<1>. QED BY <1>1, Inductive, PTL

(* A HALF_OPEN circuit admits one call per period and turns the others away *)
(* only because of it.                                                      *)
THEOREM OneProbeAlways == Spec => []OneProbe
<1>1. IInv => OneProbe
  <2>. SUFFICES ASSUME IInv PROVE OneProbe
    OBVIOUS
  <2>1. CASE admitted = {}
    BY <2>1, FS_EmptySet DEF IInv, ProbeOwned, OneProbe
  <2>2. ASSUME NEW c \in admitted PROVE OneProbe
    <3>1. admitted = {c} BY <2>2 DEF IInv, ProbeOwned
    <3>2. Cardinality({c}) = 1 BY FS_Singleton
    <3>. QED BY <3>1, <3>2 DEF IInv, ProbeOwned, OneProbe
  <2>. QED BY <2>1, <2>2
<1>. QED BY <1>1, Inductive, PTL

(* The probe flag never outlives its probe, save for the silent ends.       *)
THEOREM ProbeIsRunningAlways == Spec => []ProbeIsRunning
<1>1. IInv => ProbeIsRunning BY DEF IInv
<1>. QED BY <1>1, Inductive, PTL

(* A probe is alone and its flag ends with it.                              *)
THEOREM ProbeIsSoundAlways == Spec => []ProbeIsSound
<1>1. OneProbe /\ ProbeIsRunning => ProbeIsSound BY DEF ProbeIsSound
<1>. QED BY <1>1, OneProbeAlways, ProbeIsRunningAlways, PTL

(* Late reports cannot postpone the recovery of an open circuit.            *)
THEOREM NotPostponed == Spec => RecoveryIsNotPostponed
<1>1. [Next]_vars =>
        [state = "OPEN" /\ elapsed => elapsed' \/ state' = "CLOSED"]_vars
  <2>. SUFFICES ASSUME Next, state = "OPEN", elapsed
                PROVE  elapsed' \/ state' = "CLOSED"
    OBVIOUS
  <2>1. ASSUME NEW c \in Calls, Admit(c) \/ Reject(c) \/ Return(c) \/ EndSilently(c)
        PROVE  elapsed'
    BY <2>1 DEF Admit, Reject, Return, EndSilently, vars
  <2>2. ASSUME NEW c \in Calls, Succeed(c) \/ Fail(c) PROVE elapsed'
    BY <2>2 DEF Succeed, Fail
  <2>. QED BY <2>1, <2>2 DEF Next, TimePasses, Observe, Reset
<1>. QED BY <1>1, PTL DEF Spec, RecoveryIsNotPostponed
=============================================================================

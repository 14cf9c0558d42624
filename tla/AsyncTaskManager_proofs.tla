----------------------- MODULE AsyncTaskManager_proofs ----------------------
(***************************************************************************)
(* The safety properties of AsyncTaskManager for every number of tasks,    *)
(* clients, permits, slots and retries, and that it implements the         *)
(* life cycle of TaskLifecycle.                                            *)
(***************************************************************************)
EXTENDS AsyncTaskManager, FiniteSetTheorems, TLAPS

\* Where the coroutine is, what the record says, and who may interrupt it.
StageInv ==
  \A t \in Tasks :
    /\ runner[t] = "none" <=> status[t] = "unborn"
    /\ runner[t] \in {"created", "waiting", "backoff"} => status[t] = "pending"
    /\ runner[t] = "calling" <=> status[t] = "running"
    /\ runner[t] \notin {"none", "done"} => t \in handles
    /\ t \in cancelling => runner[t] \notin {"none", "done"}

\* Who owes a settlement: a pending CancelledError has a canceller that waits for
\* it, and clients only ever speak of records that were submitted.
ClientInv ==
  /\ \A t \in cancelling : \E c \in Clients : client[c].target = t
  /\ \A c \in Clients :
       /\ client[c].target # NoTask => status[client[c].target] # "unborn"
       /\ \A t \in client[c].todo \cup client[c].visited : status[t] # "unborn"

TypeInv ==
  /\ status \in [Tasks -> Active \cup Terminal \cup {"unborn", "deleted"}]
  /\ budget \in [Tasks -> 0..MaxRetries]
  /\ retries \in [Tasks -> 0..MaxRetries]
  /\ \A t \in Tasks : retries[t] <= budget[t] /\ (status[t] = "unborn" => retries[t] = 0)
  /\ runner \in [Tasks -> Stages]
  /\ handles \subseteq Tasks /\ cancelling \subseteq Tasks
  /\ permits \in Nat
  /\ client \in [Clients -> ClientState]
  /\ reaper \in BOOLEAN

IInv == /\ TypeInv /\ StageInv /\ PermitsConserved
        /\ ClientInv /\ NoOrphan /\ ShutdownDrains

(* The members of Next, flattened: every proof about a step splits on these. *)
LEMMA NextSplit ==
  ASSUME Next, NEW P,
         \A t \in Tasks : Submit(t) \/ Attempt(t) \/ Acquire(t) => P,
         \A t \in Tasks : CallReturns(t) \/ CallRaises(t) \/ CallAbsorbsCancel(t) => P,
         \A t \in Tasks : CancelledBeforeStart(t) \/ CancelledInside(t) => P,
         \A t \in Tasks : DoneCallback(t) => P,
         \A c \in Clients, t \in Tasks : CancelCall(c, t) => P,
         \A c \in Clients : CancelSettled(c) \/ Shutdown(c) => P,
         \A c \in Clients : ShutdownVisits(c) \/ ShutdownReturns(c) => P,
         \A S \in SUBSET Tasks : Expire(S) => P,
         StartReaper \/ StopReaper => P
  PROVE  P
BY DEF Next, RunnerStep, ClientStep, Cleanup, ReapSweep

-----------------------------------------------------------------------------
(* Initially nothing is submitted and every permit is free.                  *)
LEMMA InitIInv == Init => IInv
<1> SUFFICES ASSUME Init PROVE IInv
  OBVIOUS
<1>1. TypeInv
  <2>1. client \in [Clients -> ClientState]
    BY DEF Init, Idle, ClientState
  <2>2. /\ status \in [Tasks -> Active \cup Terminal \cup {"unborn", "deleted"}]
        /\ runner \in [Tasks -> Stages]
        /\ reaper \in BOOLEAN /\ handles \subseteq Tasks /\ cancelling \subseteq Tasks
    BY DEF Init, Stages
  <2>3. /\ budget \in [Tasks -> 0..MaxRetries] /\ retries \in [Tasks -> 0..MaxRetries]
        /\ \A t \in Tasks : retries[t] <= budget[t] /\ retries[t] = 0
        /\ permits \in Nat
    BY ManagerAssumption DEF Init
  <2> QED
    BY <2>1, <2>2, <2>3 DEF TypeInv
<1>2. StageInv /\ ClientInv /\ NoOrphan /\ ShutdownDrains
  BY DEF Init, StageInv, ClientInv, NoOrphan, ShutdownDrains, Idle, Active
<1>3. PermitsConserved
  <2>1. Calling = {} /\ WithStatus({"running"}) = {}
    BY DEF Init, Calling, WithStatus
  <2> QED
    BY <2>1, FS_EmptySet, ManagerAssumption DEF Init, PermitsConserved
<1> QED
  BY <1>1, <1>2, <1>3 DEF IInv

(* The types of the variables are preserved by every step.                   *)
LEMMA NextTypeInv == ASSUME TypeInv, Next PROVE TypeInv'
<1> USE ManagerAssumption DEF TypeInv, ClientState, Stages, Active, Terminal, Save, Goto, records, Settle
<1>1. ASSUME NEW t \in Tasks, Submit(t) \/ Attempt(t) \/ Acquire(t) PROVE TypeInv'
  BY <1>1 DEF Submit, Attempt, Acquire
<1>2. ASSUME NEW t \in Tasks, CallReturns(t) \/ CallRaises(t) \/ CallAbsorbsCancel(t)
      PROVE TypeInv'
  BY <1>2 DEF CallReturns, CallRaises, CallAbsorbsCancel
<1>3. ASSUME NEW t \in Tasks, CancelledBeforeStart(t) \/ CancelledInside(t) PROVE TypeInv'
  BY <1>3 DEF CancelledBeforeStart, CancelledInside
<1>4. ASSUME NEW t \in Tasks, DoneCallback(t) PROVE TypeInv'
  BY <1>4 DEF DoneCallback
<1>5. ASSUME NEW c \in Clients, NEW t \in Tasks, CancelCall(c, t) PROVE TypeInv'
  BY <1>5 DEF CancelCall, Interrupt, Idle
<1>6. ASSUME NEW c \in Clients, CancelSettled(c) \/ Shutdown(c) PROVE TypeInv'
  <2>1. CASE CancelSettled(c)
    BY <2>1 DEF CancelSettled
  <2>2. CASE Shutdown(c)
    BY <2>2 DEF Shutdown, WithStatus
  <2> QED
    BY <1>6, <2>1, <2>2
<1>7. ASSUME NEW c \in Clients, ShutdownVisits(c) \/ ShutdownReturns(c) PROVE TypeInv'
  <2>1. CASE ShutdownReturns(c)
    BY <2>1 DEF ShutdownReturns, Idle
  <2>2. CASE ShutdownVisits(c)
    <3>1. PICK t \in client[c].todo : IF status[t] \in Active
                                     THEN Interrupt(c, t, ShutdownAfter(c, t))
                                     ELSE /\ client' = [client EXCEPT ![c] = ShutdownAfter(c, t)]
                                          /\ UNCHANGED <<status, cancelling>>
      BY <2>2 DEF ShutdownVisits
    <3>2. t \in Tasks /\ ShutdownAfter(c, t) \in ClientState
      BY DEF ShutdownAfter
    <3> QED
      BY <2>2, <3>1, <3>2 DEF ShutdownVisits, Interrupt
  <2> QED
    BY <1>7, <2>1, <2>2
<1>8. ASSUME NEW S \in SUBSET Tasks, Expire(S) PROVE TypeInv'
  BY <1>8 DEF Expire
<1>9. ASSUME StartReaper \/ StopReaper PROVE TypeInv'
  BY <1>9 DEF StartReaper, StopReaper
<1> QED
  BY <1>1, <1>2, <1>3, <1>4, <1>5, <1>6, <1>7, <1>8, <1>9, NextSplit

(* The stage of the coroutine and the record move together.                  *)
LEMMA NextStageInv == ASSUME TypeInv, StageInv, Next PROVE StageInv'
<1> USE DEF TypeInv, StageInv, ClientState, Stages, Active, Terminal, Save, Goto, records, Settle
<1>1. ASSUME NEW t \in Tasks, Submit(t) \/ Attempt(t) \/ Acquire(t) PROVE StageInv'
  BY <1>1 DEF Submit, Attempt, Acquire
<1>2. ASSUME NEW t \in Tasks, CallReturns(t) \/ CallRaises(t) \/ CallAbsorbsCancel(t)
      PROVE StageInv'
  BY <1>2 DEF CallReturns, CallRaises, CallAbsorbsCancel
<1>3. ASSUME NEW t \in Tasks, CancelledBeforeStart(t) \/ CancelledInside(t) PROVE StageInv'
  BY <1>3 DEF CancelledBeforeStart, CancelledInside
<1>4. ASSUME NEW t \in Tasks, DoneCallback(t) PROVE StageInv'
  BY <1>4 DEF DoneCallback
<1>5. ASSUME NEW c \in Clients, NEW t \in Tasks, CancelCall(c, t) PROVE StageInv'
  BY <1>5 DEF CancelCall, Interrupt
<1>6. ASSUME NEW c \in Clients, CancelSettled(c) \/ Shutdown(c) PROVE StageInv'
  <2>1. CASE CancelSettled(c)
    <3> client[c].target \in Tasks
      BY <2>1 DEF CancelSettled
    <3> QED
      BY <2>1 DEF CancelSettled
  <2>2. CASE Shutdown(c)
    BY <2>2 DEF Shutdown
  <2> QED
    BY <1>6, <2>1, <2>2
<1>7. ASSUME NEW c \in Clients, ShutdownVisits(c) \/ ShutdownReturns(c) PROVE StageInv'
  <2>1. CASE ShutdownReturns(c)
    BY <2>1 DEF ShutdownReturns
  <2>2. CASE ShutdownVisits(c)
    BY <2>2 DEF ShutdownVisits, Interrupt
  <2> QED
    BY <1>7, <2>1, <2>2
<1>8. ASSUME NEW S \in SUBSET Tasks, Expire(S) PROVE StageInv'
  BY <1>8 DEF Expire, WithStatus
<1>9. ASSUME StartReaper \/ StopReaper PROVE StageInv'
  BY <1>9 DEF StartReaper, StopReaper
<1> QED
  BY <1>1, <1>2, <1>3, <1>4, <1>5, <1>6, <1>7, <1>8, <1>9, NextSplit

-----------------------------------------------------------------------------
(* A coroutine that enters the call takes a permit, one that leaves it gives  *)
(* it back, and nobody else touches the semaphore.                            *)
LEMMA PermitMoves ==
  ASSUME TypeInv, StageInv, Next
  PROVE  \/ Calling' = Calling /\ permits' = permits
         \/ \E t \in Tasks : /\ t \notin Calling /\ permits > 0
                             /\ Calling' = Calling \cup {t} /\ permits' = permits - 1
         \/ \E t \in Tasks : /\ t \in Calling
                             /\ Calling' = Calling \ {t} /\ permits' = permits + 1
<1> DEFINE Moved == \/ Calling' = Calling /\ permits' = permits
                    \/ \E t \in Tasks : /\ t \notin Calling /\ permits > 0
                                        /\ Calling' = Calling \cup {t} /\ permits' = permits - 1
                    \/ \E t \in Tasks : /\ t \in Calling
                                        /\ Calling' = Calling \ {t} /\ permits' = permits + 1
<1> USE DEF TypeInv, Calling, Stages, Goto
<1>1. ASSUME NEW t \in Tasks, Submit(t) \/ Attempt(t) \/ Acquire(t) PROVE Moved
  <2>1. CASE Submit(t)
    BY <2>1 DEF Submit, StageInv
  <2>2. CASE Attempt(t)
    BY <2>2 DEF Attempt
  <2>3. CASE Acquire(t)
    BY <2>3 DEF Acquire
  <2> QED
    BY <1>1, <2>1, <2>2, <2>3
<1>2. ASSUME NEW t \in Tasks, CallReturns(t) \/ CallRaises(t) \/ CallAbsorbsCancel(t)
      PROVE Moved
  BY <1>2 DEF CallReturns, CallRaises, CallAbsorbsCancel
<1>3. ASSUME NEW t \in Tasks, CancelledBeforeStart(t) \/ CancelledInside(t) PROVE Moved
  BY <1>3 DEF CancelledBeforeStart, CancelledInside
<1>4. ASSUME NEW t \in Tasks, DoneCallback(t) PROVE Moved
  BY <1>4 DEF DoneCallback
<1>5. ASSUME NEW c \in Clients, NEW t \in Tasks, CancelCall(c, t) PROVE Moved
  BY <1>5 DEF CancelCall
<1>6. ASSUME NEW c \in Clients, CancelSettled(c) \/ Shutdown(c) PROVE Moved
  BY <1>6 DEF CancelSettled, Shutdown
<1>7. ASSUME NEW c \in Clients, ShutdownVisits(c) \/ ShutdownReturns(c) PROVE Moved
  BY <1>7 DEF ShutdownVisits, ShutdownReturns
<1>8. ASSUME NEW S \in SUBSET Tasks, Expire(S) PROVE Moved
  BY <1>8 DEF Expire
<1>9. ASSUME StartReaper \/ StopReaper PROVE Moved
  BY <1>9 DEF StartReaper, StopReaper
<1> QED
  BY <1>1, <1>2, <1>3, <1>4, <1>5, <1>6, <1>7, <1>8, <1>9, NextSplit

LEMMA NextPermits ==
  ASSUME TypeInv, StageInv, PermitsConserved, Next PROVE PermitsConserved'
<1>1. IsFiniteSet(Calling) /\ Cardinality(Calling) \in Nat
  BY ManagerAssumption, FS_Subset, FS_CardinalityType DEF Calling
<1>2. permits' + Cardinality(Calling') = MaxConcurrent
  <2>1. permits \in Int /\ permits + Cardinality(Calling) = MaxConcurrent
    BY DEF TypeInv, PermitsConserved
  <2>2. \A t : /\ Cardinality(Calling \cup {t}) = IF t \in Calling THEN Cardinality(Calling)
                                                            ELSE Cardinality(Calling) + 1
              /\ Cardinality(Calling \ {t}) = IF t \in Calling THEN Cardinality(Calling) - 1
                                                           ELSE Cardinality(Calling)
    BY <1>1, FS_AddElement, FS_RemoveElement
  <2>3. CASE Calling' = Calling /\ permits' = permits
    BY <2>1, <2>3
  <2>4. ASSUME NEW t \in Tasks, t \notin Calling, Calling' = Calling \cup {t}, permits' = permits - 1
        PROVE  permits' + Cardinality(Calling') = MaxConcurrent
    BY <1>1, <2>1, <2>2, <2>4
  <2>5. ASSUME NEW t \in Tasks, t \in Calling, Calling' = Calling \ {t}, permits' = permits + 1
        PROVE  permits' + Cardinality(Calling') = MaxConcurrent
    BY <1>1, <2>1, <2>2, <2>5
  <2> QED
    BY <2>3, <2>4, <2>5, PermitMoves
<1>3. Calling' = WithStatus({"running"})'
  BY NextStageInv DEF StageInv, Calling, WithStatus
<1> QED
  BY <1>2, <1>3 DEF PermitsConserved

-----------------------------------------------------------------------------
(* What a step may do to the record of a task that is not active: nothing but *)
(* admit it, if it was never submitted, or expire it.                         *)
LEMMA InactiveStays ==
  ASSUME TypeInv, StageInv, Next, NEW t \in Tasks,
         status[t] \notin Active, status[t] # "unborn"
  PROVE  status'[t] \notin Active /\ status'[t] # "unborn"
<1> DEFINE P == status'[t] \notin Active /\ status'[t] # "unborn"
<1> USE DEF TypeInv, StageInv, Active, Terminal, Save, Goto, records, Settle
<1>1. ASSUME NEW u \in Tasks, Submit(u) \/ Attempt(u) \/ Acquire(u) PROVE P
  BY <1>1 DEF Submit, Attempt, Acquire
<1>2. ASSUME NEW u \in Tasks, CallReturns(u) \/ CallRaises(u) \/ CallAbsorbsCancel(u) PROVE P
  BY <1>2 DEF CallReturns, CallRaises, CallAbsorbsCancel
<1>3. ASSUME NEW u \in Tasks, CancelledBeforeStart(u) \/ CancelledInside(u) PROVE P
  BY <1>3 DEF CancelledBeforeStart, CancelledInside
<1>4. ASSUME NEW u \in Tasks, DoneCallback(u) PROVE P
  BY <1>4 DEF DoneCallback
<1>5. ASSUME NEW c \in Clients, NEW u \in Tasks, CancelCall(c, u) PROVE P
  BY <1>5 DEF CancelCall, Interrupt
<1>6. ASSUME NEW c \in Clients, CancelSettled(c) \/ Shutdown(c) PROVE P
  BY <1>6 DEF CancelSettled, Shutdown
<1>7. ASSUME NEW c \in Clients, ShutdownVisits(c) \/ ShutdownReturns(c) PROVE P
  BY <1>7 DEF ShutdownVisits, ShutdownReturns, Interrupt
<1>8. ASSUME NEW S \in SUBSET Tasks, Expire(S) PROVE P
  BY <1>8 DEF Expire
<1>9. ASSUME StartReaper \/ StopReaper PROVE P
  BY <1>9 DEF StartReaper, StopReaper
<1> QED
  BY <1>1, <1>2, <1>3, <1>4, <1>5, <1>6, <1>7, <1>8, <1>9, NextSplit

LEMMA BornStays ==
  ASSUME TypeInv, StageInv, Next, NEW t \in Tasks, status[t] # "unborn"
  PROVE  status'[t] # "unborn"
<1> DEFINE P == status'[t] # "unborn"
<1> USE DEF TypeInv, Active, Terminal, Save, records, Settle
<1>1. ASSUME NEW u \in Tasks, Submit(u) \/ Attempt(u) \/ Acquire(u) PROVE P
  BY <1>1 DEF Submit, Attempt, Acquire
<1>2. ASSUME NEW u \in Tasks, CallReturns(u) \/ CallRaises(u) \/ CallAbsorbsCancel(u) PROVE P
  BY <1>2 DEF CallReturns, CallRaises, CallAbsorbsCancel
<1>3. ASSUME NEW u \in Tasks, CancelledBeforeStart(u) \/ CancelledInside(u) PROVE P
  BY <1>3 DEF CancelledBeforeStart, CancelledInside
<1>4. ASSUME NEW u \in Tasks, DoneCallback(u) PROVE P
  BY <1>4 DEF DoneCallback
<1>5. ASSUME NEW c \in Clients, NEW u \in Tasks, CancelCall(c, u) PROVE P
  BY <1>5 DEF CancelCall, Interrupt
<1>6. ASSUME NEW c \in Clients, CancelSettled(c) \/ Shutdown(c) PROVE P
  BY <1>6 DEF CancelSettled, Shutdown
<1>7. ASSUME NEW c \in Clients, ShutdownVisits(c) \/ ShutdownReturns(c) PROVE P
  BY <1>7 DEF ShutdownVisits, ShutdownReturns, Interrupt
<1>8. ASSUME NEW S \in SUBSET Tasks, Expire(S) PROVE P
  BY <1>8 DEF Expire
<1>9. ASSUME StartReaper \/ StopReaper PROVE P
  BY <1>9 DEF StartReaper, StopReaper
<1> QED
  BY <1>1, <1>2, <1>3, <1>4, <1>5, <1>6, <1>7, <1>8, <1>9, NextSplit

-----------------------------------------------------------------------------
(* The obligations of the clients: preserved while no client moves, and by    *)
(* every move of a client.                                                    *)
Obligations == ClientInv /\ NoOrphan /\ ShutdownDrains

LEMMA ClientsUnmoved ==
  ASSUME TypeInv, StageInv, Obligations, Next, UNCHANGED client,
         cancelling' \subseteq cancelling,
         \A t \in Tasks : status'[t] \in Active /\ runner'[t] = "done"
           => (status[t] \in Active /\ runner[t] = "done") \/ t \in cancelling
  PROVE  Obligations'
<1>1. ClientInv'
  BY BornStays DEF ClientInv, Obligations, TypeInv, ClientState
<1>2. NoOrphan'
  BY DEF NoOrphan, ClientInv, Obligations
<1>3. ShutdownDrains'
  <2> SUFFICES ASSUME NEW c \in Clients, NEW t \in client[c].visited \ {client[c].target}
               PROVE  status'[t] \notin Active
    BY DEF ShutdownDrains
  <2>1. t \in Tasks /\ status[t] \notin Active /\ status[t] # "unborn"
    BY DEF TypeInv, ClientState, Obligations, ClientInv, ShutdownDrains
  <2> QED
    BY <2>1, InactiveStays
<1> QED
  BY <1>1, <1>2, <1>3 DEF Obligations

(* A client that interrupts an active task either awaits it or has written    *)
(* CANCELLED, in both cases with `visited` extended by that task at most.     *)
LEMMA InterruptKeepsObligations ==
  ASSUME TypeInv, StageInv, Obligations, Next,
         NEW c \in Clients, NEW t \in Tasks, NEW next \in ClientState,
         client[c].target = NoTask, status[t] \in Active, Interrupt(c, t, next),
         next.target = NoTask, next.todo \subseteq client[c].todo,
         next.visited \subseteq client[c].visited \cup {t}, UNCHANGED runner
  PROVE  Obligations'
<1> USE ManagerAssumption DEF TypeInv, ClientState
<1>1. CASE t \in handles
  <2>1. /\ client' = [client EXCEPT ![c] = [next EXCEPT !.target = t]] /\ status' = status
        /\ cancelling' \subseteq cancelling \cup {t}
    BY <1>1 DEF Interrupt
  <2>2. ClientInv'
    BY <2>1 DEF ClientInv, Obligations, Active
  <2>3. NoOrphan'
    BY <2>1 DEF NoOrphan, Obligations
  <2>4. ShutdownDrains'
    BY <2>1 DEF ShutdownDrains, Obligations
  <2> QED
    BY <2>2, <2>3, <2>4 DEF Obligations
<1>2. CASE t \notin handles
  <2>1. /\ client' = [client EXCEPT ![c] = next] /\ cancelling' = cancelling
        /\ status' = [status EXCEPT ![t] = "cancelled"]
    BY <1>2 DEF Interrupt, Save
  <2>2. ClientInv'
    BY <2>1, BornStays DEF ClientInv, Obligations, Active
  <2>3. NoOrphan'
    BY <2>1 DEF NoOrphan, Obligations, Active
  <2>4. ShutdownDrains'
    BY <2>1 DEF ShutdownDrains, Obligations, Active
  <2> QED
    BY <2>2, <2>3, <2>4 DEF Obligations
<1> QED
  BY <1>1, <1>2

LEMMA NextObligations ==
  ASSUME TypeInv, StageInv, Obligations, Next PROVE Obligations'
<1> USE ManagerAssumption DEF TypeInv, ClientState
<1>1. ASSUME NEW t \in Tasks, Submit(t) \/ Attempt(t) \/ Acquire(t) PROVE Obligations'
  BY <1>1, ClientsUnmoved
  DEF Submit, Attempt, Acquire, StageInv, Stages, Active, Terminal, Save, Goto, records
<1>2. ASSUME NEW t \in Tasks, CallReturns(t) \/ CallRaises(t) \/ CallAbsorbsCancel(t)
      PROVE Obligations'
  BY <1>2, ClientsUnmoved
  DEF CallReturns, CallRaises, CallAbsorbsCancel, Settle, Active, Terminal, Save, Goto, records
<1>3. ASSUME NEW t \in Tasks, CancelledBeforeStart(t) \/ CancelledInside(t) PROVE Obligations'
  BY <1>3, ClientsUnmoved
  DEF CancelledBeforeStart, CancelledInside, Settle, Active, Terminal, Save, Goto, records
<1>4. ASSUME NEW t \in Tasks, DoneCallback(t) PROVE Obligations'
  BY <1>4, ClientsUnmoved DEF DoneCallback, records
<1>5. ASSUME NEW c \in Clients, NEW t \in Tasks, CancelCall(c, t) PROVE Obligations'
  <2>1. Idle \in ClientState
    BY DEF Idle
  <2> QED
    BY <1>5, <2>1, InterruptKeepsObligations DEF CancelCall, Idle
<1>6. ASSUME NEW c \in Clients, CancelSettled(c) \/ Shutdown(c) PROVE Obligations'
  <2>1. CASE CancelSettled(c)
    <3> DEFINE t == client[c].target
    <3>1. /\ t \in Tasks /\ runner[t] = "done" /\ status'[t] \notin Active
          /\ client' = [client EXCEPT ![c].target = NoTask] /\ cancelling' = cancelling
          /\ runner' = runner /\ \A u \in Tasks \ {t} : status'[u] = status[u]
      BY <2>1 DEF CancelSettled, Active, Save
    <3>2. ClientInv'
      BY <3>1, BornStays DEF ClientInv, Obligations, StageInv
    <3>3. NoOrphan'
      BY <3>1 DEF NoOrphan, Obligations
    <3>4. ShutdownDrains'
      BY <3>1 DEF ShutdownDrains, Obligations
    <3> QED
      BY <3>2, <3>3, <3>4 DEF Obligations
  <2>2. CASE Shutdown(c)
    <3>1. ClientInv'
      BY <2>2 DEF Shutdown, ClientInv, Obligations, Idle, WithStatus, Active, Terminal, records
    <3>2. NoOrphan'
      BY <2>2 DEF Shutdown, NoOrphan, Obligations, Idle, records
    <3>3. ShutdownDrains'
      BY <2>2 DEF Shutdown, ShutdownDrains, Obligations, Idle, records
    <3> QED
      BY <3>1, <3>2, <3>3 DEF Obligations
  <2> QED
    BY <1>6, <2>1, <2>2
<1>7. ASSUME NEW c \in Clients, ShutdownVisits(c) \/ ShutdownReturns(c) PROVE Obligations'
  <2>1. CASE ShutdownReturns(c)
    <3>1. ClientInv'
      BY <2>1 DEF ShutdownReturns, ClientInv, Obligations, Idle, records
    <3>2. NoOrphan'
      BY <2>1 DEF ShutdownReturns, NoOrphan, Obligations, Idle, records
    <3>3. ShutdownDrains'
      BY <2>1 DEF ShutdownReturns, ShutdownDrains, Obligations, Idle, records
    <3> QED
      BY <3>1, <3>2, <3>3 DEF Obligations
  <2>2. CASE ShutdownVisits(c)
    <3>1. PICK t \in client[c].todo : IF status[t] \in Active
                                     THEN Interrupt(c, t, ShutdownAfter(c, t))
                                     ELSE /\ client' = [client EXCEPT ![c] = ShutdownAfter(c, t)]
                                          /\ UNCHANGED <<status, cancelling>>
      BY <2>2 DEF ShutdownVisits
    <3>2a. t \in Tasks /\ client[c].target = NoTask /\ runner' = runner
      BY <2>2 DEF ShutdownVisits
    <3>2b. /\ ShutdownAfter(c, t).target = client[c].target
           /\ ShutdownAfter(c, t).todo = client[c].todo \ {t}
           /\ ShutdownAfter(c, t).visited = client[c].visited \cup {t}
      BY DEF ShutdownAfter
    <3>2c. ShutdownAfter(c, t) \in ClientState
      BY DEF ShutdownAfter
    <3>2. /\ t \in Tasks /\ ShutdownAfter(c, t) \in ClientState
          /\ client[c].target = NoTask /\ ShutdownAfter(c, t).target = NoTask
          /\ ShutdownAfter(c, t).todo = client[c].todo \ {t}
          /\ ShutdownAfter(c, t).visited = client[c].visited \cup {t} /\ runner' = runner
      BY <3>2a, <3>2b, <3>2c
    <3>3. CASE status[t] \in Active
      BY <3>1, <3>2, <3>3, InterruptKeepsObligations
    <3>4. CASE status[t] \notin Active
      <4>1. ClientInv'
        BY <3>1, <3>2, <3>4, SMTT(60) DEF ClientInv, Obligations
      <4>2. NoOrphan'
        BY <3>1, <3>2, <3>4 DEF NoOrphan, Obligations
      <4>3. ShutdownDrains'
        BY <3>1, <3>2, <3>4 DEF ShutdownDrains, Obligations
      <4> QED
        BY <4>1, <4>2, <4>3 DEF Obligations
    <3> QED
      BY <3>3, <3>4
  <2> QED
    BY <1>7, <2>1, <2>2
<1>8. ASSUME NEW S \in SUBSET Tasks, Expire(S) PROVE Obligations'
  BY <1>8, ClientsUnmoved DEF Expire, Active
<1>9. ASSUME StartReaper \/ StopReaper PROVE Obligations'
  BY <1>9, ClientsUnmoved DEF StartReaper, StopReaper, records
<1> QED
  BY <1>1, <1>2, <1>3, <1>4, <1>5, <1>6, <1>7, <1>8, <1>9, NextSplit

-----------------------------------------------------------------------------
LEMMA StutterIInv == ASSUME IInv, UNCHANGED vars PROVE IInv'
BY DEF IInv, TypeInv, StageInv, PermitsConserved, ClientInv, NoOrphan, ShutdownDrains,
       vars, Calling, WithStatus

(* IInv is inductive, and implies every safety property of the manager.       *)
THEOREM InductiveInvariant == Spec => []IInv
<1>1. IInv /\ [Next]_vars => IInv'
  BY NextTypeInv, NextStageInv, NextPermits, NextObligations, StutterIInv
  DEF IInv, Obligations
<1> QED
  BY InitIInv, <1>1, PTL DEF Spec

(* Every variable keeps its type; permits stay within 0..max_concurrent and   *)
(* retry counts within their budget.                                          *)
THEOREM TypeCorrect == Spec => []TypeOK
<1>1. IInv => TypeOK
  <2> SUFFICES ASSUME IInv PROVE TypeOK
    OBVIOUS
  <2>1. Cardinality(Calling) \in Nat
    BY ManagerAssumption, FS_Subset, FS_CardinalityType DEF Calling
  <2>2. permits \in Nat /\ permits + Cardinality(Calling) = MaxConcurrent
    BY DEF IInv, TypeInv, PermitsConserved
  <2>3. permits \in 0..MaxConcurrent
    BY <2>1, <2>2, ManagerAssumption
  <2> QED
    BY <2>3 DEF IInv, TypeInv, TypeOK
<1> QED
  BY InductiveInvariant, <1>1, PTL

(* A settled or expired record has no coroutine, call or write behind it.     *)
THEOREM SettledTasksAreStopped == Spec => []SettledMeansStopped
<1>1. IInv => SettledMeansStopped
  BY DEF IInv, TypeInv, StageInv, SettledMeansStopped, Stages, Active, Terminal
<1> QED
  BY InductiveInvariant, <1>1, PTL

(* No path through _run loses or duplicates a permit of the semaphore.        *)
THEOREM PermitsAreConserved == Spec => []PermitsConserved
<1>1. IInv => PermitsConserved
  BY DEF IInv
<1> QED
  BY InductiveInvariant, <1>1, PTL

(* An active record always has a coroutine or a canceller that settles it.    *)
THEOREM NoTaskIsOrphaned == Spec => []NoOrphan
<1>1. IInv => NoOrphan
  BY DEF IInv
<1> QED
  BY InductiveInvariant, <1>1, PTL

(* What shutdown() has passed stays settled.                                  *)
THEOREM ShutdownLeavesNothingActive == Spec => []ShutdownDrains
<1>1. IInv => ShutdownDrains
  BY DEF IInv
<1> QED
  BY InductiveInvariant, <1>1, PTL

-----------------------------------------------------------------------------
(* The instance has its own copy of FiniteSets.                               *)
LEMMA SameCardinality == \A S : Lifecycle!Cardinality(S) = Cardinality(S)
BY DEF Cardinality, Lifecycle!Cardinality

(* Refinement: the record's status, retry count and budget, seen alone, move  *)
(* as TaskLifecycle allows.                                                   *)
LEMMA StepRefines == ASSUME IInv, Next PROVE [Lifecycle!Next]_records
<1> DEFINE P == [Lifecycle!Next]_records
<1> USE DEF IInv, TypeInv, StageInv, Active, Terminal, Save, Goto, records, Settle,
            Lifecycle!Next, Lifecycle!Move, Lifecycle!Active, Lifecycle!Terminal
<1>0. /\ Lifecycle!WithStatus({"running"}) = WithStatus({"running"})
      /\ Lifecycle!WithStatus({"pending", "running"}) = WithStatus({"pending", "running"})
  BY DEF WithStatus, Lifecycle!WithStatus
<1>1. ASSUME NEW t \in Tasks, Submit(t) \/ Attempt(t) \/ Acquire(t) PROVE P
  <2>1. CASE Submit(t)
    <3>1. Lifecycle!Admit(t)
      BY <1>0, <2>1, SameCardinality DEF Submit, Lifecycle!Admit
    <3> QED
      BY <3>1
  <2>2. CASE Attempt(t)
    BY <2>2 DEF Attempt
  <2>3. CASE Acquire(t)
    <3>1. CASE status[t] \in Terminal
      BY <2>3, <3>1 DEF Acquire
    <3>2. CASE status[t] \notin Terminal
      <4>1. status[t] = "pending" /\ Save(t, "running") /\ UNCHANGED <<retries, budget>>
            /\ permits > 0
        BY <2>3, <3>2 DEF Acquire
      <4>2. Cardinality(Lifecycle!WithStatus({"running"})) < MaxConcurrent
        <5>1. Lifecycle!WithStatus({"running"}) = Calling
          BY <1>0 DEF PermitsConserved
        <5>2. Cardinality(Calling) \in Nat
          BY ManagerAssumption, FS_Subset, FS_CardinalityType DEF Calling
        <5> QED
          BY <4>1, <5>1, <5>2, ManagerAssumption DEF PermitsConserved
      <4>3. Lifecycle!Dispatch(t)
        BY <4>1, <4>2, SameCardinality DEF Lifecycle!Dispatch
      <4> QED
        BY <4>3
    <3> QED
      BY <3>1, <3>2
  <2> QED
    BY <1>1, <2>1, <2>2, <2>3
<1>2. ASSUME NEW t \in Tasks, CallReturns(t) \/ CallRaises(t) \/ CallAbsorbsCancel(t) PROVE P
  <2>1. CASE CallReturns(t)
    <3>1. Lifecycle!Complete(t)
      BY <2>1 DEF CallReturns, Lifecycle!Complete
    <3> QED
      BY <3>1
  <2>2. CASE CallRaises(t)
    <3>1. status[t] = "running" /\ retries[t] <= budget[t] /\ retries[t] \in Nat /\ budget[t] \in Nat
      BY <2>2, ManagerAssumption DEF CallRaises
    <3>2. Lifecycle!Retry(t) \/ Lifecycle!Fail(t)
      BY <2>2, <3>1 DEF CallRaises, Lifecycle!Retry, Lifecycle!Fail
    <3> QED
      BY <3>2
  <2>3. CASE CallAbsorbsCancel(t)
    BY <2>3 DEF CallAbsorbsCancel
  <2> QED
    BY <1>2, <2>1, <2>2, <2>3
<1>3. ASSUME NEW t \in Tasks, CancelledBeforeStart(t) \/ CancelledInside(t) PROVE P
  <2>1. CASE CancelledBeforeStart(t)
    BY <2>1 DEF CancelledBeforeStart
  <2>2. CASE CancelledInside(t)
    <3>1. Lifecycle!Cancel(t)
      BY <2>2 DEF CancelledInside, Lifecycle!Cancel
    <3> QED
      BY <3>1
  <2> QED
    BY <1>3, <2>1, <2>2
<1>4. ASSUME NEW t \in Tasks, DoneCallback(t) PROVE P
  BY <1>4 DEF DoneCallback
<1>5. ASSUME NEW c \in Clients, NEW t \in Tasks, CancelCall(c, t) PROVE P
  <2>1. Lifecycle!Cancel(t) \/ UNCHANGED records
    BY <1>5 DEF CancelCall, Interrupt, Lifecycle!Cancel
  <2> QED
    BY <2>1
<1>6. ASSUME NEW c \in Clients, CancelSettled(c) \/ Shutdown(c) PROVE P
  <2>1. CASE CancelSettled(c)
    <3> DEFINE t == client[c].target
    <3>1. t \in Tasks
      BY <2>1, ManagerAssumption DEF CancelSettled, ClientState
    <3>2. Lifecycle!Cancel(t) \/ UNCHANGED records
      BY <2>1, <3>1 DEF CancelSettled, Lifecycle!Cancel
    <3> QED
      BY <3>1, <3>2
  <2>2. CASE Shutdown(c)
    BY <2>2 DEF Shutdown
  <2> QED
    BY <1>6, <2>1, <2>2
<1>7. ASSUME NEW c \in Clients, ShutdownVisits(c) \/ ShutdownReturns(c) PROVE P
  <2>1. CASE ShutdownVisits(c)
    <3>1. PICK t \in client[c].todo : \/ status[t] \in Active /\ Interrupt(c, t, ShutdownAfter(c, t))
                                     \/ UNCHANGED status
      BY <2>1 DEF ShutdownVisits
    <3>2. t \in Tasks /\ UNCHANGED <<retries, budget>>
      BY <2>1 DEF ShutdownVisits, ClientState
    <3>3. Lifecycle!Cancel(t) \/ UNCHANGED records
      BY <3>1, <3>2 DEF Interrupt, Lifecycle!Cancel
    <3> QED
      BY <3>2, <3>3
  <2>2. CASE ShutdownReturns(c)
    BY <2>2 DEF ShutdownReturns
  <2> QED
    BY <1>7, <2>1, <2>2
<1>8. ASSUME NEW S \in SUBSET Tasks, Expire(S) PROVE P
  <2>1. Lifecycle!Expire(S)
    BY <1>8 DEF Expire, Lifecycle!Expire, WithStatus, Lifecycle!WithStatus
  <2> QED
    BY <2>1
<1>9. ASSUME StartReaper \/ StopReaper PROVE P
  BY <1>9 DEF StartReaper, StopReaper
<1> QED
  BY <1>1, <1>2, <1>3, <1>4, <1>5, <1>6, <1>7, <1>8, <1>9, NextSplit

(* AsyncTaskManager with an in-memory store implements TaskLifecycle.         *)
THEOREM ImplementsLifecycle == Spec => Implements
<1>1. Init => Lifecycle!Init
  BY DEF Init, Lifecycle!Init
<1>2. IInv /\ [Next]_vars => [Lifecycle!Next]_records
  BY StepRefines DEF vars, records
<1>3. <<status, retries, budget>> = records
  BY DEF records
<1> QED
  BY InductiveInvariant, <1>1, <1>2, <1>3, PTL
  DEF Spec, Implements, Lifecycle!Spec, Lifecycle!lifecycleVars, records
=============================================================================

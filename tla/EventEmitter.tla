----------------------------- MODULE EventEmitter -----------------------------
(***************************************************************************)
(* apcore.events: the emitter's subscriber list, its thread pool, the one  *)
(* event loop that deliveries take turns on, retries and dead letters, the *)
(* circuit breaker around a configured subscriber, and shutdown().         *)
(* Deliveries of one event to several subscribers interleave; those of two *)
(* events do not, since each holds the loop lock.                          *)
(***************************************************************************)
EXTENDS Naturals, FiniteSets

CONSTANTS Callers,      \* threads that call emit()
          Subscribers,
          Watchers,     \* the ones whose pattern names the dead-letter event
          Wrapped,      \* the ones behind a CircuitBreakerWrapper; none is a watcher here
          MaxAttempts,  \* retry.max_attempts
          OpenThreshold, MaxWorkers,
          MaxEvents     \* bound: events emitted

Events == 1..MaxEvents
NoEvent == 0

VARIABLES
  subscribed,  \* _subscribers
  down,        \* _shutdown
  pool,        \* the executor accepts work
  emitted,     \* events numbered so far
  deadLetter,  \* events whose type is apcore.event.delivery_failed
  audience,    \* the snapshot an event goes to
  future,      \* the state of an event's delivery
  at,          \* where each caller is: idle, or the event it is about to submit
  loop,        \* the event that holds the loop lock
  attempts,    \* of the delivery that holds it: attempts made for a subscriber
  turn,        \* and whether that subscriber is being tried, exhausted or done
  circuit,     \* state and consecutive failures of each wrapper
  closer,      \* where the thread in shutdown() is
  loopClosed

emitterVars == <<subscribed, down, pool, emitted, deadLetter, audience, future, at, loop,
                 attempts, turn, circuit, closer, loopClosed>>
delivery == <<loop, attempts, turn, circuit>>

Init == /\ subscribed = Subscribers /\ down = FALSE /\ pool = TRUE /\ emitted = 0
        /\ deadLetter = {} /\ audience = [e \in Events |-> {}]
        /\ future = [e \in Events |-> "none"] /\ at = [c \in Callers |-> NoEvent]
        /\ loop = NoEvent /\ attempts = [s \in Subscribers |-> 0]
        /\ turn = [s \in Subscribers |-> "done"]
        /\ circuit = [s \in Wrapped |-> [state |-> "CLOSED", failures |-> 0]]
        /\ closer = "idle" /\ loopClosed = FALSE

\* _matches_event(): the catch-all pattern does not match dead letters
Hears(s, e) == e \in deadLetter => s \in Watchers
Running == {e \in Events : future[e] = "running"}

-----------------------------------------------------------------------------
Subscribe(s) ==
  /\ s \notin subscribed /\ subscribed' = subscribed \cup {s}
  /\ UNCHANGED <<down, pool, emitted, deadLetter, audience, future, at, delivery, closer, loopClosed>>
Unsubscribe(s) ==
  /\ s \in subscribed /\ subscribed' = subscribed \ {s}
  /\ UNCHANGED <<down, pool, emitted, deadLetter, audience, future, at, delivery, closer, loopClosed>>

\* emit() up to the snapshot; it returns at once after a shutdown or without subscribers
Emit(c) ==
  /\ at[c] = NoEvent /\ ~down /\ subscribed # {} /\ emitted < MaxEvents
  /\ emitted' = emitted + 1 /\ at' = [at EXCEPT ![c] = emitted']
  /\ audience' = [audience EXCEPT ![emitted'] = subscribed]
  /\ deadLetter' \in {deadLetter, deadLetter \cup {emitted'}}
  /\ UNCHANGED <<subscribed, down, pool, future, delivery, closer, loopClosed>>

\* executor.submit(), which raises once the executor is shut down
Submit(c) ==
  /\ at[c] # NoEvent /\ at' = [at EXCEPT ![c] = NoEvent]
  /\ future' = [future EXCEPT ![at[c]] = IF pool THEN "queued" ELSE "refused"]
  /\ UNCHANGED <<subscribed, down, pool, emitted, deadLetter, audience, delivery, closer, loopClosed>>

-----------------------------------------------------------------------------
\* A pool thread runs _deliver() ...
Start(e) ==
  /\ future[e] = "queued" /\ Cardinality(Running) < MaxWorkers
  /\ future' = [future EXCEPT ![e] = "running"]
  /\ UNCHANGED <<subscribed, down, pool, emitted, deadLetter, audience, at, delivery, closer, loopClosed>>

\* ... and takes the loop lock
EnterLoop(e) ==
  /\ future[e] = "running" /\ loop = NoEvent /\ loop' = e
  /\ attempts' = [s \in Subscribers |-> 0]
  /\ turn' = [s \in Subscribers |-> IF s \in audience[e] /\ Hears(s, e) THEN "trying" ELSE "done"]
  /\ UNCHANGED <<subscribed, down, pool, emitted, deadLetter, audience, future, at, circuit,
                 closer, loopClosed>>

\* on_event() of a subscriber without a wrapper: it returns, or it raises and
\* is tried again after a delay, except that a dead letter is tried once
Deliver(s) ==
  /\ loop # NoEvent /\ turn[s] = "trying" /\ s \notin Wrapped
  /\ \/ turn' = [turn EXCEPT ![s] = "done"] /\ UNCHANGED attempts
     \/ /\ loop \notin deadLetter /\ attempts' = [attempts EXCEPT ![s] = @ + 1]
        /\ turn' = [turn EXCEPT ![s] = IF attempts'[s] < MaxAttempts THEN "trying" ELSE "exhausted"]
  /\ UNCHANGED <<subscribed, down, pool, emitted, deadLetter, audience, future, at, loop,
                 circuit, closer, loopClosed>>

\* The wrapper's emit() from the loop's own thread; a refusal is logged
Announce(emits) ==
  IF emits /\ ~down /\ subscribed # {} /\ emitted < MaxEvents
  THEN /\ emitted' = emitted + 1
       /\ audience' = [audience EXCEPT ![emitted'] = subscribed]
       /\ future' = [future EXCEPT ![emitted'] = IF pool THEN "queued" ELSE "refused"]
  ELSE UNCHANGED <<emitted, audience, future>>

\* CircuitBreakerWrapper.on_event(), which never raises
Skip(s) ==
  /\ circuit[s].state = "OPEN"
  /\ UNCHANGED <<circuit, emitted, audience, future>>
Succeed(s) ==
  /\ circuit[s].state # "OPEN"
  /\ circuit' = [circuit EXCEPT ![s] = [state |-> "CLOSED", failures |-> 0]]
  /\ Announce(circuit[s].state = "HALF_OPEN")
Fail(s) ==
  /\ circuit[s].state # "OPEN"
  /\ LET failures == circuit[s].failures + 1
         opens == circuit[s].state = "HALF_OPEN" \/ failures >= OpenThreshold
     IN  /\ circuit' = [circuit EXCEPT ![s] = [state |-> IF opens THEN "OPEN" ELSE @.state,
                                               failures |-> IF opens THEN OpenThreshold ELSE failures]]
         /\ Announce(opens)
DeliverWrapped(s) ==
  /\ loop # NoEvent /\ turn[s] = "trying" /\ turn' = [turn EXCEPT ![s] = "done"]
  /\ Skip(s) \/ Succeed(s) \/ Fail(s)
  /\ UNCHANGED <<subscribed, down, pool, deadLetter, at, loop, attempts, closer, loopClosed>>

\* _check_recovery() finds that the recovery window has passed
Recover(s) ==
  /\ circuit[s].state = "OPEN" /\ circuit' = [circuit EXCEPT ![s].state = "HALF_OPEN"]
  /\ loop # NoEvent /\ turn[s] = "trying"
  /\ UNCHANGED <<subscribed, down, pool, emitted, deadLetter, audience, future, at, loop,
                 attempts, turn, closer, loopClosed>>

\* _emit_dlq() and on_failure(): one attempt for each watcher, whatever it raises
GiveUp(s) ==
  /\ loop # NoEvent /\ turn[s] = "exhausted" /\ turn' = [turn EXCEPT ![s] = "done"]
  /\ UNCHANGED <<subscribed, down, pool, emitted, deadLetter, audience, future, at, loop,
                 attempts, circuit, closer, loopClosed>>

LeaveLoop ==
  /\ loop # NoEvent /\ \A s \in Subscribers : turn[s] = "done"
  /\ loop' = NoEvent /\ future' = [future EXCEPT ![loop] = "done"]
  /\ UNCHANGED <<subscribed, down, pool, emitted, deadLetter, audience, at, attempts, turn,
                 circuit, closer, loopClosed>>

-----------------------------------------------------------------------------
\* shutdown(): a second call returns at once; flush() waits at most its timeout
\* for each delivery, so it may return before any of them has ended
Shutdown == /\ closer = "idle" /\ closer' = "flush" /\ down' = TRUE
            /\ UNCHANGED <<subscribed, pool, emitted, deadLetter, audience, future, at, delivery, loopClosed>>

ClosePoolOnly == /\ closer = "flush" /\ closer' = "wait" /\ pool' = FALSE
                 /\ UNCHANGED <<subscribed, down, emitted, deadLetter, audience, future, at, delivery, loopClosed>>

\* executor.shutdown(cancel_futures=True) ...
ClosePool == /\ closer = "flush" /\ closer' = "wait" /\ pool' = FALSE
             /\ future' = [e \in Events |-> IF future[e] = "queued" THEN "cancelled" ELSE future[e]]
             /\ UNCHANGED <<subscribed, down, emitted, deadLetter, audience, at, delivery, loopClosed>>

CloseLoopUnawaited ==
  /\ closer = "wait" /\ loop = NoEvent
  /\ closer' = "returned" /\ loopClosed' = TRUE
  /\ UNCHANGED <<subscribed, down, pool, emitted, deadLetter, audience, future, at, delivery>>

\* ... waits for the pool's threads, and then the loop is closed under its lock
CloseLoop ==
  /\ closer = "wait" /\ Running = {} /\ loop = NoEvent
  /\ closer' = "returned" /\ loopClosed' = TRUE
  /\ UNCHANGED <<subscribed, down, pool, emitted, deadLetter, audience, future, at, delivery>>

Next == \/ \E c \in Callers : Emit(c) \/ Submit(c)
        \/ \E e \in Events : Start(e) \/ EnterLoop(e)
        \/ \E s \in Subscribers : Subscribe(s) \/ Unsubscribe(s) \/ Deliver(s) \/ GiveUp(s)
        \/ \E s \in Wrapped : DeliverWrapped(s) \/ Recover(s)
        \/ LeaveLoop \/ Shutdown \/ ClosePool \/ CloseLoop

Spec == Init /\ [][Next]_emitterVars

-----------------------------------------------------------------------------
(* No delivery starts, or goes on, on a closed loop: an event that got into *)
(* the pool before a shutdown is delivered in full or cancelled, one that a *)
(* caller submits later is refused, and none is left queued for good.       *)
NothingOutlivesShutdown ==
  loopClosed => loop = NoEvent /\ \A e \in Events : future[e] \notin {"queued", "running"}
=============================================================================

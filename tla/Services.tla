------------------------------- MODULE Services -------------------------------
(* The components beside the call path: the circuit breaker, the span        *)
(* processor, the event emitter, the error history and the control modules.  *)
(* They share no state; each moves by itself, in any interleaving with the   *)
(* others.                                                                   *)
EXTENDS CircuitBreaker

CONSTANTS
  MaxSpans, Flushers, Closers, Worker, MaxQueueSize, MaxExportBatchSize,  \* spans
  Emitters, Subscribers, Watchers, Wrapped, MaxAttempts, OpenThreshold, MaxWorkers, MaxEvents,
  Recorders, Fingerprints, MaxPerModule, MaxTotal, MaxRecords, MaxClock,    \* errors
  Callers, Keys, Constrained, Toggles, Values, Valid, FileConfig, None, MaxRestarts

VARIABLES
  ended, queue, spansDropped, uncounted, batch, exported, spanAt, closing, signal, signalled,
  closed, gaveUp, due,
  subscribed, down, pool, emitted, deadLetter, audience, future, emitAt, loop, attempts, turn,
  circuit, closer, loopClosed,
  clock, history, recording,
  persistence, config, disabled, overrides, lock, changing, saved, overlapped, restarts

Span == INSTANCE SpanProcessor WITH at <- spanAt
Emitter == INSTANCE EventEmitter WITH Callers <- Emitters, at <- emitAt
Recorder == INSTANCE ErrorHistory WITH Threads <- Recorders, call <- recording
Control == INSTANCE SystemControl WITH Modules <- Toggles, call <- changing

(* The settings an update names are not module ids, nobody calls himself     *)
(* None, and the configuration file on disk is within the constraints.       *)
ASSUME ControlAssumption == /\ None \notin Callers /\ Keys \cap Toggles = {}
                            /\ DOMAIN FileConfig = Keys
                            /\ \A k \in Keys : Control!Accepted(k, FileConfig[k])
ASSUME BoundsAssumption == {MaxSpans, MaxEvents, MaxPerModule, MaxTotal} \subseteq Nat

spans == <<ended, queue, spansDropped, uncounted, batch, exported, spanAt, closing, signal,
           signalled, closed, gaveUp, due>>
events == <<subscribed, down, pool, emitted, deadLetter, audience, future, emitAt, loop, attempts,
            turn, circuit, closer, loopClosed>>
errors == <<clock, history, recording>>
control == <<persistence, config, disabled, overrides, lock, changing, saved, overlapped,
             restarts>>

ServicesInit == Init /\ Span!Init /\ Emitter!Init /\ Recorder!Init /\ Control!Init

BreakerMoves == Next /\ UNCHANGED <<spans, events, errors, control>>
SpansMove == Span!Next /\ UNCHANGED <<vars, events, errors, control>>
EventsMove == Emitter!Next /\ UNCHANGED <<vars, spans, errors, control>>
ErrorsMove == Recorder!Next /\ UNCHANGED <<vars, spans, events, control>>
ControlMoves == Control!Next /\ UNCHANGED <<vars, spans, events, errors>>

ServicesNext == BreakerMoves \/ SpansMove \/ EventsMove \/ ErrorsMove \/ ControlMoves

ServicesSpec == ServicesInit /\ [][ServicesNext]_<<vars, spans, events, errors, control>>

-----------------------------------------------------------------------------
(* Every span that ended is queued, taken, exported once or counted.        *)
SpansAreAccountedFor == Span!SpansAreAccountedFor

(* No delivery is left in the pool or on the loop once shutdown() returned. *)
NothingOutlivesShutdown == Emitter!NothingOutlivesShutdown

(* Each listed error has a live item in the heap and is in its module's deque. *)
ListedEverywhere == Recorder!ListedEverywhere

(* A value that update_config rejected is neither persisted nor left set.   *)
RejectedLeavesNoTrace == Control!RejectedLeavesNoTrace

(* Through overrides_path, no concurrent update or toggle is lost.          *)
NoLostOverride == Control!NoLostOverride
=============================================================================

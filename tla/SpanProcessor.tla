---------------------------- MODULE SpanProcessor ----------------------------
(***************************************************************************)
(* apcore.observability.batch_span_processor.BatchSpanProcessor: a bounded *)
(* queue filled by the threads that end spans and emptied, a batch at a    *)
(* time, by the background worker, by callers of force_flush() and by      *)
(* callers of shutdown().  The queue's operations are atomic; everything   *)
(* between two of them interleaves.  A deadline is a choice to give up.    *)
(***************************************************************************)
EXTENDS Naturals, Sequences, FiniteSets, Functions

CONSTANTS MaxSpans,        \* bound: spans that end during the life of the processor
          Flushers,        \* threads that call force_flush()
          Closers,         \* threads that call shutdown()
          Worker,          \* the background thread
          MaxQueueSize, MaxExportBatchSize

Spans == 1..MaxSpans       \* numbered in the order they end
Threads == Flushers \cup Closers \cup {Worker}

VARIABLES
  ended,         \* number of the last span passed to on_span_end()
  queue,         \* _queue, oldest span first
  spansDropped,  \* _spans_dropped
  uncounted,     \* calls of on_span_end() that Full refused and that have not counted it yet
  batch,         \* the batch a thread has taken and not exported yet
  exported,      \* how often each span was handed to exporter.export()
  at,            \* where each thread is
  closing,       \* _shutdown_called
  signal,        \* _shutdown_event is set
  signalled,     \* what the worker's last wait() returned
  closed,        \* exporter.shutdown() has been called
  gaveUp,        \* a shutdown's join() timed out
  due            \* the spans that were in the queue when shutdown() began

spanVars == <<ended, queue, spansDropped, uncounted, batch, exported, at, closing, signal,
              signalled, closed, gaveUp, due>>

Init == /\ ended = 0 /\ queue = <<>> /\ spansDropped = 0 /\ uncounted = 0 /\ due = {}
        /\ exported = [s \in Spans |-> 0]
        /\ batch = [t \in Threads |-> <<>>]
        /\ at = [t \in Threads |-> IF t = Worker THEN "wait" ELSE "idle"]
        /\ closing = FALSE /\ signal = FALSE /\ signalled = FALSE
        /\ closed = FALSE /\ gaveUp = FALSE

Goto(t, place) == at' = [at EXCEPT ![t] = place]

-----------------------------------------------------------------------------
OnSpanEndUncounted ==
  /\ ended < MaxSpans /\ ended' = ended + 1
  /\ queue' = IF Len(queue) < MaxQueueSize THEN Append(queue, ended') ELSE queue
  /\ UNCHANGED <<spansDropped, uncounted, batch, exported, at, closing, signal, signalled, closed,
                 gaveUp, due>>

\* put_nowait(), which may raise Full; also after a shutdown
OnSpanEnd ==
  /\ ended < MaxSpans /\ ended' = ended + 1
  /\ \/ /\ Len(queue) < MaxQueueSize
        /\ queue' = Append(queue, ended') /\ UNCHANGED uncounted
     \/ /\ Len(queue) = MaxQueueSize
        /\ uncounted' = uncounted + 1 /\ UNCHANGED queue
  /\ UNCHANGED <<spansDropped, batch, exported, at, closing, signal, signalled, closed, gaveUp,
                 due>>

\* ... and then, under the counter's own lock
CountDropped ==
  /\ uncounted > 0 /\ uncounted' = uncounted - 1 /\ spansDropped' = spansDropped + 1
  /\ UNCHANGED <<ended, queue, batch, exported, at, closing, signal, signalled, closed, gaveUp,
                 due>>

\* _flush(): get_nowait() until the batch is full or the queue is empty ...
Take(t) ==
  /\ at[t] = "take"
  /\ IF queue # <<>> /\ Len(batch[t]) < MaxExportBatchSize
     THEN /\ batch' = [batch EXCEPT ![t] = Append(@, Head(queue))]
          /\ queue' = Tail(queue) /\ UNCHANGED at
     ELSE Goto(t, "export") /\ UNCHANGED <<batch, queue>>
  /\ UNCHANGED <<ended, spansDropped, uncounted, exported, closing, signal, signalled, closed,
                 gaveUp, due>>

\* ... then export() each span; an exporter that raises loses that span only
Export(t) ==
  /\ at[t] = "export" /\ batch[t] # <<>>
  /\ exported' = [exported EXCEPT ![Head(batch[t])] = @ + 1]
  /\ batch' = [batch EXCEPT ![t] = Tail(@)]
  /\ UNCHANGED <<ended, queue, spansDropped, uncounted, at, closing, signal, signalled, closed,
                 gaveUp, due>>

\* What follows _flush() in the loop of each thread
FlushDone(t) ==
  /\ at[t] = "export" /\ batch[t] = <<>>
  /\ Goto(t, CASE t = Worker   -> IF signalled THEN "exited" ELSE "wait"
               [] t \in Flushers -> IF queue = <<>> THEN "flushed" ELSE "flush"
               [] t \in Closers  -> "close")
  /\ UNCHANGED <<ended, queue, spansDropped, uncounted, batch, exported, closing, signal,
                 signalled, closed, gaveUp, due>>

-----------------------------------------------------------------------------
\* _run(): the event, or the delay, ends the wait
Wake == /\ at[Worker] = "wait" /\ signalled' = signal /\ Goto(Worker, "take")
        /\ UNCHANGED <<ended, queue, spansDropped, uncounted, batch, exported, closing, signal,
                       closed, gaveUp, due>>

\* force_flush(): another round before the deadline, or give up after it
ForceFlush(t) ==
  /\ at[t] \in {"idle", "flush"} /\ Goto(t, "take")
  /\ UNCHANGED <<ended, queue, spansDropped, uncounted, batch, exported, closing, signal,
                 signalled, closed, gaveUp, due>>
FlushExpires(t) ==
  /\ at[t] \in {"idle", "flush"}
  /\ Goto(t, IF queue = <<>> THEN "flushed" ELSE "expired")
  /\ UNCHANGED <<ended, queue, spansDropped, uncounted, batch, exported, closing, signal,
                 signalled, closed, gaveUp, due>>

\* shutdown(): the flag is read and set without a lock, so two may get past it
Shutdown(t) ==
  /\ at[t] = "idle"
  /\ Goto(t, IF closing THEN "returned" ELSE "signal")
  /\ UNCHANGED <<ended, queue, spansDropped, uncounted, batch, exported, closing, signal,
                 signalled, closed, gaveUp, due>>
SignalWorker(t) ==
  /\ at[t] = "signal" /\ closing' = TRUE /\ signal' = TRUE /\ Goto(t, "join")
  /\ due' = IF closing THEN due ELSE Range(queue)
  /\ UNCHANGED <<ended, queue, spansDropped, uncounted, batch, exported, signalled, closed,
                 gaveUp>>

\* _thread.join(timeout)
Join(t) ==
  /\ at[t] = "join" /\ Goto(t, "take")
  /\ \/ at[Worker] = "exited" /\ UNCHANGED gaveUp
     \/ at[Worker] # "exited" /\ gaveUp' = TRUE
  /\ UNCHANGED <<ended, queue, spansDropped, uncounted, batch, exported, closing, signal,
                 signalled, closed, due>>

\* exporter.shutdown(), whatever it raises
Close(t) == /\ at[t] = "close" /\ closed' = TRUE /\ Goto(t, "returned")
            /\ UNCHANGED <<ended, queue, spansDropped, uncounted, batch, exported, closing, signal,
                           signalled, gaveUp, due>>

Next == \/ OnSpanEnd \/ CountDropped
        \/ \E t \in Threads : Take(t) \/ Export(t) \/ FlushDone(t)
        \/ Wake
        \/ \E t \in Flushers : ForceFlush(t) \/ FlushExpires(t)
        \/ \E t \in Closers : Shutdown(t) \/ SignalWorker(t) \/ Join(t) \/ Close(t)

Spec == Init /\ [][Next]_spanVars

-----------------------------------------------------------------------------
Lost == {s \in Spans : /\ s <= ended /\ exported[s] = 0 /\ s \notin Range(queue)
                        /\ \A t \in Threads : s \notin Range(batch[t])}

(* Whichever threads flush at the same time, a span that ended is in the    *)
(* queue, in one thread's batch, exported once, or counted in spansDropped as *)
(* soon as the thread that could not enqueue it has come to that.           *)
SpansAreAccountedFor ==
  /\ Cardinality(Lost) = spansDropped + uncounted
  /\ \A s \in Spans :
       /\ exported[s] <= 1
       /\ exported[s] = 1 => s \notin Range(queue) /\ \A t \in Threads : s \notin Range(batch[t])
       /\ \A t, u \in Threads : s \in Range(batch[t]) \cap Range(batch[u]) => t = u

(* The module's docstring: "shutdown() flushes remaining spans within       *)
(* export_timeout_ms".                                                      *)
ShutdownFlushes == closed /\ ~gaveUp => due \cap Range(queue) = {}
=============================================================================

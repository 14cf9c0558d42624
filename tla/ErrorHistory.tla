----------------------------- MODULE ErrorHistory -----------------------------
(***************************************************************************)
(* apcore.observability.error_history.ErrorHistory: error entries with an  *)
(* index by fingerprint, a deque per module, and a heap by last occurrence *)
(* with lazy deletion.  An entry is a mutable object; the model numbers    *)
(* the objects.  The time is read in milliseconds before the lock is       *)
(* taken, so two calls may share one and may record in the other order.    *)
(***************************************************************************)
EXTENDS Naturals, Sequences, FiniteSets, Functions, FiniteSetsExt

CONSTANTS Threads,
          Fingerprints,    \* pairs of a module and a kind of error
          MaxPerModule, MaxTotal,
          MaxRecords,      \* bound: calls of record()
          MaxClock         \* bound: milliseconds

Modules == {e[1] : e \in Fingerprints}

VARIABLES
  clock,    \* milliseconds
  history,  \* what _lock protects:
            \*   entries  the ErrorEntry objects ever made, by number
            \*   index    _fp_index: fingerprint to object
            \*   deque    _module_index: module to its objects, oldest first
            \*   heap     _heap: <<last_occurred, seq, object>>
            \*   seq      _seq
  call      \* the record() each thread is in: its fingerprint and time

historyVars == <<clock, history, call>>

Idle == <<>>

Init == /\ clock = 0 /\ call = [t \in Threads |-> Idle]
        /\ history = [entries |-> <<>>, index |-> [x \in {} |-> 0], heap |-> {}, seq |-> 0,
                      deque |-> [m \in Modules |-> <<>>]]

Fingerprint(h, id) == h.entries[id].fp
Without(f, key) == Restrict(f, DOMAIN f \ {key})
With(f, key, value) == [k \in DOMAIN f \cup {key} |-> IF k = key THEN value ELSE f[k]]

-----------------------------------------------------------------------------
EvictModuleKeepingFingerprint(h, m) ==
  IF Len(h.deque[m]) <= MaxPerModule THEN h ELSE [h EXCEPT !.deque[m] = Tail(@)]

\* _evict_module(): a record() adds one entry, so its loop runs at most once
EvictModule(h, m) ==
  IF Len(h.deque[m]) <= MaxPerModule THEN h
  ELSE [h EXCEPT !.deque[m] = Tail(@), !.index = Without(@, Fingerprint(h, Head(h.deque[m])))]

Before(a, b) == a[1] < b[1] \/ (a[1] = b[1] /\ a[2] < b[2])

\* Neither evicted, as far as its fingerprint tells, nor refreshed since
Live(h, item) == /\ Fingerprint(h, item[3]) \in DOMAIN h.index
                 /\ h.entries[item[3]].last = item[1]

\* deque.remove() takes out the first entry that is equal field by field
RemoveEqual(h, ids, id) ==
  LET equal == {i \in DOMAIN ids : h.entries[ids[i]] = h.entries[id]}
  IN  IF equal = {} THEN ids
      ELSE SubSeq(ids, 1, Min(equal) - 1) \o SubSeq(ids, Min(equal) + 1, Len(ids))

\* _pop_oldest(): skip what is not live, then drop the first that is
PopOldest(h) ==
  LET live == {x \in h.heap : Live(h, x)}
      first == CHOOSE x \in live : \A y \in live \ {x} : Before(x, y)
      fp == Fingerprint(h, first[3])
  IN  [h EXCEPT !.index = Without(@, fp),
                !.deque[fp[1]] = RemoveEqual(h, @, first[3]),
                !.heap = {x \in @ : Before(first, x)}]

\* _evict_total(): likewise at most once
EvictTotal(h) == IF Cardinality(DOMAIN h.index) <= MaxTotal THEN h ELSE PopOldest(h)

\* An error that is already listed
Seen(entry, now) == [entry EXCEPT !.count = @ + 1, !.last = now]
Refresh(h, fp, now) ==
  [h EXCEPT !.entries[h.index[fp]] = Seen(@, now),
            !.seq = @ + 1,
            !.heap = @ \cup {<<now, h.seq + 1, h.index[fp]>>}]

\* An error that is not
Enter(h, fp, now) ==
  LET id == Len(h.entries) + 1
      new == [fp |-> fp, count |-> 1, first |-> now, last |-> now]
  IN  [h EXCEPT !.entries = Append(@, new),
                !.index = With(@, fp, id),
                !.deque[fp[1]] = Append(@, id),
                !.seq = @ + 1,
                !.heap = @ \cup {<<now, h.seq + 1, id>>}]
Add(h, fp, now) == EvictTotal(EvictModule(Enter(h, fp, now), fp[1]))

-----------------------------------------------------------------------------
\* record() up to the lock: the fingerprint and the time
Begin(t, fp) ==
  /\ call[t] = Idle /\ history.seq + Cardinality({u \in Threads : call[u] # Idle}) < MaxRecords
  /\ call' = [call EXCEPT ![t] = <<fp, clock>>]
  /\ UNCHANGED <<clock, history>>

\* The critical section
Record(t) ==
  /\ call[t] # Idle
  /\ LET fp == call[t][1]
         now == call[t][2]
     IN  history' = IF fp \in DOMAIN history.index THEN Refresh(history, fp, now)
                    ELSE Add(history, fp, now)
  /\ call' = [call EXCEPT ![t] = Idle]
  /\ UNCHANGED clock

Tick == /\ clock < MaxClock /\ clock' = clock + 1 /\ UNCHANGED <<history, call>>

Next == \/ \E t \in Threads : Record(t) \/ \E fp \in Fingerprints : Begin(t, fp)
        \/ Tick

Spec == Init /\ [][Next]_historyVars

(* Each error that get_all() lists is where the others look for it: in the  *)
(* heap, as it is now, for _pop_oldest() to evict it by, and in the deque   *)
(* of its module, for get() to list it.                                     *)
ListedEverywhere ==
  \A fp \in DOMAIN history.index :
    /\ \E item \in history.heap :
         item[3] = history.index[fp] /\ item[1] = history.entries[item[3]].last
    /\ \E i \in DOMAIN history.deque[fp[1]] : history.deque[fp[1]][i] = history.index[fp]

(* The class's docstring: an entry that is evicted for the total limit is   *)
(* removed "from all indexes", so get() lists what get_all() lists.         *)
EvictedEverywhere ==
  \A m \in Modules : \A i \in DOMAIN history.deque[m] :
    LET id == history.deque[m][i]
    IN  Fingerprint(history, id) \in DOMAIN history.index /\ history.index[Fingerprint(history, id)] = id
=============================================================================

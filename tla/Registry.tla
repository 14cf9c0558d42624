------------------------------ MODULE Registry ------------------------------
(***************************************************************************)
(* apcore.registry.Registry under several threads: registration with the   *)
(* on_load hook outside the lock, versions, unregistration, acquire and    *)
(* release with draining, hot reload of a changed file.  Each critical     *)
(* section under Registry._lock is one action; the hooks run between them. *)
(* Conflict detection is reduced to "the id is taken"; metadata, schemas,  *)
(* events and ephemeral ids are left out.                                  *)
(***************************************************************************)
EXTENDS Naturals, FiniteSets

CONSTANTS Ids,        \* module ids
          Instances,  \* module objects, each registered at most once
          Versions,   \* ordered as Registry orders version strings
          Threads,    \* threads that call the registry
          Drainers,   \* those that call safe_unregister()
          Watcher,    \* the file observer's dispatcher thread
          None

ASSUME RegistryAssumption == /\ Versions \subseteq Nat /\ IsFiniteSet(Versions)
                             /\ Drainers \cup {Watcher} \subseteq Threads /\ IsFiniteSet(Threads)
                             /\ None \notin Instances

VARIABLES
  modules,    \* _modules: what acquire() hands out
  store,      \* _versioned_modules: what get() hands out
  inFlight,   \* _in_flight: ids reserved while on_load runs
  draining,   \* _draining
  refs,       \* _ref_counts; 0 stands for a missing entry
  waiter,     \* _drain_events: the thread whose Event is registered for an id
  signalled,  \* threads whose Event is set
  thread,     \* what each thread is doing between two critical sections
  life        \* the hooks that have run on each instance

tables == <<modules, store, inFlight>>
drains == <<draining, refs, waiter, signalled>>
vars == <<modules, store, inFlight, draining, refs, waiter, signalled, thread, life>>

Ops == {"idle", "register", "versioned", "internal", "discover", "reload", "restore",
        "unload", "waiting", "clean", "forced", "cleaned", "gaveUp", "using"}
Idle == [op |-> "idle", id |-> None, inst |-> None, ver |-> None, old |-> None]
NoVersions == [v \in Versions |-> None]

Init == /\ modules = [id \in Ids |-> None]
        /\ store = [id \in Ids |-> NoVersions]
        /\ inFlight = {}
        /\ draining = {} /\ refs = [id \in Ids |-> 0]
        /\ waiter = [id \in Ids |-> None] /\ signalled = {}
        /\ thread = [th \in Threads |-> Idle]
        /\ life = [m \in Instances |-> "new"]

IsIdle(th) == thread[th] = Idle
IsCaller(th) == th # Watcher /\ IsIdle(th)
Become(th, state) == thread' = [thread EXCEPT ![th] = state]
Holders(id) == {th \in Threads : thread[th].op = "using" /\ thread[th].id = id}

Latest(versions) == LET present == {v \in Versions : versions[v] # None}
                    IN versions[CHOOSE v \in present : \A w \in present : w <= v]

-----------------------------------------------------------------------------
(* register(), register_internal() and discovery: reserve the id, run       *)
(* on_load outside the lock, publish.                                       *)
Taken(op, id) ==
  CASE op = "versioned" -> modules[id] # None /\ store[id] = NoVersions
    [] OTHER            -> modules[id] # None \/ id \in inFlight

PublishAtReserve(th, op, id) ==
  /\ IsCaller(th) /\ ~Taken(op, id)
  /\ \E m \in Instances, v \in Versions :
       /\ life[m] = "new" /\ life' = [life EXCEPT ![m] = "loading"]
       /\ Become(th, [op |-> op, id |-> id, inst |-> m, ver |-> v, old |-> None])
       /\ modules' = [modules EXCEPT ![id] = m]
  /\ inFlight' = IF op = "versioned" THEN inFlight ELSE inFlight \cup {id}
  /\ UNCHANGED <<store, drains>>

Reserve(th, op, id) ==
  /\ IsCaller(th) /\ ~Taken(op, id)
  /\ \E m \in Instances, v \in Versions :
       /\ life[m] = "new" /\ life' = [life EXCEPT ![m] = "loading"]
       /\ Become(th, [op |-> op, id |-> id, inst |-> m, ver |-> v, old |-> None])
  /\ inFlight' = IF op = "versioned" THEN inFlight ELSE inFlight \cup {id}
  /\ UNCHANGED <<modules, store, drains>>

Register(th, id) == Reserve(th, "register", id)
RegisterVersioned(th, id) == Reserve(th, "versioned", id)
RegisterInternal(th, id) == Reserve(th, "internal", id)
Discover(th, id) == Reserve(th, "discover", id)

Registering == {"register", "versioned", "internal", "discover"}

\* on_load raises: the reservation is dropped, the caller sees the error.
LoadFails(th) ==
  /\ thread[th].op \in Registering /\ life[thread[th].inst] = "loading"
  /\ life' = [life EXCEPT ![thread[th].inst] = "failed"]
  /\ inFlight' = inFlight \ {thread[th].id}
  /\ Become(th, Idle)
  /\ UNCHANGED <<modules, store, drains>>

LoadReturns(th) ==
  /\ thread[th].op \in Registering \cup {"reload", "restore"}
  /\ life[thread[th].inst] = "loading"
  /\ life' = [life EXCEPT ![thread[th].inst] = "live"]
  /\ UNCHANGED <<tables, drains, thread>>

\* register() points _modules at the latest version; the others at their own module.
Publish(th) ==
  LET op == thread[th].op  id == thread[th].id  m == thread[th].inst
      added == [store[id] EXCEPT ![thread[th].ver] = m]
  IN /\ op \in Registering \cup {"reload", "restore"} /\ life[m] = "live"
     /\ store' = IF op = "internal" THEN store ELSE [store EXCEPT ![id] = added]
     /\ modules' = [modules EXCEPT ![id] =
                      IF op \in {"register", "versioned"} THEN Latest(added) ELSE m]
     /\ inFlight' = IF op \in {"reload", "restore"} THEN inFlight ELSE inFlight \ {id}
     /\ Become(th, Idle)
     /\ UNCHANGED <<drains, life>>

-----------------------------------------------------------------------------
(* unregister(): one critical section, then on_unload on what _modules had. *)
Forget(id) ==
  /\ modules' = [modules EXCEPT ![id] = None]
  /\ store' = [store EXCEPT ![id] = NoVersions]
  /\ UNCHANGED inFlight

UnregisterAfterUnload(th, id) ==
  IF modules[id] = None
  THEN Become(th, Idle) /\ UNCHANGED <<tables, drains>>
  ELSE /\ Become(th, [Idle EXCEPT !.op = "unload", !.inst = modules[id]])
       /\ UNCHANGED <<tables, drains>>

UnregisterSection(th, id) ==
  IF modules[id] = None
  THEN Become(th, Idle) /\ UNCHANGED <<tables, drains>>
  ELSE /\ Forget(id)
       /\ draining' = draining \ {id}
       /\ waiter' = [waiter EXCEPT ![id] = None]
       /\ refs' = [refs EXCEPT ![id] = 0]
       /\ Become(th, [Idle EXCEPT !.op = "unload", !.inst = modules[id]])
       /\ UNCHANGED signalled

Unregister(th, id) ==
  /\ IsCaller(th) /\ modules[id] # None
  /\ UnregisterSection(th, id)
  /\ UNCHANGED life

Unload(th) ==
  /\ thread[th].op = "unload"
  /\ life' = [life EXCEPT ![thread[th].inst] = "unloaded"]
  /\ Become(th, Idle)
  /\ UNCHANGED <<tables, drains>>

-----------------------------------------------------------------------------
(* acquire(), release() and safe_unregister().                              *)
Acquire(th, id) ==
  /\ IsCaller(th) /\ id \notin draining /\ modules[id] # None
  /\ refs' = [refs EXCEPT ![id] = @ + 1]
  /\ Become(th, [Idle EXCEPT !.op = "using", !.id = id, !.inst = modules[id]])
  /\ UNCHANGED <<tables, draining, waiter, signalled, life>>

ReleaseWithoutSignal(th) ==
  LET id == thread[th].id IN
  /\ thread[th].op = "using"
  /\ refs' = [refs EXCEPT ![id] = IF @ <= 1 THEN 0 ELSE @ - 1]
  /\ signalled' = IF refs[id] < 1 /\ waiter[id] # None
                  THEN signalled \cup {waiter[id]} ELSE signalled
  /\ Become(th, Idle)
  /\ UNCHANGED <<tables, draining, waiter, life>>

\* A missing count reads as 1.
Release(th) ==
  LET id == thread[th].id IN
  /\ thread[th].op = "using"
  /\ refs' = [refs EXCEPT ![id] = IF @ <= 1 THEN 0 ELSE @ - 1]
  /\ signalled' = IF refs[id] <= 1 /\ waiter[id] # None
                  THEN signalled \cup {waiter[id]} ELSE signalled
  /\ Become(th, Idle)
  /\ UNCHANGED <<tables, draining, waiter, life>>

\* safe_unregister() up to the wait: old is what it is about to unload.
StartDrain(th, id) ==
  /\ th \in Drainers /\ IsIdle(th) /\ modules[id] # None
  /\ draining' = draining \cup {id}
  /\ waiter' = IF refs[id] > 0 THEN [waiter EXCEPT ![id] = th] ELSE waiter
  /\ signalled' = signalled \ {th}
  /\ Become(th, [Idle EXCEPT !.op = IF refs[id] > 0 THEN "waiting" ELSE "clean",
                             !.id = id, !.old = modules[id]])
  /\ UNCHANGED <<tables, refs, life>>

\* The wait ends with the Event set, or with the timeout.
Waited(th) ==
  /\ thread[th].op = "waiting"
  /\ Become(th, [thread[th] EXCEPT !.op = IF th \in signalled THEN "clean" ELSE "forced"])
  /\ UNCHANGED <<tables, drains, life>>

\* The second critical section, and the third: unregister().
Unmark(th) ==
  LET id == thread[th].id IN
  /\ thread[th].op \in {"clean", "forced"}
  /\ draining' = draining \ {id}
  /\ waiter' = [waiter EXCEPT ![id] = None]
  /\ refs' = [refs EXCEPT ![id] = 0]
  /\ Become(th, [thread[th] EXCEPT !.op = IF @ = "clean" THEN "cleaned" ELSE "gaveUp"])
  /\ UNCHANGED <<tables, signalled, life>>

Drained(th) ==
  /\ thread[th].op \in {"cleaned", "gaveUp"}
  /\ UnregisterSection(th, thread[th].id)
  /\ UNCHANGED life

-----------------------------------------------------------------------------
(* _handle_file_change() on the observer's thread: out of the tables,       *)
(* on_unload of the old module (folded in: nothing can see it any more),    *)
(* on_load of the new one, back into the tables; a failed on_load brings    *)
(* the old module back through on_load.  No id is reserved.                 *)
FileChanges(th, id) ==
  /\ th = Watcher /\ IsIdle(th)
  /\ \E m \in Instances, v \in Versions :
       /\ life[m] = "new"
       /\ life' = [x \in Instances |-> IF x = m THEN "loading"
                                       ELSE IF x = modules[id] THEN "unloaded" ELSE life[x]]
       /\ Become(th, [op |-> "reload", id |-> id, inst |-> m, ver |-> v, old |-> modules[id]])
  /\ Forget(id)
  /\ UNCHANGED drains

ReloadFails(th) ==
  /\ thread[th].op = "reload" /\ life[thread[th].inst] = "loading"
  /\ IF thread[th].old = None
     THEN /\ life' = [life EXCEPT ![thread[th].inst] = "failed"]
          /\ Become(th, Idle)
     ELSE /\ life' = [life EXCEPT ![thread[th].inst] = "failed", ![thread[th].old] = "loading"]
          /\ \E v \in Versions :
               Become(th, [thread[th] EXCEPT !.op = "restore", !.inst = thread[th].old, !.ver = v])
  /\ inFlight' = inFlight \ {thread[th].id}
  /\ UNCHANGED <<modules, store, drains>>

RestoreFails(th) ==
  /\ thread[th].op = "restore" /\ life[thread[th].inst] = "loading"
  /\ life' = [life EXCEPT ![thread[th].inst] = "failed"]
  /\ inFlight' = inFlight \ {thread[th].id}
  /\ Become(th, Idle)
  /\ UNCHANGED <<modules, store, drains>>

\* _handle_file_deletion()
FileDeleted(th, id) ==
  /\ th = Watcher /\ IsIdle(th) /\ modules[id] # None
  /\ Forget(id)
  /\ Become(th, [Idle EXCEPT !.op = "unload", !.inst = modules[id]])
  /\ UNCHANGED <<drains, life>>

-----------------------------------------------------------------------------
Next == \E th \in Threads :
          \/ LoadFails(th) \/ LoadReturns(th) \/ Publish(th) \/ Unload(th)
          \/ Release(th) \/ Waited(th) \/ Unmark(th) \/ Drained(th)
          \/ ReloadFails(th) \/ RestoreFails(th)
          \/ \E id \in Ids : \/ Register(th, id) \/ RegisterVersioned(th, id)
                             \/ RegisterInternal(th, id) \/ Discover(th, id)
                             \/ Unregister(th, id) \/ Acquire(th, id) \/ StartDrain(th, id)
                             \/ FileChanges(th, id) \/ FileDeleted(th, id)

Spec == Init /\ [][Next]_vars

-----------------------------------------------------------------------------
TypeOK ==
  /\ modules \in [Ids -> Instances \cup {None}]
  /\ store \in [Ids -> [Versions -> Instances \cup {None}]]
  /\ inFlight \subseteq Ids /\ draining \subseteq Ids
  /\ refs \in [Ids -> 0..Cardinality(Threads)]
  /\ waiter \in [Ids -> Threads \cup {None}] /\ signalled \subseteq Threads
  /\ \A th \in Threads : thread[th].op \in Ops
  /\ life \in [Instances -> {"new", "loading", "live", "failed", "unloaded"}]

Visible(id) == ({modules[id]} \cup {store[id][v] : v \in Versions}) \ {None}

(* Deferred publication (apcore #65): what get() and acquire() can return    *)
(* has completed on_load, and nothing is still visible once on_unload is due *)
(* or has run, whatever registrations, reloads and removals overlap; and the *)
(* two agree on whether an id is registered: no version outlives a removal.  *)
VisibleIsCurrent ==
  \A id \in Ids :
    /\ \A m \in Visible(id) :
         life[m] = "live" /\ \A th \in Threads : thread[th].op = "unload" => thread[th].inst # m
    /\ store[id] # NoVersions => modules[id] # None

(* No drain is stuck, although counts are kept per id and survive, or lose,  *)
(* a re-registration: a safe_unregister() whose Event is registered is       *)
(* signalled once nobody uses the module any more; it never waits for a user *)
(* that does not exist; and acquire() refuses an id only while some drain of *)
(* it is under way, however that ends and whatever removes the module.       *)
DrainsSettle ==
  \A id \in Ids :
    /\ waiter[id] # None /\ Holders(id) = {} =>
         waiter[id] \in signalled \/ thread[waiter[id]].op # "waiting"
    /\ refs[id] <= Cardinality(Holders(id))
    /\ id \in draining =>
         \E th \in Threads : thread[th].id = id /\ thread[th].op \in {"waiting", "clean", "forced"}

(* Overlapping removals, reloads and restores run on_unload once for each    *)
(* on_load: a module whose on_unload is due is loaded, and is due once.      *)
UnloadedOnce ==
  \A th \in Threads : thread[th].op = "unload" =>
    /\ life[thread[th].inst] = "live"
    /\ \A u \in Threads \ {th} : thread[th].inst \notin {thread[u].inst, thread[u].old}
                                  \/ thread[u].op \notin {"unload", "restore", "reload"}

(* safe_unregister() promises that True means no execution is in flight: the *)
(* module it unloads after a clean wait has no user.                         *)
CleanMeansUnused ==
  [][\A th \in Threads :
       /\ thread[th].op = "cleaned" /\ thread'[th].op = "unload"
       => \A u \in Threads : thread[u].op = "using" => thread[u].inst # thread'[th].inst]_vars
=============================================================================

------------------------------ MODULE Discovery ------------------------------
(***************************************************************************)
(* Registry.discover() and the ReloadModule control module over it, under  *)
(* several threads.  A discovery plans a batch from the extension files    *)
(* (scan, metadata, entry points, validation, load order), drops the ids   *)
(* in conflict and loads the rest one by one, each reserved, loaded        *)
(* outside the lock and published.  A reload unregisters a module, runs a  *)
(* whole discovery, and puts the previous instance back when that fails.   *)
(* The drain inside safe_unregister() is modelled in Registry; metadata    *)
(* merging, suspend and resume hooks, events and audit are left out.       *)
(***************************************************************************)
EXTENDS LoadOrder

CONSTANTS Ids,       \* module ids
          Ephemeral, \* those in the ephemeral.* namespace
          Disks,     \* what a scan can yield: sequences of files
          Callers,   \* threads
          MaxCalls,  \* calls made in a behaviour (bound)
          None

VARIABLES
  disk,       \* the extension files, in the order of the scan
  modules,    \* Registry._modules: the instance behind each id
  inFlight,   \* Registry._in_flight
  thread,     \* what each thread is doing
  calls,      \* calls made so far
  removed,    \* history: ids a client unregistered
  lost,       \* history: ids whose previous instance failed to load again
  overtaken,  \* history: ids another thread registered during their reload
  refused     \* history: ids whose previous instance register_internal() never takes

tables == <<modules, inFlight>>
history == <<removed, lost, overtaken, refused>>
vars == <<disk, modules, inFlight, thread, calls, removed, lost, overtaken, refused>>

\* An instance: who made it, for which id, at which version, and whether it declares
\* that it streams without a conformant stream() (streamless).
Booted(id, streamless) ==
  [id |-> id, by |-> "boot", version |-> <<1>>, streamless |-> streamless]

\* What register_internal() refuses whatever else is registered; of the two, register()
\* takes an ephemeral id, and discovery from files looks at neither.
Unfit(module) == module.id \in Ephemeral \/ module.streamless

\* What a thread is at (op), on whose behalf (call: the public call, as: what a
\* load is for), and what it has in hand.
Idle == [op |-> "idle", call |-> "none", as |-> "none", id |-> None, old |-> None,
         inst |-> None, order |-> <<>>, todo |-> <<>>, keep |-> {}]

Init == /\ disk \in Disks
        /\ \E on \in SUBSET Ids : \E streamless \in SUBSET on :
             modules = [id \in Ids |-> IF id \in on THEN Booted(id, id \in streamless) ELSE None]
        /\ inFlight = {} /\ thread = [t \in Callers |-> Idle] /\ calls = 0
        /\ removed = {id \in Ids : modules[id] = None} /\ lost = {}
        /\ overtaken = {} /\ refused = {}

Op(t) == thread[t].op
Become(t, state) == thread' = [thread EXCEPT ![t] = state]
GoesTo(t, op) == Become(t, [thread[t] EXCEPT !.op = op])

Starts(t, state) == /\ thread[t] = Idle /\ calls < MaxCalls
                    /\ calls' = calls + 1
                    /\ Become(t, state)
                    /\ UNCHANGED <<disk, tables, history>>

Taken(id) == id \in inFlight \/ modules[id] # None
Registered == {id \in Ids : modules[id] # None}

-----------------------------------------------------------------------------
(* The plan: all that a discovery does before it changes the registry.      *)
\* What is left of a list of which some places are kept
AtPlaces(list, places) == [k \in 1..Cardinality(places) |-> list[Sorted(places)[k]]]

\* Two files get one id through the id map: the later one counts.
LastOf(files, id) == files[CHOOSE i \in DOMAIN files :
                             /\ files[i].id = id
                             /\ \A j \in DOMAIN files : files[j].id = id => j <= i]

\* The pre-approval hook lets the file through, it imports, and the class is the one
\* its metadata names or the only one.
Importable(file) ==
  /\ file.approved /\ file.imports
  /\ IF file.entry # "none" THEN file.entry = "found" ELSE file.classes = 1

ValidClass(file) ==
  {"input_schema", "output_schema", "description", "execute"} \subseteq file.has

ValidClasses(files) ==
  LET importable == AtPlaces(files, {i \in DOMAIN files : Importable(files[i])})
  IN {id \in {f.id : f \in ToSet(importable)} : ValidClass(LastOf(importable, id))}

\* load_metadata(): unreadable metadata raises, and no file gives no metadata.
Metadata(files, id) == LastOf(files, id).meta

Batch(files) ==
  LET ids == Sorted(ValidClasses(files))
  IN [i \in DOMAIN ids |-> [id |-> ids[i],
                            deps |-> ParseDependencies(Metadata(files, ids[i]).deps)]]

\* What hints are checked against: the versions of the batch, then the registry's.
ModuleVersions(files) ==
  [id \in ValidClasses(files) \cup Registered |->
     IF id \in ValidClasses(files) THEN Metadata(files, id).version ELSE modules[id].version]

LoadOrderOf(files) ==
  ResolveDependencies(Batch(files), ValidClasses(files) \cup Registered, ModuleVersions(files))

\* One ephemeral name (before the id map) or one bad metadata file aborts the discovery; a file that
\* does not import, or whose class is invalid, is left out.
Aborts(files) == \/ \E f \in ToSet(disk) : f.ephemeral
                 \/ \E f \in ToSet(files) : f.meta.bad
                 \/ LoadOrderOf(files).outcome # "order"

\* A discovery that fails, or has no module left to load
Fails(t) == IF thread[t].call = "discover" THEN Become(t, Idle) ELSE GoesTo(t, "restore")

Plan(t) ==
  LET files == AtPlaces(disk, {i \in DOMAIN disk : disk[i].id \in thread[t].keep})
  IN /\ Op(t) = "plan"
     /\ IF Aborts(files) THEN Fails(t)
        ELSE Become(t, [thread[t] EXCEPT !.op = "filter", !.order = LoadOrderOf(files).path])
     /\ UNCHANGED <<disk, tables, calls, history>>

\* An id that an id map made illegal or reserved, or that is registered already.
Conflicting(id) == ~LastOf(disk, id).legal \/ modules[id] # None

FilterConflicts(t) ==
  /\ Op(t) = "filter"
  /\ Become(t, [thread[t] EXCEPT !.op = "reserve",
                                 !.order = AtPlaces(@, {i \in DOMAIN @ : ~Conflicting(@[i])})])
  /\ UNCHANGED <<disk, tables, calls, history>>

-----------------------------------------------------------------------------
(* Loading: reserve an id, run on_load without the lock, publish.           *)
Loads(t, id, inst, as) ==
  /\ inFlight' = inFlight \cup {id}
  /\ Become(t, [thread[t] EXCEPT !.op = "load", !.as = as, !.inst = inst])
  /\ UNCHANGED modules

Instance(t, file) ==
  [id |-> file.id, by |-> t, version |-> file.meta.version, streamless |-> file.streamless]

\* The module of a custom discoverer is constructed already, and has to pass register(),
\* which refuses an illegal id too.
Constructs(t, file) ==
  IF thread[t].call = "custom" THEN file.legal /\ ~Unfit(file) ELSE file.constructs

\* After the last of the batch, a reload looks for its module.
ReserveWhatWasFree(t) ==
  LET id == Head(thread[t].order) IN
  /\ Op(t) = "reserve"
  /\ IF thread[t].order = <<>>
     THEN /\ IF thread[t].call \in {"discover", "custom"} THEN Become(t, Idle)
             ELSE GoesTo(t, "find")
          /\ UNCHANGED tables
     ELSE IF Constructs(t, LastOf(disk, id)) /\ modules[id] = None
     THEN Loads(t, id, Instance(t, LastOf(disk, id)), "discovered")
     ELSE Become(t, [thread[t] EXCEPT !.order = Tail(@)]) /\ UNCHANGED tables
  /\ UNCHANGED <<disk, calls, history>>

Reserve(t) ==
  LET id == Head(thread[t].order) IN
  /\ Op(t) = "reserve"
  /\ IF thread[t].order = <<>>
     THEN /\ IF thread[t].call \in {"discover", "custom"} THEN Become(t, Idle)
             ELSE GoesTo(t, "find")
          /\ UNCHANGED tables
     ELSE IF Constructs(t, LastOf(disk, id)) /\ ~Taken(id)
     THEN Loads(t, id, Instance(t, LastOf(disk, id)), "discovered")
     ELSE Become(t, [thread[t] EXCEPT !.order = Tail(@)]) /\ UNCHANGED tables
  /\ UNCHANGED <<disk, calls, history>>

\* What a thread does once a load has ended, well or not
AfterLoad(t, published) ==
  CASE thread[t].as = "discovered" ->
         Become(t, [thread[t] EXCEPT !.op = "reserve", !.order = Tail(@)])
    [] thread[t].as = "again" -> GoesTo(t, IF published THEN "done" ELSE "restore")
    [] OTHER -> Become(t, Idle)

LoadReturns(t) ==
  /\ Op(t) = "load"
  /\ GoesTo(t, "publish")
  /\ UNCHANGED <<disk, tables, calls, history>>

LoadFails(t) ==
  /\ Op(t) = "load"
  /\ inFlight' = inFlight \ {thread[t].inst.id}
  /\ AfterLoad(t, FALSE)
  /\ lost' = IF thread[t].as = "restored" THEN lost \cup {thread[t].inst.id} ELSE lost
  /\ UNCHANGED <<disk, modules, calls, removed, overtaken, refused>>

Publish(t) ==
  LET id == thread[t].inst.id IN
  /\ Op(t) = "publish"
  /\ inFlight' = inFlight \ {id}
  /\ modules' = [modules EXCEPT ![id] = thread[t].inst]
  /\ AfterLoad(t, TRUE)
  /\ removed' = removed \ {id} /\ lost' = lost \ {id}
  /\ overtaken' = overtaken \ {id} /\ refused' = refused \ {id}
  /\ UNCHANGED <<disk, calls>>

-----------------------------------------------------------------------------
(* discover(), a custom discoverer, register() and unregister() by clients. *)
Discover(t, keep) == Starts(t, [Idle EXCEPT !.op = "plan", !.call = "discover", !.keep = keep])

\* _discover_custom(): the discoverer's modules, each through register().
DiscoverCustom(t, order) ==
  Starts(t, [Idle EXCEPT !.op = "reserve", !.call = "custom", !.order = order])

Register(t, id) ==
  /\ thread[t] = Idle /\ calls < MaxCalls /\ ~Taken(id)
  /\ calls' = calls + 1
  /\ Loads(t, id, [id |-> id, by |-> t, version |-> <<2>>, streamless |-> FALSE],
           "registered")
  /\ UNCHANGED <<disk, history>>

Unregister(t, id) ==
  /\ thread[t] = Idle /\ calls < MaxCalls /\ modules[id] # None
  /\ calls' = calls + 1
  /\ modules' = [modules EXCEPT ![id] = None]
  /\ removed' = removed \cup {id}
  /\ UNCHANGED <<disk, inFlight, thread, lost, overtaken, refused>>

-----------------------------------------------------------------------------
(* ReloadModule: one module, or all that match a pattern.                   *)
Reload(t, id) == Starts(t, [Idle EXCEPT !.op = "check", !.call = "reload", !.id = id, !.keep = Ids])

\* _topo_sort_modules(): dependencies among the matched first, else by name.
BulkOrder(ids) ==
  LET deps(id) == IF \E i \in DOMAIN disk : disk[i].id = id
                  THEN ParseDependencies(Metadata(disk, id).deps) ELSE <<>>
      batch == [i \in DOMAIN Sorted(ids) |->
                  [id |-> Sorted(ids)[i],
                   deps |-> SelectSeq(deps(Sorted(ids)[i]), LAMBDA d : d.id \in ids)]]
      result == ResolveDependencies(batch, ids, <<>>)
  IN IF result.outcome = "order" THEN result.path ELSE Sorted(ids)

ReloadBulk(t, ids) ==
  /\ ids # {} /\ ids \subseteq Registered
  /\ Starts(t, [Idle EXCEPT !.op = "take", !.call = "bulk", !.id = Head(BulkOrder(ids)),
                            !.todo = Tail(BulkOrder(ids)), !.keep = Ids])

CheckVersion(t) ==
  /\ Op(t) = "check"
  /\ IF modules[thread[t].id] = None THEN Become(t, Idle) ELSE GoesTo(t, "take")
  /\ UNCHANGED <<disk, tables, calls, history>>

Take(t) ==
  LET old == modules[thread[t].id] IN
  /\ Op(t) = "take"
  /\ Become(t, [thread[t] EXCEPT !.old = old,
                                 !.op = IF old = None /\ thread[t].call = "bulk"
                                        THEN "done" ELSE "unregister"])
  /\ UNCHANGED <<disk, tables, calls, history>>

SafeUnregister(t) ==
  /\ Op(t) = "unregister"
  /\ modules' = [modules EXCEPT ![thread[t].id] = None]
  /\ GoesTo(t, "plan")
  /\ overtaken' = IF modules[thread[t].id] \in {None, thread[t].old} THEN overtaken
                  ELSE overtaken \cup {thread[t].id}
  /\ UNCHANGED <<disk, inFlight, calls, removed, lost, refused>>

\* _rediscover_module(): the module must be there after the discovery.
Find(t) ==
  LET found == modules[thread[t].id] IN
  /\ Op(t) = "find"
  /\ Become(t, [thread[t] EXCEPT !.inst = found, !.op = IF found = None THEN "restore" ELSE "again"])
  /\ UNCHANGED <<disk, tables, calls, history>>

\* _reregister_module(): nothing to do unless it has been changed meanwhile.
Reregister(t) ==
  LET id == thread[t].id IN
  /\ Op(t) = "again"
  /\ IF modules[id] = thread[t].inst THEN GoesTo(t, "done") /\ UNCHANGED tables
     ELSE IF Unfit(thread[t].inst) \/ Taken(id) THEN GoesTo(t, "restore") /\ UNCHANGED tables
     ELSE Loads(t, id, thread[t].inst, "again")
  /\ UNCHANGED <<disk, calls, history>>

\* _restore_after_failed_reload(): through register_internal(), whose refusal is logged.
RestoreNothing(t) ==
  /\ Op(t) = "restore"
  /\ Become(t, Idle)
  /\ UNCHANGED <<disk, tables, calls, history>>

Restore(t) ==
  LET id == thread[t].id
      old == thread[t].old
  IN /\ Op(t) = "restore"
     /\ IF old = None \/ Unfit(old) \/ Taken(id) THEN Become(t, Idle) /\ UNCHANGED tables
        ELSE Loads(t, id, old, "restored")
     /\ overtaken' = IF old # None /\ id \in inFlight THEN overtaken \cup {id} ELSE overtaken
     /\ refused' = IF old # None /\ Unfit(old) /\ ~Taken(id) THEN refused \cup {id} ELSE refused
     /\ UNCHANGED <<disk, calls, removed, lost>>

Done(t) ==
  /\ Op(t) = "done"
  /\ Become(t, IF thread[t].todo = <<>> THEN Idle
               ELSE [Idle EXCEPT !.op = "take", !.call = "bulk", !.id = Head(thread[t].todo),
                                 !.todo = Tail(thread[t].todo), !.keep = Ids])
  /\ UNCHANGED <<disk, tables, calls, history>>

-----------------------------------------------------------------------------
Next == \E t \in Callers :
  \/ Plan(t) \/ FilterConflicts(t) \/ Reserve(t) \/ LoadReturns(t) \/ LoadFails(t) \/ Publish(t)
  \/ CheckVersion(t) \/ Take(t) \/ SafeUnregister(t) \/ Find(t) \/ Reregister(t)
  \/ Restore(t) \/ Done(t)
  \/ \E keep \in SUBSET Ids : Discover(t, keep) \/ ReloadBulk(t, keep)
  \/ \E id \in Ids : Register(t, id) \/ Unregister(t, id) \/ Reload(t, id)
  \/ DiscoverCustom(t, Sorted({disk[i].id : i \in DOMAIN disk}))

-----------------------------------------------------------------------------
(* A failed reload does not make a working module disappear (D-112): once   *)
(* every call has ended, a module that no client removed is registered,     *)
(* unless its previous instance failed to load again (rule 3), another      *)
(* thread registered the id between two steps of the reload, or the         *)
(* previous instance is one that register_internal() never takes: one under *)
(* an ephemeral id, or one that declares streaming without stream().        *)
ReloadKeepsTheModule ==
  (\A t \in Callers : thread[t] = Idle) =>
    Ids \subseteq Registered \cup removed \cup lost \cup overtaken \cup refused

(* Discoveries, reloads and registrations that overlap never put one        *)
(* instance in the place of another that is registered.                     *)
Replaces == \E id \in Ids : modules[id] # None /\ modules'[id] \notin {None, modules[id]}
=============================================================================

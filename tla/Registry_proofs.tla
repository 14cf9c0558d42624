--------------------------- MODULE Registry_proofs ---------------------------
(* For any number of ids, module objects, versions and threads: what is      *)
(* visible is loaded and current, every on_load is followed by one           *)
(* on_unload, and drains are woken and leave no mark.                        *)
EXTENDS Registry, FiniteSetTheorems, TLAPS

Loaders == Registering \cup {"reload", "restore"}
Draining == {"waiting", "clean", "forced"}

\* What a thread holds between two critical sections.
States == [op : Ops, id : Ids \cup {None}, inst : Instances \cup {None},
           ver : Versions \cup {None}, old : Instances \cup {None}]
Shape(th, s) ==
  /\ s.op \in Loaders => s.id \in Ids /\ s.inst \in Instances /\ s.ver \in Versions
  /\ s.op = "unload" => s.inst \in Instances /\ s.old = None
  /\ s.op \in Draining \cup {"cleaned", "gaveUp", "using"} => s.id \in Ids
  /\ s.op \in {"reload", "restore"} => th = Watcher
  /\ s.op = "restore" => s.old = s.inst
ThreadType == thread \in [Threads -> States] /\ \A th \in Threads : Shape(th, thread[th])

Types == /\ modules \in [Ids -> Instances \cup {None}]
         /\ store \in [Ids -> [Versions -> Instances \cup {None}]]
         /\ inFlight \subseteq Ids /\ draining \subseteq Ids
         /\ refs \in [Ids -> Nat]
         /\ waiter \in [Ids -> Threads \cup {None}] /\ signalled \subseteq Threads
         /\ life \in [Instances -> {"new", "loading", "live", "failed", "unloaded"}]

\* m stands in one of the tables under id.
Stands(id, m) == modules[id] = m \/ \E v \in Versions : store[id][v] = m

(* A module object has one owner: a thread that loads it, the tables (under  *)
(* one id), or a thread that is to unload it.                                *)
Owns(th) == thread[th].op \in Loaders \cup {"unload"}
StandsOnce ==
  \A id \in Ids, m \in Instances :
    Stands(id, m) => life[m] = "live" /\ \A other \in Ids : Stands(other, m) => other = id
Sole(th) ==
  Owns(th) =>
    /\ \A id \in Ids : ~Stands(id, thread[th].inst)
    /\ \A u \in Threads : Owns(u) /\ thread[u].inst = thread[th].inst => u = th
    /\ thread[th].op = "unload" => life[thread[th].inst] = "live"
    /\ thread[th].op \in Loaders => life[thread[th].inst] \in {"loading", "live"}
Replaced == thread[Watcher].op = "reload" /\ thread[Watcher].old # None =>
              life[thread[Watcher].old] = "unloaded"
NoGhost == \A id \in Ids : store[id] # NoVersions => modules[id] # None
Owned == StandsOnce /\ (\A th \in Threads : Sole(th)) /\ Replaced /\ NoGhost

(* The counts are covered by users, and a registered Event belongs to a      *)
(* drain of its id.                                                          *)
Counted == \A id \in Ids : refs[id] <= Cardinality(Holders(id))
Awaited ==
  \A id \in Ids : waiter[id] # None =>
    /\ thread[waiter[id]].id = id /\ thread[waiter[id]].op \in Draining
    /\ Holders(id) = {} => waiter[id] \in signalled \/ thread[waiter[id]].op # "waiting"
Marked == \A id \in draining :
            \E th \in Threads : thread[th].id = id /\ thread[th].op \in Draining

IInv == Types /\ ThreadType /\ Owned /\ Counted /\ Awaited /\ Marked

-----------------------------------------------------------------------------
(* A finite set of versions that is not empty has a latest one.              *)
LEMMA LatestExists ==
  ASSUME NEW S \in SUBSET Versions, S # {}
  PROVE  \E v \in S : \A w \in S : w <= v
<1> DEFINE Above(v) == {w \in S : w > v}
           Sets == {Above(v) : v \in S}
<1>1. S \subseteq Nat /\ IsFiniteSet(S) BY RegistryAssumption, FS_Subset
<1>2. FiniteSubsetsOf(S) = SUBSET S BY <1>1, FS_FiniteSubsetsOfFinite
<1>3. Sets \subseteq FiniteSubsetsOf(S) /\ Sets # {}
  <2>1. \A v \in S : Above(v) \in SUBSET S OBVIOUS
  <2>2. Sets \subseteq SUBSET S BY <2>1
  <2>3. PICK v \in S : TRUE OBVIOUS
  <2>4. Above(v) \in Sets BY <2>3
  <2>. QED BY <1>2, <2>2, <2>4
<1>4. PICK A \in Sets : \A B \in Sets : ~(<<B, A>> \in StrictSubsetOrdering(S))
  <2>. HIDE DEF Sets
  <2>. QED BY <1>3, FS_StrictSubsetOrderingWellFounded, WFMin
<1>5. PICK v \in S : A = Above(v) BY <1>4
<1>6. ASSUME NEW w \in S, w > v PROVE FALSE
  <2>1. Above(w) \subseteq Above(v)
    <3>1. \A u \in S : u > w => u > v
      <4>. SUFFICES ASSUME NEW u \in S, u > w PROVE u > v OBVIOUS
      <4>1. u \in Nat /\ w \in Nat /\ v \in Nat BY <1>1, <1>6
      <4>. QED BY <4>1, <1>6
    <3>. QED BY <3>1
  <2>2. w \in Above(v) /\ w \notin Above(w) BY <1>1, <1>6
  <2>3. <<Above(w), Above(v)>> \in StrictSubsetOrdering(S)
    BY <2>1, <2>2 DEF StrictSubsetOrdering
  <2>. QED BY <1>4, <1>5, <2>3
<1>. QED BY <1>1, <1>6

(* The latest version of a store to which a module was added is a module.    *)
LEMMA LatestIsPresent ==
  ASSUME NEW versions \in [Versions -> Instances \cup {None}],
         NEW v \in Versions, versions[v] # None
  PROVE  \E w \in Versions : Latest(versions) = versions[w] /\ versions[w] # None
<1> DEFINE present == {w \in Versions : versions[w] # None}
           top == CHOOSE w \in present : \A u \in present : u <= w
<1>1. \E w \in present : \A u \in present : u <= w BY LatestExists
<1>2. top \in present BY <1>1
<1>3. Latest(versions) = versions[top] BY DEF Latest
<1>. QED BY <1>2, <1>3

Ownership == Types /\ ThreadType /\ Owned
Drainage == Counted /\ Awaited /\ Marked
Owners == Loaders \cup {"unload"}
Others(th) == \A u \in Threads \ {th} : thread'[u] = thread[u]

LEMMA OpsApart ==
  /\ Loaders \cup {"unload"} \subseteq Ops /\ Draining \cup {"cleaned", "gaveUp", "using", "idle"} \subseteq Ops
  /\ Owners \cap (Draining \cup {"cleaned", "gaveUp", "using", "idle"}) = {}
  /\ Registering \cap {"reload", "restore"} = {}
BY DEF Loaders, Registering, Draining, Owners, Ops

LEMMA IdleType ==
  Idle \in States /\ Idle.op = "idle" /\ Idle.old = None /\ \A th : Shape(th, Idle)
BY DEF Idle, States, Ops, Shape, Loaders, Registering, Draining

LEMMA ThreadMoves ==
  ASSUME ThreadType, NEW th \in Threads, NEW s \in States, Shape(th, s),
         thread' = [thread EXCEPT ![th] = s]
  PROVE  ThreadType' /\ thread'[th] = s /\ Others(th)
<1>1. thread'[th] = s /\ Others(th) /\ thread' \in [Threads -> States] BY DEF ThreadType, Shape, Others
<1>2. \A u \in Threads : Shape(u, thread'[u]) BY <1>1 DEF ThreadType, Others
<1>. QED BY <1>1, <1>2 DEF ThreadType, Shape

(* An action that leaves the counts alone, of a thread that neither uses nor *)
(* drains a module and does not begin to use one, disturbs no drain.         *)
LEMMA DrainsUndisturbed ==
  ASSUME Types, ThreadType, Drainage, NEW th \in Threads, NEW s,
         thread[th].op \notin Draining \cup {"using"}, s.op # "using",
         thread' = [thread EXCEPT ![th] = s], UNCHANGED drains
  PROVE  Drainage'
<1>1. /\ thread'[th] = s /\ \A u \in Threads \ {th} : thread'[u] = thread[u]
      /\ UNCHANGED <<draining, refs, waiter, signalled>>
  BY DEF ThreadType, Shape, States, drains
<1>2. \A id \in Ids : Holders(id)' = Holders(id) BY <1>1 DEF Holders
<1>3. Counted' BY <1>1, <1>2 DEF Drainage, Counted
<1>4. Awaited'
  <2>. SUFFICES ASSUME NEW id \in Ids, waiter[id] # None
                PROVE  /\ thread'[waiter[id]].id = id /\ thread'[waiter[id]].op \in Draining
                       /\ Holders(id)' = {} => waiter[id] \in signalled
                                               \/ thread'[waiter[id]].op # "waiting"
    BY <1>1 DEF Awaited
  <2>1. waiter[id] \in Threads \ {th} BY DEF Drainage, Awaited, Types
  <2>. QED BY <1>1, <1>2, <2>1 DEF Drainage, Awaited
<1>5. Marked'
  <2>. SUFFICES ASSUME NEW id \in draining
                PROVE  \E u \in Threads : thread'[u].id = id /\ thread'[u].op \in Draining
    BY <1>1 DEF Marked
  <2>1. PICK u \in Threads : thread[u].id = id /\ thread[u].op \in Draining
    BY DEF Drainage, Marked
  <2>. QED BY <1>1, <2>1
<1>. QED BY <1>3, <1>4, <1>5 DEF Drainage

(* What a thread owns stays its own when another one moves on and touches    *)
(* neither the object nor its life.                                          *)
LEMMA OthersKeepTheirs ==
  ASSUME Ownership, NEW th \in Threads, Others(th), NEW u \in Threads \ {th},
         Owns(u) => /\ life'[thread[u].inst] = life[thread[u].inst]
                    /\ \A id \in Ids : Stands(id, thread[u].inst)' => Stands(id, thread[u].inst)
                    /\ Owns(th)' => thread'[th].inst # thread[u].inst
  PROVE  Sole(u)'
<1>1. thread'[u] = thread[u] /\ \A x \in Threads \ {th} : thread'[x] = thread[x] BY DEF Others
<1>2. Sole(u) BY DEF Ownership, Owned
<1>3. SUFFICES ASSUME Owns(u)
               PROVE  /\ \A id \in Ids : ~Stands(id, thread[u].inst)'
                      /\ \A x \in Threads : Owns(x)' /\ thread'[x].inst = thread'[u].inst => x = u
                      /\ thread'[u].op = "unload" => life'[thread'[u].inst] = "live"
                      /\ thread'[u].op \in Loaders => life'[thread'[u].inst] \in {"loading", "live"}
  BY <1>1 DEF Sole, Owns, Stands
<1>4. \A x \in Threads : Owns(x)' /\ thread'[x].inst = thread'[u].inst => x = u
  BY <1>1, <1>2, <1>3 DEF Sole, Owns
<1>. QED BY <1>1, <1>2, <1>3, <1>4 DEF Sole

(* One thread moves, and only the objects in N change their life or get into  *)
(* the tables: nobody else owned them, and what the thread owns now is one.   *)
LEMMA ObjectsMove ==
  ASSUME Ownership, NEW th \in Threads, Others(th), NEW N \in SUBSET Instances,
         \A n \in Instances \ N :
           life'[n] = life[n] /\ \A id \in Ids : Stands(id, n)' => Stands(id, n),
         \A u \in Threads \ {th} : Owns(u) => thread[u].inst \notin N,
         Owns(th)' => /\ thread'[th].inst \in N
                      /\ \A id \in Ids : ~Stands(id, thread[th].inst)'
                      /\ thread'[th].op = "unload" => life'[thread'[th].inst] = "live"
                      /\ thread'[th].op \in Loaders => life'[thread'[th].inst] \in {"loading", "live"}
  PROVE  \A u \in Threads : Sole(u)'
<1>. TAKE u \in Threads
<1>1. \A x \in Threads \ {th} : thread'[x] = thread[x] BY DEF Others
<1>2. CASE u = th
  <2>1. \A x \in Threads : Owns(x)' /\ Owns(th)' /\ thread'[x].inst = thread'[th].inst => x = th
    BY <1>1 DEF Owns
  <2>. QED BY <1>2, <2>1 DEF Sole
<1>3. CASE u # th
  <2>1. Owns(u) => thread[u].inst \in Instances \ N
    BY <1>3 DEF Ownership, ThreadType, Shape, States, Owns
  <2>2. Owns(u) => /\ life'[thread[u].inst] = life[thread[u].inst]
                   /\ \A id \in Ids : Stands(id, thread[u].inst)' => Stands(id, thread[u].inst)
                   /\ Owns(th)' => thread'[th].inst # thread[u].inst
    BY <1>1, <1>3, <2>1
  <2>. QED BY <1>3, <2>2, OthersKeepTheirs
<1>. QED BY <1>2, <1>3

LEMMA TablesShrink ==
  ASSUME StandsOnce,
         \A id \in Ids, n \in Instances : Stands(id, n)' => Stands(id, n) /\ life'[n] = "live"
  PROVE  StandsOnce'
BY DEF StandsOnce

(* An action that leaves tables and hooks alone, of a thread that neither    *)
(* owned a module object nor owns one now, disturbs no ownership.            *)
LEMMA OwnersUndisturbed ==
  ASSUME Ownership, NEW th \in Threads, NEW s,
         s.op \notin Owners, thread[th].op \notin Owners,
         thread' = [thread EXCEPT ![th] = s], UNCHANGED <<modules, store, life>>
  PROVE  Owned'
<1>1. thread'[th] = s /\ Others(th) BY DEF Ownership, ThreadType, Shape, States, Others
<1>2. ~Owns(th)' BY <1>1 DEF Owns, Owners
<1>3. \A id, m : Stands(id, m)' <=> Stands(id, m) BY DEF Stands
<1>4. \A u \in Threads : Sole(u)'
  <2> DEFINE N == {}
  <2>1. N \in SUBSET Instances OBVIOUS
  <2>2. \A n \in Instances \ N :
          life'[n] = life[n] /\ \A id \in Ids : Stands(id, n)' => Stands(id, n)
    BY <1>3
  <2>3. \A u \in Threads \ {th} : Owns(u) => thread[u].inst \notin N OBVIOUS
  <2>. HIDE DEF N
  <2>. QED BY <1>1, <1>2, <2>1, <2>2, <2>3, ObjectsMove
<1>5. thread'[Watcher].op = "reload" => thread'[Watcher] = thread[Watcher]
  BY <1>1, RegistryAssumption DEF Owners, Loaders, Others
<1>6. StandsOnce' /\ NoGhost' BY <1>3 DEF Ownership, Owned, StandsOnce, NoGhost
<1>7. Replaced' BY <1>5 DEF Ownership, Owned, Replaced
<1>. QED BY <1>4, <1>6, <1>7 DEF Owned

-----------------------------------------------------------------------------
(* A thread that is idle and reserves an id loads a module object nobody has *)
(* had.                                                                      *)
LEMMA ReserveIInv ==
  ASSUME IInv, NEW th \in Threads, NEW id \in Ids, NEW op \in Registering, Reserve(th, op, id)
  PROVE  IInv'
<1>. USE DEF IInv
<1>1. PICK m \in Instances, v \in Versions :
        /\ life[m] = "new" /\ life' = [life EXCEPT ![m] = "loading"]
        /\ thread' = [thread EXCEPT ![th] = [op |-> op, id |-> id, inst |-> m, ver |-> v, old |-> None]]
  BY DEF Reserve, Become
<1>2. th # Watcher /\ thread[th] = Idle BY DEF Reserve, IsCaller, IsIdle
<1>3. UNCHANGED <<modules, store, drains>> /\ inFlight' \subseteq inFlight \cup {id}
  BY DEF Reserve
<1> DEFINE s == [op |-> op, id |-> id, inst |-> m, ver |-> v, old |-> None]
<1>4. op \in Ops /\ op \in Loaders BY DEF Registering, Ops, Loaders
<1>5. thread'[th] = s /\ Others(th) BY <1>1 DEF ThreadType, Shape, States, Others
<1>6. Types' BY <1>1, <1>3 DEF Types, drains
<1>7. ThreadType'
  <2>1. s \in States BY <1>4 DEF States
  <2>2. Shape(th, s) BY <1>4, OpsApart DEF Shape, Owners, Registering, Draining
  <2>. QED BY <1>1, <2>1, <2>2, ThreadMoves
<1>8. Owned'
  <2>1. \A i, n : Stands(i, n)' <=> Stands(i, n) BY <1>3 DEF Stands
  <2>2. \A i \in Ids : ~Stands(i, m) BY <1>1 DEF Owned, StandsOnce
  <2>3. \A u \in Threads \ {th} : Owns(u) => thread[u].inst # m /\ thread[u].inst \in Instances
    BY <1>1 DEF Owned, Sole, Owns, Loaders, ThreadType, Shape, States
  <2>4. life'[m] = "loading" /\ \A n \in Instances \ {m} : life'[n] = life[n]
    BY <1>1 DEF Types
  <2>5. StandsOnce' /\ NoGhost' BY <1>3, <2>1, <2>2, <2>4 DEF Owned, StandsOnce, NoGhost
  <2>6. \A u \in Threads : Sole(u)'
    <3>1. thread'[th].inst = m /\ thread'[th].op \in Registering BY <1>5
    <3>2. \A i \in Ids : ~Stands(i, thread[th].inst)' BY <2>1, <2>2, <3>1 DEF Stands
    <3>3. thread'[th].op # "unload" BY <3>1 DEF Registering
    <3> DEFINE N == {m}
    <3>4. N \in SUBSET Instances /\ thread'[th].inst \in N BY <3>1
    <3>5. \A n \in Instances \ N :
            life'[n] = life[n] /\ \A i \in Ids : Stands(i, n)' => Stands(i, n)
      BY <2>1, <2>4
    <3>6. \A u \in Threads \ {th} : Owns(u) => thread[u].inst \notin N BY <2>3
    <3>7. life'[thread'[th].inst] = "loading" BY <2>4, <3>1
    <3>. HIDE DEF N
    <3>. QED BY <1>5, <3>2, <3>3, <3>4, <3>5, <3>6, <3>7, ObjectsMove DEF Ownership
  <2>7. Replaced'
    <3>1. thread'[Watcher] = thread[Watcher] BY <1>2, <1>5, RegistryAssumption DEF Others
    <3>2. thread[Watcher].old \in Instances \cup {None} BY RegistryAssumption DEF ThreadType, Shape, States
    <3>. QED BY <1>1, <2>4, <3>1, <3>2 DEF Owned, Replaced
  <2>. QED BY <2>5, <2>6, <2>7 DEF Owned
<1>9. Drainage'
  <2>1. thread[th].op \notin Draining \cup {"using"} /\ s.op # "using"
    BY <1>2, <1>4, IdleType, OpsApart DEF Draining, Owners
  <2>. QED BY <1>1, <1>3, <2>1, DrainsUndisturbed DEF Drainage
<1>. QED BY <1>6, <1>7, <1>8, <1>9 DEF Drainage

(* The thread that loads an object ends, or goes on with it alive: nothing   *)
(* else changes.                                                             *)
LEMMA LoaderIInv ==
  ASSUME IInv, NEW th \in Threads, thread[th].op \in Loaders, life[thread[th].inst] = "loading",
         UNCHANGED <<modules, store, drains>>, inFlight' \subseteq inFlight,
         \/ /\ thread' = [thread EXCEPT ![th] = Idle]
            /\ life' = [life EXCEPT ![thread[th].inst] = "failed"]
         \/ thread' = thread /\ life' = [life EXCEPT ![thread[th].inst] = "live"]
  PROVE  IInv'
<1>. USE DEF IInv
<1> DEFINE n == thread[th].inst
<1>1. n \in Instances /\ Owns(th) BY DEF ThreadType, Shape, States, Owns
<1>2. \/ thread' = [thread EXCEPT ![th] = Idle] /\ life' = [life EXCEPT ![n] = "failed"]
      \/ thread' = thread /\ life' = [life EXCEPT ![n] = "live"]
  OBVIOUS
<1>3. Others(th) /\ (thread'[th] = Idle \/ (thread'[th] = thread[th] /\ life'[n] = "live"))
  <2>1. CASE thread' = thread /\ life' = [life EXCEPT ![n] = "live"]
    BY <1>1, <2>1 DEF Others, Types
  <2>2. CASE thread' = [thread EXCEPT ![th] = Idle]
    <3>1. thread'[th] = Idle /\ Others(th) BY <2>2, IdleType, ThreadMoves
    <3>. QED BY <3>1
  <2>. QED BY <1>2, <2>1, <2>2
<1>4. \A k \in Instances \ {n} : life'[k] = life[k] BY <1>1, <1>2 DEF Types
<1>5. Types' BY <1>1, <1>2 DEF Types, drains
<1>6. ThreadType'
  <2>1. CASE thread' = thread BY <2>1 DEF ThreadType, Shape
  <2>2. CASE thread' = [thread EXCEPT ![th] = Idle] BY <2>2, IdleType, ThreadMoves
  <2>. QED BY <1>2, <2>1, <2>2
<1>7. \A i, k : Stands(i, k)' <=> Stands(i, k) BY <1>1 DEF Stands
<1>8. Sole(th) /\ \A i \in Ids : ~Stands(i, n) BY <1>1 DEF Owned, Sole
<1>9. Owned'
  <2>1. StandsOnce' /\ NoGhost' BY <1>1, <1>4, <1>7, <1>8 DEF Owned, StandsOnce, NoGhost
  <2>2. \A u \in Threads : Sole(u)'
    <3>1. \A u \in Threads \ {th} : Owns(u) => thread[u].inst \notin {n}
      BY <1>1 DEF Owned, Sole
    <3>2. \A k \in Instances \ {n} :
            life'[k] = life[k] /\ \A i \in Ids : Stands(i, k)' => Stands(i, k)
      BY <1>4, <1>7
    <3>3. Owns(th)' => /\ thread'[th].inst \in {n}
                       /\ \A i \in Ids : ~Stands(i, thread[th].inst)'
                       /\ thread'[th].op = "unload" => life'[thread'[th].inst] = "live"
                       /\ thread'[th].op \in Loaders => life'[thread'[th].inst] \in {"loading", "live"}
      <4>1. CASE thread'[th] = Idle BY <4>1, IdleType, OpsApart DEF Owns, Owners
      <4>2. CASE thread'[th] = thread[th] /\ life'[n] = "live" BY <1>7, <1>8, <4>2
      <4>. QED BY <1>3, <4>1, <4>2
    <3>4. {n} \in SUBSET Instances BY <1>1
    <3>. HIDE DEF n
    <3>. QED BY <1>3, <3>1, <3>2, <3>3, <3>4, ObjectsMove DEF Ownership
  <2>3. Replaced'
    <3>1. thread'[Watcher].op = "reload" =>
            thread'[Watcher] = thread[Watcher] /\ thread[Watcher].old \in Instances \cup {None}
      BY <1>3, IdleType, RegistryAssumption DEF Others, ThreadType, Shape, States
    <3>. QED BY <1>1, <1>4, <3>1 DEF Owned, Replaced
  <2>. QED BY <2>1, <2>2, <2>3 DEF Owned
<1>10. Drainage'
  <2>1. thread[th].op \notin Draining \cup {"using"} /\ thread'[th].op # "using"
    BY <1>1, <1>3, IdleType, OpsApart DEF Owners
  <2>2. thread' = [thread EXCEPT ![th] = thread'[th]] BY <1>2, <1>3 DEF ThreadType, Shape, States
  <2>. QED BY <1>1, <2>1, <2>2, DrainsUndisturbed DEF Drainage
<1>. QED BY <1>5, <1>6, <1>9, <1>10 DEF Drainage

(* A failed reload puts its own object aside and loads the previous one      *)
(* again, which nobody has: it was unloaded and is in no table.              *)
LEMMA ReloadFailsIInv ==
  ASSUME IInv, NEW th \in Threads, ReloadFails(th)
  PROVE  IInv'
<1>. USE DEF IInv
<1> DEFINE n == thread[th].inst
           old == thread[th].old
<1>1. /\ thread[th].op = "reload" /\ th = Watcher /\ n \in Instances /\ life[n] = "loading"
      /\ thread[th].op \in Loaders /\ thread[th].id \in Ids
      /\ UNCHANGED <<modules, store, drains>> /\ inFlight' \subseteq inFlight
  BY DEF ReloadFails, Loaders, ThreadType, Shape, States
<1>2. old \in Instances \cup {None} /\ (life[old] = "unloaded" \/ old = None)
  BY <1>1 DEF ThreadType, Shape, States, Owned, Replaced
<1>3. CASE old = None
  <2>1. thread' = [thread EXCEPT ![th] = Idle] /\ life' = [life EXCEPT ![n] = "failed"]
    BY <1>3 DEF ReloadFails, Become
  <2>. QED BY <1>1, <2>1, LoaderIInv
<1>4. CASE old # None
  <2>1. PICK v \in Versions :
          /\ life' = [life EXCEPT ![n] = "failed", ![old] = "loading"]
          /\ thread' = [thread EXCEPT ![th] = [thread[th] EXCEPT !.op = "restore", !.inst = old, !.ver = v]]
    BY <1>4 DEF ReloadFails, Become
  <2>2. old \in Instances /\ old # n /\ life[old] = "unloaded" BY <1>1, <1>2, <1>4
  <2> DEFINE N == {n, old}
  <2>3. life'[old] = "loading" /\ \A k \in Instances \ N : life'[k] = life[k]
    BY <1>1, <2>1, <2>2 DEF Types
  <2>4. Types' BY <1>1, <2>1, <2>2 DEF Types, drains
  <2>5. /\ Others(th)
        /\ thread'[th] = [thread[th] EXCEPT !.op = "restore", !.inst = old, !.ver = v]
        /\ thread'[th].op = "restore" /\ thread'[th].inst = old /\ thread'[th].ver = v
        /\ thread'[th].id = thread[th].id /\ thread'[th].old = old
        /\ thread'[th].op \in Loaders
    BY <2>1 DEF Others, ThreadType, Shape, States, Loaders
  <2>6. ThreadType'
    <3> DEFINE s == [thread[th] EXCEPT !.op = "restore", !.inst = old, !.ver = v]
    <3>1. s \in States /\ s.op = "restore" /\ s.inst = old /\ s.ver = v /\ s.id = thread[th].id
          /\ s.old = old
      BY <2>2 DEF ThreadType, Shape, States, Ops
    <3>. HIDE DEF s
    <3>2. Shape(th, s) BY <1>1, <2>2, <3>1, OpsApart DEF Shape, Owners, Draining
    <3>. QED BY <2>1, <3>1, <3>2, ThreadMoves DEF s
  <2>7. \A i, k : Stands(i, k)' <=> Stands(i, k) BY <1>1 DEF Stands
  <2>8. \A i \in Ids : ~Stands(i, n) /\ ~Stands(i, old)
    BY <1>1, <2>2 DEF Owned, StandsOnce
  <2>9. StandsOnce' /\ NoGhost' BY <1>1, <2>3, <2>7, <2>8 DEF Owned, StandsOnce, NoGhost
  <2>10. \A u \in Threads : Sole(u)'
    <3>1. \A u \in Threads \ {th} : Owns(u) => thread[u].inst \notin N
      BY <1>1, <2>2 DEF Owned, Sole, Owns
    <3>2. \A k \in Instances \ N :
            life'[k] = life[k] /\ \A i \in Ids : Stands(i, k)' => Stands(i, k)
      BY <2>3, <2>7
    <3>3. thread'[th].inst \in N /\ N \in SUBSET Instances BY <1>1, <2>2, <2>5
    <3>4. \A i \in Ids : ~Stands(i, thread[th].inst)' BY <2>5, <2>7, <2>8 DEF Stands
    <3>5. thread'[th].op # "unload" /\ life'[thread'[th].inst] = "loading" BY <2>3, <2>5
    <3>. HIDE DEF N, n, old
    <3>. QED BY <2>5, <3>1, <3>2, <3>3, <3>4, <3>5, ObjectsMove DEF Ownership
  <2>11. Replaced' BY <1>1, <2>5 DEF Replaced
  <2>12. Drainage'
    <3>1. thread[th].op \notin Draining \cup {"using"} /\ thread'[th].op # "using"
      BY <1>1, <2>5 DEF Draining
    <3>2. thread' = [thread EXCEPT ![th] = thread'[th]] BY <2>1, <2>5 DEF ThreadType, Shape, States
    <3>. QED BY <1>1, <3>1, <3>2, DrainsUndisturbed DEF Drainage
  <2>. QED BY <2>4, <2>6, <2>9, <2>10, <2>11, <2>12 DEF Owned, Drainage
<1>. QED BY <1>3, <1>4

(* Publication hands the object over to the tables: _modules points at it,   *)
(* or at the latest version, and no other object moves.                      *)
LEMMA PublishIInv ==
  ASSUME IInv, NEW th \in Threads, Publish(th)
  PROVE  IInv'
<1>. USE DEF IInv
<1> DEFINE n == thread[th].inst
           id == thread[th].id
           op == thread[th].op
           added == [store[id] EXCEPT ![thread[th].ver] = n]
<1>1. /\ op \in Loaders /\ life[n] = "live" /\ UNCHANGED <<drains, life>>
      /\ thread' = [thread EXCEPT ![th] = Idle]
      /\ store' = IF op = "internal" THEN store ELSE [store EXCEPT ![id] = added]
      /\ modules' = [modules EXCEPT ![id] =
                       IF op \in {"register", "versioned"} THEN Latest(added) ELSE n]
      /\ inFlight' \subseteq inFlight
  BY DEF Publish, Become, Loaders
<1>2. n \in Instances /\ n # None /\ id \in Ids /\ thread[th].ver \in Versions
  BY <1>1, RegistryAssumption DEF ThreadType, Shape
<1>3. added \in [Versions -> Instances \cup {None}] /\ added[thread[th].ver] = n
  BY <1>2 DEF Types
<1>4. PICK w \in Versions : Latest(added) = added[w] /\ added[w] # None
  <2>. HIDE DEF n, id, added
  <2>. QED BY <1>2, <1>3, LatestIsPresent
<1>5. added[w] \in Instances /\ (added[w] = n \/ added[w] = store[id][w])
  BY <1>2, <1>3, <1>4 DEF Types
<1>6. /\ modules'[id] \in Instances /\ (modules'[id] = n \/ modules'[id] = store[id][w])
      /\ \A i \in Ids \ {id} : modules'[i] = modules[i] /\ store'[i] = store[i]
      /\ \A v \in Versions : store'[id][v] \in {n, store[id][v]}
  <2>1. modules'[id] = (IF op \in {"register", "versioned"} THEN Latest(added) ELSE n)
    BY <1>1, <1>2 DEF Types
  <2>2. \A i \in Ids \ {id} : modules'[i] = modules[i] /\ store'[i] = store[i]
    BY <1>1 DEF Types
  <2>3. \A v \in Versions : store'[id][v] \in {n, store[id][v]} BY <1>1, <1>2 DEF Types
  <2>. HIDE DEF n, id, op, added
  <2>. QED BY <1>2, <1>4, <1>5, <2>1, <2>2, <2>3
<1>7. Types'
  <2>1. modules' \in [Ids -> Instances \cup {None}]
    <3>1. modules' = [modules EXCEPT ![id] = modules'[id]] BY <1>1, <1>2 DEF Types
    <3>. QED BY <1>6, <3>1 DEF Types
  <2>2. store' \in [Ids -> [Versions -> Instances \cup {None}]] BY <1>1, <1>3 DEF Types
  <2>. QED BY <1>1, <2>1, <2>2 DEF Types, drains
<1>8. ThreadType' /\ thread'[th] = Idle /\ Others(th) BY <1>1, IdleType, ThreadMoves
<1>9. Sole(th) /\ Owns(th) /\ \A i \in Ids : ~Stands(i, n) BY <1>1 DEF Owned, Sole, Owns
<1>10. \A i \in Ids, k \in Instances : Stands(i, k)' => Stands(i, k) \/ (i = id /\ k = n)
  BY <1>6 DEF Stands
<1>11. Owned'
  <2>1. StandsOnce'
    <3>. SUFFICES ASSUME NEW i \in Ids, NEW k \in Instances, Stands(i, k)'
                  PROVE  life[k] = "live" /\ \A o \in Ids : Stands(o, k)' => o = i
      BY <1>1 DEF StandsOnce
    <3>1. CASE k = n BY <1>1, <1>9, <1>10, <3>1
    <3>2. CASE k # n BY <1>10, <3>2 DEF Owned, StandsOnce
    <3>. QED BY <3>1, <3>2
  <2>2. NoGhost'
    <3>1. modules'[id] # None BY <1>6, RegistryAssumption
    <3>. QED BY <1>6, <3>1 DEF Owned, NoGhost
  <2>3. \A u \in Threads : Sole(u)'
    <3>1. \A k \in Instances \ {n} :
            life'[k] = life[k] /\ \A i \in Ids : Stands(i, k)' => Stands(i, k)
      BY <1>1, <1>10
    <3>2. \A u \in Threads \ {th} : Owns(u) => thread[u].inst \notin {n}
      BY <1>9 DEF Owned, Sole
    <3>3. ~Owns(th)' BY <1>8, IdleType, OpsApart DEF Owns, Owners
    <3>4. {n} \in SUBSET Instances BY <1>2
    <3>. HIDE DEF n
    <3>. QED BY <1>8, <3>1, <3>2, <3>3, <3>4, ObjectsMove DEF Ownership
  <2>4. Replaced'
    <3>1. thread'[Watcher].op = "reload" => thread'[Watcher] = thread[Watcher]
      BY <1>8, IdleType, RegistryAssumption DEF Others
    <3>. QED BY <1>1, <3>1 DEF Owned, Replaced
  <2>. QED BY <2>1, <2>2, <2>3, <2>4 DEF Owned
<1>12. Drainage'
  <2>1. thread[th].op \notin Draining \cup {"using"} /\ Idle.op # "using"
    BY <1>1, IdleType, OpsApart DEF Owners
  <2>. QED BY <1>1, <2>1, DrainsUndisturbed DEF Drainage
<1>. QED BY <1>7, <1>8, <1>11, <1>12 DEF Drainage

(* A removal hands the object in _modules over from the tables to the thread *)
(* that is to unload it.                                                     *)
LEMMA ForgetOwned ==
  ASSUME IInv, NEW th \in Threads, NEW id \in Ids, NEW s \in States,
         thread[th].op \notin Owners, modules[id] # None,
         s = [Idle EXCEPT !.op = "unload", !.inst = modules[id]],
         thread' = [thread EXCEPT ![th] = s], Forget(id), UNCHANGED life
  PROVE  Owned' /\ ThreadType'
<1>. USE DEF IInv
<1>1. PICK m \in Instances : m = modules[id] BY DEF Types
<1>2. s.op = "unload" /\ s.inst = m /\ s.old = None BY <1>1 DEF Idle
<1>3. ThreadType' /\ thread'[th] = s /\ Others(th)
  <2>1. Shape(th, s) BY <1>1, <1>2, OpsApart DEF Shape, Loaders, Registering, Draining
  <2>. QED BY <2>1, ThreadMoves
<1>4. /\ modules'[id] = None /\ store'[id] = NoVersions
      /\ \A i \in Ids \ {id} : modules'[i] = modules[i] /\ store'[i] = store[i]
  BY DEF Forget, Types
<1>5. \A v \in Versions : NoVersions[v] = None BY DEF NoVersions
<1>6. \A i \in Ids, k \in Instances : Stands(i, k)' => Stands(i, k) /\ i # id
  BY <1>4, <1>5, RegistryAssumption DEF Stands
<1>7. Stands(id, m) /\ life[m] = "live" /\ \A i \in Ids : ~Stands(i, m)'
  <2>1. Stands(id, m) BY <1>1 DEF Stands
  <2>2. life[m] = "live" /\ \A i \in Ids : Stands(i, m) => i = id
    BY <1>1, <2>1 DEF Owned, StandsOnce
  <2>. QED BY <1>1, <1>6, <2>1, <2>2
<1>8. StandsOnce'
  <2>1. \A i \in Ids, k \in Instances : Stands(i, k)' => Stands(i, k) /\ life'[k] = "live"
    BY <1>6 DEF Owned, StandsOnce
  <2>. QED BY <2>1, TablesShrink DEF Owned
<1>9. \A u \in Threads : Sole(u)'
  <2>1. \A u \in Threads \ {th} : Owns(u) => thread[u].inst \notin {m}
    BY <1>7 DEF Owned, Sole
  <2>2. \A k \in Instances \ {m} :
          life'[k] = life[k] /\ \A i \in Ids : Stands(i, k)' => Stands(i, k)
    BY <1>6
  <2>3. thread'[th].inst = m /\ thread'[th].op \notin Loaders /\ life'[m] = "live"
    BY <1>2, <1>3, <1>7 DEF Loaders, Registering
  <2>4. \A i \in Ids : ~Stands(i, thread[th].inst)' BY <1>7, <2>3 DEF Stands
  <2>5. {m} \in SUBSET Instances OBVIOUS
  <2>. QED BY <1>3, <2>1, <2>2, <2>3, <2>4, <2>5, ObjectsMove DEF Ownership
<1>10. NoGhost' BY <1>4 DEF Owned, NoGhost
<1>11. Replaced'
  <2>1. thread'[Watcher].op = "reload" => thread'[Watcher] = thread[Watcher]
    BY <1>2, <1>3, RegistryAssumption DEF Others
  <2>. QED BY <2>1 DEF Owned, Replaced
<1>. QED BY <1>3, <1>8, <1>9, <1>10, <1>11 DEF Owned

(* on_unload runs on an object that only its thread still had.               *)
LEMMA UnloadIInv ==
  ASSUME IInv, NEW th \in Threads, Unload(th)
  PROVE  IInv'
<1>. USE DEF IInv
<1> DEFINE n == thread[th].inst
<1>1. /\ thread[th].op = "unload" /\ life' = [life EXCEPT ![n] = "unloaded"]
      /\ thread' = [thread EXCEPT ![th] = Idle] /\ UNCHANGED <<modules, store, inFlight, drains>>
  BY DEF Unload, Become, tables
<1>2. n \in Instances /\ Owns(th) BY <1>1 DEF ThreadType, Shape, Owns
<1>3. Sole(th) /\ \A i \in Ids : ~Stands(i, n) BY <1>2 DEF Owned, Sole
<1>4. Types' BY <1>1, <1>2 DEF Types, drains
<1>5. ThreadType' /\ thread'[th] = Idle /\ Others(th) BY <1>1, IdleType, ThreadMoves
<1>6. \A i, k : Stands(i, k)' <=> Stands(i, k) BY <1>1 DEF Stands
<1>7. life'[n] = "unloaded" /\ \A k \in Instances \ {n} : life'[k] = life[k]
  BY <1>1, <1>2 DEF Types
<1>8. StandsOnce' /\ NoGhost' BY <1>1, <1>3, <1>6, <1>7 DEF Owned, StandsOnce, NoGhost
<1>9. \A u \in Threads : Sole(u)'
  <2>1. \A k \in Instances \ {n} :
          life'[k] = life[k] /\ \A i \in Ids : Stands(i, k)' => Stands(i, k)
    BY <1>6, <1>7
  <2>2. \A u \in Threads \ {th} : Owns(u) => thread[u].inst \notin {n}
    BY <1>2, <1>3 DEF Owned, Sole
  <2>3. ~Owns(th)' BY <1>5, IdleType, OpsApart DEF Owns, Owners
  <2>4. {n} \in SUBSET Instances BY <1>2
  <2>. HIDE DEF n
  <2>. QED BY <1>5, <2>1, <2>2, <2>3, <2>4, ObjectsMove DEF Ownership
<1>10. Replaced'
  <2>1. thread'[Watcher].op = "reload" =>
          thread'[Watcher] = thread[Watcher] /\ thread[Watcher].old \in Instances \cup {None}
    BY <1>5, IdleType, RegistryAssumption DEF Others, ThreadType, Shape, States
  <2>. QED BY <1>7, <2>1 DEF Owned, Replaced
<1>11. Drainage'
  <2>1. thread[th].op \notin Draining \cup {"using"} /\ Idle.op # "using"
    BY <1>1, IdleType DEF Draining
  <2>. QED BY <1>1, <2>1, DrainsUndisturbed DEF Drainage
<1>. QED BY <1>4, <1>5, <1>8, <1>9, <1>10, <1>11 DEF Owned, Drainage

(* A changed file: the object in _modules is unloaded and a new one is being *)
(* loaded; neither is in the tables.                                         *)
LEMMA FileChangesIInv ==
  ASSUME IInv, NEW th \in Threads, NEW id \in Ids, FileChanges(th, id)
  PROVE  IInv'
<1>. USE DEF IInv
<1> DEFINE old == modules[id]
<1>1. PICK n \in Instances, v \in Versions :
        /\ life[n] = "new"
        /\ life' = [x \in Instances |-> IF x = n THEN "loading"
                                        ELSE IF x = old THEN "unloaded" ELSE life[x]]
        /\ thread' = [thread EXCEPT ![th] = [op |-> "reload", id |-> id, inst |-> n,
                                             ver |-> v, old |-> old]]
  BY DEF FileChanges, Become
<1>2. th = Watcher /\ thread[th] = Idle /\ Forget(id) /\ UNCHANGED drains
  BY DEF FileChanges, IsIdle
<1> DEFINE s == [op |-> "reload", id |-> id, inst |-> n, ver |-> v, old |-> old]
           N == {n, old} \ {None}
<1>3. old \in Instances \cup {None} /\ n # None BY RegistryAssumption DEF Types
<1>4. /\ modules'[id] = None /\ store'[id] = NoVersions
      /\ \A i \in Ids \ {id} : modules'[i] = modules[i] /\ store'[i] = store[i]
  BY <1>2 DEF Forget, Types
<1>5. \A i \in Ids, k \in Instances : Stands(i, k)' => Stands(i, k) /\ i # id
  <2>1. \A x \in Versions : NoVersions[x] = None BY DEF NoVersions
  <2>. QED BY <1>4, <2>1, RegistryAssumption DEF Stands
<1>6. \A i \in Ids : ~Stands(i, n) BY <1>1 DEF Owned, StandsOnce
<1>7. old # None => /\ old \in Instances /\ old # n /\ Stands(id, old)
                    /\ \A i \in Ids : Stands(i, old) => i = id
  <2>1. Stands(id, old) BY DEF Stands
  <2>. QED BY <1>3, <1>6, <2>1 DEF Owned, StandsOnce
<1>8. \A i \in Ids, k \in Instances : Stands(i, k)' => k \notin N BY <1>5, <1>6, <1>7
<1>9. /\ life'[n] = "loading" /\ (old # None => life'[old] = "unloaded")
      /\ \A k \in Instances \ N : life'[k] = life[k]
  BY <1>1, <1>3, <1>7, RegistryAssumption
<1>10. Types'
  <2>1. NoVersions \in [Versions -> Instances \cup {None}] BY DEF NoVersions
  <2>2. modules' \in [Ids -> Instances \cup {None}] BY <1>2 DEF Forget, Types
  <2>3. store' \in [Ids -> [Versions -> Instances \cup {None}]] /\ inFlight' = inFlight
    BY <1>2, <2>1 DEF Forget, Types
  <2>4. life' \in [Instances -> {"new", "loading", "live", "failed", "unloaded"}]
    BY <1>1 DEF Types
  <2>. QED BY <1>2, <2>2, <2>3, <2>4 DEF Types, drains
<1>11. ThreadType' /\ thread'[th] = s /\ Others(th)
  <2>1. s \in States BY <1>3 DEF States, Ops
  <2>2. Shape(th, s) BY <1>2 DEF Shape, Draining
  <2>. QED BY <1>1, <2>1, <2>2, ThreadMoves
<1>12. StandsOnce'
  <2>1. \A i \in Ids, k \in Instances : Stands(i, k)' => Stands(i, k) /\ life'[k] = "live"
    BY <1>5, <1>8, <1>9 DEF Owned, StandsOnce
  <2>. QED BY <2>1, TablesShrink DEF Owned
<1>13. \A u \in Threads : Sole(u)'
  <2>1. \A u \in Threads \ {th} : Owns(u) => thread[u].inst \notin N
    <3>. SUFFICES ASSUME NEW u \in Threads \ {th}, Owns(u) PROVE thread[u].inst \notin N
      OBVIOUS
    <3>1. Sole(u) /\ thread[u].op \in Loaders \cup {"unload"} BY DEF Owned, Owns
    <3>2. thread[u].inst # n BY <1>1, <3>1 DEF Sole, Owns
    <3>3. thread[u].inst \in Instances BY <3>1 DEF ThreadType, Shape
    <3>4. thread[u].inst # old BY <1>3, <1>7, <3>1, <3>3, RegistryAssumption DEF Sole, Owns
    <3>. QED BY <3>2, <3>4
  <2>2. \A k \in Instances \ N :
          life'[k] = life[k] /\ \A i \in Ids : Stands(i, k)' => Stands(i, k)
    BY <1>5, <1>9
  <2>3. /\ thread'[th].inst = n /\ n \in N /\ life'[thread'[th].inst] = "loading"
        /\ thread'[th].op # "unload"
    BY <1>3, <1>9, <1>11
  <2>4. \A i \in Ids : ~Stands(i, thread[th].inst)' BY <1>5, <1>6, <2>3 DEF Stands
  <2>5. N \in SUBSET Instances BY <1>3
  <2>. HIDE DEF N
  <2>. QED BY <1>11, <2>1, <2>2, <2>3, <2>4, <2>5, ObjectsMove DEF Ownership
<1>14. NoGhost' BY <1>4 DEF Owned, NoGhost
<1>15. Replaced' BY <1>2, <1>9, <1>11 DEF Replaced
<1>16. Drainage'
  <2>1. thread[th].op \notin Draining \cup {"using"} /\ s.op # "using"
    BY <1>2, IdleType, OpsApart DEF Draining
  <2>. QED BY <1>1, <1>2, <2>1, DrainsUndisturbed DEF Drainage
<1>. QED BY <1>10, <1>11, <1>12, <1>13, <1>14, <1>15, <1>16 DEF Owned, Drainage

-----------------------------------------------------------------------------
LEMMA HoldersFinite == \A id : IsFiniteSet(Holders(id)) /\ Cardinality(Holders(id)) \in Nat
<1>. TAKE id
<1>1. Holders(id) \subseteq Threads BY DEF Holders
<1>. QED BY <1>1, RegistryAssumption, FS_Subset, FS_CardinalityType

(* While a thread that drains nothing moves, every drain goes on.            *)
LEMMA DrainersStay ==
  ASSUME IInv, NEW th \in Threads, Others(th), thread[th].op \notin Draining
  PROVE  /\ \A id \in Ids : waiter[id] # None =>
              /\ waiter[id] \in Threads \ {th} /\ thread'[waiter[id]] = thread[waiter[id]]
              /\ thread[waiter[id]].id = id /\ thread[waiter[id]].op \in Draining
         /\ \A id \in draining : \E u \in Threads : thread'[u].id = id /\ thread'[u].op \in Draining
<1>. USE DEF IInv, Others
<1>1. ASSUME NEW id \in Ids, waiter[id] # None
      PROVE  /\ waiter[id] \in Threads \ {th} /\ thread'[waiter[id]] = thread[waiter[id]]
             /\ thread[waiter[id]].id = id /\ thread[waiter[id]].op \in Draining
  BY <1>1 DEF Awaited, Types
<1>2. ASSUME NEW id \in draining
      PROVE  \E u \in Threads : thread'[u].id = id /\ thread'[u].op \in Draining
  <2>1. PICK u \in Threads : thread[u].id = id /\ thread[u].op \in Draining BY DEF Marked
  <2>2. thread'[u] = thread[u] BY <2>1
  <2>. QED BY <2>1, <2>2
<1>. QED BY <1>1, <1>2

(* acquire() adds a user and a count.                                        *)
LEMMA AcquireIInv ==
  ASSUME IInv, NEW th \in Threads, NEW id \in Ids, Acquire(th, id)
  PROVE  IInv'
<1>. USE DEF IInv
<1>1. PICK s : s = [Idle EXCEPT !.op = "using", !.id = id, !.inst = modules[id]] OBVIOUS
<1>2. /\ thread[th] = Idle /\ thread' = [thread EXCEPT ![th] = s]
      /\ refs' = [refs EXCEPT ![id] = refs[id] + 1]
      /\ UNCHANGED <<modules, store, inFlight, draining, waiter, signalled, life>>
  BY <1>1 DEF Acquire, IsCaller, IsIdle, Become, tables
<1>3. s \in States /\ s.op = "using" /\ s.id = id BY <1>1 DEF Types, Idle, States, Ops
<1>4. Types' BY <1>2 DEF Types
<1>5. ThreadType' /\ thread'[th] = s /\ Others(th)
  <2>1. Shape(th, s) BY <1>3, OpsApart DEF Shape, Owners
  <2>. QED BY <1>2, <1>3, <2>1, ThreadMoves
<1>6. Owned'
  <2>1. s.op \notin Owners /\ thread[th].op \notin Owners BY <1>2, <1>3, IdleType, OpsApart
  <2>. QED BY <1>2, <1>3, <2>1, OwnersUndisturbed DEF Ownership
<1>7. th \notin Holders(id) /\ Holders(id)' = Holders(id) \cup {th}
      /\ \A i \in Ids \ {id} : Holders(i)' = Holders(i)
  BY <1>2, <1>3, <1>5, IdleType DEF Holders, Others
<1>8. Cardinality(Holders(id)') = Cardinality(Holders(id)) + 1
  BY <1>7, HoldersFinite, FS_AddElement
<1>9. Counted'
  <2>. SUFFICES ASSUME NEW i \in Ids PROVE refs'[i] <= Cardinality(Holders(i)') BY DEF Counted
  <2>1. CASE i = id
    <3>1. refs[id] <= Cardinality(Holders(id)) /\ refs'[id] = refs[id] + 1 /\ refs[id] \in Nat
      BY <1>2 DEF Counted, Types
    <3>. QED BY <1>8, <2>1, <3>1, HoldersFinite
  <2>2. CASE i # id BY <1>2, <1>7, <2>2 DEF Counted, Types
  <2>. QED BY <2>1, <2>2
<1>10. thread[th].op \notin Draining BY <1>2, IdleType DEF Draining
<1>11. Awaited'
  <2>. SUFFICES ASSUME NEW i \in Ids, waiter[i] # None
                PROVE  /\ thread'[waiter[i]].id = i /\ thread'[waiter[i]].op \in Draining
                       /\ (Holders(i)' = {} => waiter[i] \in signalled
                                               \/ thread'[waiter[i]].op # "waiting")
    BY <1>2 DEF Awaited
  <2>1. Holders(i)' = {} => Holders(i) = {} BY <1>7
  <2>2. /\ waiter[i] \in Threads \ {th} /\ thread'[waiter[i]] = thread[waiter[i]]
        /\ thread[waiter[i]].id = i /\ thread[waiter[i]].op \in Draining
    BY <1>5, <1>10, DrainersStay
  <2>. QED BY <2>1, <2>2 DEF Awaited
<1>12. Marked' BY <1>2, <1>5, <1>10, DrainersStay DEF Marked
<1>. QED BY <1>4, <1>5, <1>6, <1>9, <1>11, <1>12

(* release() of the last user leaves no count, so it sets the Event.         *)
LEMMA ReleaseIInv ==
  ASSUME IInv, NEW th \in Threads, Release(th)
  PROVE  IInv'
<1>. USE DEF IInv
<1>1. PICK id \in Ids : id = thread[th].id
  BY OpsApart DEF Release, ThreadType, Shape
<1>2. /\ thread[th].op = "using" /\ thread' = [thread EXCEPT ![th] = Idle]
      /\ refs' = [refs EXCEPT ![id] = IF refs[id] <= 1 THEN 0 ELSE refs[id] - 1]
      /\ signalled' = IF refs[id] <= 1 /\ waiter[id] # None
                      THEN signalled \cup {waiter[id]} ELSE signalled
      /\ UNCHANGED <<modules, store, inFlight, draining, waiter, life>>
  BY <1>1 DEF Release, Become, tables
<1>3. ThreadType' /\ thread'[th] = Idle /\ Others(th) BY <1>2, IdleType, ThreadMoves
<1>4. Types'
  <2>1. refs' \in [Ids -> Nat] BY <1>2 DEF Types
  <2>2. signalled' \subseteq Threads BY <1>2 DEF Types
  <2>. QED BY <1>2, <2>1, <2>2 DEF Types
<1>5. Owned'
  <2>1. Idle.op \notin Owners /\ thread[th].op \notin Owners BY <1>2, IdleType, OpsApart
  <2>. QED BY <1>2, <2>1, OwnersUndisturbed DEF Ownership
<1>6. th \in Holders(id) /\ Holders(id)' = Holders(id) \ {th}
      /\ \A i \in Ids \ {id} : Holders(i)' = Holders(i)
  BY <1>1, <1>2, <1>3, IdleType DEF Holders, Others
<1>7. Cardinality(Holders(id)') = Cardinality(Holders(id)) - 1
  BY <1>6, HoldersFinite, FS_RemoveElement
<1>8. refs[id] \in Nat /\ refs[id] <= Cardinality(Holders(id)) BY DEF Counted, Types
<1>9. Counted'
  <2>. SUFFICES ASSUME NEW i \in Ids PROVE refs'[i] <= Cardinality(Holders(i)') BY DEF Counted
  <2>1. CASE i = id
    <3>1. refs'[id] = (IF refs[id] <= 1 THEN 0 ELSE refs[id] - 1) BY <1>2 DEF Types
    <3>2. Cardinality(Holders(id)) \in Nat \ {0}
      BY <1>6, HoldersFinite, FS_EmptySet
    <3>. QED BY <1>7, <1>8, <2>1, <3>1, <3>2
  <2>2. CASE i # id BY <1>2, <1>6, <2>2 DEF Counted, Types
  <2>. QED BY <2>1, <2>2
<1>10. thread[th].op \notin Draining BY <1>2 DEF Draining
<1>11. Awaited'
  <2>. SUFFICES ASSUME NEW i \in Ids, waiter[i] # None
                PROVE  /\ thread'[waiter[i]].id = i /\ thread'[waiter[i]].op \in Draining
                       /\ (Holders(i)' = {} => waiter[i] \in signalled'
                                               \/ thread'[waiter[i]].op # "waiting")
    BY <1>2 DEF Awaited
  <2>1. /\ waiter[i] \in Threads \ {th} /\ thread'[waiter[i]] = thread[waiter[i]]
        /\ thread[waiter[i]].id = i /\ thread[waiter[i]].op \in Draining
    BY <1>3, <1>10, DrainersStay
  <2>2. signalled \subseteq signalled' BY <1>2
  <2>3. CASE i # id BY <1>6, <2>1, <2>2, <2>3 DEF Awaited
  <2>4. CASE i = id
    <3>1. ASSUME Holders(id)' = {} PROVE waiter[id] \in signalled'
      <4>1. Cardinality(Holders(id)) - 1 = 0 BY <1>7, <3>1, FS_EmptySet
      <4>2. refs[id] <= 1 BY <1>8, <4>1, HoldersFinite
      <4>. QED BY <1>2, <2>4, <4>2
    <3>. QED BY <2>1, <2>4, <3>1
  <2>. QED BY <2>3, <2>4
<1>12. Marked' BY <1>2, <1>3, <1>10, DrainersStay DEF Marked
<1>. QED BY <1>3, <1>4, <1>5, <1>9, <1>11, <1>12

(* safe_unregister() registers its Event only for a count that a user covers *)
(* and clears no other thread's.                                             *)
LEMMA StartDrainIInv ==
  ASSUME IInv, NEW th \in Threads, NEW id \in Ids, StartDrain(th, id)
  PROVE  IInv'
<1>. USE DEF IInv
<1>1. PICK s : s = [Idle EXCEPT !.op = IF refs[id] > 0 THEN "waiting" ELSE "clean",
                                !.id = id, !.old = modules[id]]
  OBVIOUS
<1>2. /\ thread[th] = Idle /\ thread' = [thread EXCEPT ![th] = s]
      /\ draining' = draining \cup {id} /\ signalled' = signalled \ {th}
      /\ waiter' = IF refs[id] > 0 THEN [waiter EXCEPT ![id] = th] ELSE waiter
      /\ UNCHANGED <<modules, store, inFlight, refs, life>>
  BY <1>1 DEF StartDrain, IsIdle, Become, tables
<1>3. s \in States /\ s.id = id /\ s.op = IF refs[id] > 0 THEN "waiting" ELSE "clean"
  BY <1>1 DEF Types, Idle, States, Ops
<1>4. s.op \in Draining BY <1>3 DEF Draining
<1>5. Types' BY <1>2 DEF Types
<1>6. ThreadType' /\ thread'[th] = s /\ Others(th)
  <2>1. Shape(th, s) BY <1>3, <1>4, OpsApart DEF Shape, Owners
  <2>. QED BY <1>2, <1>3, <2>1, ThreadMoves
<1>7. Owned'
  <2>1. s.op \notin Owners /\ thread[th].op \notin Owners BY <1>2, <1>4, IdleType, OpsApart
  <2>. QED BY <1>2, <1>3, <2>1, OwnersUndisturbed DEF Ownership
<1>8. \A i \in Ids : Holders(i)' = Holders(i)
  BY <1>2, <1>4, <1>6, IdleType DEF Holders, Others, Draining
<1>9. Counted' BY <1>2, <1>8 DEF Counted
<1>10. thread[th].op \notin Draining BY <1>2, IdleType DEF Draining
<1>11. Awaited'
  <2>. SUFFICES ASSUME NEW i \in Ids, waiter'[i] # None
                PROVE  /\ thread'[waiter'[i]].id = i /\ thread'[waiter'[i]].op \in Draining
                       /\ (Holders(i)' = {} => waiter'[i] \in signalled'
                                               \/ thread'[waiter'[i]].op # "waiting")
    BY DEF Awaited
  <2>1. CASE i = id /\ refs[id] > 0
    <3>1. waiter'[i] = th BY <1>2, <2>1 DEF Types
    <3>2. Holders(i)' # {}
      <4>1. refs[id] <= Cardinality(Holders(id)) /\ refs[id] \in Nat BY DEF Counted, Types
      <4>2. Cardinality(Holders(id)) # 0 BY <2>1, <4>1, HoldersFinite
      <4>. QED BY <1>8, <2>1, <4>2, FS_EmptySet
    <3>. QED BY <1>3, <1>4, <1>6, <2>1, <3>1, <3>2
  <2>2. CASE ~(i = id /\ refs[id] > 0)
    <3>1. waiter'[i] = waiter[i] BY <1>2, <2>2 DEF Types
    <3>2. /\ waiter[i] \in Threads \ {th} /\ thread'[waiter[i]] = thread[waiter[i]]
          /\ thread[waiter[i]].id = i /\ thread[waiter[i]].op \in Draining
      BY <1>6, <1>10, <3>1, DrainersStay
    <3>3. waiter[i] \in signalled => waiter[i] \in signalled' BY <1>2, <3>2
    <3>. QED BY <1>8, <3>1, <3>2, <3>3 DEF Awaited
  <2>. QED BY <2>1, <2>2
<1>12. Marked'
  <2>. SUFFICES ASSUME NEW i \in draining'
                PROVE  \E u \in Threads : thread'[u].id = i /\ thread'[u].op \in Draining
    BY DEF Marked
  <2>1. CASE i = id BY <1>3, <1>4, <1>6, <2>1
  <2>2. CASE i # id BY <1>2, <1>6, <1>10, <2>2, DrainersStay
  <2>. QED BY <2>1, <2>2
<1>. QED BY <1>5, <1>6, <1>7, <1>9, <1>11, <1>12

(* The end of the wait, with the Event set or not.                           *)
LEMMA WaitedIInv ==
  ASSUME IInv, NEW th \in Threads, Waited(th)
  PROVE  IInv'
<1>. USE DEF IInv
<1>1. PICK s : s = [thread[th] EXCEPT !.op = IF th \in signalled THEN "clean" ELSE "forced"]
  OBVIOUS
<1>2. /\ thread[th].op = "waiting" /\ thread' = [thread EXCEPT ![th] = s]
      /\ UNCHANGED <<modules, store, inFlight, drains, life>>
  BY <1>1 DEF Waited, Become, tables
<1>3. s \in States /\ s.id = thread[th].id /\ s.op \in {"clean", "forced"}
  BY <1>1 DEF ThreadType, States, Ops
<1>4. s.op \in Draining /\ s.op # "waiting" /\ thread[th].op \in Draining
  BY <1>2, <1>3 DEF Draining
<1>5. Types' BY <1>2 DEF Types, drains
<1>6. ThreadType' /\ thread'[th] = s /\ Others(th)
  <2>1. thread[th].id \in Ids BY <1>4 DEF ThreadType, Shape
  <2>2. Shape(th, s) BY <1>3, <1>4, <2>1, OpsApart DEF Shape, Owners
  <2>. QED BY <1>2, <1>3, <2>2, ThreadMoves
<1>7. Owned'
  <2>1. s.op \notin Owners /\ thread[th].op \notin Owners BY <1>4, OpsApart
  <2>. QED BY <1>2, <1>3, <2>1, OwnersUndisturbed DEF Ownership
<1>8. \A i \in Ids : Holders(i)' = Holders(i)
  BY <1>4, <1>6 DEF Holders, Others, Draining
<1>9. Counted' BY <1>2, <1>8 DEF Counted, drains
<1>10. \A u \in Threads : /\ thread'[u].id = thread[u].id
                          /\ thread[u].op \in Draining => thread'[u].op \in Draining
                          /\ thread[u].op # "waiting" => thread'[u].op # "waiting"
  BY <1>3, <1>4, <1>6 DEF Others
<1>11. Awaited' BY <1>2, <1>8, <1>10 DEF Awaited, Types, drains
<1>12. Marked' BY <1>2, <1>10 DEF Marked, drains
<1>. QED BY <1>5, <1>6, <1>7, <1>9, <1>11, <1>12

(* Whatever clears the mark, the Event and the count of an id, a drain of it *)
(* or an unregistration, disturbs no drain of another one.                   *)
LEMMA DrainCleared ==
  ASSUME IInv, NEW th \in Threads, NEW id \in Ids, NEW s, s.op # "using",
         thread[th].op # "using", thread[th].op \in Draining => thread[th].id = id,
         thread' = [thread EXCEPT ![th] = s],
         draining' = draining \ {id}, waiter' = [waiter EXCEPT ![id] = None],
         refs' = [refs EXCEPT ![id] = 0], UNCHANGED signalled
  PROVE  Drainage'
<1>. USE DEF IInv
<1>1. thread'[th] = s /\ \A u \in Threads \ {th} : thread'[u] = thread[u] BY DEF ThreadType
<1>2. \A i \in Ids : Holders(i)' = Holders(i) BY <1>1 DEF Holders
<1>3. Counted' BY <1>2, HoldersFinite DEF Counted, Types
<1>4. Awaited'
  <2>. SUFFICES ASSUME NEW i \in Ids, waiter'[i] # None
                PROVE  /\ thread'[waiter'[i]].id = i /\ thread'[waiter'[i]].op \in Draining
                       /\ (Holders(i)' = {} => waiter'[i] \in signalled'
                                               \/ thread'[waiter'[i]].op # "waiting")
    BY DEF Awaited
  <2>1. i # id /\ waiter'[i] = waiter[i] BY DEF Types
  <2>2. thread[waiter[i]].id = i /\ thread[waiter[i]].op \in Draining BY <2>1 DEF Awaited
  <2>3. waiter[i] \in Threads \ {th} BY <2>1, <2>2 DEF Types
  <2>. QED BY <1>1, <1>2, <2>1, <2>2, <2>3 DEF Awaited
<1>5. Marked'
  <2>. SUFFICES ASSUME NEW i \in draining, i # id
                PROVE  \E u \in Threads : thread'[u].id = i /\ thread'[u].op \in Draining
    BY DEF Marked
  <2>1. PICK u \in Threads : thread[u].id = i /\ thread[u].op \in Draining BY DEF Marked
  <2>2. u # th BY <2>1
  <2>. QED BY <1>1, <2>1, <2>2
<1>. QED BY <1>3, <1>4, <1>5 DEF Drainage

LEMMA UnmarkIInv ==
  ASSUME IInv, NEW th \in Threads, Unmark(th)
  PROVE  IInv'
<1>. USE DEF IInv
<1>1. PICK s : s = [thread[th] EXCEPT !.op = IF thread[th].op = "clean" THEN "cleaned" ELSE "gaveUp"]
  OBVIOUS
<1>2. PICK id : id = thread[th].id OBVIOUS
<1>3. /\ thread[th].op \in {"clean", "forced"} /\ thread' = [thread EXCEPT ![th] = s]
      /\ draining' = draining \ {id} /\ waiter' = [waiter EXCEPT ![id] = None]
      /\ refs' = [refs EXCEPT ![id] = 0]
      /\ UNCHANGED <<modules, store, inFlight, signalled, life>>
  BY <1>1, <1>2 DEF Unmark, Become, tables
<1>4. thread[th].op \in Draining /\ thread[th].op # "using" /\ id \in Ids
  BY <1>2, <1>3 DEF Draining, ThreadType, Shape
<1>5. s \in States /\ s.id = id /\ s.op \in {"cleaned", "gaveUp"}
  BY <1>1, <1>2 DEF ThreadType, States, Ops
<1>6. s.op \notin Draining \cup {"using"} BY <1>5 DEF Draining
<1>7. Types' BY <1>3, <1>4 DEF Types
<1>8. ThreadType'
  <2>1. Shape(th, s) BY <1>4, <1>5, OpsApart DEF Shape, Owners
  <2>. QED BY <1>3, <1>5, <2>1, ThreadMoves
<1>9. Owned'
  <2>1. s.op \notin Owners /\ thread[th].op \notin Owners BY <1>4, <1>5, OpsApart
  <2>. QED BY <1>3, <1>5, <2>1, OwnersUndisturbed DEF Ownership
<1>10. Drainage' BY <1>2, <1>3, <1>4, <1>6, DrainCleared
<1>. QED BY <1>7, <1>8, <1>9, <1>10 DEF Drainage

(* Removal, by unregister(), as the end of a drain, or for a deleted file.   *)
LEMMA UnloadStateType ==
  ASSUME Types, NEW id \in Ids
  PROVE  [Idle EXCEPT !.op = "unload", !.inst = modules[id]] \in States
BY DEF Types, Idle, States, Ops

LEMMA UnregisterIInv ==
  ASSUME IInv, NEW th \in Threads, NEW id \in Ids, UnregisterSection(th, id), UNCHANGED life,
         thread[th].op \in {"idle", "cleaned", "gaveUp"}
  PROVE  IInv'
<1>. USE DEF IInv
<1>1. thread[th].op \notin Owners \cup Draining \cup {"using"}
  BY OpsApart DEF Draining
<1>2. CASE modules[id] = None
  <2>1. thread' = [thread EXCEPT ![th] = Idle] /\ UNCHANGED <<modules, store, inFlight, drains>>
    BY <1>2 DEF UnregisterSection, Become, tables
  <2>2. Idle.op \notin Owners /\ Idle.op # "using" BY IdleType, OpsApart
  <2>3. Types' BY <2>1 DEF Types, drains
  <2>4. ThreadType' BY <2>1, IdleType, ThreadMoves
  <2>5. Owned' BY <1>1, <2>1, <2>2, OwnersUndisturbed DEF Ownership
  <2>6. Drainage' BY <1>1, <2>1, <2>2, DrainsUndisturbed DEF Drainage
  <2>. QED BY <2>3, <2>4, <2>5, <2>6 DEF Drainage
<1>3. CASE modules[id] # None
  <2>1. PICK s \in States : s = [Idle EXCEPT !.op = "unload", !.inst = modules[id]]
    BY UnloadStateType
  <2>2. /\ Forget(id) /\ thread' = [thread EXCEPT ![th] = s]
        /\ draining' = draining \ {id} /\ waiter' = [waiter EXCEPT ![id] = None]
        /\ refs' = [refs EXCEPT ![id] = 0] /\ UNCHANGED signalled
    BY <1>3, <2>1 DEF UnregisterSection, Become
  <2>3. s.op # "using" BY <2>1 DEF Idle
  <2>4. Types' BY <2>2 DEF Types, Forget, NoVersions
  <2>5. Owned' /\ ThreadType' BY <1>1, <1>3, <2>1, <2>2, ForgetOwned
  <2>6. Drainage' BY <1>1, <2>2, <2>3, DrainCleared
  <2>. QED BY <2>4, <2>5, <2>6 DEF Drainage
<1>. QED BY <1>2, <1>3

LEMMA FileDeletedIInv ==
  ASSUME IInv, NEW th \in Threads, NEW id \in Ids, FileDeleted(th, id)
  PROVE  IInv'
<1>. USE DEF IInv
<1>1. PICK s \in States : s = [Idle EXCEPT !.op = "unload", !.inst = modules[id]]
  BY UnloadStateType
<1>2. /\ thread[th] = Idle /\ modules[id] # None /\ Forget(id)
      /\ thread' = [thread EXCEPT ![th] = s] /\ UNCHANGED <<drains, life>>
  BY <1>1 DEF FileDeleted, IsIdle, Become
<1>3. thread[th].op \notin Owners \cup Draining \cup {"using"} BY <1>2, IdleType, OpsApart DEF Draining
<1>4. s.op # "using" BY <1>1 DEF Idle
<1>5. Types' BY <1>2 DEF Types, Forget, NoVersions, drains
<1>6. Owned' /\ ThreadType' BY <1>1, <1>2, <1>3, ForgetOwned
<1>7. Drainage' BY <1>2, <1>3, <1>4, DrainsUndisturbed DEF Drainage
<1>. QED BY <1>5, <1>6, <1>7 DEF Drainage

-----------------------------------------------------------------------------
LEMMA InitIInv == Init => IInv
<1>. SUFFICES ASSUME Init PROVE IInv OBVIOUS
<1>1. \A th \in Threads : thread[th] = Idle BY DEF Init
<1>2. Types BY DEF Init, Types, NoVersions
<1>3. ThreadType BY IdleType DEF Init, ThreadType
<1>4. \A i \in Ids, k \in Instances : ~Stands(i, k)
  BY RegistryAssumption DEF Init, Stands, NoVersions
<1>5. Owned
  <2>1. \A th \in Threads : ~Owns(th) BY <1>1, IdleType, OpsApart DEF Owns, Owners
  <2>2. thread[Watcher].op # "reload" BY <1>1, IdleType, RegistryAssumption
  <2>3. NoGhost BY DEF Init, NoGhost
  <2>. QED BY <1>4, <2>1, <2>2, <2>3 DEF Owned, StandsOnce, Sole, Replaced
<1>6. Counted BY HoldersFinite DEF Init, Counted
<1>7. Awaited /\ Marked BY DEF Init, Awaited, Marked
<1>. QED BY <1>2, <1>3, <1>5, <1>6, <1>7 DEF IInv

LEMMA NextIInv == IInv /\ [Next]_vars => IInv'
<1>. SUFFICES ASSUME IInv, [Next]_vars PROVE IInv' OBVIOUS
<1>1. CASE UNCHANGED vars
  <2>. USE <1>1 DEF vars
  <2>1. Types' /\ ThreadType' BY DEF IInv, Types, ThreadType, Shape
  <2>2. Owned' BY DEF IInv, Owned, StandsOnce, Sole, Owns, Replaced, NoGhost, Stands
  <2>3. Counted' /\ Awaited' /\ Marked' BY DEF IInv, Counted, Awaited, Marked, Holders
  <2>. QED BY <2>1, <2>2, <2>3 DEF IInv
<1>2. ASSUME NEW th \in Threads, LoadFails(th) \/ LoadReturns(th) \/ RestoreFails(th) PROVE IInv'
  <2>1. thread[th].op \in Loaders /\ life[thread[th].inst] = "loading"
    BY <1>2 DEF LoadFails, LoadReturns, RestoreFails, Loaders
  <2>2. UNCHANGED <<modules, store, drains>> /\ inFlight' \subseteq inFlight
    BY <1>2 DEF LoadFails, LoadReturns, RestoreFails, tables
  <2>3. \/ /\ thread' = [thread EXCEPT ![th] = Idle]
           /\ life' = [life EXCEPT ![thread[th].inst] = "failed"]
        \/ thread' = thread /\ life' = [life EXCEPT ![thread[th].inst] = "live"]
    BY <1>2 DEF LoadFails, LoadReturns, RestoreFails, Become
  <2>. QED BY <2>1, <2>2, <2>3, LoaderIInv
<1>3. ASSUME NEW th \in Threads, NEW id \in Ids,
             Register(th, id) \/ RegisterVersioned(th, id) \/ RegisterInternal(th, id) \/ Discover(th, id)
      PROVE  IInv'
  <2>1. \E op \in Registering : Reserve(th, op, id)
    BY <1>3 DEF Register, RegisterVersioned, RegisterInternal, Discover, Registering
  <2>. QED BY <2>1, ReserveIInv
<1>4. ASSUME NEW th \in Threads, NEW id \in Ids, Unregister(th, id) PROVE IInv'
  <2>1. /\ UnregisterSection(th, id) /\ UNCHANGED life
        /\ thread[th].op \in {"idle", "cleaned", "gaveUp"}
    BY <1>4, IdleType DEF Unregister, IsCaller, IsIdle
  <2>. QED BY <2>1, UnregisterIInv
<1>5. ASSUME NEW th \in Threads, Drained(th) PROVE IInv'
  <2>1. PICK id \in Ids : id = thread[th].id
    BY <1>5 DEF Drained, IInv, ThreadType, Shape
  <2>2. /\ UnregisterSection(th, id) /\ UNCHANGED life
        /\ thread[th].op \in {"idle", "cleaned", "gaveUp"}
    BY <1>5, <2>1 DEF Drained
  <2>. QED BY <2>2, UnregisterIInv
<1>. QED BY <1>1, <1>2, <1>3, <1>4, <1>5, PublishIInv, UnloadIInv, ReleaseIInv, WaitedIInv,
            UnmarkIInv, ReloadFailsIInv, AcquireIInv, StartDrainIInv, FileChangesIInv, FileDeletedIInv
         DEF Next

LEMMA InvariantIInv == Spec => []IInv
BY InitIInv, NextIInv, PTL DEF Spec

LEMMA IInvTypeOK == IInv => TypeOK
<1>. SUFFICES ASSUME IInv PROVE TypeOK OBVIOUS
<1>1. ASSUME NEW id \in Ids PROVE refs[id] \in 0..Cardinality(Threads)
  <2>1. Holders(id) \subseteq Threads BY DEF Holders
  <2>2. /\ Cardinality(Holders(id)) <= Cardinality(Threads)
        /\ Cardinality(Holders(id)) \in Nat /\ Cardinality(Threads) \in Nat
    BY <2>1, HoldersFinite, RegistryAssumption, FS_Subset, FS_CardinalityType
  <2>3. refs[id] \in Nat /\ refs[id] <= Cardinality(Holders(id)) BY DEF IInv, Counted, Types
  <2>. QED BY <2>2, <2>3
<1>2. refs \in [Ids -> 0..Cardinality(Threads)] BY <1>1 DEF IInv, Types
<1>3. \A th \in Threads : thread[th].op \in Ops BY DEF IInv, ThreadType, States
<1>. QED BY <1>2, <1>3 DEF IInv, Types, TypeOK

LEMMA IInvVisible == IInv => VisibleIsCurrent
<1>. SUFFICES ASSUME IInv, NEW id \in Ids
              PROVE  /\ \A m \in Visible(id) : life[m] = "live" /\
                          \A th \in Threads : thread[th].op = "unload" => thread[th].inst # m
                     /\ store[id] # NoVersions => modules[id] # None
  BY DEF VisibleIsCurrent
<1>1. ASSUME NEW m \in Visible(id)
      PROVE  life[m] = "live" /\
               \A th \in Threads : thread[th].op = "unload" => thread[th].inst # m
  <2>1. m \in Instances /\ Stands(id, m) BY DEF Visible, Stands, IInv, Types
  <2>2. life[m] = "live" BY <2>1 DEF IInv, Owned, StandsOnce
  <2>3. ASSUME NEW th \in Threads, thread[th].op = "unload" PROVE thread[th].inst # m
    BY <2>1, <2>3 DEF IInv, Owned, Sole, Owns
  <2>. QED BY <2>2, <2>3
<1>. QED BY <1>1 DEF IInv, Owned, NoGhost

LEMMA IInvDrains == IInv => DrainsSettle
<1>. SUFFICES ASSUME IInv PROVE DrainsSettle OBVIOUS
<1>. QED BY DEF IInv, Counted, Awaited, Marked, Draining, DrainsSettle

LEMMA IInvUnloaded == IInv => UnloadedOnce
<1>. SUFFICES ASSUME IInv, NEW th \in Threads, thread[th].op = "unload"
              PROVE  /\ life[thread[th].inst] = "live"
                     /\ \A u \in Threads \ {th} :
                          \/ thread[th].inst \notin {thread[u].inst, thread[u].old}
                          \/ thread[u].op \notin {"unload", "restore", "reload"}
  BY DEF UnloadedOnce
<1>1. Sole(th) /\ Owns(th) BY DEF IInv, Owned, Owns
<1>2. thread[th].inst \in Instances /\ life[thread[th].inst] = "live"
  BY <1>1 DEF Sole, IInv, ThreadType, Shape
<1>3. ASSUME NEW u \in Threads \ {th}, thread[u].op \in {"unload", "restore", "reload"}
      PROVE  thread[th].inst \notin {thread[u].inst, thread[u].old}
  <2>1. thread[u].inst # thread[th].inst BY <1>1, <1>3 DEF Sole, Owns, Loaders
  <2>2. thread[u].op = "unload" => thread[u].old = None BY DEF IInv, ThreadType, Shape
  <2>3. thread[u].op = "restore" => thread[u].old = thread[u].inst BY DEF IInv, ThreadType, Shape
  <2>4. thread[u].op = "reload" =>
          thread[u].old = None \/ life[thread[u].old] = "unloaded"
    BY DEF IInv, ThreadType, Shape, Owned, Replaced
  <2>. QED BY <1>2, <1>3, <2>1, <2>2, <2>3, <2>4, RegistryAssumption
<1>. QED BY <1>2, <1>3

-----------------------------------------------------------------------------
(* Type correctness: a count never exceeds the number of threads.            *)
THEOREM TypeCorrect == Spec => []TypeOK
BY InvariantIInv, IInvTypeOK, PTL

(* Whatever registrations, reloads and removals overlap, get() and acquire() *)
(* return only modules whose on_load has completed and whose on_unload       *)
(* neither is due nor has run, and no version outlives a removal.            *)
THEOREM OnlyCurrentIsVisible == Spec => []VisibleIsCurrent
BY InvariantIInv, IInvVisible, PTL

(* Every drain that waits is woken by the last release(), none waits for a   *)
(* user that does not exist, and no mark survives its drain.                 *)
THEOREM NoDrainIsStuck == Spec => []DrainsSettle
BY InvariantIInv, IInvDrains, PTL

(* on_unload runs once for each on_load, on a module that is loaded.         *)
THEOREM HooksArePaired == Spec => []UnloadedOnce
BY InvariantIInv, IInvUnloaded, PTL
=============================================================================

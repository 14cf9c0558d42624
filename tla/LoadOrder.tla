------------------------------ MODULE LoadOrder ------------------------------
(***************************************************************************)
(* The order in which discovery loads modules: version hints               *)
(* (registry/version.py) and the topological order with its cycle report   *)
(* (registry/dependencies.py).  Ids are numbers, in the order in which     *)
(* their strings sort.  A version is the sequence of its numeric parts, a  *)
(* hint a sequence of constraints that must all hold.  A batch is a        *)
(* sequence of modules with the dependencies their metadata lists.         *)
(***************************************************************************)
EXTENDS Naturals, Sequences, FiniteSets, SequencesExt, FiniteSetsExt

-----------------------------------------------------------------------------
(* Versions.                                                                *)
ParseSemver(version) == [i \in 1..3 |-> IF i <= Len(version) THEN version[i] ELSE 0]

Below(v, w) == \E i \in 1..3 : v[i] < w[i] /\ \A j \in 1..(i - 1) : v[j] = w[j]

CaretUpperBound(v) == CASE v[1] > 0 -> <<v[1] + 1, 0, 0>>
                        [] v[1] = 0 /\ v[2] > 0 -> <<0, v[2] + 1, 0>>
                        [] OTHER -> <<0, 0, v[3] + 1>>

TildeUpperBound(v, parts) == IF parts >= 2 THEN <<v[1], v[2] + 1, 0>> ELSE <<v[1] + 1, 0, 0>>

Between(v, low, high) == ~Below(v, low) /\ Below(v, high)

\* A constraint is an operator and an operand; "malformed" raises VersionConstraintError.
Satisfies(v, constraint) ==
  LET target == ParseSemver(constraint.operand)
      parts == Len(constraint.operand)
  IN CASE constraint.op = "^" -> Between(v, target, CaretUpperBound(target))
       [] constraint.op = "~" -> Between(v, target, TildeUpperBound(target, parts))
       [] constraint.op = "=" -> \A i \in 1..(IF parts < 3 THEN parts ELSE 3) : v[i] = target[i]
       [] constraint.op = ">=" -> ~Below(v, target)
       [] constraint.op = "<" -> Below(v, target)
       [] constraint.op = ">" -> Below(target, v)
       [] constraint.op = "<=" -> ~Below(target, v)

MatchesHint(version, hint) == \A i \in DOMAIN hint : Satisfies(ParseSemver(version), hint[i])

\* all() stops at the first constraint that does not hold, malformed or not.
MalformedHint(version, hint) ==
  \E i \in DOMAIN hint : /\ hint[i].op = "malformed"
                         /\ MatchesHint(version, SubSeq(hint, 1, i - 1))

\* The best of some versions: the highest that the hint admits; <<>> for none.
SelectBestVersion(versions, hint) ==
  LET matching == {v \in versions : MatchesHint(v, hint)}
  IN IF matching = {} THEN <<>>
     ELSE CHOOSE v \in matching :
            \A w \in matching : ~Below(ParseSemver(v), ParseSemver(w))

-----------------------------------------------------------------------------
(* Dependencies.                                                            *)
\* Entries that are no mapping, or name no module, are dropped.
ParseDependencies(raw) == SelectSeq(raw, LAMBDA dep : dep.wellFormed)

\* What becomes of one declared dependency: an edge, skipped, or an error.
Verdict(dep, known, versions) ==
  CASE dep.id \notin known -> IF dep.optional THEN "skip" ELSE "not found"
    [] dep.id \in known /\ (dep.hint = <<>> \/ dep.id \notin DOMAIN versions) -> "edge"
    [] OTHER -> CASE MalformedHint(versions[dep.id], dep.hint) -> "malformed"
                  [] ~MalformedHint(versions[dep.id], dep.hint)
                     /\ MatchesHint(versions[dep.id], dep.hint) -> "edge"
                  [] OTHER -> IF dep.optional THEN "skip" ELSE "mismatch"

Declared(batch) ==
  UNION {{[by |-> batch[i].id, dep |-> batch[i].deps[j], at |-> <<i, j>>] :
            j \in DOMAIN batch[i].deps} : i \in DOMAIN batch}

BatchIds(batch) == {batch[i].id : i \in DOMAIN batch}

\* sorted(): the one sequence of all of them that ascends.
Sorted(ids) == CHOOSE s \in [1..Cardinality(ids) -> ids] :
                 \A i, j \in DOMAIN s : i < j => s[i] < s[j]

\* One turn of Kahn's loop: the head of the queue releases those it alone held back.
TurnReleasingEarly(edges, s) ==
  LET id == Head(s.queue)
      dependents == {m \in DOMAIN s.degree : \E e \in edges : e.by = m /\ e.dep.id = id}
      degree == [m \in DOMAIN s.degree |-> IF m \in dependents THEN s.degree[m] - 1
                                           ELSE s.degree[m]]
  IN [queue |-> Tail(s.queue) \o Sorted({m \in dependents : s.degree[m] <= 2 /\ degree[m] >= 0}),
      order |-> Append(s.order, id), degree |-> degree]

Turn(edges, s) ==
  LET id == Head(s.queue)
      dependents == {m \in DOMAIN s.degree : \E e \in edges : e.by = m /\ e.dep.id = id}
      degree == [m \in DOMAIN s.degree |-> IF m \in dependents THEN s.degree[m] - 1
                                           ELSE s.degree[m]]
  IN [queue |-> Tail(s.queue) \o Sorted({m \in dependents : degree[m] = 0}),
      order |-> Append(s.order, id), degree |-> degree]

\* The in-degree counts every declaration, the graph holds each dependent once.
Kahn(batch, edges) ==
  LET ids == BatchIds(batch)
      degree == [m \in ids |-> Cardinality({e \in edges : e.by = m})]
      after[k \in 0..Len(batch)] ==
        IF k = 0 THEN [queue |-> Sorted({m \in ids : degree[m] = 0}), order |-> <<>>,
                       degree |-> degree]
        ELSE IF after[k - 1].queue = <<>> THEN after[k - 1] ELSE Turn(edges, after[k - 1])
  IN after[Len(batch)].order

\* One turn of the iterative depth-first walk.  A frame is a node and how many of its
\* neighbours were taken; a fresh node that is on the path already closes a cycle.
DfsTurn(next, s) ==
  LET node == Last(s.stack).node
      taken == Last(s.stack).taken
      fresh == taken = 0
      path == IF fresh THEN Append(s.path, node) ELSE s.path
      visited == s.visited \cup {node}
  IN CASE fresh /\ node \in ToSet(s.path) ->
            LET start == CHOOSE i \in DOMAIN s.path : s.path[i] = node
            IN [s EXCEPT !.cycle = Append(SubSeq(s.path, start, Len(s.path)), node)]
       [] fresh /\ node \in s.visited \ ToSet(s.path) -> [s EXCEPT !.stack = Front(@)]
       [] OTHER ->
            IF taken < Len(next[node])
            THEN [stack |-> Front(s.stack) \o <<[node |-> node, taken |-> taken + 1],
                                               [node |-> next[node][taken + 1], taken |-> 0]>>,
                  path |-> path, visited |-> visited, cycle |-> <<>>]
            ELSE [stack |-> Front(s.stack), path |-> Front(path), visited |-> visited,
                  cycle |-> <<>>]

\* A turn takes an edge and pushes a frame, or pops one.
EdgesOf(next) == UNION {{m} \X (1..Len(next[m])) : m \in DOMAIN next}
DfsFindCycle(next, start) ==
  LET turns == 2 * Cardinality(EdgesOf(next)) + 1
      after[k \in 0..turns] ==
        LET before == after[k - 1]
        IN IF k = 0 THEN [stack |-> <<[node |-> start, taken |-> 0]>>, path |-> <<>>,
                          visited |-> {}, cycle |-> <<>>]
           ELSE IF before.stack = <<>> \/ before.cycle # <<>> THEN before
           ELSE DfsTurn(next, before)
  IN after[turns].cycle

\* Among the modules left over, by all they declare, skipped dependencies too: from the
\* first that leads to a cycle.
FindBackEdgeCycle(batch, remaining) ==
  LET next == [m \in remaining |->
                 Sorted({e.dep.id : e \in {x \in Declared(batch) : x.by = m}} \cap remaining)]
      found == {m \in remaining : DfsFindCycle(next, m) # <<>>}
  IN IF found = {} THEN <<>> ELSE DfsFindCycle(next, Min(found))

\* resolve_dependencies(): an order, or the exception it raises: on an entry that is at
\* fault, or on a cycle.
ResolveDependencies(batch, known, versions) ==
  LET declared == Declared(batch)
      faulty == \E d \in declared : Verdict(d.dep, known, versions) \notin {"edge", "skip"}
      edges == {d \in declared : Verdict(d.dep, known, versions) = "edge"}
      order == Kahn(batch, edges)
      cycle == FindBackEdgeCycle(batch, BatchIds(batch) \ ToSet(order))
  IN CASE faulty -> [outcome |-> "fault", path |-> <<>>]
       [] ~faulty /\ Len(order) = Len(batch) -> [outcome |-> "order", path |-> order]
       [] OTHER -> IF cycle # <<>> THEN [outcome |-> "cycle", path |-> cycle]
                   ELSE [outcome |-> "blocked", path |-> <<>>]

-----------------------------------------------------------------------------
(* resolve_dependencies() against what it is for: an order names each       *)
(* module of the batch once, after everything that it needs; a reported     *)
(* cycle is one of declared dependencies; and the batch is blocked without  *)
(* a cycle only when some module needs what is not in the batch, or lists a *)
(* dependency twice (dependencies.py:118-119).                              *)
Needs(batch, known, versions) ==
  {e \in Declared(batch) : Verdict(e.dep, known, versions) = "edge"}

OrderRespectsNeeds(batch, known, versions) ==
  LET result == ResolveDependencies(batch, known, versions)
      path == result.path
  IN result.outcome = "order" =>
       /\ ToSet(path) = BatchIds(batch)
       /\ \A i, j \in DOMAIN path : path[i] = path[j] => i = j
       /\ \A e \in Needs(batch, known, versions), i \in DOMAIN path :
            path[i] = e.by => \E j \in 1..(i - 1) : path[j] = e.dep.id

CycleIsDeclared(batch, known, versions) ==
  LET result == ResolveDependencies(batch, known, versions)
      path == result.path
  IN result.outcome = "cycle" =>
       /\ Len(path) > 1 /\ Head(path) = Last(path)
       /\ \A i \in 1..(Len(path) - 1) :
            \E e \in Declared(batch) : e.by = path[i] /\ e.dep.id = path[i + 1]

BlockedForAReason(batch, known, versions) ==
  LET needs == Needs(batch, known, versions)
  IN ResolveDependencies(batch, known, versions).outcome = "blocked" =>
       \/ \E d, e \in needs : d # e /\ d.by = e.by /\ d.dep.id = e.dep.id
       \/ \E e \in needs : e.dep.id \notin BatchIds(batch)

OrderIsSound(batch, known, versions) ==
  /\ OrderRespectsNeeds(batch, known, versions)
  /\ CycleIsDeclared(batch, known, versions)
  /\ BlockedForAReason(batch, known, versions)
=============================================================================

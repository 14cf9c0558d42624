---------------------------- MODULE Catalog_proofs ----------------------------
(* What is proved of the catalog, for every instance.  Load orders: what is  *)
(* ordered follows what it needs, and reported cycles are there (the state   *)
(* of Kahn's loop and of the depth-first search).  Discoveries and reloads   *)
(* replace nothing and lose nothing.  The scan finds each module once: what  *)
(* it has not seen yet, some directory on its stack still owes.  The report  *)
(* on the gates of the control modules is what the gates do: no gate ever    *)
(* holds a field that would let a call past it, in whatever order strategies *)
(* are built, bound and edited.                                              *)
EXTENDS Catalog, FiniteSetTheorems, SequenceTheorems, WellFoundedInduction, TLAPS

LegalSteps == {step \in StepType : LegalStep(step)}
StepLists == Seq(LegalSteps)
Objects == Executors \cup Shared
StrategiesAreLegal == steps \in [Objects -> StepLists]
ExecutorsAreTyped ==
  executor \in [Executors -> [strategy : Objects \cup {None}, own : Providers]]
GovInv == StrategiesAreLegal /\ ExecutorsAreTyped

-----------------------------------------------------------------------------
(* A finite set with a strict order has a minimal element.                  *)
LEMMA MinimalExists ==
  ASSUME NEW S, IsFiniteSet(S), S # {}, NEW R,
         \A x, y, z \in S : <<x, y>> \in R /\ <<y, z>> \in R => <<x, z>> \in R,
         \A x \in S : <<x, x>> \notin R
  PROVE  \E x \in S : \A y \in S : <<y, x>> \notin R
<1> DEFINE Below(v) == {w \in S : <<w, v>> \in R}
           Sets == {Below(v) : v \in S}
<1>1. FiniteSubsetsOf(S) = SUBSET S BY FS_FiniteSubsetsOfFinite
<1>2. Sets \subseteq FiniteSubsetsOf(S) /\ Sets # {}
  <2>1. \A v \in S : Below(v) \in SUBSET S OBVIOUS
  <2>2. Sets \subseteq SUBSET S BY <2>1, ZenonT(60)
  <2>3. PICK v \in S : TRUE OBVIOUS
  <2>4. Below(v) \in Sets BY <2>3
  <2>. QED BY <1>1, <2>2, <2>4
<1>3. PICK A \in Sets : \A B \in Sets : ~(<<B, A>> \in StrictSubsetOrdering(S))
  <2>. HIDE DEF Sets
  <2>. QED BY <1>2, FS_StrictSubsetOrderingWellFounded, WFMin
<1>4. PICK v \in S : A = Below(v) BY <1>3
<1>5. ASSUME NEW w \in S, <<w, v>> \in R PROVE FALSE
  <2>1. Below(w) \subseteq Below(v) BY <1>5
  <2>2. w \in Below(v) /\ w \notin Below(w) BY <1>5
  <2>3. <<Below(w), Below(v)>> \in StrictSubsetOrdering(S)
    BY <2>1, <2>2 DEF StrictSubsetOrdering
  <2>4. Below(w) \in Sets OBVIOUS
  <2>. HIDE DEF Sets
  <2>. QED BY <1>3, <1>4, <2>3, <2>4
<1>. QED BY <1>5

LEMMA GreatestExists ==
  ASSUME NEW S \in SUBSET Nat, IsFiniteSet(S), S # {}
  PROVE  \E x \in S : \A y \in S : y <= x
<1> DEFINE R == {p \in S \X S : p[1] > p[2]}
<1>1. \A x, y \in S : <<x, y>> \in R <=> x > y OBVIOUS
<1>. HIDE DEF R
<1>2. \A x, y, z \in S : <<x, y>> \in R /\ <<y, z>> \in R => <<x, z>> \in R
  <2>1. \A x, y, z \in S : x > y /\ y > z => x > z OBVIOUS
  <2>. QED BY <1>1, <2>1
<1>3. \A x \in S : <<x, x>> \notin R BY <1>1
<1>4. PICK x \in S : \A y \in S : <<y, x>> \notin R BY <1>2, <1>3, MinimalExists
<1>5. \A y \in S : y <= x
  <2>1. ASSUME NEW y \in S PROVE y <= x
    <3>1. ~(y > x) BY <1>1, <1>4
    <3>. QED BY <3>1
  <2>. QED BY <2>1
<1>. QED BY <1>5

(* What holds of 0 and is inherited by the next number holds up to a bound. *)
LEMMA Upwards ==
  ASSUME NEW n \in Nat, NEW S, 0 \in S, \A k \in 0..n : k > 0 /\ k - 1 \in S => k \in S
  PROVE  \A k \in 0..n : k \in S
<1> DEFINE Bad == {k \in 0..n : k \notin S}
           R == {p \in Bad \X Bad : p[1] < p[2]}
<1>. SUFFICES ASSUME Bad # {} PROVE FALSE OBVIOUS
<1>1. IsFiniteSet(Bad)
  <2>1. IsFiniteSet(0..n) BY FS_Interval
  <2>. QED BY <2>1, FS_Subset
<1>2. \A x, y \in Bad : <<x, y>> \in R <=> x < y OBVIOUS
<1>3. Bad \subseteq Nat OBVIOUS
<1>4. \A k \in Bad : k # 0 /\ (k - 1 \in Bad \/ k - 1 \in S) OBVIOUS
<1>5. \A k \in Bad : k - 1 \in Bad OBVIOUS
<1>. HIDE DEF R, Bad
<1>6. \A x, y, z \in Bad : <<x, y>> \in R /\ <<y, z>> \in R => <<x, z>> \in R
  <2>1. \A x, y, z \in Bad : x < y /\ y < z => x < z BY <1>3
  <2>. QED BY <1>2, <2>1
<1>7. \A x \in Bad : <<x, x>> \notin R BY <1>2, <1>3
<1>8. PICK k \in Bad : \A y \in Bad : <<y, k>> \notin R BY <1>1, <1>6, <1>7, MinimalExists
<1>9. k - 1 \in Bad /\ k - 1 < k BY <1>3, <1>5
<1>. QED BY <1>2, <1>8, <1>9

-----------------------------------------------------------------------------
(* Lists of legal steps under the operations on lists.                      *)
LEMMA ListFromFunction ==
  ASSUME NEW S, NEW T, NEW list \in Seq(S), NEW f, f \in [DOMAIN list -> T]
  PROVE  f \in Seq(T) /\ DOMAIN f = DOMAIN list
<1>1. DOMAIN list = 1..Len(list) /\ Len(list) \in Nat OBVIOUS
<1>2. f \in [1..Len(list) -> T] BY <1>1
<1>. QED BY <1>1, <1>2, SMTT(30)

LEMMA InsertAtType ==
  ASSUME NEW S, NEW list \in Seq(S), NEW place \in 1..(Len(list) + 1), NEW x \in S
  PROVE  Gov!InsertAt(list, place, x) \in Seq(S)
<1>1. SubSeq(list, 1, place - 1) \in Seq(S) OBVIOUS
<1>2. SubSeq(list, place, Len(list)) \in Seq(S) OBVIOUS
<1>3. <<x>> \in Seq(S) OBVIOUS
<1>. QED BY <1>1, <1>2, <1>3, ConcatProperties DEF Gov!InsertAt

LEMMA RemoveAtType ==
  ASSUME NEW S, NEW list \in Seq(S), NEW place \in 1..Len(list)
  PROVE  Gov!RemoveAt(list, place) \in Seq(S)
<1>1. SubSeq(list, 1, place - 1) \in Seq(S) OBVIOUS
<1>2. SubSeq(list, place + 1, Len(list)) \in Seq(S) OBVIOUS
<1>. QED BY <1>1, <1>2, ConcatProperties DEF Gov!RemoveAt

LEMMA ReplaceAtType ==
  ASSUME NEW S, NEW list \in Seq(S), NEW place \in 1..Len(list), NEW x \in S
  PROVE  Gov!ReplaceAt(list, place, x) \in Seq(S)
<1>1. Gov!ReplaceAt(list, place, x) \in [DOMAIN list -> S] BY DEF Gov!ReplaceAt
<1>. QED BY <1>1, ListFromFunction

-----------------------------------------------------------------------------
LEMMA SameCardinality == \A S : Disc!Cardinality(S) = Cardinality(S)
BY DEF Disc!Cardinality, Cardinality

(* A finite set of ids can be sorted, and sorting loses none and adds none.  *)
LEMMA SortedExists ==
  ASSUME NEW U \in SUBSET Nat, IsFiniteSet(U), NEW n \in Nat
  PROVE  \A k \in 0..n : \A S \in SUBSET U : Cardinality(S) = k =>
           \E s \in [1..k -> S] : \A i, j \in 1..k : i < j => s[i] < s[j]
<1> DEFINE Ascends(s, k) == \A i, j \in 1..k : i < j => s[i] < s[j]
           Fine == {k \in 0..n : \A S \in SUBSET U :
                      Cardinality(S) = k => \E s \in [1..k -> S] : Ascends(s, k)}
<1>1. 0 \in Fine
  <2>1. ASSUME NEW S PROVE \E s \in [1..0 -> S] : Ascends(s, 0)
    <3> DEFINE s == [i \in 1..0 |-> i]
    <3>1. s \in [1..0 -> S] /\ Ascends(s, 0) OBVIOUS
    <3>. QED BY <3>1
  <2>. QED BY <2>1
<1>2. ASSUME NEW k \in 0..n, k > 0, k - 1 \in Fine PROVE k \in Fine
  <2>1. ASSUME NEW S \in SUBSET U, Cardinality(S) = k PROVE \E s \in [1..k -> S] : Ascends(s, k)
    <3>1. IsFiniteSet(S) /\ S # {}
      <4>1. IsFiniteSet(S) BY FS_Subset
      <4>2. Cardinality({}) = 0 BY FS_EmptySet
      <4>. QED BY <1>2, <2>1, <4>1, <4>2
    <3>2. PICK x \in S : \A y \in S : y <= x BY <3>1, GreatestExists
    <3> DEFINE Rest == S \ {x}
    <3>3. Cardinality(Rest) = k - 1 BY <2>1, <3>1, <3>2, FS_RemoveElement
    <3>4. PICK r \in [1..(k - 1) -> Rest] : Ascends(r, k - 1) BY <1>2, <3>3
    <3> DEFINE s == [i \in 1..k |-> IF i = k THEN x ELSE r[i]]
    <3>5. \A i \in 1..k : i # k => i \in 1..(k - 1) /\ r[i] \in S /\ r[i] < x
      <4>1. ASSUME NEW i \in 1..k, i # k PROVE i \in 1..(k - 1) BY <1>2, <4>1
      <4>2. ASSUME NEW y \in Rest PROVE y \in S /\ y < x
        <5>1. y \in S /\ y # x /\ y \in Nat /\ x \in Nat BY <4>2
        <5>. QED BY <3>2, <5>1
      <4>. QED BY <3>4, <4>1, <4>2
    <3>6. s \in [1..k -> S] BY <3>2, <3>5
    <3>7. Ascends(s, k)
      <4>1. ASSUME NEW i \in 1..k, NEW j \in 1..k, i < j PROVE s[i] < s[j]
        <5>1. i # k /\ i \in 1..(k - 1) /\ s[i] = r[i] BY <1>2, <4>1, <3>5
        <5>2. CASE j = k BY <3>5, <5>1, <5>2
        <5>3. CASE j # k
          <6>1. j \in 1..(k - 1) /\ s[j] = r[j] BY <3>5, <5>3
          <6>. QED BY <3>4, <4>1, <5>1, <6>1
        <5>. QED BY <5>2, <5>3
      <4>. QED BY <4>1
    <3>. HIDE DEF s, Ascends
    <3>. QED BY <3>6, <3>7
  <2>. QED BY <2>1
<1>. HIDE DEF Fine
<1>3. \A k \in 0..n : k \in Fine BY <1>1, <1>2, Upwards
<1>. QED BY <1>3 DEF Fine

LEMMA SortedIs ==
  ASSUME NEW S \in SUBSET Nat, IsFiniteSet(S)
  PROVE  /\ Cardinality(S) \in Nat
         /\ Disc!Sorted(S) \in [1..Cardinality(S) -> S]
         /\ Disc!Sorted(S) \in Seq(S) /\ Len(Disc!Sorted(S)) = Cardinality(S)
<1> DEFINE k == Cardinality(S)
<1>1. k \in Nat BY FS_CardinalityType
<1>2. k \in 0..k BY <1>1
<1>3. \E s \in [1..k -> S] : \A i, j \in 1..k : i < j => s[i] < s[j]
  BY <1>1, <1>2, SortedExists
<1>4. Disc!Sorted(S) \in [1..k -> S]
  <2> DEFINE Up(s) == \A i, j \in DOMAIN s : i < j => s[i] < s[j]
  <2>1. \E s \in [1..k -> S] : Up(s) BY <1>3
  <2>2. Disc!Sorted(S) = CHOOSE s \in [1..k -> S] : Up(s) BY SameCardinality DEF Disc!Sorted
  <2>. HIDE DEF Up, k
  <2>. QED BY <2>1, <2>2
<1>. HIDE DEF k
<1>5. \A s \in [1..k -> S] : s \in Seq(S) /\ Len(s) = k BY <1>1, SMTT(30)
<1>. QED BY <1>1, <1>4, <1>5 DEF k

LEMMA AtPlacesType ==
  ASSUME NEW T, NEW list \in Seq(T), NEW P \in SUBSET (DOMAIN list)
  PROVE  Disc!AtPlaces(list, P) \in Seq(T)
<1>1. P \in SUBSET Nat /\ IsFiniteSet(P)
  <2>1. DOMAIN list = 1..Len(list) /\ Len(list) \in Nat OBVIOUS
  <2>2. IsFiniteSet(DOMAIN list) BY <2>1, FS_Interval
  <2>3. IsFiniteSet(P) BY <2>2, FS_Subset
  <2>. QED BY <2>1, <2>3
<1> DEFINE k == Cardinality(P)
<1>2. k \in Nat /\ Disc!Sorted(P) \in [1..k -> P] BY <1>1, SortedIs
<1>3. Disc!AtPlaces(list, P) \in [1..k -> T]
  <2>1. \A i \in P : list[i] \in T OBVIOUS
  <2>2. \A i \in 1..k : list[Disc!Sorted(P)[i]] \in T BY <1>2, <2>1
  <2>3. Disc!AtPlaces(list, P) = [i \in 1..k |-> list[Disc!Sorted(P)[i]]]
    BY SameCardinality DEF Disc!AtPlaces
  <2>. HIDE DEF k
  <2>. QED BY <2>2, <2>3
<1>. HIDE DEF k
<1>4. \A s \in [1..k -> T] : s \in Seq(T) BY <1>2, SMTT(30)
<1>. QED BY <1>3, <1>4

LEMMA ListOfMore ==
  ASSUME NEW T, NEW S \in SUBSET T, NEW list \in Seq(S)
  PROVE  list \in Seq(T)
OBVIOUS

-----------------------------------------------------------------------------
(* What the in-degrees count: a module is free once all it needs is listed.  *)
NeedsOf(edges, m) == {e \in edges : e.by = m}
NeededBy(edges, m) == {e.dep.id : e \in NeedsOf(edges, m)}
Once(list) == \A i, j \in DOMAIN list : list[i] = list[j] => i = j

LEMMA NeededIsFinite ==
  ASSUME NEW edges, IsFiniteSet(edges), NEW m
  PROVE  /\ IsFiniteSet(NeededBy(edges, m))
         /\ Cardinality(NeedsOf(edges, m)) \in Nat /\ Cardinality(NeededBy(edges, m)) \in Nat
         /\ Cardinality(NeededBy(edges, m)) <= Cardinality(NeedsOf(edges, m))
<1> DEFINE S == NeedsOf(edges, m)
           T == NeededBy(edges, m)
           f == [e \in S |-> e.dep.id]
<1>1. IsFiniteSet(S) BY FS_Subset DEF NeedsOf
<1>2. f \in Surjection(S, T) BY DEF Surjection, NeededBy
<1>. HIDE DEF S, T, f
<1>3. IsFiniteSet(T) /\ Cardinality(T) <= Cardinality(S) BY <1>1, <1>2, FS_Surjection
<1>. QED BY <1>1, <1>3, FS_CardinalityType DEF S, T

LEMMA ListingCounts ==
  ASSUME NEW edges, IsFiniteSet(edges), NEW m, NEW D
  PROVE  LET left(L) == Cardinality(NeedsOf(edges, m)) - Cardinality(NeededBy(edges, m) \cap L)
         IN /\ left(D) \in Nat
            /\ left(D) = 0 => NeededBy(edges, m) \subseteq D
            /\ \A x : x \notin D =>
                 left(D \cup {x}) = IF x \in NeededBy(edges, m) THEN left(D) - 1 ELSE left(D)
<1> DEFINE N == NeededBy(edges, m)
           count == Cardinality(NeedsOf(edges, m))
<1>1. IsFiniteSet(N) /\ Cardinality(N) \in Nat /\ count \in Nat /\ Cardinality(N) <= count
  BY NeededIsFinite
<1>. HIDE DEF N, count
<1>2. N \cap D \in SUBSET N OBVIOUS
<1>3. /\ IsFiniteSet(N \cap D) /\ Cardinality(N \cap D) \in Nat
      /\ Cardinality(N \cap D) <= Cardinality(N)
      /\ Cardinality(N) = Cardinality(N \cap D) => N = N \cap D
  BY <1>1, <1>2, FS_Subset, FS_CardinalityType
<1>4. count - Cardinality(N \cap D) = 0 => N \subseteq D BY <1>1, <1>3
<1>5. ASSUME NEW x, x \notin D
      PROVE  Cardinality(N \cap (D \cup {x}))
             = IF x \in N THEN Cardinality(N \cap D) + 1 ELSE Cardinality(N \cap D)
  <2>1. CASE x \in N
    <3>1. N \cap (D \cup {x}) = (N \cap D) \cup {x} /\ x \notin N \cap D BY <1>5, <2>1
    <3>2. Cardinality((N \cap D) \cup {x}) = Cardinality(N \cap D) + 1
      BY <1>3, <3>1, FS_AddElement
    <3>. QED BY <2>1, <3>1, <3>2
  <2>2. CASE x \notin N
    <3>1. N \cap (D \cup {x}) = N \cap D BY <2>2
    <3>. QED BY <2>2, <3>1
  <2>. QED BY <2>1, <2>2
<1>6. count - Cardinality(N \cap D) \in Nat BY <1>1, <1>3
<1>7. ASSUME NEW x, x \notin D
      PROVE  count - Cardinality(N \cap (D \cup {x}))
             = IF x \in N THEN count - Cardinality(N \cap D) - 1 ELSE count - Cardinality(N \cap D)
  <2> DEFINE before == Cardinality(N \cap D)
             after == Cardinality(N \cap (D \cup {x}))
  <2>1. before \in Nat /\ count \in Nat /\ after = IF x \in N THEN before + 1 ELSE before
    BY <1>1, <1>3, <1>5, <1>7
  <2>. HIDE DEF before, after
  <2>2. count - after = IF x \in N THEN count - before - 1 ELSE count - before BY <2>1
  <2>. QED BY <2>2 DEF before, after
<1>. QED BY <1>4, <1>6, <1>7 DEF N, count

LEMMA SortedLists ==
  ASSUME NEW S \in SUBSET Nat, IsFiniteSet(S)
  PROVE  Disc!ToSet(Disc!Sorted(S)) = S /\ Once(Disc!Sorted(S))
<1> DEFINE k == Cardinality(S)
           s == Disc!Sorted(S)
           Up(f) == \A i, j \in DOMAIN f : i < j => f[i] < f[j]
<1>1. k \in Nat /\ s \in [1..k -> S] BY SortedIs
<1>2. Up(s)
  <2>1. k \in 0..k BY <1>1
  <2>2. \E f \in [1..k -> S] : \A i, j \in 1..k : i < j => f[i] < f[j]
    BY <1>1, <2>1, SortedExists
  <2>3. \E f \in [1..k -> S] : Up(f) BY <2>2
  <2>4. s = CHOOSE f \in [1..k -> S] : Up(f) BY SameCardinality DEF Disc!Sorted
  <2>. HIDE DEF Up, k, s
  <2>. QED BY <2>3, <2>4
<1>. HIDE DEF k, s
<1>3. Once(s)
  <2>1. ASSUME NEW i \in 1..k, NEW j \in 1..k, s[i] = s[j] PROVE i = j
    <3>0. s[i] \in S BY <1>1
    <3>1. s[i] \in Nat BY <3>0, S \subseteq Nat
    <3>2. i \in Nat /\ j \in Nat OBVIOUS
    <3>3. ~(i < j) /\ ~(j < i) BY <1>1, <1>2, <2>1, <3>1
    <3>. QED BY <3>2, <3>3
  <2>. QED BY <1>1, <2>1 DEF Once
<1>4. s \in Injection(1..k, S) BY <1>1, <1>3 DEF Injection, IsInjective, Once
<1>5. Cardinality(1..k) = k BY <1>1, FS_Interval
<1>6. s \in Surjection(1..k, S) BY <1>4, <1>5, FS_Injection DEF k
<1>7. Disc!ToSet(s) = S BY <1>1, <1>6 DEF Disc!ToSet, Surjection
<1>. QED BY <1>3, <1>7 DEF s

(* Kahn's loop.  A module is in the order or in the queue, once, exactly if  *)
(* its in-degree is zero, which counts what it needs and is not in the order. *)
KahnTypes(ids, s) == s.queue \in Seq(ids) /\ s.order \in Seq(ids) /\ DOMAIN s.degree = ids
KahnCounts(ids, edges, s) ==
  \A m \in ids : s.degree[m] = Cardinality(NeedsOf(edges, m))
                               - Cardinality(NeededBy(edges, m) \cap Disc!ToSet(s.order))
KahnLists(ids, s) ==
  /\ Once(s.order) /\ Once(s.queue) /\ Disc!ToSet(s.order) \cap Disc!ToSet(s.queue) = {}
  /\ \A m \in ids : m \in Disc!ToSet(s.order) \cup Disc!ToSet(s.queue) <=> s.degree[m] = 0
KahnPlaces(edges, order) ==
  \A i \in DOMAIN order : NeededBy(edges, order[i]) \subseteq {order[j] : j \in 1..(i - 1)}
KahnOrders(ids, edges, s) ==
  KahnCounts(ids, edges, s) /\ KahnLists(ids, s) /\ KahnPlaces(edges, s.order)

LEMMA AppendLists ==
  ASSUME NEW T, NEW list \in Seq(T), NEW x \in T
  PROVE  /\ DOMAIN Append(list, x) = DOMAIN list \cup {Len(list) + 1}
         /\ Disc!ToSet(Append(list, x)) = Disc!ToSet(list) \cup {x}
         /\ \A i \in DOMAIN list : Append(list, x)[i] = list[i]
         /\ Append(list, x)[Len(list) + 1] = x
         /\ Once(list) /\ x \notin Disc!ToSet(list) => Once(Append(list, x))
<1> DEFINE more == Append(list, x)
<1>1. /\ DOMAIN more = 1..(Len(list) + 1) /\ DOMAIN list = 1..Len(list) /\ Len(list) \in Nat
      /\ \A i \in DOMAIN list : more[i] = list[i]
      /\ more[Len(list) + 1] = x
  OBVIOUS
<1>. HIDE DEF more
<1>2. DOMAIN more = DOMAIN list \cup {Len(list) + 1} BY <1>1
<1>3. Disc!ToSet(more) = Disc!ToSet(list) \cup {x} BY <1>1, <1>2 DEF Disc!ToSet
<1>4. Once(list) /\ x \notin Disc!ToSet(list) => Once(more)
  BY <1>1, <1>2 DEF Disc!ToSet, Once
<1>. QED BY <1>1, <1>2, <1>3, <1>4 DEF more

LEMMA JoinedLists ==
  ASSUME NEW T, NEW a \in Seq(T), NEW b \in Seq(T)
  PROVE  /\ Disc!ToSet(a \o b) = Disc!ToSet(a) \cup Disc!ToSet(b)
         /\ Once(a) /\ Once(b) /\ Disc!ToSet(a) \cap Disc!ToSet(b) = {} => Once(a \o b)
<1> DEFINE c == a \o b
<1>1. /\ DOMAIN a = 1..Len(a) /\ DOMAIN b = 1..Len(b) /\ Len(a) \in Nat /\ Len(b) \in Nat
      /\ DOMAIN c = 1..(Len(a) + Len(b))
      /\ \A i \in DOMAIN c : c[i] = IF i <= Len(a) THEN a[i] ELSE b[i - Len(a)]
  BY ConcatProperties
<1>. HIDE DEF c
<1>2. \A i \in DOMAIN a : i \in DOMAIN c /\ c[i] = a[i] BY <1>1
<1>3. \A i \in DOMAIN b : i + Len(a) \in DOMAIN c /\ c[i + Len(a)] = b[i] BY <1>1
<1>4. \A i \in DOMAIN c : \/ i \in DOMAIN a /\ c[i] = a[i]
                          \/ i - Len(a) \in DOMAIN b /\ c[i] = b[i - Len(a)] /\ i > Len(a)
  BY <1>1
<1>5. Disc!ToSet(c) = Disc!ToSet(a) \cup Disc!ToSet(b)
  BY <1>2, <1>3, <1>4 DEF Disc!ToSet
<1>6. ASSUME Once(a), Once(b), Disc!ToSet(a) \cap Disc!ToSet(b) = {} PROVE Once(c)
  <2>1. ASSUME NEW i \in DOMAIN c, NEW j \in DOMAIN c, c[i] = c[j] PROVE i = j
    <3>1. CASE i \in DOMAIN a /\ c[i] = a[i] /\ j \in DOMAIN a /\ c[j] = a[j]
      BY <1>6, <2>1, <3>1 DEF Once
    <3>2. CASE /\ i - Len(a) \in DOMAIN b /\ c[i] = b[i - Len(a)]
               /\ j - Len(a) \in DOMAIN b /\ c[j] = b[j - Len(a)]
      <4>1. i - Len(a) = j - Len(a) BY <1>6, <2>1, <3>2 DEF Once
      <4>. QED BY <1>1, <4>1
    <3>3. ASSUME NEW x \in Disc!ToSet(a) PROVE x \notin Disc!ToSet(b) BY <1>6
    <3>4. ~(i \in DOMAIN a /\ c[i] = a[i] /\ j - Len(a) \in DOMAIN b /\ c[j] = b[j - Len(a)])
      BY <2>1, <3>3 DEF Disc!ToSet
    <3>5. ~(j \in DOMAIN a /\ c[j] = a[j] /\ i - Len(a) \in DOMAIN b /\ c[i] = b[i - Len(a)])
      BY <2>1, <3>3 DEF Disc!ToSet
    <3>. QED BY <1>4, <3>1, <3>2, <3>4, <3>5
  <2>. QED BY <2>1 DEF Once
<1>. QED BY <1>5, <1>6 DEF c

LEMMA HeadLists ==
  ASSUME NEW T, NEW list \in Seq(T), list # <<>>, Once(list)
  PROVE  /\ Disc!ToSet(list) = Disc!ToSet(Tail(list)) \cup {Head(list)}
         /\ Head(list) \notin Disc!ToSet(Tail(list)) /\ Once(Tail(list))
<1> DEFINE rest == Tail(list)
<1>1. /\ DOMAIN list = 1..Len(list) /\ Len(list) \in Nat /\ Len(list) >= 1
      /\ DOMAIN rest = 1..(Len(list) - 1) /\ \A i \in DOMAIN rest : rest[i] = list[i + 1]
      /\ Head(list) = list[1]
  OBVIOUS
<1>. HIDE DEF rest
<1>2. \A i \in DOMAIN rest : i + 1 \in DOMAIN list BY <1>1
<1>3. \A i \in DOMAIN list : i = 1 \/ (i - 1 \in DOMAIN rest /\ rest[i - 1] = list[i]) BY <1>1
<1>4. Disc!ToSet(list) = Disc!ToSet(rest) \cup {Head(list)}
  BY <1>1, <1>2, <1>3 DEF Disc!ToSet
<1>5. Head(list) \notin Disc!ToSet(rest) BY <1>1, <1>2 DEF Disc!ToSet, Once
<1>6. Once(rest)
  <2>1. ASSUME NEW i \in DOMAIN rest, NEW j \in DOMAIN rest, rest[i] = rest[j] PROVE i = j
    <3>1. i + 1 = j + 1 BY <1>1, <1>2, <2>1 DEF Once
    <3>. QED BY <1>1, <3>1
  <2>. QED BY <2>1 DEF Once
<1>. QED BY <1>4, <1>5, <1>6 DEF rest

-----------------------------------------------------------------------------
(* The load order names modules of the batch and no others, each after what  *)
(* it needs.                                                                 *)
LEMMA TurnType ==
  ASSUME NEW ids \in SUBSET Nat, IsFiniteSet(ids), NEW edges, NEW s,
         s.queue \in Seq(ids), s.queue # <<>>, s.order \in Seq(ids), DOMAIN s.degree = ids
  PROVE  LET r == Disc!Turn(edges, s)
         IN r.queue \in Seq(ids) /\ r.order \in Seq(ids) /\ DOMAIN r.degree = ids
<1> DEFINE id == Head(s.queue)
           dependents == {m \in DOMAIN s.degree :
                            \E e \in edges : e.by = m /\ e.dep.id = id}
           degree == [m \in DOMAIN s.degree |-> IF m \in dependents THEN s.degree[m] - 1
                                                ELSE s.degree[m]]
           free == {m \in dependents : degree[m] = 0}
           r == Disc!Turn(edges, s)
<1>1. r = [queue |-> Tail(s.queue) \o Disc!Sorted(free), order |-> Append(s.order, id),
           degree |-> degree]
  BY DEF Disc!Turn
<1>2. id \in ids /\ Tail(s.queue) \in Seq(ids) OBVIOUS
<1>3. free \in SUBSET ids /\ IsFiniteSet(free)
  <2>1. free \in SUBSET ids OBVIOUS
  <2>. HIDE DEF free
  <2>. QED BY <2>1, FS_Subset
<1>4. Disc!Sorted(free) \in Seq(ids)
  <2>. HIDE DEF free
  <2>1. free \in SUBSET Nat BY <1>3
  <2>2. Disc!Sorted(free) \in Seq(free) BY <1>3, <2>1, SortedIs
  <2>. HIDE DEF free, dependents
  <2>. QED BY <1>3, <2>2, ListOfMore
<1>5. DOMAIN degree = ids OBVIOUS
<1>. HIDE DEF id, degree, free, r
<1>6. Tail(s.queue) \o Disc!Sorted(free) \in Seq(ids) /\ Append(s.order, id) \in Seq(ids)
  BY <1>2, <1>4
<1>. QED BY <1>1, <1>5, <1>6 DEF r

(* A turn lists a module that was free, once, and frees those it held back.  *)
LEMMA TurnOrders ==
  ASSUME NEW ids \in SUBSET Nat, IsFiniteSet(ids), NEW edges, IsFiniteSet(edges), NEW s,
         KahnTypes(ids, s), KahnOrders(ids, edges, s), s.queue # <<>>
  PROVE  KahnOrders(ids, edges, Disc!Turn(edges, s))
<1> DEFINE id == Head(s.queue)
           listed == Disc!ToSet(s.order)
           rest == Disc!ToSet(Tail(s.queue))
           dependents == {m \in DOMAIN s.degree : \E e \in edges : e.by = m /\ e.dep.id = id}
           degree == [m \in DOMAIN s.degree |-> IF m \in dependents THEN s.degree[m] - 1
                                                ELSE s.degree[m]]
           free == {m \in dependents : degree[m] = 0}
           r == Disc!Turn(edges, s)
<1>1. r = [queue |-> Tail(s.queue) \o Disc!Sorted(free), order |-> Append(s.order, id),
           degree |-> degree]
  BY DEF Disc!Turn
<1>2. id \in ids /\ Tail(s.queue) \in Seq(ids) /\ s.order \in Seq(ids) /\ DOMAIN s.degree = ids
  BY DEF KahnTypes
<1>3. \A m \in ids : m \in dependents <=> id \in NeededBy(edges, m)
  BY <1>2 DEF NeededBy, NeedsOf
<1>4. free \in SUBSET ids /\ free \in SUBSET Nat /\ IsFiniteSet(free)
  <2>1. free \in SUBSET ids BY <1>2
  <2>. HIDE DEF free
  <2>. QED BY <2>1, FS_Subset
<1>5. \A m \in ids : degree[m] = IF m \in dependents THEN s.degree[m] - 1 ELSE s.degree[m]
  BY <1>2
<1>6. free = {m \in ids : m \in dependents /\ degree[m] = 0} BY <1>2
<1>. HIDE DEF r, dependents, degree, free
<1>7. /\ Disc!ToSet(s.queue) = rest \cup {id} /\ id \notin rest /\ Once(Tail(s.queue))
      /\ id \notin listed /\ listed \cap rest = {}
  BY HeadLists DEF KahnTypes, KahnOrders, KahnLists
<1>8. Disc!ToSet(r.order) = listed \cup {id}
  BY <1>1, <1>2, AppendLists
<1>. HIDE DEF id, listed, rest
<1>9. ASSUME NEW m \in ids
      PROVE  /\ s.degree[m] \in Nat
             /\ degree[m] = Cardinality(NeedsOf(edges, m))
                            - Cardinality(NeededBy(edges, m) \cap (listed \cup {id}))
             /\ s.degree[m] = 0 => NeededBy(edges, m) \subseteq listed
             /\ m \in dependents => s.degree[m] # 0
             /\ m \in listed \cup rest \cup {id} <=> s.degree[m] = 0
  <2> DEFINE left(L) == Cardinality(NeedsOf(edges, m)) - Cardinality(NeededBy(edges, m) \cap L)
  <2>1. s.degree[m] = left(listed) BY DEF KahnOrders, KahnCounts, listed
  <2>2. /\ left(listed) \in Nat
        /\ left(listed) = 0 => NeededBy(edges, m) \subseteq listed
        /\ left(listed \cup {id}) = IF id \in NeededBy(edges, m) THEN left(listed) - 1
                                    ELSE left(listed)
    BY <1>7, ListingCounts
  <2>3. degree[m] = left(listed \cup {id}) BY <1>3, <1>5, <2>1, <2>2
  <2>4. m \in dependents => s.degree[m] # 0 BY <1>3, <1>7, <2>1, <2>2
  <2>5. m \in listed \cup rest \cup {id} <=> s.degree[m] = 0
    BY <1>7 DEF KahnOrders, KahnLists, listed
  <2>. QED BY <2>1, <2>2, <2>3, <2>4, <2>5
<1>10. KahnCounts(ids, edges, r) BY <1>1, <1>8, <1>9 DEF KahnCounts
<1>11. Disc!ToSet(Disc!Sorted(free)) = free /\ Once(Disc!Sorted(free)) /\ Disc!Sorted(free) \in Seq(ids)
  <2>1. Disc!Sorted(free) \in Seq(free) BY <1>4, SortedIs
  <2>2. Disc!Sorted(free) \in Seq(ids) BY <1>4, <2>1, ListOfMore
  <2>. QED BY <1>4, <2>2, SortedLists
<1>12. \A m \in free : m \notin listed \cup rest \cup {id} BY <1>6, <1>9
<1>13. /\ Disc!ToSet(r.queue) = rest \cup free
       /\ Once(r.queue)
  <2>1. rest \cap free = {} BY <1>12
  <2> DEFINE a == Tail(s.queue)
             b == Disc!Sorted(free)
  <2>2. /\ r.queue = a \o b /\ a \in Seq(ids) /\ b \in Seq(ids) /\ Once(a) /\ Once(b)
        /\ Disc!ToSet(a) = rest /\ Disc!ToSet(b) = free
    BY <1>1, <1>2, <1>7, <1>11 DEF rest
  <2>. HIDE DEF a, b
  <2>3. Disc!ToSet(a \o b) = rest \cup free /\ Once(a \o b)
    BY <2>1, <2>2, JoinedLists
  <2>. QED BY <2>2, <2>3
<1>14. Once(r.order) BY <1>1, <1>2, <1>7, AppendLists DEF listed, KahnOrders, KahnLists
<1>15. ASSUME NEW m \in ids
       PROVE  m \in Disc!ToSet(r.order) \cup Disc!ToSet(r.queue) <=> r.degree[m] = 0
  <2>1. r.degree[m] = degree[m] BY <1>1
  <2>2. m \in Disc!ToSet(r.order) \cup Disc!ToSet(r.queue) <=> m \in listed \cup rest \cup {id} \cup free
    BY <1>8, <1>13
  <2>3. CASE m \in dependents
    <3>1. m \notin listed \cup rest \cup {id} BY <1>9, <2>3
    <3>. QED BY <1>6, <2>1, <2>2, <2>3, <3>1
  <2>4. CASE m \notin dependents
    <3>1. m \notin free /\ degree[m] = s.degree[m] BY <1>5, <1>6, <2>4
    <3>. QED BY <1>9, <2>1, <2>2, <3>1
  <2>. QED BY <2>3, <2>4
<1>16. KahnLists(ids, r)
  <2>1. Disc!ToSet(r.order) \cap Disc!ToSet(r.queue) = {} BY <1>7, <1>8, <1>12, <1>13
  <2>. QED BY <1>13, <1>14, <1>15, <2>1 DEF KahnLists
<1>17. KahnPlaces(edges, r.order)
  <2> DEFINE n == Len(s.order)
  <2>1. /\ DOMAIN r.order = DOMAIN s.order \cup {n + 1} /\ DOMAIN s.order = 1..n /\ n \in Nat
        /\ \A i \in DOMAIN s.order : r.order[i] = s.order[i]
        /\ r.order[n + 1] = id
    BY <1>1, <1>2, AppendLists
  <2>. HIDE DEF n
  <2>2. ASSUME NEW i \in DOMAIN s.order
        PROVE  NeededBy(edges, r.order[i]) \subseteq {r.order[j] : j \in 1..(i - 1)}
    <3>1. NeededBy(edges, s.order[i]) \subseteq {s.order[j] : j \in 1..(i - 1)}
      BY DEF KahnOrders, KahnPlaces
    <3>2. \A j \in 1..(i - 1) : r.order[j] = s.order[j] BY <2>1
    <3>. QED BY <2>1, <3>1, <3>2
  <2>3. NeededBy(edges, id) \subseteq {r.order[j] : j \in 1..n}
    <3>1. NeededBy(edges, id) \subseteq listed BY <1>2, <1>9
    <3>2. \A x \in listed : \E j \in 1..n : x = s.order[j] BY <2>1 DEF listed, Disc!ToSet
    <3>. QED BY <2>1, <3>1, <3>2
  <2>4. (n + 1) - 1 = n BY <2>1
  <2>. QED BY <2>1, <2>2, <2>3, <2>4 DEF KahnPlaces
<1>. QED BY <1>10, <1>16, <1>17 DEF KahnOrders, r

LEMMA KahnIs ==
  ASSUME NEW batch, Len(batch) \in Nat, NEW edges,
         Disc!BatchIds(batch) \in SUBSET Nat, IsFiniteSet(Disc!BatchIds(batch))
  PROVE  LET ids == Disc!BatchIds(batch)
         IN \E s : /\ Disc!Kahn(batch, edges) = s.order /\ KahnTypes(ids, s)
                   /\ IsFiniteSet(edges) => KahnOrders(ids, edges, s)
                   /\ s.queue = <<>> \/ Len(s.order) = Len(batch)
<1> DEFINE L == Len(batch)
           ids == Disc!BatchIds(batch)
           degree == [m \in ids |-> Cardinality(NeedsOf(edges, m))]
           first == [queue |-> Disc!Sorted({m \in ids : degree[m] = 0}), order |-> <<>>,
                     degree |-> degree]
           Next1(s) == IF s.queue = <<>> THEN s ELSE Disc!Turn(edges, s)
           IsAfter(f, m) == f = [k \in 0..m |-> IF k = 0 THEN first ELSE Next1(f[k - 1])]
           Good(s) == /\ KahnTypes(ids, s)
                      /\ IsFiniteSet(edges) => KahnOrders(ids, edges, s)
           Ends(s, k) == s.queue = <<>> \/ Len(s.order) = k
           Reached == {m \in 0..L : \E f : IsAfter(f, m)}
<1>1. Good(first)
  <2> DEFINE roots == {m \in ids : degree[m] = 0}
  <2>1. roots \in SUBSET ids OBVIOUS
  <2>2. \A m \in ids : m \in roots <=> degree[m] = 0 OBVIOUS
  <2>3. DOMAIN degree = ids /\ \A m \in ids : degree[m] = Cardinality(NeedsOf(edges, m)) OBVIOUS
  <2>4. first = [queue |-> Disc!Sorted(roots), order |-> <<>>, degree |-> degree] OBVIOUS
  <2>. HIDE DEF roots, degree, first
  <2>5. roots \in SUBSET Nat /\ IsFiniteSet(roots) BY <2>1, FS_Subset
  <2>6. Disc!Sorted(roots) \in Seq(roots) BY <2>5, SortedIs
  <2>7. Disc!Sorted(roots) \in Seq(ids) BY <2>1, <2>6, ListOfMore
  <2>8. KahnTypes(ids, first) BY <2>3, <2>4, <2>7 DEF KahnTypes
  <2>9. Disc!ToSet(first.order) = {} /\ Once(first.order) BY <2>4 DEF Disc!ToSet, Once
  <2>10. Disc!ToSet(first.queue) = roots /\ Once(first.queue) BY <2>4, <2>5, SortedLists
  <2>11. ASSUME IsFiniteSet(edges) PROVE KahnCounts(ids, edges, first)
    <3>1. ASSUME NEW m \in ids
          PROVE  first.degree[m] = Cardinality(NeedsOf(edges, m))
                                   - Cardinality(NeededBy(edges, m) \cap Disc!ToSet(first.order))
      <4>1. NeededBy(edges, m) \cap Disc!ToSet(first.order) = {} BY <2>9
      <4>2. Cardinality(NeedsOf(edges, m)) \in Nat BY <2>11, NeededIsFinite
      <4>3. first.degree[m] = Cardinality(NeedsOf(edges, m)) BY <2>3, <2>4
      <4>4. Cardinality({}) = 0 BY FS_EmptySet
      <4>5. first.degree[m] = Cardinality(NeedsOf(edges, m)) - 0 BY <4>2, <4>3
      <4>. QED BY <4>1, <4>4, <4>5
    <3>. QED BY <3>1 DEF KahnCounts
  <2>12. KahnLists(ids, first) BY <2>2, <2>4, <2>9, <2>10 DEF KahnLists
  <2>13. KahnPlaces(edges, first.order) BY <2>4 DEF KahnPlaces
  <2>. QED BY <2>8, <2>11, <2>12, <2>13 DEF KahnOrders
<1>2. \A s : Good(s) => Good(Next1(s))
  <2>1. ASSUME NEW s, Good(s), s.queue # <<>> PROVE Good(Disc!Turn(edges, s))
    BY <2>1, TurnType, TurnOrders DEF KahnTypes
  <2>. QED BY <2>1
<1>21. Ends(first, 0) OBVIOUS
<1>22. ASSUME NEW s, Good(s), NEW k \in Nat, k > 0, Ends(s, k - 1) PROVE Ends(Next1(s), k)
  <2>1. CASE s.queue = <<>> BY <2>1
  <2>2. CASE s.queue # <<>>
    <3>1. Next1(s).order = Append(s.order, Head(s.queue)) BY <2>2 DEF Disc!Turn
    <3>2. s.order \in Seq(ids) /\ s.queue \in Seq(ids) BY <1>22 DEF KahnTypes
    <3>. HIDE DEF Next1, ids, Good
    <3>3. Head(s.queue) \in ids BY <2>2, <3>2
    <3>4. Len(Next1(s).order) = Len(s.order) + 1 BY <3>1, <3>2, <3>3
    <3>5. Len(s.order) = k - 1 BY <1>22, <2>2
    <3>. QED BY <3>4, <3>5
  <2>. QED BY <2>1, <2>2
<1>3. Disc!Kahn(batch, edges) = (CHOOSE f : IsAfter(f, L))[L].order
  BY SameCardinality DEF Disc!Kahn, NeedsOf
<1>. HIDE DEF first, Next1, L, Good, Ends
<1>4. L \in Nat BY DEF L
<1>5. 0 \in Reached
  <2> DEFINE f == [k \in 0..0 |-> first]
  <2>1. f = [k \in 0..0 |-> IF k = 0 THEN first ELSE Next1(f[k - 1])] OBVIOUS
  <2>2. IsAfter(f, 0) BY <2>1
  <2>. HIDE DEF f, IsAfter
  <2>3. \E g : IsAfter(g, 0) BY <2>2
  <2>. QED BY <1>4, <2>3
<1>6. ASSUME NEW k \in 0..L, k > 0, k - 1 \in Reached PROVE k \in Reached
  <2>1. PICK f : IsAfter(f, k - 1) BY <1>6
  <2> DEFINE g == [n \in 0..k |-> IF n = k THEN Next1(f[k - 1]) ELSE f[n]]
  <2>2. \A n \in 0..(k - 1) : f[n] = IF n = 0 THEN first ELSE Next1(f[n - 1]) BY <2>1
  <2>3. ASSUME NEW n \in 0..k PROVE g[n] = IF n = 0 THEN first ELSE Next1(g[n - 1])
    <3>1. CASE n = k
      <4>1. g[n] = Next1(f[k - 1]) BY <3>1
      <4>2. g[n - 1] = f[k - 1] BY <1>4, <1>6, <3>1
      <4>. QED BY <1>6, <3>1, <4>1, <4>2
    <3>2. CASE n # k
      <4>1. n \in 0..(k - 1) /\ g[n] = f[n] BY <1>4, <2>3, <3>2
      <4>2. n # 0 => g[n - 1] = f[n - 1] BY <1>4, <2>3, <3>2
      <4>. QED BY <2>2, <4>1, <4>2
    <3>. QED BY <3>1, <3>2
  <2>4. IsAfter(g, k)
    <3>1. g = [n \in 0..k |-> g[n]] OBVIOUS
    <3>. HIDE DEF g
    <3>. QED BY <2>3, <3>1
  <2>. QED BY <2>4
<1>7. PICK f : IsAfter(f, L)
  <2>. HIDE DEF IsAfter
  <2>1. L \in Reached
    <3>. HIDE DEF Reached
    <3>. QED BY <1>4, <1>5, <1>6, Upwards
  <2>. QED BY <2>1
<1> DEFINE after == CHOOSE g : IsAfter(g, L)
<1>8. IsAfter(after, L) BY <1>7
<1>. HIDE DEF after
<1>9. \A k \in 0..L : after[k] = IF k = 0 THEN first ELSE Next1(after[k - 1]) BY <1>8
<1> DEFINE Fine == {k \in 0..L : Good(after[k]) /\ Ends(after[k], k)}
<1>10. 0 \in Fine BY <1>1, <1>4, <1>9, <1>21
<1>11. ASSUME NEW k \in 0..L, k > 0, k - 1 \in Fine PROVE k \in Fine
  <2>1. after[k] = Next1(after[k - 1]) /\ Good(after[k - 1]) /\ Ends(after[k - 1], k - 1)
    BY <1>4, <1>9, <1>11
  <2>2. k \in Nat BY <1>4
  <2>. QED BY <1>2, <1>11, <1>22, <2>1, <2>2
<1>12. L \in Fine
  <2>. HIDE DEF Fine
  <2>. QED BY <1>4, <1>10, <1>11, Upwards
<1>13. Good(after[L]) /\ Ends(after[L], L) BY <1>12
<1>. QED BY <1>3, <1>13 DEF Good, Ends, L, after

-----------------------------------------------------------------------------
(* The depth-first walk for a cycle (_dfs_find_cycle).                       *)
Follows(f, n, first, step) ==
  f[0] = first /\ \A k \in 1..n : f[k] = step[<<k, f[k - 1]>>]

(* A function defined by recursion on a number, its steps given as a         *)
(* function.                                                                 *)
LEMMA Recursion ==
  ASSUME NEW n \in Nat, NEW S, NEW first \in S, NEW step \in [(1..n) \X S -> S]
  PROVE  \E f \in [0..n -> S] : Follows(f, n, first, step)
<1> DEFINE IsUpTo(f, m) == f[0] = first /\ \A k \in 1..m : f[k] = step[<<k, f[k - 1]>>]
           Reached == {m \in 0..n : \E f \in [0..m -> S] : IsUpTo(f, m)}
<1>1. 0 \in Reached
  <2> DEFINE f == [k \in 0..0 |-> first]
  <2>1. f \in [0..0 -> S] /\ IsUpTo(f, 0) OBVIOUS
  <2>. HIDE DEF f, IsUpTo
  <2>2. \E g \in [0..0 -> S] : IsUpTo(g, 0) BY <2>1
  <2>. QED BY <2>2
<1>2. ASSUME NEW m \in 0..n, m > 0, m - 1 \in Reached PROVE m \in Reached
  <2>1. PICK f \in [0..(m - 1) -> S] : IsUpTo(f, m - 1) BY <1>2
  <2> DEFINE g == [k \in 0..m |-> IF k = m THEN step[<<m, f[m - 1]>>] ELSE f[k]]
  <2>2. m \in 1..n /\ m - 1 \in 0..(m - 1) BY <1>2
  <2>3. f[m - 1] \in S BY <2>2
  <2>4. <<m, f[m - 1]>> \in (1..n) \X S BY <2>2, <2>3
  <2>5. step[<<m, f[m - 1]>>] \in S BY <2>4
  <2>6. \A k \in 0..m : k = m \/ k \in 0..(m - 1) BY <1>2
  <2>7. g \in [0..m -> S] BY <2>5, <2>6
  <2>8. g[0] = first BY <2>1, <2>2
  <2>9. ASSUME NEW k \in 1..m PROVE g[k] = step[<<k, g[k - 1]>>]
    <3>1. CASE k = m
      <4>1. g[k - 1] = f[m - 1] BY <2>2, <3>1
      <4>. QED BY <3>1, <4>1
    <3>2. CASE k # m
      <4>1. k \in 1..(m - 1) BY <1>2, <3>2
      <4>2. g[k] = f[k] /\ g[k - 1] = f[k - 1] BY <1>2, <4>1
      <4>. QED BY <2>1, <4>1, <4>2
    <3>. QED BY <3>1, <3>2
  <2>. HIDE DEF g
  <2>. QED BY <1>2, <2>7, <2>8, <2>9
<1>3. n \in Reached
  <2>. HIDE DEF Reached
  <2>1. \A m \in 0..n : m > 0 /\ m - 1 \in Reached => m \in Reached BY <1>2
  <2>. QED BY <1>1, <2>1, Upwards
<1>. QED BY <1>3 DEF Follows

LEMMA TopOf ==
  ASSUME NEW T, NEW list \in Seq(T), list # <<>>
  PROVE  /\ Len(list) \in Nat /\ Len(list) >= 1
         /\ Disc!Last(list) = list[Len(list)] /\ list[Len(list)] \in T
         /\ Disc!Front(list) \in Seq(T) /\ Len(Disc!Front(list)) = Len(list) - 1
         /\ \A i \in 1..(Len(list) - 1) : Disc!Front(list)[i] = list[i]
<1>1. PICK n : n = Len(list) OBVIOUS
<1>2. n \in Nat /\ n >= 1 /\ list[n] \in T BY <1>1
<1>3. 1 \in 1..(n + 1) /\ n - 1 \in 0..n BY <1>2
<1>4. /\ SubSeq(list, 1, n - 1) \in Seq(T) /\ Len(SubSeq(list, 1, n - 1)) = n - 1
      /\ \A i \in 1..(n - 1) : SubSeq(list, 1, n - 1)[i] = list[i]
  BY <1>1, <1>2, SubSeqProperties
<1>. QED BY <1>1, <1>2, <1>4 DEF Disc!Last, Disc!Front

PutOnTop(T, list, a, b, more) ==
  /\ more \in Seq(T) /\ Len(more) = Len(list) + 1
  /\ \A i \in 1..(Len(list) - 1) : more[i] = list[i]
  /\ more[Len(list)] = a /\ more[Len(list) + 1] = b
LEMMA TopReplaced ==
  ASSUME NEW T, NEW list \in Seq(T), list # <<>>, NEW a \in T, NEW b \in T
  PROVE  PutOnTop(T, list, a, b, Disc!Front(list) \o <<a, b>>)
<1> DEFINE front == Disc!Front(list)
           pair == <<a, b>>
           more == front \o pair
<1>1. PICK n : n = Len(list) OBVIOUS
<1>2. front \in Seq(T) /\ Len(front) = n - 1 /\ n \in Nat /\ n >= 1
      /\ \A i \in 1..(n - 1) : front[i] = list[i]
  BY <1>1, TopOf
<1>3. pair \in Seq(T) /\ Len(pair) = 2 /\ pair[1] = a /\ pair[2] = b OBVIOUS
<1>. HIDE DEF front, pair
<1>4. /\ more \in Seq(T) /\ Len(more) = Len(front) + Len(pair)
      /\ \A i \in 1..(Len(front) + Len(pair)) :
           more[i] = IF i <= Len(front) THEN front[i] ELSE pair[i - Len(front)]
  BY <1>2, <1>3, ConcatProperties
<1>. HIDE DEF more
<1>5. Len(front) + Len(pair) = n + 1 BY <1>2, <1>3
<1>6. ASSUME NEW i \in 1..(n + 1)
      PROVE  /\ i <= n - 1 => more[i] = front[i]
             /\ ~(i <= n - 1) => more[i] = pair[i - (n - 1)]
  BY <1>2, <1>4, <1>5
<1>7. n \in 1..(n + 1) /\ ~(n <= n - 1) /\ n + 1 \in 1..(n + 1) /\ n - (n - 1) = 1
      /\ n + 1 - (n - 1) = 2 /\ ~(n + 1 <= n - 1)
      /\ \A i \in 1..(n - 1) : i \in 1..(n + 1) /\ i <= n - 1
  BY <1>2
<1>8. more[n] = pair[n - (n - 1)] /\ more[n + 1] = pair[n + 1 - (n - 1)] BY <1>6, <1>7
<1>9. more[n] = a /\ more[n + 1] = b BY <1>3, <1>7, <1>8
<1>10. \A i \in 1..(n - 1) : more[i] = list[i] BY <1>2, <1>6, <1>7
<1>11. PutOnTop(T, list, a, b, more) BY <1>1, <1>4, <1>5, <1>9, <1>10 DEF PutOnTop
<1>. QED BY <1>11 DEF more, front, pair

(* What the walk keeps.  Behind each node of the path is the edge that leads *)
(* to the next frame; of the nodes it has left one has no neighbours; each   *)
(* turn takes an edge and pushes a frame, or pops one.                       *)
Frames(R) == [node : R, taken : Nat]
DfsStates(R) == [stack : Seq(Frames(R)), path : Seq(R), visited : SUBSET R, cycle : Seq(R)]
DfsPath(next, s) ==
  /\ \/ Len(s.stack) = Len(s.path)
     \/ Len(s.stack) = Len(s.path) + 1 /\ s.stack[Len(s.stack)].taken = 0
  /\ \A i \in 1..Len(s.path) : /\ s.stack[i].node = s.path[i] /\ s.path[i] \in s.visited
                               /\ s.stack[i].taken \in 1..Len(next[s.path[i]])
  /\ \A i \in 1..(Len(s.stack) - 1) :
       s.stack[i + 1].node = next[s.stack[i].node][s.stack[i].taken]
  /\ \A i, j \in 1..Len(s.path) : s.path[i] = s.path[j] => i = j
LeftNodes(s) == {x \in s.visited : \A i \in 1..Len(s.path) : s.path[i] # x}
DfsSinks(next, s) ==
  /\ Len(s.stack) = Len(s.path) => LeftNodes(s) # {}
  /\ LeftNodes(s) # {} => \E x \in LeftNodes(s) : next[x] = <<>>
TakenEdges(next, s) ==
  {e \in Disc!EdgesOf(next) :
     /\ e[1] \in s.visited
     /\ \A i \in 1..Len(s.path) : s.path[i] = e[1] => e[2] <= s.stack[i].taken}
IsCycle(next, c) ==
  /\ Len(c) > 1 /\ c[1] = c[Len(c)]
  /\ \A i \in 1..(Len(c) - 1) : \E j \in 1..Len(next[c[i]]) : next[c[i]][j] = c[i + 1]
DfsInv(R, next, s) ==
  /\ s \in DfsStates(R) /\ DfsPath(next, s) /\ DfsSinks(next, s)
  /\ s.cycle # <<>> => IsCycle(next, s.cycle)
DfsCounts(next, s, k) ==
  s.cycle = <<>> /\ s.stack # <<>> =>
    k + Len(s.stack) = 2 * Cardinality(TakenEdges(next, s)) + 1

\* What a turn comes to: its node closes a cycle, or the walk goes on with a frame less and
\* the same edges, or with a frame more and another edge.
Pops(next, s, r) ==
  Len(r.stack) = Len(s.stack) - 1 /\ TakenEdges(next, r) = TakenEdges(next, s)
Pushes(next, s, r) ==
  /\ Len(r.stack) = Len(s.stack) + 1
  /\ \E e \in Disc!EdgesOf(next) \ TakenEdges(next, s) :
       TakenEdges(next, r) = TakenEdges(next, s) \cup {e}

LEMMA EdgesAre ==
  ASSUME NEW R, NEW next \in [R -> Seq(R)]
  PROVE  /\ \A x \in R : \A i \in 1..Len(next[x]) : <<x, i>> \in Disc!EdgesOf(next)
         /\ \A e \in Disc!EdgesOf(next) :
              /\ e[1] \in R /\ e[2] \in 1..Len(next[e[1]]) /\ e = <<e[1], e[2]>>
              /\ e[2] \in Nat /\ Len(next[e[1]]) \in Nat
<1>1. \A x \in R : \A i \in 1..Len(next[x]) : <<x, i>> \in Disc!EdgesOf(next)
  <2>1. ASSUME NEW x \in R, NEW i \in 1..Len(next[x]) PROVE <<x, i>> \in Disc!EdgesOf(next)
    <3>1. <<x, i>> \in {x} \X (1..Len(next[x])) OBVIOUS
    <3>2. x \in DOMAIN next OBVIOUS
    <3>. QED BY <3>1, <3>2 DEF Disc!EdgesOf
  <2>. QED BY <2>1
<1>2. ASSUME NEW e \in Disc!EdgesOf(next)
      PROVE  /\ e[1] \in R /\ e[2] \in 1..Len(next[e[1]]) /\ e = <<e[1], e[2]>>
             /\ e[2] \in Nat /\ Len(next[e[1]]) \in Nat
  <2>1. PICK x \in DOMAIN next : e \in {x} \X (1..Len(next[x])) BY DEF Disc!EdgesOf
  <2>2. e[1] = x /\ e[2] \in 1..Len(next[x]) /\ e = <<e[1], e[2]>> BY <2>1
  <2>3. x \in R /\ Len(next[x]) \in Nat BY <2>1
  <2>. QED BY <2>2, <2>3
<1>. QED BY <1>1, <1>2

\* What the invariant says, in the terms that the turns need.
Walk(R, next, s) ==
  next \in [R -> Seq(R)] /\ s \in DfsStates(R) /\ DfsPath(next, s) /\ DfsSinks(next, s)
PathFacts(R, next, s, n, m) ==
  /\ n = Len(s.path) /\ m = Len(s.stack) /\ n \in Nat /\ m \in Nat
  /\ m = n \/ (m = n + 1 /\ s.stack[m].taken = 0)
  /\ \A i \in 1..n : /\ s.stack[i].node = s.path[i] /\ s.path[i] \in s.visited /\ s.path[i] \in R
                     /\ s.stack[i].taken \in 1..Len(next[s.path[i]])
  /\ \A i \in 1..(m - 1) : s.stack[i + 1].node = next[s.stack[i].node][s.stack[i].taken]
  /\ \A i, j \in 1..n : s.path[i] = s.path[j] => i = j
LEMMA PathFactsHold ==
  ASSUME NEW R, NEW next, NEW s, Walk(R, next, s)
  PROVE  PathFacts(R, next, s, Len(s.path), Len(s.stack))
<1>1. s.path \in Seq(R) /\ s.stack \in Seq(Frames(R)) BY DEF Walk, DfsStates
<1>2. /\ Len(s.path) \in Nat /\ Len(s.stack) \in Nat
      /\ \A i \in 1..Len(s.path) : s.path[i] \in R
  BY <1>1
<1>3. DfsPath(next, s) BY DEF Walk
<1>4. \/ Len(s.stack) = Len(s.path)
      \/ Len(s.stack) = Len(s.path) + 1 /\ s.stack[Len(s.stack)].taken = 0
  BY <1>3 DEF DfsPath
<1>. QED BY <1>2, <1>3, <1>4, Zenon DEF DfsPath, PathFacts

\* A node that is met again on the path closes a cycle.
LEMMA TurnCloses ==
  ASSUME NEW R, NEW next, NEW s, NEW n, NEW m, PathFacts(R, next, s, n, m), m = n + 1,
         NEW start \in 1..n, s.path[start] = s.stack[m].node
  PROVE  LET c == Append(SubSeq(s.path, start, n), s.path[start])
         IN c \in Seq(R) /\ c # <<>> /\ IsCycle(next, c)
<1> DEFINE p == SubSeq(s.path, start, n)
           c == Append(p, s.path[start])
<1>0. PICK l : l = n - start + 1 OBVIOUS
<1>1. /\ n \in Nat /\ l \in Nat /\ l >= 1 /\ start \in Nat /\ start >= 1 /\ start <= n
      /\ \A i \in start..n : s.path[i] \in R
  <2>1. n \in Nat /\ \A i \in 1..n : s.path[i] \in R BY DEF PathFacts
  <2>. QED BY <1>0, <2>1
<1>2. p \in Seq(R) /\ Len(p) = l /\ \A i \in 1..l : p[i] = s.path[start + i - 1]
  <2>1. start \in Int /\ n \in Int BY <1>1
  <2>. QED BY <1>0, <1>1, <2>1, SubSeqProperties
<1>3. c = Append(p, s.path[start]) /\ s.path[start] \in R BY <1>1
<1>. HIDE DEF p, c
<1>4. c \in Seq(R) /\ Len(c) = l + 1 /\ c[l + 1] = s.path[start] /\ \A i \in 1..l : c[i] = p[i]
  BY <1>1, <1>2, <1>3
<1>5. \A i \in 1..l : c[i] = s.path[start + i - 1] BY <1>2, <1>4
<1>6. /\ \A i \in 1..n : /\ s.stack[i].node = s.path[i] /\ s.path[i] \in s.visited
                         /\ s.stack[i].taken \in 1..Len(next[s.path[i]])
      /\ \A i \in 1..n : s.stack[i + 1].node = next[s.stack[i].node][s.stack[i].taken]
  <2>1. m - 1 = n BY <1>1
  <2>. QED BY <2>1 DEF PathFacts
<1>7. ASSUME NEW i \in 1..l PROVE \E j \in 1..Len(next[c[i]]) : next[c[i]][j] = c[i + 1]
  <2>1. PICK k : k = start + i - 1 OBVIOUS
  <2>2. k \in 1..n /\ i \in Nat /\ i >= 1 /\ i <= l BY <1>0, <1>1, <2>1
  <2>3. c[i] = s.path[k] BY <1>5, <2>1
  <2>4. c[i + 1] = s.stack[k + 1].node
    <3>1. CASE i = l
      <4>1. k = n BY <1>0, <1>1, <2>1, <3>1
      <4>2. c[i + 1] = s.path[start] BY <1>4, <3>1
      <4>. QED BY <4>1, <4>2
    <3>2. CASE i # l
      <4>1. i + 1 \in 1..l /\ start + (i + 1) - 1 = k + 1 /\ k + 1 \in 1..n
        BY <1>0, <1>1, <2>1, <2>2, <3>2
      <4>2. c[i + 1] = s.path[start + (i + 1) - 1] BY <1>5, <4>1
      <4>3. s.path[k + 1] = s.stack[k + 1].node BY <1>6, <4>1
      <4>. QED BY <4>1, <4>2, <4>3
    <3>. QED BY <3>1, <3>2
  <2>5. /\ s.stack[k].node = s.path[k] /\ s.stack[k].taken \in 1..Len(next[s.path[k]])
        /\ s.stack[k + 1].node = next[s.stack[k].node][s.stack[k].taken]
    BY <1>6, <2>2
  <2>. QED BY <2>3, <2>4, <2>5
<1>8. c[1] = s.path[start]
  <2>1. 1 \in 1..l /\ start + 1 - 1 = start BY <1>1
  <2>. QED BY <1>5, <2>1
<1>9. IsCycle(next, c)
  <2>1. Len(c) > 1 /\ c[1] = c[Len(c)] /\ Len(c) - 1 = l BY <1>1, <1>4, <1>8
  <2>. QED BY <1>7, <2>1 DEF IsCycle
<1>10. c # <<>>
  <2>1. Len(c) # 0 BY <1>1, <1>4
  <2>. QED BY <2>1
<1>. QED BY <1>4, <1>9, <1>10 DEF c, p

\* A node that was left before is passed by.
LEMMA TurnSkips ==
  ASSUME NEW R, NEW next, NEW s, NEW n, NEW m, PathFacts(R, next, s, n, m), m = n + 1,
         DfsSinks(next, s), s.stack[m].node \in LeftNodes(s),
         NEW r, r.path = s.path, r.visited = s.visited, Len(r.stack) = n,
         \A i \in 1..n : r.stack[i] = s.stack[i]
  PROVE  DfsPath(next, r) /\ DfsSinks(next, r) /\ Pops(next, s, r)
<1>1. /\ n \in Nat
      /\ \A i \in 1..n : /\ s.stack[i].node = s.path[i] /\ s.path[i] \in s.visited
                         /\ s.stack[i].taken \in 1..Len(next[s.path[i]])
      /\ \A i \in 1..(m - 1) : s.stack[i + 1].node = next[s.stack[i].node][s.stack[i].taken]
      /\ \A i, j \in 1..n : s.path[i] = s.path[j] => i = j
      /\ n = Len(s.path) /\ m = Len(s.stack)
  BY DEF PathFacts
<1>2. DfsPath(next, r)
  <2>0. n \in Nat /\ m - 1 = n BY <1>1
  <2>1. \A i \in 1..(n - 1) : i \in 1..n /\ i + 1 \in 1..n /\ i \in 1..(m - 1) BY <2>0
  <2>2. \A i \in 1..(n - 1) : r.stack[i + 1].node = next[r.stack[i].node][r.stack[i].taken]
    BY <1>1, <2>1
  <2>3. \A i \in 1..n : /\ r.stack[i].node = r.path[i] /\ r.path[i] \in r.visited
                        /\ r.stack[i].taken \in 1..Len(next[r.path[i]])
    BY <1>1
  <2>. QED BY <1>1, <2>2, <2>3 DEF DfsPath
<1>3. LeftNodes(r) = LeftNodes(s) BY DEF LeftNodes
<1>4. DfsSinks(next, r)
  <2>1. LeftNodes(s) # {} OBVIOUS
  <2>. QED BY <1>3, <2>1 DEF DfsSinks
<1>5. TakenEdges(next, r) = TakenEdges(next, s) BY <1>1 DEF TakenEdges
<1>. QED BY <1>1, <1>2, <1>4, <1>5 DEF Pops

\* What the next three lemmas say of a node at work: new, or the last of the path.
AtWork(next, s, node, t, m) ==
  /\ m = Len(s.stack) /\ m \in Nat /\ m >= 1
  /\ s.stack[m].node = node /\ s.stack[m].taken = t /\ t \in Nat /\ t <= Len(next[node])
  /\ \/ Len(s.path) = m - 1 /\ node \notin s.visited /\ t = 0
     \/ Len(s.path) = m /\ s.path[m] = node /\ t > 0
\* What is known of the frames and the path below it, and of the edges taken.
PathBelow(next, s, node, t, m) ==
  /\ \A i \in 1..(m - 1) : /\ s.stack[i].node = s.path[i] /\ s.path[i] \in s.visited
                           /\ s.stack[i].taken \in 1..Len(next[s.path[i]])
                           /\ s.path[i] # node
  /\ \A i \in 1..(m - 1) : s.stack[i + 1].node = next[s.stack[i].node][s.stack[i].taken]
  /\ \A i, j \in 1..(m - 1) : s.path[i] = s.path[j] => i = j
LeftBelow(s, node, m) ==
  LeftNodes(s) = {x \in s.visited : x # node /\ \A i \in 1..(m - 1) : s.path[i] # x}
TakenBelow(next, s, node, t, m) ==
  \A e \in Disc!EdgesOf(next) :
     e \in TakenEdges(next, s) <=>
       \/ e[1] = node /\ e[2] <= t
       \/ /\ e[1] # node /\ e[1] \in s.visited
          /\ \A i \in 1..(m - 1) : s.path[i] = e[1] => e[2] <= s.stack[i].taken
\* They are kept by a turn.
Kept(s, r, node, m) ==
  /\ r.visited = s.visited \cup {node}
  /\ \A i \in 1..(m - 1) : r.stack[i] = s.stack[i] /\ r.path[i] = s.path[i]

LEMMA AtWorkIs ==
  ASSUME NEW R, NEW next \in [R -> Seq(R)], NEW s, NEW n, NEW m, PathFacts(R, next, s, n, m),
         NEW node, NEW t, AtWork(next, s, node, t, m)
  PROVE  /\ PathBelow(next, s, node, t, m) /\ LeftBelow(s, node, m)
         /\ TakenBelow(next, s, node, t, m)
<1>1. /\ n \in Nat /\ (m = n \/ (m = n + 1 /\ s.stack[m].taken = 0))
      /\ \A i \in 1..n : /\ s.stack[i].node = s.path[i] /\ s.path[i] \in s.visited
                         /\ s.path[i] \in R
                         /\ s.stack[i].taken \in 1..Len(next[s.path[i]])
      /\ \A i \in 1..(m - 1) : s.stack[i + 1].node = next[s.stack[i].node][s.stack[i].taken]
      /\ \A i, j \in 1..n : s.path[i] = s.path[j] => i = j
  BY DEF PathFacts
<1>2. /\ m = Len(s.stack) /\ m \in Nat /\ m >= 1 /\ n = Len(s.path)
      /\ s.stack[m].node = node /\ s.stack[m].taken = t /\ t \in Nat
      /\ \/ n = m - 1 /\ node \notin s.visited /\ t = 0
         \/ n = m /\ s.path[m] = node /\ t > 0
  BY DEF AtWork, PathFacts
<1>3. \A i \in 1..(m - 1) : i \in 1..n /\ i # m BY <1>1, <1>2
<1>4. ASSUME NEW i \in 1..(m - 1) PROVE s.path[i] # node
  <2>1. CASE n = m - 1 /\ node \notin s.visited BY <1>1, <1>3, <2>1
  <2>2. CASE n = m /\ s.path[m] = node
    <3>1. m \in 1..n BY <1>2, <2>2
    <3>. QED BY <1>1, <1>3, <2>2, <3>1
  <2>. QED BY <1>2, <2>1, <2>2
<1>5. \A i \in 1..n : i \in 1..(m - 1) \/ (i = m /\ n = m) BY <1>1, <1>2
<1>6. ASSUME NEW x \in s.visited
      PROVE  (\A i \in 1..n : s.path[i] # x) <=> (x # node /\ \A i \in 1..(m - 1) : s.path[i] # x)
  <2>1. CASE n = m - 1 /\ node \notin s.visited BY <1>3, <1>5, <1>2, <2>1
  <2>2. CASE n = m /\ s.path[m] = node
    <3>1. m \in 1..n BY <1>2, <2>2
    <3>. QED BY <1>3, <1>5, <2>2, <3>1
  <2>. QED BY <1>2, <2>1, <2>2
<1>7. LeftNodes(s) = {x \in s.visited : x # node /\ \A i \in 1..(m - 1) : s.path[i] # x}
  BY <1>2, <1>6 DEF LeftNodes
<1>8. ASSUME NEW e \in Disc!EdgesOf(next)
      PROVE  e \in TakenEdges(next, s) <=>
                \/ e[1] = node /\ e[2] <= t
                \/ /\ e[1] # node /\ e[1] \in s.visited
                   /\ \A i \in 1..(m - 1) : s.path[i] = e[1] => e[2] <= s.stack[i].taken
  <2>1. e[2] \in Nat /\ e[2] >= 1
    <3>1. e[2] \in 1..Len(next[e[1]]) /\ e[2] \in Nat /\ Len(next[e[1]]) \in Nat BY EdgesAre
    <3>. QED BY <3>1
  <2>2. e \in TakenEdges(next, s) <=>
          /\ e[1] \in s.visited
          /\ \A i \in 1..n : s.path[i] = e[1] => e[2] <= s.stack[i].taken
    BY <1>2 DEF TakenEdges
  <2>3. CASE e[1] = node
    <3>1. CASE n = m - 1 /\ node \notin s.visited /\ t = 0 BY <2>1, <2>2, <2>3, <3>1
    <3>2. CASE n = m /\ s.path[m] = node /\ t > 0
      <4>1. m \in 1..n BY <1>2, <3>2
      <4>2. node \in s.visited BY <1>1, <3>2, <4>1
      <4>3. \A i \in 1..n : s.path[i] = node <=> i = m BY <1>1, <3>2, <4>1
      <4>4. (\A i \in 1..n : s.path[i] = e[1] => e[2] <= s.stack[i].taken) <=> e[2] <= t
        BY <1>2, <2>3, <4>1, <4>3
      <4>. QED BY <2>2, <2>3, <4>2, <4>4
    <3>. QED BY <1>2, <3>1, <3>2
  <2>4. CASE e[1] # node
    <3>1. n = m => s.path[m] = node BY <1>2
    <3>2. (\A i \in 1..n : s.path[i] = e[1] => e[2] <= s.stack[i].taken) <=>
          (\A i \in 1..(m - 1) : s.path[i] = e[1] => e[2] <= s.stack[i].taken)
      BY <1>3, <1>5, <2>4, <3>1
    <3>. QED BY <2>2, <2>4, <3>2
  <2>. QED BY <2>3, <2>4
<1>9. PathBelow(next, s, node, t, m) BY <1>1, <1>3, <1>4 DEF PathBelow
<1>10. TakenBelow(next, s, node, t, m) BY <1>8 DEF TakenBelow
<1>. QED BY <1>7, <1>9, <1>10 DEF LeftBelow

\* The next neighbour of a node is taken.
TakesTo(next, s, r, node, t, m) ==
  /\ Kept(s, r, node, m) /\ Len(r.path) = m /\ r.path[m] = node
  /\ Len(r.stack) = m + 1 /\ r.stack[m].node = node /\ r.stack[m].taken = t + 1
  /\ r.stack[m + 1].node = next[node][t + 1] /\ r.stack[m + 1].taken = 0
LEMMA TurnTakes ==
  ASSUME NEW R, NEW next \in [R -> Seq(R)], NEW s, NEW n, NEW m, PathFacts(R, next, s, n, m),
         DfsSinks(next, s), NEW node \in R, NEW t, AtWork(next, s, node, t, m),
         t < Len(next[node]), NEW r, TakesTo(next, s, r, node, t, m)
  PROVE  DfsPath(next, r) /\ DfsSinks(next, r) /\ Pushes(next, s, r)
<1>20. /\ PathBelow(next, s, node, t, m) /\ LeftBelow(s, node, m)
      /\ TakenBelow(next, s, node, t, m)
  BY AtWorkIs
<1>1. /\ \A i \in 1..(m - 1) : /\ s.stack[i].node = s.path[i] /\ s.path[i] \in s.visited
                               /\ s.stack[i].taken \in 1..Len(next[s.path[i]])
                               /\ s.path[i] # node
      /\ \A i \in 1..(m - 1) : s.stack[i + 1].node = next[s.stack[i].node][s.stack[i].taken]
      /\ \A i, j \in 1..(m - 1) : s.path[i] = s.path[j] => i = j
  BY <1>20 DEF PathBelow
<1>21. LeftNodes(s) = {x \in s.visited : x # node /\ \A i \in 1..(m - 1) : s.path[i] # x}
  BY <1>20 DEF LeftBelow
<1>22. \A e \in Disc!EdgesOf(next) :
        e \in TakenEdges(next, s) <=>
          \/ e[1] = node /\ e[2] <= t
          \/ /\ e[1] # node /\ e[1] \in s.visited
             /\ \A i \in 1..(m - 1) : s.path[i] = e[1] => e[2] <= s.stack[i].taken
  BY <1>20 DEF TakenBelow
<1>2. m = Len(s.stack) /\ m \in Nat /\ m >= 1 /\ t \in Nat /\ s.stack[m].node = node
      /\ Len(next[node]) \in Nat
  <2>1. next[node] \in Seq(R) OBVIOUS
  <2>. QED BY <2>1 DEF AtWork
<1>3. /\ r.visited = s.visited \cup {node}
      /\ \A i \in 1..(m - 1) : r.stack[i] = s.stack[i] /\ r.path[i] = s.path[i]
      /\ Len(r.path) = m /\ r.path[m] = node
      /\ Len(r.stack) = m + 1 /\ r.stack[m].node = node /\ r.stack[m].taken = t + 1
      /\ r.stack[m + 1].node = next[node][t + 1] /\ r.stack[m + 1].taken = 0
  BY DEF TakesTo, Kept
<1>4. \A i \in 1..m : i \in 1..(m - 1) \/ i = m BY <1>2
<1>5. DfsPath(next, r)
  <2>1. Len(r.stack) = Len(r.path) + 1 /\ r.stack[Len(r.stack)].taken = 0 BY <1>3
  <2>2. ASSUME NEW i \in 1..m
        PROVE  /\ r.stack[i].node = r.path[i] /\ r.path[i] \in r.visited
               /\ r.stack[i].taken \in 1..Len(next[r.path[i]])
    <3>1. CASE i = m
      <4>1. t + 1 \in 1..Len(next[node]) BY <1>2
      <4>. QED BY <1>3, <3>1, <4>1
    <3>2. CASE i \in 1..(m - 1) BY <1>1, <1>3, <3>2
    <3>. QED BY <1>4, <3>1, <3>2
  <2>3. ASSUME NEW i \in 1..m
        PROVE  r.stack[i + 1].node = next[r.stack[i].node][r.stack[i].taken]
    <3>1. CASE i = m BY <1>3, <3>1
    <3>2. CASE i \in 1..(m - 1) /\ i + 1 # m
      <4>1. i + 1 \in 1..(m - 1) BY <1>2, <3>2
      <4>. QED BY <1>1, <1>3, <3>2, <4>1
    <3>3. CASE i \in 1..(m - 1) /\ i + 1 = m
      <4>1. s.stack[i + 1].node = node /\ r.stack[i + 1].node = node BY <1>2, <1>3, <3>3
      <4>. QED BY <1>1, <1>3, <3>3, <4>1
    <3>. QED BY <1>4, <3>1, <3>2, <3>3
  <2>4. ASSUME NEW i \in 1..m, NEW j \in 1..m, r.path[i] = r.path[j] PROVE i = j
    <3>1. r.path[m] = node /\ \A k \in 1..(m - 1) : r.path[k] = s.path[k] /\ r.path[k] # node
      BY <1>1, <1>3
    <3>2. CASE i = m \/ j = m BY <1>4, <2>4, <3>1, <3>2
    <3>3. CASE i \in 1..(m - 1) /\ j \in 1..(m - 1) BY <1>1, <2>4, <3>1, <3>3
    <3>. QED BY <1>4, <3>2, <3>3
  <2>5. Len(r.stack) - 1 = m /\ Len(r.path) = m BY <1>2, <1>3
  <2>. QED BY <2>1, <2>2, <2>3, <2>4, <2>5 DEF DfsPath
<1>6. LeftNodes(r) = LeftNodes(s)
  <2>1. ASSUME NEW x
        PROVE  (\A i \in 1..m : r.path[i] # x) <=> x # node /\ \A i \in 1..(m - 1) : s.path[i] # x
    <3>1. m \in 1..m /\ \A i \in 1..(m - 1) : i \in 1..m BY <1>2
    <3>. QED BY <1>3, <1>4, <3>1
  <2>2. LeftNodes(r) = {x \in r.visited : \A i \in 1..m : r.path[i] # x} BY <1>3 DEF LeftNodes
  <2>3. \A x : x \in LeftNodes(r) <=> x \in LeftNodes(s) BY <1>3, <1>21, <2>1, <2>2
  <2>. QED BY <2>3
<1>7. DfsSinks(next, r)
  <2>1. Len(r.stack) # Len(r.path) BY <1>2, <1>3
  <2>. QED BY <1>6, <2>1 DEF DfsSinks
<1>8. Pushes(next, s, r)
  <2>1. PICK e : e = <<node, t + 1>> OBVIOUS
  <2>2. t + 1 \in 1..Len(next[node]) /\ ~(t + 1 <= t) BY <1>2
  <2>3. e \in Disc!EdgesOf(next) /\ e[1] = node /\ e[2] = t + 1 BY <2>1, <2>2, EdgesAre
  <2>4. e \notin TakenEdges(next, s) BY <1>22, <2>2, <2>3
  <2>5. ASSUME NEW d \in Disc!EdgesOf(next)
        PROVE  d \in TakenEdges(next, r) <=> d \in TakenEdges(next, s) \/ d = e
    <3>1. d[2] \in Nat /\ d = <<d[1], d[2]>> BY EdgesAre
    <3>2. d \in TakenEdges(next, r) <=>
            /\ d[1] \in r.visited
            /\ \A i \in 1..m : r.path[i] = d[1] => d[2] <= r.stack[i].taken
      BY <1>3 DEF TakenEdges
    <3>3. CASE d[1] = node
      <4>1. m \in 1..m BY <1>2
      <4>2. d \in TakenEdges(next, r) <=> d[2] <= t + 1
        <5>1. \A i \in 1..m : r.path[i] = node <=> i = m BY <1>1, <1>3, <1>4, <4>1
        <5>2. node \in r.visited BY <1>3
        <5>. QED BY <1>3, <3>2, <3>3, <4>1, <5>1, <5>2
      <4>3. d[2] <= t + 1 <=> d[2] <= t \/ d[2] = t + 1 BY <1>2, <3>1
      <4>4. d[2] = t + 1 <=> d = e BY <2>1, <2>3, <3>1, <3>3
      <4>. QED BY <1>22, <3>3, <4>2, <4>3, <4>4
    <3>4. CASE d[1] # node
      <4>1. d # e BY <2>3, <3>4
      <4>2. (\A i \in 1..m : r.path[i] = d[1] => d[2] <= r.stack[i].taken) <=>
            (\A i \in 1..(m - 1) : s.path[i] = d[1] => d[2] <= s.stack[i].taken)
        <5>1. \A i \in 1..(m - 1) : i \in 1..m BY <1>2
        <5>. QED BY <1>3, <1>4, <3>4, <5>1
      <4>. QED BY <1>22, <1>3, <3>2, <3>4, <4>1, <4>2
    <3>. QED BY <3>3, <3>4
  <2>6. TakenEdges(next, r) = TakenEdges(next, s) \cup {e}
    <3>1. TakenEdges(next, r) \subseteq Disc!EdgesOf(next)
          /\ TakenEdges(next, s) \subseteq Disc!EdgesOf(next)
      BY DEF TakenEdges
    <3>. QED BY <2>3, <2>5, <3>1
  <2>. QED BY <1>2, <1>3, <2>3, <2>4, <2>6 DEF Pushes
<1>. QED BY <1>5, <1>7, <1>8

\* A node that has no neighbour left to take is left.
Left(s, r, node, m) ==
  Kept(s, r, node, m) /\ Len(r.path) = m - 1 /\ Len(r.stack) = m - 1
LEMMA TurnLeaves ==
  ASSUME NEW R, NEW next \in [R -> Seq(R)], NEW s, NEW n, NEW m, PathFacts(R, next, s, n, m),
         DfsSinks(next, s), NEW node \in R, NEW t, AtWork(next, s, node, t, m),
         t = Len(next[node]), NEW r, Left(s, r, node, m)
  PROVE  DfsPath(next, r) /\ DfsSinks(next, r) /\ Pops(next, s, r)
<1>20. /\ PathBelow(next, s, node, t, m) /\ LeftBelow(s, node, m)
      /\ TakenBelow(next, s, node, t, m)
  BY AtWorkIs
<1>1. /\ \A i \in 1..(m - 1) : /\ s.stack[i].node = s.path[i] /\ s.path[i] \in s.visited
                               /\ s.stack[i].taken \in 1..Len(next[s.path[i]])
                               /\ s.path[i] # node
      /\ \A i \in 1..(m - 1) : s.stack[i + 1].node = next[s.stack[i].node][s.stack[i].taken]
      /\ \A i, j \in 1..(m - 1) : s.path[i] = s.path[j] => i = j
  BY <1>20 DEF PathBelow
<1>21. LeftNodes(s) = {x \in s.visited : x # node /\ \A i \in 1..(m - 1) : s.path[i] # x}
  BY <1>20 DEF LeftBelow
<1>22. \A e \in Disc!EdgesOf(next) :
        e \in TakenEdges(next, s) <=>
          \/ e[1] = node /\ e[2] <= t
          \/ /\ e[1] # node /\ e[1] \in s.visited
             /\ \A i \in 1..(m - 1) : s.path[i] = e[1] => e[2] <= s.stack[i].taken
  BY <1>20 DEF TakenBelow
<1>2. m = Len(s.stack) /\ m \in Nat /\ m >= 1 /\ t \in Nat BY DEF AtWork
<1>3. /\ r.visited = s.visited \cup {node}
      /\ \A i \in 1..(m - 1) : r.stack[i] = s.stack[i] /\ r.path[i] = s.path[i]
      /\ Len(r.path) = m - 1 /\ Len(r.stack) = m - 1
  BY DEF Left, Kept
<1>4. DfsPath(next, r)
  <2>1. \A i \in 1..(m - 1) : /\ r.stack[i].node = r.path[i] /\ r.path[i] \in r.visited
                              /\ r.stack[i].taken \in 1..Len(next[r.path[i]])
    BY <1>1, <1>3
  <2>2. \A i \in 1..(m - 1 - 1) : i \in 1..(m - 1) /\ i + 1 \in 1..(m - 1) BY <1>2
  <2>3. ASSUME NEW i \in 1..(m - 1 - 1)
        PROVE  r.stack[i + 1].node = next[r.stack[i].node][r.stack[i].taken]
    <3>1. r.stack[i] = s.stack[i] /\ r.stack[i + 1] = s.stack[i + 1] BY <1>3, <2>2
    <3>2. s.stack[i + 1].node = next[s.stack[i].node][s.stack[i].taken] BY <1>1, <2>2
    <3>. QED BY <3>1, <3>2
  <2>4. \A i, j \in 1..(m - 1) : r.path[i] = r.path[j] => i = j BY <1>1, <1>3
  <2>. QED BY <1>3, <2>1, <2>3, <2>4 DEF DfsPath
<1>5. LeftNodes(r) = LeftNodes(s) \cup {node}
  <2>1. LeftNodes(r) = {x \in r.visited : \A i \in 1..(m - 1) : r.path[i] # x} BY <1>3 DEF LeftNodes
  <2>2. \A x : (\A i \in 1..(m - 1) : r.path[i] # x) <=> (\A i \in 1..(m - 1) : s.path[i] # x)
    BY <1>3
  <2>3. \A i \in 1..(m - 1) : s.path[i] # node BY <1>1
  <2>4. \A x : x \in LeftNodes(r) <=> x \in LeftNodes(s) \/ x = node
    BY <1>3, <1>21, <2>1, <2>2, <2>3
  <2>. QED BY <2>4
<1>6. DfsSinks(next, r)
  <2>1. CASE t = 0
    <3>1. next[node] \in Seq(R) /\ Len(next[node]) = 0 BY <2>1
    <3>2. next[node] = <<>> BY <3>1
    <3>. QED BY <1>5, <3>2 DEF DfsSinks
  <2>2. CASE t > 0
    <3>1. Len(s.stack) = Len(s.path) BY <1>2, <2>2 DEF AtWork
    <3>. QED BY <1>5, <3>1 DEF DfsSinks
  <2>. QED BY <1>2, <2>1, <2>2
<1>7. TakenEdges(next, r) = TakenEdges(next, s)
  <2>1. ASSUME NEW d \in Disc!EdgesOf(next)
        PROVE  d \in TakenEdges(next, r) <=> d \in TakenEdges(next, s)
    <3>1. d \in TakenEdges(next, r) <=>
            /\ d[1] \in r.visited
            /\ \A i \in 1..(m - 1) : r.path[i] = d[1] => d[2] <= r.stack[i].taken
      BY <1>3 DEF TakenEdges
    <3>2. CASE d[1] = node
      <4>1. d[2] <= t
        <5>1. d[2] \in 1..Len(next[d[1]]) BY EdgesAre
        <5>. QED BY <1>2, <3>2, <5>1
      <4>. QED BY <1>1, <1>22, <1>3, <3>1, <3>2, <4>1
    <3>3. CASE d[1] # node BY <1>22, <1>3, <3>1, <3>3
    <3>. QED BY <3>2, <3>3
  <2>2. TakenEdges(next, r) \subseteq Disc!EdgesOf(next)
        /\ TakenEdges(next, s) \subseteq Disc!EdgesOf(next)
    BY DEF TakenEdges
  <2>. QED BY <2>1, <2>2
<1>. QED BY <1>2, <1>3, <1>4, <1>6, <1>7 DEF Pops

\* A walk is known by its frames, its path and the nodes it has visited.
LEMMA SameWalk ==
  ASSUME NEW next, NEW s, NEW r, DfsPath(next, s), DfsSinks(next, s), r.stack = s.stack,
         r.path = s.path, r.visited = s.visited
  PROVE  DfsPath(next, r) /\ DfsSinks(next, r)
BY DEF DfsPath, DfsSinks, LeftNodes

\* A turn keeps the invariant, and closes a cycle, or takes an edge and pushes a frame, or
\* pops one.
LEMMA DfsTurned ==
  ASSUME NEW R, NEW next \in [R -> Seq(R)], NEW s, DfsInv(R, next, s), s.stack # <<>>,
         s.cycle = <<>>
  PROVE  LET r == Disc!DfsTurn(next, s)
         IN DfsInv(R, next, r) /\ (r.cycle # <<>> \/ Pops(next, s, r) \/ Pushes(next, s, r))
<1> DEFINE node == Disc!Last(s.stack).node
           t == Disc!Last(s.stack).taken
           visited == s.visited \cup {node}
           path == IF t = 0 THEN Append(s.path, node) ELSE s.path
           r == Disc!DfsTurn(next, s)
<1>0. PICK n, m : n = Len(s.path) /\ m = Len(s.stack) OBVIOUS
<1>1. s \in DfsStates(R) /\ DfsPath(next, s) /\ DfsSinks(next, s) BY DEF DfsInv
<1>2. PathFacts(R, next, s, n, m) BY <1>0, <1>1, PathFactsHold DEF Walk
<1>3. /\ s.stack \in Seq(Frames(R)) /\ s.path \in Seq(R) /\ s.visited \in SUBSET R
      /\ s.cycle \in Seq(R)
  BY <1>1 DEF DfsStates
<1>4. /\ m \in Nat /\ m >= 1 /\ Disc!Last(s.stack) = s.stack[m] /\ s.stack[m] \in Frames(R)
      /\ Disc!Front(s.stack) \in Seq(Frames(R)) /\ Len(Disc!Front(s.stack)) = m - 1
      /\ \A i \in 1..(m - 1) : Disc!Front(s.stack)[i] = s.stack[i]
  BY <1>0, <1>3, TopOf
<1>5. node \in R /\ t \in Nat /\ next[node] \in Seq(R) /\ Len(next[node]) \in Nat
      /\ s.stack[m].node = node /\ s.stack[m].taken = t
  <2>1. node \in R /\ t \in Nat BY <1>4 DEF Frames
  <2>2. next[node] \in Seq(R) BY <2>1
  <2>. QED BY <1>4, <2>1, <2>2
<1>6. /\ n \in Nat /\ (m = n \/ (m = n + 1 /\ s.stack[m].taken = 0))
      /\ \A i \in 1..n : /\ s.stack[i].node = s.path[i] /\ s.path[i] \in s.visited
                         /\ s.stack[i].taken \in 1..Len(next[s.path[i]])
  BY <1>2 DEF PathFacts
<1>7. Disc!ToSet(s.path) = {s.path[i] : i \in 1..n} /\ DOMAIN s.path = 1..n
  <2>1. DOMAIN s.path = 1..n BY <1>0, <1>3
  <2>. QED BY <2>1 DEF Disc!ToSet
<1>. HIDE DEF node, t
<1>8. m = n => t \in 1..Len(next[node]) /\ node = s.path[m]
  <2>1. m = n => m \in 1..n BY <1>4
  <2>. QED BY <1>5, <1>6, <2>1
<1>9. t = 0 => m = n + 1
  <2>1. t \in 1..Len(next[node]) => t # 0 BY <1>5
  <2>. QED BY <1>6, <1>8, <2>1
<1>10. CASE t = 0 /\ node \in Disc!ToSet(s.path)
  <2> DEFINE start == CHOOSE i \in DOMAIN s.path : s.path[i] = node
             c == Append(SubSeq(s.path, start, Len(s.path)), node)
  <2>1. start \in 1..n /\ s.path[start] = node
    <3>1. \E i \in DOMAIN s.path : s.path[i] = node BY <1>7, <1>10
    <3>. QED BY <1>7, <3>1
  <2>2. r = [s EXCEPT !.cycle = c] BY <1>10 DEF Disc!DfsTurn, node, t
  <2>. HIDE DEF start
  <2>3. c \in Seq(R) /\ c # <<>> /\ IsCycle(next, c)
    <3>1. m = n + 1 /\ s.path[start] = s.stack[m].node BY <1>5, <1>9, <1>10, <2>1
    <3>2. c = Append(SubSeq(s.path, start, n), s.path[start]) BY <1>0, <2>1
    <3>. QED BY <1>2, <2>1, <3>1, <3>2, TurnCloses
  <2>. HIDE DEF c, r
  <2>4. r \in DfsStates(R) /\ r.stack = s.stack /\ r.path = s.path /\ r.visited = s.visited
        /\ r.cycle = c
    BY <1>1, <2>2, <2>3 DEF DfsStates
  <2>5. DfsPath(next, r) /\ DfsSinks(next, r) BY <1>1, <2>4, SameWalk
  <2>. QED BY <2>3, <2>4, <2>5 DEF DfsInv, r
<1>11. CASE t = 0 /\ node \in s.visited \ Disc!ToSet(s.path)
  <2>1. r = [s EXCEPT !.stack = Disc!Front(s.stack)] BY <1>11 DEF Disc!DfsTurn, node, t
  <2>. HIDE DEF r
  <2>2. r \in DfsStates(R) /\ r.stack = Disc!Front(s.stack) /\ r.path = s.path
        /\ r.visited = s.visited /\ r.cycle = <<>>
    BY <1>1, <1>4, <2>1 DEF DfsStates
  <2>3. m = n + 1 BY <1>9, <1>11
  <2>4. Len(r.stack) = n /\ \A i \in 1..n : r.stack[i] = s.stack[i] BY <1>4, <1>6, <2>2, <2>3
  <2>5. s.stack[m].node \in LeftNodes(s) BY <1>0, <1>5, <1>7, <1>11 DEF LeftNodes
  <2>6. DfsPath(next, r) /\ DfsSinks(next, r) /\ Pops(next, s, r)
    BY <1>1, <1>2, <2>2, <2>3, <2>4, <2>5, TurnSkips
  <2>. QED BY <2>2, <2>6 DEF DfsInv, r
<1>12. CASE ~(t = 0 /\ node \in Disc!ToSet(s.path))
            /\ ~(t = 0 /\ node \in s.visited \ Disc!ToSet(s.path))
  <2>1. AtWork(next, s, node, t, m)
    <3>1. CASE t = 0
      <4>1. node \notin s.visited BY <1>12, <3>1
      <4>2. n = m - 1
        <5>1. m = n + 1 BY <1>9, <3>1
        <5>. QED BY <1>6, <5>1
      <4>. QED BY <1>0, <1>4, <1>5, <3>1, <4>1, <4>2 DEF AtWork
    <3>2. CASE t # 0
      <4>1. m = n BY <1>5, <1>6, <3>2
      <4>2. t > 0 /\ t <= Len(next[node]) BY <1>5, <1>8, <4>1
      <4>. QED BY <1>0, <1>4, <1>5, <1>8, <4>1, <4>2 DEF AtWork
    <3>. QED BY <3>1, <3>2
  <2>2. /\ path \in Seq(R) /\ Len(path) = m /\ path[m] = node
        /\ \A i \in 1..(m - 1) : path[i] = s.path[i]
    <3>1. CASE t = 0
      <4>1. path = Append(s.path, node) /\ m = n + 1 BY <1>9, <3>1
      <4>2. /\ Append(s.path, node) \in Seq(R) /\ Len(Append(s.path, node)) = n + 1
            /\ Append(s.path, node)[n + 1] = node
            /\ \A i \in 1..n : Append(s.path, node)[i] = s.path[i]
        BY <1>0, <1>3, <1>5, <1>6
      <4>3. m - 1 = n BY <1>6, <4>1
      <4>. QED BY <4>1, <4>2, <4>3
    <3>2. CASE t # 0
      <4>1. path = s.path /\ m = n BY <1>5, <1>6, <3>2
      <4>. QED BY <1>0, <1>3, <1>8, <4>1
    <3>. QED BY <3>1, <3>2
  <2>. HIDE DEF path
  <2>3. visited \in SUBSET R /\ <<>> \in Seq(R) BY <1>3, <1>5
  <2>4. CASE t < Len(next[node])
    <3> DEFINE a == [node |-> node, taken |-> t + 1]
               b == [node |-> next[node][t + 1], taken |-> 0]
               more == Disc!Front(s.stack) \o <<a, b>>
    <3>1. r = [stack |-> more, path |-> path, visited |-> visited, cycle |-> <<>>]
      BY <1>12, <2>4 DEF Disc!DfsTurn, node, t, path
    <3>2. a \in Frames(R) /\ b \in Frames(R)
      <4>1. t + 1 \in 1..Len(next[node]) BY <1>5, <2>4
      <4>2. next[node][t + 1] \in R BY <1>5, <4>1
      <4>. QED BY <1>5, <4>2 DEF Frames
    <3>3. /\ a.node = node /\ a.taken = t + 1 /\ b.node = next[node][t + 1] /\ b.taken = 0
      OBVIOUS
    <3>. HIDE DEF a, b
    <3>4. /\ more \in Seq(Frames(R)) /\ Len(more) = m + 1
          /\ \A i \in 1..(m - 1) : more[i] = s.stack[i]
          /\ more[m] = a /\ more[m + 1] = b
      <4>1. PutOnTop(Frames(R), s.stack, a, b, more) BY <1>3, <3>2, TopReplaced
      <4>. HIDE DEF more
      <4>. QED BY <1>0, <4>1 DEF PutOnTop
    <3>. HIDE DEF more, visited, r
    <3>5. /\ r.stack = more /\ r.path = path /\ r.visited = visited /\ r.cycle = <<>>
          /\ r \in DfsStates(R)
      BY <2>2, <2>3, <3>1, <3>4 DEF DfsStates
    <3>6. TakesTo(next, s, r, node, t, m)
      BY <2>2, <3>3, <3>4, <3>5 DEF TakesTo, Kept, visited
    <3>7. DfsPath(next, r) /\ DfsSinks(next, r) /\ Pushes(next, s, r)
      BY <1>1, <1>2, <1>5, <2>1, <2>4, <3>6, TurnTakes
    <3>. QED BY <3>5, <3>7 DEF DfsInv, r
  <2>5. CASE ~(t < Len(next[node]))
    <3>1. r = [stack |-> Disc!Front(s.stack), path |-> Disc!Front(path), visited |-> visited,
               cycle |-> <<>>]
      BY <1>12, <2>5 DEF Disc!DfsTurn, node, t, path
    <3>2. path # <<>>
      <4>1. Len(path) # 0 BY <1>4, <2>2
      <4>. QED BY <4>1
    <3>3. /\ Disc!Front(path) \in Seq(R) /\ Len(Disc!Front(path)) = m - 1
          /\ \A i \in 1..(m - 1) : Disc!Front(path)[i] = path[i]
      BY <2>2, <3>2, TopOf
    <3>. HIDE DEF visited, r
    <3>4. /\ r.stack = Disc!Front(s.stack) /\ r.path = Disc!Front(path)
          /\ r.visited = visited /\ r.cycle = <<>> /\ r \in DfsStates(R)
      BY <1>4, <2>3, <3>1, <3>3 DEF DfsStates
    <3>5. Left(s, r, node, m)
      BY <1>4, <2>2, <3>3, <3>4 DEF Left, Kept, visited
    <3>6. t = Len(next[node]) BY <1>5, <2>1, <2>5 DEF AtWork
    <3>7. DfsPath(next, r) /\ DfsSinks(next, r) /\ Pops(next, s, r)
      BY <1>1, <1>2, <1>5, <2>1, <3>5, <3>6, TurnLeaves
    <3>. QED BY <3>4, <3>7 DEF DfsInv, r
  <2>. QED BY <2>4, <2>5
<1>. QED BY <1>10, <1>11, <1>12

LEMMA DfsStarts ==
  ASSUME NEW R, NEW next \in [R -> Seq(R)], NEW start \in R
  PROVE  LET s == [stack |-> <<[node |-> start, taken |-> 0]>>, path |-> <<>>, visited |-> {},
                   cycle |-> <<>>]
         IN DfsInv(R, next, s) /\ DfsCounts(next, s, 0)
<1> DEFINE frame == [node |-> start, taken |-> 0]
           s == [stack |-> <<frame>>, path |-> <<>>, visited |-> {}, cycle |-> <<>>]
<1>1. frame \in Frames(R) /\ frame.taken = 0 BY DEF Frames
<1>. HIDE DEF frame
<1>2. <<frame>> \in Seq(Frames(R)) /\ Len(<<frame>>) = 1 /\ <<frame>>[1] = frame BY <1>1
<1>3. <<>> \in Seq(R) /\ Len(<<>>) = 0 OBVIOUS
<1>4. s \in DfsStates(R) BY <1>2, <1>3 DEF DfsStates
<1>5. /\ Len(s.stack) = 1 /\ s.stack[1] = frame /\ Len(s.path) = 0 /\ s.visited = {}
      /\ s.cycle = <<>>
  BY <1>2, <1>3
<1>. HIDE DEF s
<1>6. DfsPath(next, s) BY <1>1, <1>5 DEF DfsPath
<1>7. DfsSinks(next, s) BY <1>5 DEF DfsSinks, LeftNodes
<1>8. TakenEdges(next, s) = {} BY <1>5 DEF TakenEdges
<1>9. DfsCounts(next, s, 0)
  <2>1. Cardinality(TakenEdges(next, s)) = 0 BY <1>8, FS_EmptySet
  <2>. QED BY <1>5, <2>1 DEF DfsCounts
<1>. QED BY <1>4, <1>5, <1>6, <1>7, <1>9 DEF DfsInv, s, frame

LEMMA EdgesAreFinite ==
  ASSUME NEW R, IsFiniteSet(R), NEW next \in [R -> Seq(R)]
  PROVE  IsFiniteSet(Disc!EdgesOf(next))
<1> DEFINE Of(x) == {x} \X (1..Len(next[x]))
           all == {Of(x) : x \in R}
           which == [x \in R |-> Of(x)]
<1>1. ASSUME NEW x \in R PROVE IsFiniteSet(Of(x))
  <2>1. next[x] \in Seq(R) OBVIOUS
  <2>2. Len(next[x]) \in Nat BY <2>1
  <2>3. IsFiniteSet(1..Len(next[x])) /\ IsFiniteSet({x})
    <3>1. 1 \in Int /\ Len(next[x]) \in Int BY <2>2
    <3>. QED BY <3>1, FS_Interval, FS_Singleton
  <2>. QED BY <2>3, FS_Product
<1>2. Disc!EdgesOf(next) = UNION all BY DEF Disc!EdgesOf
<1>. HIDE DEF Of
<1>3. which \in Surjection(R, all) BY DEF Surjection
<1>4. \A S \in all : IsFiniteSet(S) BY <1>1
<1>. HIDE DEF all, which
<1>5. IsFiniteSet(all) BY <1>3, FS_Surjection
<1>. QED BY <1>2, <1>4, <1>5, FS_UNION

LEMMA CountsGoOn ==
  ASSUME NEW R, IsFiniteSet(R), NEW next \in [R -> Seq(R)], NEW s, NEW r, NEW k \in Nat, k > 0,
         s \in DfsStates(R), r \in DfsStates(R), s.stack # <<>>, s.cycle = <<>>,
         DfsCounts(next, s, k - 1),
         r.cycle # <<>> \/ Pops(next, s, r) \/ Pushes(next, s, r)
  PROVE  DfsCounts(next, r, k)
<1>. SUFFICES ASSUME r.cycle = <<>> PROVE k + Len(r.stack) = 2 * Cardinality(TakenEdges(next, r)) + 1
  BY DEF DfsCounts
<1>1. IsFiniteSet(TakenEdges(next, s))
  <2>1. TakenEdges(next, s) \in SUBSET Disc!EdgesOf(next) BY DEF TakenEdges
  <2>. QED BY <2>1, EdgesAreFinite, FS_Subset
<1>2. PICK c : c = Cardinality(TakenEdges(next, s)) OBVIOUS
<1>3. c \in Nat BY <1>1, <1>2, FS_CardinalityType
<1>4. PICK m : m = Len(s.stack) OBVIOUS
<1>5. m \in Nat
  <2>1. s.stack \in Seq(Frames(R)) BY DEF DfsStates
  <2>. QED BY <1>4, <2>1
<1>6. k - 1 + m = 2 * c + 1 BY <1>2, <1>4 DEF DfsCounts
<1>7. CASE Pops(next, s, r)
  <2>1. Len(r.stack) = m - 1 /\ Cardinality(TakenEdges(next, r)) = c
    BY <1>2, <1>4, <1>7 DEF Pops
  <2>. QED BY <1>3, <1>5, <1>6, <2>1
<1>8. CASE Pushes(next, s, r)
  <2>1. PICK e \in Disc!EdgesOf(next) \ TakenEdges(next, s) :
          TakenEdges(next, r) = TakenEdges(next, s) \cup {e}
    BY <1>8 DEF Pushes
  <2>2. Cardinality(TakenEdges(next, r)) = c + 1 BY <1>1, <1>2, <2>1, FS_AddElement
  <2>3. Len(r.stack) = m + 1 BY <1>4, <1>8 DEF Pushes
  <2>. QED BY <1>3, <1>5, <1>6, <2>2, <2>3
<1>. QED BY <1>7, <1>8

\* The walk ends in its turns: with a cycle, or with every node that it met left, one of
\* which has no neighbours.
LEMMA DfsFindCycleIs ==
  ASSUME NEW R, IsFiniteSet(R), NEW next \in [R -> Seq(R)], NEW start \in R
  PROVE  LET c == Disc!DfsFindCycle(next, start)
         IN /\ c = <<>> => \E x \in R : next[x] = <<>>
            /\ c # <<>> => c \in Seq(R) /\ IsCycle(next, c)
<1> DEFINE edges == Disc!EdgesOf(next)
           turns == 2 * Cardinality(edges) + 1
           first == [stack |-> <<[node |-> start, taken |-> 0]>>, path |-> <<>>,
                     visited |-> {}, cycle |-> <<>>]
           Goes(s) == IF s.stack = <<>> \/ s.cycle # <<>> THEN s ELSE Disc!DfsTurn(next, s)
           IsAfter(f) == f = [k \in 0..turns |-> IF k = 0 THEN first ELSE Goes(f[k - 1])]
           S == {s \in DfsStates(R) : DfsInv(R, next, s)}
           step == [p \in (1..turns) \X S |-> Goes(p[2])]
           after == CHOOSE f : IsAfter(f)
<1>1. Disc!DfsFindCycle(next, start) = after[turns].cycle
  BY SameCardinality DEF Disc!DfsFindCycle
<1>2. IsFiniteSet(edges) /\ Cardinality(edges) \in Nat BY EdgesAreFinite, FS_CardinalityType
<1>3. turns \in Nat BY <1>2
<1>4. first \in S /\ DfsCounts(next, first, 0) BY DfsStarts DEF DfsInv
<1>. HIDE DEF turns, first
<1>5. ASSUME NEW s \in S
      PROVE  /\ Goes(s) \in S
             /\ \A k \in Nat : k > 0 /\ DfsCounts(next, s, k - 1) => DfsCounts(next, Goes(s), k)
  <2>1. DfsInv(R, next, s) OBVIOUS
  <2>2. CASE s.stack = <<>> \/ s.cycle # <<>>
    <3>1. Goes(s) = s BY <2>2
    <3>. QED BY <2>2, <3>1 DEF DfsCounts
  <2>3. CASE s.stack # <<>> /\ s.cycle = <<>>
    <3> DEFINE r == Disc!DfsTurn(next, s)
    <3>1. Goes(s) = r BY <2>3
    <3>2. DfsInv(R, next, r) /\ (r.cycle # <<>> \/ Pops(next, s, r) \/ Pushes(next, s, r))
      BY <2>1, <2>3, DfsTurned
    <3>. HIDE DEF r, Goes
    <3>3. r \in DfsStates(R) /\ s \in DfsStates(R) BY <2>1, <3>2 DEF DfsInv
    <3>4. \A k \in Nat : k > 0 /\ DfsCounts(next, s, k - 1) => DfsCounts(next, r, k)
      BY <2>3, <3>2, <3>3, CountsGoOn
    <3>. QED BY <3>1, <3>2, <3>3, <3>4
  <2>. QED BY <2>2, <2>3
<1>. HIDE DEF Goes, S
<1>6. step \in [(1..turns) \X S -> S] BY <1>5
<1>7. \E f : IsAfter(f)
  <2>1. PICK f \in [0..turns -> S] : Follows(f, turns, first, step)
    <3>. HIDE DEF step
    <3>. QED BY <1>3, <1>4, <1>6, Recursion
  <2>2. ASSUME NEW k \in 0..turns PROVE f[k] = IF k = 0 THEN first ELSE Goes(f[k - 1])
    <3>1. CASE k = 0 BY <2>1, <3>1 DEF Follows
    <3>2. CASE k # 0
      <4>1. k \in 1..turns /\ k - 1 \in 0..turns BY <1>3, <3>2
      <4>2. f[k] = step[<<k, f[k - 1]>>] BY <2>1, <4>1 DEF Follows
      <4>3. f[k - 1] \in S BY <4>1
      <4>4. <<k, f[k - 1]>> \in (1..turns) \X S BY <4>1, <4>3
      <4>. QED BY <3>2, <4>2, <4>4
    <3>. QED BY <3>1, <3>2
  <2>3. f = [k \in 0..turns |-> f[k]] OBVIOUS
  <2>. QED BY <2>2, <2>3
<1>8. IsAfter(after)
  <2>. HIDE DEF IsAfter
  <2>. QED BY <1>7
<1>. HIDE DEF after
<1>9. \A k \in 0..turns : after[k] = IF k = 0 THEN first ELSE Goes(after[k - 1]) BY <1>8
<1> DEFINE Fine == {k \in 0..turns : after[k] \in S /\ DfsCounts(next, after[k], k)}
<1>10. 0 \in Fine BY <1>3, <1>4, <1>9
<1>11. ASSUME NEW k \in 0..turns, k > 0, k - 1 \in Fine PROVE k \in Fine
  <2>1. after[k] = Goes(after[k - 1]) /\ after[k - 1] \in S
        /\ DfsCounts(next, after[k - 1], k - 1)
    BY <1>3, <1>9, <1>11
  <2>. QED BY <1>3, <1>5, <1>11, <2>1
<1>12. turns \in Fine
  <2>. HIDE DEF Fine
  <2>1. turns \in 0..turns BY <1>3
  <2>2. \A k \in 0..turns : k > 0 /\ k - 1 \in Fine => k \in Fine BY <1>11
  <2>. QED BY <1>3, <1>10, <2>1, <2>2, Upwards
<1> DEFINE s == after[turns]
<1>13. DfsInv(R, next, s) /\ DfsCounts(next, s, turns) BY <1>12 DEF S
<1>. HIDE DEF s, Fine
<1>14. s.cycle # <<>> => s.cycle \in Seq(R) /\ IsCycle(next, s.cycle)
  BY <1>13 DEF DfsInv, DfsStates
<1>15. ASSUME s.cycle = <<>> PROVE \E x \in R : next[x] = <<>>
  <2>1. s \in DfsStates(R) /\ DfsPath(next, s) /\ DfsSinks(next, s) BY <1>13 DEF DfsInv
  <2>2. s.stack \in Seq(Frames(R)) /\ s.path \in Seq(R) /\ s.visited \in SUBSET R
    BY <2>1 DEF DfsStates
  <2>3. s.stack = <<>>
    <3>. SUFFICES ASSUME s.stack # <<>> PROVE FALSE OBVIOUS
    <3>1. turns + Len(s.stack) = 2 * Cardinality(TakenEdges(next, s)) + 1
      BY <1>13, <1>15 DEF DfsCounts
    <3>2. TakenEdges(next, s) \in SUBSET edges BY DEF TakenEdges
    <3>3. Cardinality(TakenEdges(next, s)) \in Nat
          /\ Cardinality(TakenEdges(next, s)) <= Cardinality(edges)
      BY <1>2, <3>2, FS_Subset, FS_CardinalityType
    <3>4. PICK m : m = Len(s.stack) OBVIOUS
    <3>5. m \in Nat /\ m >= 1 BY <2>2, <3>4
    <3>6. turns = 2 * Cardinality(edges) + 1 BY DEF turns
    <3>. HIDE DEF edges
    <3>. QED BY <1>2, <3>1, <3>3, <3>4, <3>5, <3>6
  <2>4. Len(s.stack) = 0 /\ Len(s.path) \in Nat BY <2>2, <2>3
  <2>5. Len(s.stack) = Len(s.path) BY <2>1, <2>4 DEF DfsPath
  <2>6. PICK x \in LeftNodes(s) : next[x] = <<>> BY <2>1, <2>5 DEF DfsSinks
  <2>7. x \in R BY <2>2, <2>6 DEF LeftNodes
  <2>. QED BY <2>6, <2>7
<1>. QED BY <1>1, <1>14, <1>15 DEF s

-----------------------------------------------------------------------------
(* What resolve_dependencies() makes of a batch, and what it searches for a  *)
(* cycle.                                                                    *)
Neighbours(batch, left) ==
  [m \in left |-> Disc!Sorted({e.dep.id : e \in {x \in Disc!Declared(batch) : x.by = m}} \cap left)]

LEMMA NeighboursAre ==
  ASSUME NEW batch, NEW left \in SUBSET Nat, IsFiniteSet(left)
  PROVE  /\ Neighbours(batch, left) \in [left -> Seq(left)]
         /\ \A m \in left, i \in Nat : i \in 1..Len(Neighbours(batch, left)[m]) =>
              \E e \in Disc!Declared(batch) :
                e.by = m /\ e.dep.id = Neighbours(batch, left)[m][i]
         /\ \A m \in left : Neighbours(batch, left)[m] = <<>> =>
              \A e \in Disc!Declared(batch) : e.by = m => e.dep.id \notin left
<1> DEFINE Of(m) == {e.dep.id : e \in {x \in Disc!Declared(batch) : x.by = m}} \cap left
           next == Neighbours(batch, left)
<1>1. ASSUME NEW m \in left
      PROVE  /\ next[m] = Disc!Sorted(Of(m)) /\ next[m] \in Seq(left)
             /\ Disc!ToSet(next[m]) = Of(m)
             /\ \A i \in 1..Len(next[m]) : next[m][i] \in Of(m)
  <2>1. next[m] = Disc!Sorted(Of(m)) BY DEF Neighbours
  <2>2. Of(m) \in SUBSET left OBVIOUS
  <2>. HIDE DEF Of, next
  <2>3. Of(m) \in SUBSET Nat /\ IsFiniteSet(Of(m)) BY <2>2, FS_Subset
  <2>4. Disc!Sorted(Of(m)) \in Seq(Of(m)) BY <2>3, SortedIs
  <2>5. Disc!Sorted(Of(m)) \in Seq(left) BY <2>2, <2>4, ListOfMore
  <2>6. Disc!ToSet(Disc!Sorted(Of(m))) = Of(m) BY <2>3, SortedLists
  <2>7. \A i \in 1..Len(next[m]) : next[m][i] \in Of(m) BY <2>1, <2>4
  <2>. QED BY <2>1, <2>5, <2>6, <2>7
<1>2. next \in [left -> Seq(left)]
  <2>1. next = [m \in left |-> next[m]] BY DEF Neighbours
  <2>. HIDE DEF next
  <2>. QED BY <1>1, <2>1
<1>3. ASSUME NEW m \in left, next[m] = <<>>, NEW e \in Disc!Declared(batch), e.by = m
      PROVE  e.dep.id \notin left
  <2>1. Of(m) = {}
    <3>1. Disc!ToSet(next[m]) = {} BY <1>3 DEF Disc!ToSet
    <3>. HIDE DEF Of, next
    <3>. QED BY <1>1, <3>1
  <2>. QED BY <1>3, <2>1
<1>4. ASSUME NEW m \in left, NEW i \in Nat, i \in 1..Len(next[m])
      PROVE  \E e \in Disc!Declared(batch) : e.by = m /\ e.dep.id = next[m][i]
  <2>1. next[m][i] \in Of(m) BY <1>1, <1>4
  <2>. HIDE DEF next
  <2>. QED BY <2>1
<1>. QED BY <1>2, <1>3, <1>4

LEMMA LeastOf ==
  ASSUME NEW S, S \subseteq Nat, IsFiniteSet(S), S # {}
  PROVE  Disc!Min(S) \in S
<1> DEFINE R == {p \in S \X S : p[1] < p[2]}
<1>1. \A x, y \in S : <<x, y>> \in R <=> x < y OBVIOUS
<1>. HIDE DEF R
<1>2. \A x, y, z \in S : <<x, y>> \in R /\ <<y, z>> \in R => <<x, z>> \in R
  <2>1. \A x, y, z \in S : x < y /\ y < z => x < z OBVIOUS
  <2>. QED BY <1>1, <2>1
<1>3. \A x \in S : <<x, x>> \notin R BY <1>1
<1>4. \E k \in S : \A y \in S : <<y, k>> \notin R BY <1>2, <1>3, MinimalExists
<1>5. PICK k \in S : \A y \in S : <<y, k>> \notin R BY <1>4
<1>6. ASSUME NEW y \in S PROVE k <= y
  <2>1. ~(y < k) BY <1>1, <1>5
  <2>2. y \in Nat /\ k \in Nat OBVIOUS
  <2>. QED BY <2>1, <2>2
<1>7. \E x \in S : \A y \in S : x <= y BY <1>6
<1>. QED BY <1>7 DEF Disc!Min

\* The search: a cycle of what is declared, or some module left over that declares nothing
\* left over.
LEMMA BackEdgeCycleIs ==
  ASSUME NEW batch, NEW left \in SUBSET Nat, IsFiniteSet(left)
  PROVE  LET c == Disc!FindBackEdgeCycle(batch, left)
         IN /\ c # <<>> => IsCycle(Neighbours(batch, left), c) /\ c \in Seq(left)
            /\ c = <<>> /\ left # {} => \E x \in left : Neighbours(batch, left)[x] = <<>>
<1> DEFINE next == Neighbours(batch, left)
           found == {m \in left : Disc!DfsFindCycle(next, m) # <<>>}
           c == Disc!FindBackEdgeCycle(batch, left)
<1>1. c = IF found = {} THEN <<>> ELSE Disc!DfsFindCycle(next, Disc!Min(found))
  BY DEF Disc!FindBackEdgeCycle, Neighbours
<1>2. next \in [left -> Seq(left)] BY NeighboursAre
<1>. HIDE DEF next, c
<1>3. ASSUME NEW m \in left
      PROVE  /\ Disc!DfsFindCycle(next, m) = <<>> => \E x \in left : next[x] = <<>>
             /\ Disc!DfsFindCycle(next, m) # <<>> =>
                  /\ Disc!DfsFindCycle(next, m) \in Seq(left)
                  /\ IsCycle(next, Disc!DfsFindCycle(next, m))
  BY <1>2, DfsFindCycleIs
<1>4. CASE found = {}
  <2>1. c = <<>> BY <1>1, <1>4
  <2>2. \A m \in left : Disc!DfsFindCycle(next, m) = <<>> BY <1>4
  <2>. QED BY <1>3, <2>1, <2>2 DEF next, c
<1>5. CASE found # {}
  <2>1. found \in SUBSET left OBVIOUS
  <2>. HIDE DEF found
  <2>2. found \in SUBSET Nat /\ IsFiniteSet(found) BY <2>1, FS_Subset
  <2>3. Disc!Min(found) \in found BY <1>5, <2>2, LeastOf
  <2>4. c = Disc!DfsFindCycle(next, Disc!Min(found)) BY <1>1, <1>5
  <2>5. c # <<>> /\ Disc!Min(found) \in left BY <2>3, <2>4 DEF found
  <2>. QED BY <1>3, <2>4, <2>5 DEF next, c
<1>. QED BY <1>4, <1>5

\* The cases of resolve_dependencies().
LEMMA ResolvedAs ==
  ASSUME NEW batch, NEW known, NEW versions
  PROVE  LET order == Disc!Kahn(batch, Disc!Needs(batch, known, versions))
             cycle == Disc!FindBackEdgeCycle(batch, Disc!BatchIds(batch) \ Disc!ToSet(order))
             result == Disc!ResolveDependencies(batch, known, versions)
         IN /\ result.outcome = "cycle" => cycle # <<>> /\ result.path = cycle
            /\ result.outcome = "blocked" => cycle = <<>> /\ Len(order) # Len(batch)
<1> DEFINE ids == Disc!BatchIds(batch)
           declared == Disc!Declared(batch)
           faulty == \E d \in declared :
                       Disc!Verdict(d.dep, known, versions) \notin {"edge", "skip"}
           order == Disc!Kahn(batch, Disc!Needs(batch, known, versions))
           cycle == Disc!FindBackEdgeCycle(batch, ids \ Disc!ToSet(order))
           result == Disc!ResolveDependencies(batch, known, versions)
<1>1. result = CASE faulty -> [outcome |-> "fault", path |-> <<>>]
                 [] ~faulty /\ Len(order) = Len(batch) -> [outcome |-> "order", path |-> order]
                 [] OTHER -> IF cycle # <<>> THEN [outcome |-> "cycle", path |-> cycle]
                             ELSE [outcome |-> "blocked", path |-> <<>>]
  BY DEF Disc!ResolveDependencies, Disc!Needs
<1>. HIDE DEF faulty, order, cycle, result
<1>2. CASE faulty
  <2>1. result = [outcome |-> "fault", path |-> <<>>] BY <1>1, <1>2
  <2>. QED BY <2>1 DEF result, order, cycle
<1>3. CASE ~faulty /\ Len(order) = Len(batch)
  <2>1. result = [outcome |-> "order", path |-> order] BY <1>1, <1>3
  <2>. QED BY <2>1 DEF result, order, cycle
<1>4. CASE ~faulty /\ Len(order) # Len(batch)
  <2>1. result = IF cycle # <<>> THEN [outcome |-> "cycle", path |-> cycle]
                 ELSE [outcome |-> "blocked", path |-> <<>>]
    BY <1>1, <1>4
  <2>. QED BY <1>4, <2>1 DEF result, order, cycle
<1>. QED BY <1>2, <1>3, <1>4 DEF result, order, cycle

LEMMA ResolvedPath ==
  ASSUME NEW batch, Len(batch) \in Nat, NEW known, NEW versions,
         Disc!BatchIds(batch) \in SUBSET Nat, IsFiniteSet(Disc!BatchIds(batch)),
         Disc!ResolveDependencies(batch, known, versions).outcome = "order"
  PROVE  LET ids == Disc!BatchIds(batch)
             path == Disc!ResolveDependencies(batch, known, versions).path
             edges == Disc!Needs(batch, known, versions)
         IN /\ path \in Seq(ids) /\ Len(path) = Len(batch)
            /\ IsFiniteSet(edges) => Once(path) /\ KahnPlaces(edges, path)
<1> DEFINE ids == Disc!BatchIds(batch)
           declared == Disc!Declared(batch)
           faulty == \E d \in declared :
                       Disc!Verdict(d.dep, known, versions) \notin {"edge", "skip"}
           edges == Disc!Needs(batch, known, versions)
           order == Disc!Kahn(batch, edges)
           cycle == Disc!FindBackEdgeCycle(batch, ids \ Disc!ToSet(order))
           result == Disc!ResolveDependencies(batch, known, versions)
<1>1. result = CASE faulty -> [outcome |-> "fault", path |-> <<>>]
                 [] ~faulty /\ Len(order) = Len(batch) -> [outcome |-> "order", path |-> order]
                 [] OTHER -> IF cycle # <<>> THEN [outcome |-> "cycle", path |-> cycle]
                             ELSE [outcome |-> "blocked", path |-> <<>>]
  BY DEF Disc!ResolveDependencies, Disc!Needs
<1>2. PICK s : /\ order = s.order /\ KahnTypes(ids, s)
               /\ IsFiniteSet(edges) => KahnOrders(ids, edges, s)
  BY KahnIs
<1>. HIDE DEF faulty, order, cycle, result, edges, declared, ids
<1>3. result.outcome = "order" => result.path = order /\ Len(order) = Len(batch) BY <1>1
<1>4. result.path = s.order /\ Len(s.order) = Len(batch) BY <1>2, <1>3 DEF result
<1>5. s.order \in Seq(ids) BY <1>2 DEF KahnTypes
<1>6. IsFiniteSet(edges) => Once(s.order) /\ KahnPlaces(edges, s.order)
  BY <1>2 DEF KahnOrders, KahnLists
<1>. QED BY <1>4, <1>5, <1>6 DEF result, edges, ids

\* The edges of a batch are finitely many, as are its ids.
LEMMA BatchIsFinite ==
  ASSUME NEW batch, Len(batch) \in Nat, DOMAIN batch = 1..Len(batch),
         \A i \in DOMAIN batch : IsFiniteSet(DOMAIN batch[i].deps), NEW known, NEW versions
  PROVE  /\ IsFiniteSet(Disc!BatchIds(batch)) /\ Cardinality(Disc!BatchIds(batch)) \in Nat
         /\ Cardinality(Disc!BatchIds(batch)) <= Len(batch)
         /\ (\A i, j \in DOMAIN batch : batch[i].id = batch[j].id => i = j) =>
              Cardinality(Disc!BatchIds(batch)) = Len(batch)
         /\ IsFiniteSet(Disc!Needs(batch, known, versions))
<1> DEFINE ids == Disc!BatchIds(batch)
           needs == Disc!Needs(batch, known, versions)
<1>0. \A n \in Nat : IsFiniteSet(1..n) /\ Cardinality(1..n) = n BY FS_Interval
<1>1. /\ IsFiniteSet(ids) /\ Cardinality(ids) <= Len(batch) /\ Cardinality(ids) \in Nat
      /\ (\A i, j \in DOMAIN batch : batch[i].id = batch[j].id => i = j) =>
           Cardinality(ids) = Len(batch)
  <2> DEFINE f == [i \in 1..Len(batch) |-> batch[i].id]
  <2>1. f \in Surjection(1..Len(batch), ids) BY DEF Surjection, Disc!BatchIds
  <2>2. IsFiniteSet(1..Len(batch)) /\ Cardinality(1..Len(batch)) = Len(batch) BY <1>0
  <2>3. f \in [1..Len(batch) -> ids] BY DEF Disc!BatchIds
  <2>4. (\A i, j \in DOMAIN batch : batch[i].id = batch[j].id => i = j) =>
          f \in Injection(1..Len(batch), ids)
    BY <2>3 DEF Injection, IsInjective
  <2>. HIDE DEF f, ids
  <2>5. IsFiniteSet(ids) /\ Cardinality(ids) <= Len(batch) /\ Cardinality(ids) \in Nat
    BY <2>1, <2>2, FS_Surjection, FS_CardinalityType
  <2>6. f \in Injection(1..Len(batch), ids) => Len(batch) <= Cardinality(ids)
    BY <2>2, <2>5, FS_Injection
  <2>. QED BY <2>4, <2>5, <2>6
<1>2. IsFiniteSet(needs)
  <2> DEFINE Of(i) == {[by |-> batch[i].id, dep |-> batch[i].deps[j], at |-> <<i, j>>] :
                         j \in DOMAIN batch[i].deps}
             all == {Of(i) : i \in DOMAIN batch}
             which == [i \in DOMAIN batch |-> Of(i)]
  <2>1. ASSUME NEW i \in DOMAIN batch PROVE IsFiniteSet(Of(i))
    <3> DEFINE g == [j \in DOMAIN batch[i].deps |->
                       [by |-> batch[i].id, dep |-> batch[i].deps[j], at |-> <<i, j>>]]
    <3>1. g \in Surjection(DOMAIN batch[i].deps, Of(i)) BY DEF Surjection
    <3>. HIDE DEF g, Of
    <3>. QED BY <3>1, FS_Surjection
  <2>2. Disc!Declared(batch) = UNION all BY DEF Disc!Declared
  <2>. HIDE DEF Of
  <2>3. which \in Surjection(DOMAIN batch, all) BY DEF Surjection
  <2>4. IsFiniteSet(DOMAIN batch) BY <1>0
  <2>5. \A S \in all : IsFiniteSet(S) BY <2>1
  <2>. HIDE DEF all, which
  <2>6. IsFiniteSet(all) BY <2>3, <2>4, FS_Surjection
  <2>7. IsFiniteSet(UNION all) BY <2>5, <2>6, FS_UNION
  <2>8. needs \in SUBSET Disc!Declared(batch) BY DEF Disc!Needs
  <2>. QED BY <2>2, <2>7, <2>8, FS_Subset
<1>. QED BY <1>1, <1>2

(* Whatever a batch of modules declares, and whichever hints hold: when      *)
(* resolve_dependencies() returns an order, it names each module of the      *)
(* batch once, after every module that it needs; so an order never leaves    *)
(* out a module, nor loads one before what it needs.                         *)
THEOREM OrderNamesNeedsFirst ==
  ASSUME NEW batch, Len(batch) \in Nat, DOMAIN batch = 1..Len(batch),
         Disc!BatchIds(batch) \in SUBSET Nat,
         \A i \in DOMAIN batch : IsFiniteSet(DOMAIN batch[i].deps),
         NEW known, NEW versions
  PROVE  Disc!OrderRespectsNeeds(batch, known, versions)
<1> DEFINE ids == Disc!BatchIds(batch)
           needs == Disc!Needs(batch, known, versions)
           result == Disc!ResolveDependencies(batch, known, versions)
           path == result.path
<1>. SUFFICES ASSUME result.outcome = "order"
              PROVE  /\ Disc!ToSet(path) = ids /\ Once(path)
                     /\ \A e \in needs, i \in DOMAIN path :
                          path[i] = e.by => \E j \in 1..(i - 1) : path[j] = e.dep.id
  BY DEF Disc!OrderRespectsNeeds, Once
<1>0. \A n \in Nat : Cardinality(1..n) = n BY FS_Interval
<1>1. IsFiniteSet(ids) /\ Cardinality(ids) <= Len(batch) /\ Cardinality(ids) \in Nat
  BY BatchIsFinite
<1>2. IsFiniteSet(needs) BY BatchIsFinite
<1>. HIDE DEF ids, needs, path
<1>3. path \in Seq(ids) /\ Len(path) = Len(batch) /\ Once(path)
      /\ KahnPlaces(needs, path)
  BY <1>1, <1>2, ResolvedPath DEF ids, needs, path
<1>4. Disc!ToSet(path) = ids
  <2> DEFINE n == Len(path)
  <2>1. path \in [1..n -> ids] /\ n \in Nat /\ DOMAIN path = 1..n BY <1>3
  <2>2. path \in Injection(1..n, ids) BY <1>3, <2>1 DEF Injection, IsInjective, Once
  <2>3. Cardinality(1..n) = n BY <1>0, <2>1
  <2>4. n <= Cardinality(ids) BY <1>1, <2>2, <2>3, FS_Injection
  <2>5. n = Cardinality(ids) BY <1>1, <1>3, <2>1, <2>4
  <2>6. path \in Surjection(1..n, ids) BY <1>1, <2>2, <2>3, <2>5, FS_Injection
  <2>. QED BY <2>1, <2>6 DEF Disc!ToSet, Surjection
<1>5. ASSUME NEW e \in needs, NEW i \in DOMAIN path, path[i] = e.by
      PROVE  \E j \in 1..(i - 1) : path[j] = e.dep.id
  <2>1. e.dep.id \in NeededBy(needs, path[i]) BY <1>5 DEF NeededBy, NeedsOf
  <2>2. NeededBy(needs, path[i]) \subseteq {path[j] : j \in 1..(i - 1)}
    BY <1>3 DEF KahnPlaces
  <2>. QED BY <2>1, <2>2
<1>. QED BY <1>3, <1>4, <1>5

(* Whatever a batch of modules declares: a cycle that resolve_dependencies() *)
(* reports is one of declared dependencies, back to where it began.          *)
THEOREM CyclesAreDeclared ==
  ASSUME NEW batch, Len(batch) \in Nat, DOMAIN batch = 1..Len(batch),
         Disc!BatchIds(batch) \in SUBSET Nat,
         \A i \in DOMAIN batch : IsFiniteSet(DOMAIN batch[i].deps),
         NEW known, NEW versions
  PROVE  Disc!CycleIsDeclared(batch, known, versions)
<1> DEFINE order == Disc!Kahn(batch, Disc!Needs(batch, known, versions))
           left == Disc!BatchIds(batch) \ Disc!ToSet(order)
           next == Neighbours(batch, left)
           c == Disc!FindBackEdgeCycle(batch, left)
           result == Disc!ResolveDependencies(batch, known, versions)
<1>. SUFFICES ASSUME result.outcome = "cycle"
              PROVE  /\ Len(result.path) > 1 /\ Head(result.path) = Disc!Last(result.path)
                     /\ \A i \in 1..(Len(result.path) - 1) :
                          \E e \in Disc!Declared(batch) :
                            e.by = result.path[i] /\ e.dep.id = result.path[i + 1]
  BY DEF Disc!CycleIsDeclared
<1>1. c # <<>> /\ result.path = c BY ResolvedAs
<1>2. left \in SUBSET Nat /\ IsFiniteSet(left)
  <2>1. left \in SUBSET Disc!BatchIds(batch) OBVIOUS
  <2>. HIDE DEF left
  <2>. QED BY <2>1, BatchIsFinite, FS_Subset
<1>. HIDE DEF left, c, result
<1>3. IsCycle(next, c) /\ c \in Seq(left) BY <1>1, <1>2, BackEdgeCycleIs DEF c
<1>4. \A m \in left, i \in Nat : i \in 1..Len(next[m]) =>
        \E e \in Disc!Declared(batch) : e.by = m /\ e.dep.id = next[m][i]
  BY <1>2, NeighboursAre
<1>. HIDE DEF next
<1>5. /\ Len(c) > 1 /\ c[1] = c[Len(c)]
      /\ \A i \in 1..(Len(c) - 1) : \E j \in 1..Len(next[c[i]]) : next[c[i]][j] = c[i + 1]
  BY <1>3 DEF IsCycle
<1>6. ASSUME NEW i \in 1..(Len(c) - 1)
      PROVE  \E e \in Disc!Declared(batch) : e.by = c[i] /\ e.dep.id = c[i + 1]
  <2>1. c[i] \in left BY <1>3
  <2>2. PICK j \in 1..Len(next[c[i]]) : next[c[i]][j] = c[i + 1] BY <1>5
  <2>. QED BY <1>4, <2>1, <2>2
<1>7. Head(c) = Disc!Last(c) BY <1>3, <1>5 DEF Disc!Last
<1>. QED BY <1>1, <1>5, <1>6, <1>7

\* Needs that are as many as the modules they name each name another one.
LEMMA NoneTwice ==
  ASSUME NEW edges, IsFiniteSet(edges), NEW m,
         \A d, e \in NeedsOf(edges, m) : d.dep.id = e.dep.id => d = e
  PROVE  Cardinality(NeedsOf(edges, m)) = Cardinality(NeededBy(edges, m))
<1> DEFINE S == NeedsOf(edges, m)
           T == NeededBy(edges, m)
           f == [e \in S |-> e.dep.id]
<1>1. IsFiniteSet(S) BY FS_Subset DEF NeedsOf
<1>2. IsFiniteSet(T) BY NeededIsFinite
<1>3. f \in [S -> T] BY DEF NeededBy
<1>4. f \in Injection(S, T) BY <1>3 DEF Injection, IsInjective
<1>. HIDE DEF f, S, T
<1>5. Cardinality(S) <= Cardinality(T) BY <1>1, <1>2, <1>4, FS_Injection
<1>6. Cardinality(T) <= Cardinality(S) /\ Cardinality(S) \in Nat /\ Cardinality(T) \in Nat
  BY NeededIsFinite DEF S, T
<1>. QED BY <1>5, <1>6 DEF S, T

(* Whatever a batch of modules declares: modules are reported as blocked,    *)
(* and not as a cycle, only when one of them needs what is not in the batch, *)
(* or lists a dependency twice.                                              *)
THEOREM BlockedModulesHaveAReason ==
  ASSUME NEW batch, Len(batch) \in Nat, DOMAIN batch = 1..Len(batch),
         Disc!BatchIds(batch) \in SUBSET Nat,
         \A i, j \in DOMAIN batch : batch[i].id = batch[j].id => i = j,
         \A i \in DOMAIN batch : IsFiniteSet(DOMAIN batch[i].deps),
         NEW known, NEW versions
  PROVE  Disc!BlockedForAReason(batch, known, versions)
<1> DEFINE ids == Disc!BatchIds(batch)
           needs == Disc!Needs(batch, known, versions)
           order == Disc!Kahn(batch, needs)
           left == ids \ Disc!ToSet(order)
           result == Disc!ResolveDependencies(batch, known, versions)
<1>. SUFFICES ASSUME result.outcome = "blocked",
                     \A d, e \in needs : d.by = e.by /\ d.dep.id = e.dep.id => d = e,
                     \A e \in needs : e.dep.id \in ids
              PROVE  FALSE
  BY DEF Disc!BlockedForAReason
<1>1. Disc!FindBackEdgeCycle(batch, left) = <<>> /\ Len(order) # Len(batch) BY ResolvedAs
<1>2. IsFiniteSet(ids) /\ Cardinality(ids) = Len(batch) /\ IsFiniteSet(needs)
  BY BatchIsFinite
<1>3. PICK s : /\ order = s.order /\ KahnTypes(ids, s) /\ KahnOrders(ids, needs, s)
               /\ s.queue = <<>>
  BY <1>1, <1>2, KahnIs
<1>. HIDE DEF order, result, needs, ids
<1>4. s.order \in Seq(ids) /\ Once(s.order)
  BY <1>3 DEF KahnTypes, KahnOrders, KahnLists
<1>5. left # {}
  <2>. SUFFICES ASSUME left = {} PROVE FALSE OBVIOUS
  <2> DEFINE n == Len(order)
  <2>1. order \in [1..n -> ids] /\ n \in Nat /\ DOMAIN order = 1..n BY <1>3, <1>4
  <2>2. order \in Injection(1..n, ids) BY <1>3, <1>4, <2>1 DEF Injection, IsInjective, Once
  <2>3. order \in Surjection(1..n, ids)
    <3>1. ids \subseteq Disc!ToSet(order) OBVIOUS
    <3>. QED BY <2>1, <3>1 DEF Disc!ToSet, Surjection
  <2>4. \A k \in Nat : IsFiniteSet(1..k) /\ Cardinality(1..k) = k BY FS_Interval
  <2>5. IsFiniteSet(1..n) /\ Cardinality(1..n) = n BY <2>1, <2>4
  <2>. HIDE DEF n
  <2>6. n <= Cardinality(ids) BY <1>2, <2>2, <2>5, FS_Injection
  <2>7. Cardinality(ids) <= n BY <2>3, <2>5, FS_Surjection
  <2>8. Cardinality(ids) \in Nat BY <1>2, FS_CardinalityType
  <2>9. n # Cardinality(ids) BY <1>1, <1>2 DEF n
  <2>10. \A x, y \in Nat : x <= y /\ y <= x => x = y OBVIOUS
  <2>11. n \in Nat BY <2>1
  <2>. QED BY <2>6, <2>7, <2>8, <2>9, <2>10, <2>11
<1>6. left \in SUBSET Nat /\ IsFiniteSet(left)
  <2>1. left \in SUBSET ids OBVIOUS
  <2>2. ids \in SUBSET Nat BY DEF ids
  <2>. HIDE DEF left
  <2>. QED BY <1>2, <2>1, <2>2, FS_Subset
<1>7. PICK x \in left : Neighbours(batch, left)[x] = <<>>
  BY <1>1, <1>5, <1>6, BackEdgeCycleIs
<1>8. \A e \in needs : e.by = x => e.dep.id \notin left
  <2>1. needs \subseteq Disc!Declared(batch) BY DEF needs, Disc!Needs
  <2>. QED BY <1>6, <1>7, <2>1, NeighboursAre
<1>9. x \in ids /\ x \notin Disc!ToSet(order) OBVIOUS
<1>10. NeededBy(needs, x) \subseteq Disc!ToSet(s.order)
  BY <1>3, <1>8 DEF NeededBy, NeedsOf
<1>11. Cardinality(NeedsOf(needs, x)) = Cardinality(NeededBy(needs, x))
  <2>1. \A d, e \in NeedsOf(needs, x) : d.dep.id = e.dep.id => d = e BY DEF NeedsOf
  <2>. QED BY <1>2, <2>1, NoneTwice
<1>12. s.degree[x] = 0
  <2>1. s.degree[x] = Cardinality(NeedsOf(needs, x))
                      - Cardinality(NeededBy(needs, x) \cap Disc!ToSet(s.order))
    BY <1>3, <1>9 DEF KahnOrders, KahnCounts
  <2>2. NeededBy(needs, x) \cap Disc!ToSet(s.order) = NeededBy(needs, x) BY <1>10
  <2>3. PICK k \in Nat : k = Cardinality(NeededBy(needs, x)) BY <1>2, NeededIsFinite
  <2>4. s.degree[x] = k - k BY <1>11, <2>1, <2>2, <2>3
  <2>. QED BY <2>4
<1>13. x \in Disc!ToSet(s.order) \cup Disc!ToSet(s.queue)
  BY <1>3, <1>9, <1>12 DEF KahnOrders, KahnLists
<1>14. Disc!ToSet(s.queue) = {} BY <1>3 DEF Disc!ToSet
<1>. QED BY <1>3, <1>9, <1>13, <1>14

-----------------------------------------------------------------------------
(* What a caller of discover() or reload_module() has in hand.               *)
ScanIds == {files[i].id : i \in DOMAIN files}
Reloads == {"reload", "bulk"}
Loading == {"load", "publish"}
Hands == [op : {"idle", "plan", "filter", "reserve", "load", "publish", "check", "take",
                "unregister", "find", "again", "restore", "done"},
          call : {"none", "discover", "custom"} \cup Reloads,
          as : {"none", "discovered", "again", "restored", "registered"},
          id : ModuleIds \cup {None}, old : Published \cup {None}, inst : Published \cup {None},
          order : Seq(ScanIds), todo : Seq(ModuleIds), keep : SUBSET ModuleIds]
HandShape(h) ==
  /\ h.call \in Reloads => h.id \in ModuleIds
  /\ h.old # None => h.old.id = h.id
  /\ h.op \in {"check", "take", "unregister", "find", "again", "restore", "done"} =>
       h.call \in Reloads
  /\ h.op \in {"plan", "filter"} => h.call \in {"discover"} \cup Reloads
  /\ h.op = "reserve" \/ (h.op \in Loading /\ h.as = "discovered") => h.call # "none"
  /\ h.op \in Loading => h.inst \in Published /\ h.as # "none"
  /\ h.op \in Loading /\ h.as = "discovered" => h.order # <<>>
  /\ h.op \in Loading /\ h.as \in {"again", "restored"} => h.call \in Reloads /\ h.inst.id = h.id
  /\ h.op \in Loading /\ h.as = "registered" => h.call = "none"
  /\ h.op = "again" => h.inst \in Published /\ h.inst.id = h.id
IsHand(h) == h \in Hands /\ HandShape(h)

DiscTypes == /\ files \in Disks /\ published \in [ModuleIds -> Published \cup {None}]
             /\ \A id \in ModuleIds : published[id] # None => published[id].id = id
             /\ DOMAIN call = Callers /\ call = [t \in Callers |-> call[t]]
             /\ \A t \in Callers : IsHand(call[t])

(* Who loads a module has its id for himself, and nothing is there yet.      *)
Reserves(t) ==
  call[t].op \in Loading =>
    /\ call[t].inst.id \in reserved /\ published[call[t].inst.id] = None
    /\ \A u \in Callers : call[u].op \in Loading /\ call[u].inst.id = call[t].inst.id => u = t

(* A module that is not there was removed by a client, was lost, overtaken   *)
(* or refused, or is in the hands of the reload that is to put a new or the  *)
(* previous instance in its place.                                           *)
Restores(h, id) ==
  /\ h.id = id /\ h.call \in Reloads /\ h.old # None
  /\ h.op \in {"plan", "filter", "reserve", "load", "publish", "find", "again", "restore"}
Excused == removed \cup lost \cup overtaken \cup refused
Settled(id) == published[id] # None \/ id \in Excused
NotLost(id) == Settled(id) \/ \E t \in Callers : Restores(call[t], id)

DiscInv == DiscTypes /\ (\A t \in Callers : Reserves(t)) /\ (\A id \in ModuleIds : NotLost(id))

-----------------------------------------------------------------------------
(* What a discovery plans is among what its scan found.                     *)
LEMMA ScanIs ==
  ASSUME DiscTypes
  PROVE  /\ files \in Seq({files[i] : i \in DOMAIN files})
         /\ DOMAIN files = 1..Len(files) /\ Len(files) \in Nat
         /\ ScanIds \in SUBSET ModuleIds /\ ScanIds \in SUBSET Nat /\ IsFiniteSet(ScanIds)
<1>1. files \in Disks BY DEF DiscTypes
<1>2. files \in Seq({files[i] : i \in DOMAIN files}) BY <1>1, DiscoveryAssumption
<1> DEFINE T == {files[i] : i \in DOMAIN files}
<1>3. DOMAIN files = 1..Len(files) /\ Len(files) \in Nat
  <2>1. files \in Seq(T) BY <1>2
  <2>. HIDE DEF T
  <2>. QED BY <2>1
<1>4. ScanIds \in SUBSET ModuleIds BY <1>1, DiscoveryAssumption DEF ScanIds
<1>. QED BY <1>2, <1>3, <1>4, DiscoveryAssumption, FS_Subset

LEMMA LastOfIs ==
  ASSUME DiscTypes, NEW id \in ScanIds
  PROVE  LET file == Disc!LastOf(files, id)
         IN /\ file.id = id /\ file.meta.version \in FileVersions
            /\ file.streamless \in BOOLEAN
<1> DEFINE places == {i \in DOMAIN files : files[i].id = id}
           Latest1(i) == files[i].id = id /\ \A j \in DOMAIN files : files[j].id = id => j <= i
           last == CHOOSE i \in DOMAIN files : Latest1(i)
<1>1. places # {} BY DEF ScanIds
<1>2. places \in SUBSET Nat /\ IsFiniteSet(places)
  <2>1. places \in SUBSET (DOMAIN files) OBVIOUS
  <2>2. IsFiniteSet(DOMAIN files) BY ScanIs, FS_Interval
  <2>. HIDE DEF places
  <2>. QED BY <2>1, <2>2, ScanIs, FS_Subset
<1>3. PICK i \in places : \A j \in places : j <= i
  <2>. HIDE DEF places
  <2>. QED BY <1>1, <1>2, GreatestExists
<1>4. last \in DOMAIN files /\ files[last].id = id BY <1>3
<1>5. Disc!LastOf(files, id) = files[last] BY DEF Disc!LastOf
<1>. HIDE DEF last
<1>. QED BY <1>4, <1>5, DiscoveryAssumption DEF DiscTypes

LEMMA ElementsOf ==
  ASSUME NEW T, NEW list \in Seq(T)
  PROVE  Disc!ToSet(list) \subseteq T
<1>1. \A i \in DOMAIN list : list[i] \in T OBVIOUS
<1>. QED BY <1>1 DEF Disc!ToSet

LEMMA BatchOf ==
  ASSUME NEW S \in SUBSET Nat, IsFiniteSet(S), NEW batch, NEW e,
         batch = [i \in DOMAIN Disc!Sorted(S) |-> e[i]], \A i \in DOMAIN batch : e[i].id = Disc!Sorted(S)[i]
  PROVE  /\ Len(batch) = Cardinality(S) /\ Len(batch) \in Nat
         /\ Disc!BatchIds(batch) \in SUBSET S /\ IsFiniteSet(Disc!BatchIds(batch))
<1> DEFINE n == Cardinality(S)
<1>1. n \in Nat /\ Disc!Sorted(S) \in [1..n -> S] BY SortedIs
<1>. HIDE DEF n
<1>2. batch = [i \in 1..n |-> e[i]] BY <1>1
<1>3. batch \in Seq({e[i] : i \in 1..n}) /\ Len(batch) = n
  <2> DEFINE T == {e[i] : i \in 1..n}
  <2>1. batch \in [1..n -> T] BY <1>2
  <2>. HIDE DEF T
  <2>2. \A s \in [1..n -> T] : s \in Seq(T) /\ Len(s) = n BY <1>1, SMTT(30)
  <2>. QED BY <2>1, <2>2 DEF T
<1>4. Disc!BatchIds(batch) \in SUBSET S BY <1>1, <1>2 DEF Disc!BatchIds
<1>5. IsFiniteSet(Disc!BatchIds(batch)) BY <1>4, FS_Subset
<1>. QED BY <1>1, <1>3, <1>4, <1>5 DEF n

LEMMA PlannedIds ==
  ASSUME NEW T, NEW list \in Seq(T), NEW D \in SUBSET Nat, IsFiniteSet(D), \A f \in T : f.id \in D,
         ~Disc!Aborts(list)
  PROVE  Disc!LoadOrderOf(list).path \in Seq(D)
<1> DEFINE S == Disc!ValidClasses(list)
           P == {i \in DOMAIN list : Disc!Importable(list[i])}
           importable == Disc!AtPlaces(list, P)
<1>1. S \in SUBSET D
  <2>1. P \in SUBSET (DOMAIN list) OBVIOUS
  <2>. HIDE DEF P
  <2>2. importable \in Seq(T) BY <2>1, AtPlacesType
  <2>. HIDE DEF importable
  <2>3. \A f \in Disc!ToSet(importable) : f.id \in D BY <2>2, ElementsOf
  <2>. QED BY <2>3 DEF Disc!ValidClasses, importable, P
<1>. HIDE DEF S
<1>2. S \in SUBSET Nat /\ IsFiniteSet(S) BY <1>1, FS_Subset
<1> DEFINE batch == Disc!Batch(list)
           ids == Disc!Sorted(S)
           e == [i \in DOMAIN ids |->
                   [id |-> ids[i], deps |-> Disc!ParseDependencies(Disc!Metadata(list, ids[i]).deps)]]
<1>3. batch = [i \in DOMAIN ids |-> e[i]] BY DEF Disc!Batch, S
<1>4. \A i \in DOMAIN batch : e[i].id = ids[i] BY <1>3
<1>. HIDE DEF e, batch
<1>5. /\ Len(batch) \in Nat /\ Disc!BatchIds(batch) \in SUBSET S
      /\ IsFiniteSet(Disc!BatchIds(batch))
  BY <1>2, <1>3, <1>4, BatchOf
<1>6. Disc!LoadOrderOf(list).outcome = "order" BY DEF Disc!Aborts
<1>7. Disc!LoadOrderOf(list).path \in Seq(Disc!BatchIds(batch))
  <2>1. Disc!BatchIds(batch) \in SUBSET Nat BY <1>2, <1>5
  <2>. QED BY <1>5, <1>6, <2>1, ResolvedPath DEF Disc!LoadOrderOf, batch
<1>8. Disc!BatchIds(batch) \in SUBSET D BY <1>1, <1>5
<1> DEFINE B == Disc!BatchIds(batch)
<1>. HIDE DEF B
<1>9. \A s \in Seq(B) : s \in Seq(D) BY <1>8 DEF B
<1>. QED BY <1>7, <1>9 DEF B

LEMMA BulkOrderIs ==
  ASSUME NEW ids \in SUBSET ModuleIds, ids # {}
  PROVE  /\ Head(Disc!BulkOrder(ids)) \in ModuleIds
         /\ Tail(Disc!BulkOrder(ids)) \in Seq(ModuleIds)
<1>1. ids \in SUBSET Nat /\ IsFiniteSet(ids) BY DiscoveryAssumption, FS_Subset
<1>2. Cardinality(ids) \in Nat /\ Cardinality(ids) # 0
  BY <1>1, FS_CardinalityType, FS_EmptySet
<1>3. Disc!Sorted(ids) \in Seq(ids) /\ Len(Disc!Sorted(ids)) = Cardinality(ids) BY <1>1, SortedIs
<1> DEFINE deps(id) == IF \E i \in DOMAIN files : files[i].id = id
                       THEN Disc!ParseDependencies(Disc!Metadata(files, id).deps) ELSE <<>>
           s == Disc!Sorted(ids)
           e == [i \in DOMAIN s |-> [id |-> s[i], deps |-> SelectSeq(deps(s[i]), LAMBDA d : d.id \in ids)]]
           batch == [i \in DOMAIN s |->
                       [id |-> s[i], deps |-> SelectSeq(deps(s[i]), LAMBDA d : d.id \in ids)]]
           result == Disc!ResolveDependencies(batch, ids, <<>>)
<1>4. Disc!BulkOrder(ids) = IF result.outcome = "order" THEN result.path ELSE s
  BY DEF Disc!BulkOrder
<1>5. batch = [i \in DOMAIN s |-> e[i]] /\ \A i \in DOMAIN batch : e[i].id = s[i] OBVIOUS
<1>. HIDE DEF batch, e, deps
<1>6. /\ Len(batch) = Cardinality(ids) /\ Disc!BatchIds(batch) \in SUBSET ids
      /\ IsFiniteSet(Disc!BatchIds(batch))
  <2>1. ASSUME NEW b, NEW f, b = [i \in DOMAIN Disc!Sorted(ids) |-> f[i]],
               \A i \in DOMAIN b : f[i].id = Disc!Sorted(ids)[i]
        PROVE  /\ Len(b) = Cardinality(ids) /\ Disc!BatchIds(b) \in SUBSET ids
               /\ IsFiniteSet(Disc!BatchIds(b))
    BY <1>1, <2>1, BatchOf
  <2>. HIDE DEF result
  <2>. QED BY <1>5, <2>1
<1>7. result.outcome = "order" =>
        result.path \in Seq(Disc!BatchIds(batch)) /\ Len(result.path) = Cardinality(ids)
  <2>1. Disc!BatchIds(batch) \in SUBSET Nat /\ Len(batch) \in Nat BY <1>1, <1>2, <1>6
  <2>. QED BY <1>6, <2>1, ResolvedPath
<1>. HIDE DEF result, s
<1> DEFINE B == Disc!BatchIds(batch)
<1>8. B \in SUBSET ModuleIds /\ ids \in SUBSET ModuleIds BY <1>6
<1>. HIDE DEF B
<1>9. \A q : q \in Seq(B) \/ q \in Seq(ids) => q \in Seq(ModuleIds) BY <1>8
<1> DEFINE order == Disc!BulkOrder(ids)
<1>10. order \in Seq(ModuleIds) /\ Len(order) = Cardinality(ids)
  BY <1>3, <1>4, <1>7, <1>9 DEF B, s
<1>. HIDE DEF order
<1>11. order # <<>> BY <1>2, <1>10
<1>. QED BY <1>10, <1>11 DEF order

-----------------------------------------------------------------------------
(* Steps of discover() and reload_module().                                 *)
LEMMA IdleIsHand == IsHand(Disc!Idle)
<1>1. <<>> \in Seq(ScanIds) /\ <<>> \in Seq(ModuleIds) OBVIOUS
<1>. QED BY <1>1 DEF IsHand, Hands, HandShape, Disc!Idle, Reloads, Loading

(* A caller moves on without touching the registry: it loads nothing, or     *)
(* what it loaded before, and a module that it is to restore stays so.       *)
LEMMA MovesOn ==
  ASSUME DiscInv, NEW t \in Callers, NEW h, IsHand(h), call' = [call EXCEPT ![t] = h],
         UNCHANGED <<files, published, reserved>>,
         h.op \in Loading => call[t].op \in Loading /\ h.inst = call[t].inst,
         Excused \subseteq Excused',
         \A id \in ModuleIds : Restores(call[t], id) => Restores(h, id) \/ Settled(id)'
  PROVE  DiscInv'
<1>1. DOMAIN call = Callers BY DEF DiscInv, DiscTypes
<1>2. call'[t] = h /\ \A u \in Callers : u # t => call'[u] = call[u] BY <1>1
<1>3. DiscTypes'
  <2>1. Hands' = Hands BY DEF Hands, ScanIds
  <2>2. \A u \in Callers : call'[u] \in Hands /\ HandShape(call'[u])
    BY <1>2 DEF DiscInv, DiscTypes, IsHand
  <2>3. \A u \in Callers : IsHand(call[u])' BY <2>1, <2>2 DEF IsHand, HandShape
  <2>4. DOMAIN call' = Callers /\ call' = [u \in Callers |-> call'[u]]
    BY <1>1 DEF DiscInv, DiscTypes
  <2>. QED BY <2>3, <2>4 DEF DiscInv, DiscTypes
<1>4. ASSUME NEW u \in Callers PROVE Reserves(u)'
  <2>1. \A v \in Callers : call'[v].op \in Loading =>
          call[v].op \in Loading /\ call'[v].inst = call[v].inst
    BY <1>2
  <2>. QED BY <2>1 DEF DiscInv, Reserves
<1>5. ASSUME NEW id \in ModuleIds PROVE NotLost(id)'
  <2>1. CASE Settled(id) BY <2>1 DEF Settled, NotLost
  <2>2. ASSUME NEW u \in Callers, Restores(call[u], id) PROVE NotLost(id)'
    <3>1. CASE u = t BY <1>2, <2>2, <3>1 DEF NotLost
    <3>2. CASE u # t BY <1>2, <2>2, <3>2 DEF NotLost
    <3>. QED BY <3>1, <3>2
  <2>. QED BY <2>1, <2>2 DEF DiscInv, NotLost
<1>. QED BY <1>3, <1>4, <1>5 DEF DiscInv

(* A caller reserves a free id and starts to load a module for it.           *)
LEMMA StartsToLoad ==
  ASSUME DiscInv, NEW t \in Callers, NEW inst \in Published, NEW as, ~Disc!Taken(inst.id),
         call[t].op \notin Loading, Disc!Loads(t, inst.id, inst, as),
         IsHand([call[t] EXCEPT !.op = "load", !.as = as, !.inst = inst]),
         files' = files, Excused \subseteq Excused'
  PROVE  DiscInv'
<1> DEFINE h == [call[t] EXCEPT !.op = "load", !.as = as, !.inst = inst]
<1>1. DOMAIN call = Callers /\ inst.id \in ModuleIds BY DEF DiscInv, DiscTypes, Published
<1>2. call[t] \in Hands BY DEF DiscInv, DiscTypes, IsHand
<1>3. /\ h.op = "load" /\ h.inst = inst /\ h.id = call[t].id /\ h.call = call[t].call
      /\ h.old = call[t].old
  BY <1>2 DEF Hands
<1>4. /\ call' = [call EXCEPT ![t] = h] /\ published' = published
      /\ reserved' = reserved \cup {inst.id}
      /\ inst.id \notin reserved /\ published[inst.id] = None
  BY DEF Disc!Loads, Disc!Become, Disc!Taken
<1>. HIDE DEF h
<1>5. call'[t] = h /\ \A u \in Callers : u # t => call'[u] = call[u] BY <1>1, <1>4
<1>6. DiscTypes'
  <2>1. Hands' = Hands BY DEF Hands, ScanIds
  <2>2. \A u \in Callers : call'[u] \in Hands /\ HandShape(call'[u])
    BY <1>5 DEF DiscInv, DiscTypes, IsHand, h
  <2>3. \A u \in Callers : IsHand(call[u])' BY <2>1, <2>2 DEF IsHand, HandShape
  <2>4. DOMAIN call' = Callers /\ call' = [u \in Callers |-> call'[u]]
    BY <1>1, <1>4 DEF DiscInv, DiscTypes
  <2>. QED BY <1>4, <2>3, <2>4 DEF DiscInv, DiscTypes
<1>7. ASSUME NEW u \in Callers PROVE Reserves(u)'
  <2>1. CASE u = t
    <3>1. \A v \in Callers : v # t /\ call[v].op \in Loading => call[v].inst.id # inst.id
      BY <1>4 DEF DiscInv, Reserves
    <3>. QED BY <1>3, <1>4, <1>5, <2>1, <3>1 DEF Reserves
  <2>2. CASE u # t
    <3>1. Reserves(u) BY DEF DiscInv
    <3>2. call[u].op \in Loading => call[u].inst.id # inst.id BY <1>4, <3>1 DEF Reserves
    <3>. QED BY <1>3, <1>4, <1>5, <2>2, <3>1, <3>2 DEF Reserves
  <2>. QED BY <2>1, <2>2
<1>8. ASSUME NEW id \in ModuleIds PROVE NotLost(id)'
  <2>1. CASE Settled(id) BY <1>4, <2>1 DEF Settled, NotLost
  <2>2. ASSUME NEW u \in Callers, Restores(call[u], id) PROVE NotLost(id)'
    <3>1. CASE u = t BY <1>3, <1>5, <2>2, <3>1 DEF NotLost, Restores
    <3>2. CASE u # t BY <1>5, <2>2, <3>2 DEF NotLost
    <3>. QED BY <3>1, <3>2
  <2>. QED BY <2>1, <2>2 DEF DiscInv, NotLost
<1>. QED BY <1>6, <1>7, <1>8 DEF DiscInv

LEMMA PlanInv ==
  ASSUME DiscInv, NEW t \in Callers, Disc!Plan(t)
  PROVE  DiscInv'
<1> DEFINE P == {i \in DOMAIN files : files[i].id \in call[t].keep}
           list == Disc!AtPlaces(files, P)
           h == call[t]
<1>1. IsHand(h) /\ h.op = "plan" /\ h.call \in {"discover"} \cup Reloads
  BY DEF DiscInv, DiscTypes, Disc!Plan, Disc!Op, IsHand, HandShape
<1>2. UNCHANGED <<files, published, reserved, calls, removed, lost, overtaken, refused>>
  BY DEF Disc!Plan, Disc!tables, Disc!history
<1>3. CASE Disc!Aborts(list)
  <2>1. Disc!Fails(t) BY <1>3 DEF Disc!Plan
  <2>2. CASE h.call = "discover"
    <3>1. call' = [call EXCEPT ![t] = Disc!Idle] BY <2>1, <2>2 DEF Disc!Fails, Disc!Become
    <3>2. Disc!Idle.op \notin Loading BY DEF Disc!Idle, Loading
    <3>3. \A id \in ModuleIds : ~Restores(h, id) BY <2>2 DEF Restores, Reloads
    <3>. QED BY <1>2, <3>1, <3>2, <3>3, IdleIsHand, MovesOn DEF Excused
  <2>3. CASE h.call # "discover"
    <3> DEFINE g == [h EXCEPT !.op = "restore"]
    <3>1. call' = [call EXCEPT ![t] = g]
      BY <2>1, <2>3 DEF Disc!Fails, Disc!GoesTo, Disc!Become
    <3>2. IsHand(g) BY <1>1, <2>3 DEF IsHand, Hands, HandShape, Loading
    <3>3. g.op = "restore" /\ \A id \in ModuleIds : Restores(h, id) => Restores(g, id)
      BY <1>1 DEF Restores, IsHand, Hands
    <3>. HIDE DEF g
    <3>4. g.op \notin Loading BY <3>3 DEF Loading
    <3>. QED BY <1>2, <3>1, <3>2, <3>3, <3>4, MovesOn DEF Excused
  <2>. QED BY <2>2, <2>3
<1>4. CASE ~Disc!Aborts(list)
  <2> DEFINE path == Disc!LoadOrderOf(list).path
             g == [h EXCEPT !.op = "filter", !.order = path]
  <2>1. call' = [call EXCEPT ![t] = g] BY <1>4 DEF Disc!Plan, Disc!Become
  <2>2. path \in Seq(ScanIds)
    <3> DEFINE T == {files[i] : i \in DOMAIN files}
    <3>1. P \in SUBSET (DOMAIN files) OBVIOUS
    <3>2. files \in Seq(T) /\ ScanIds \in SUBSET Nat /\ IsFiniteSet(ScanIds) BY ScanIs DEF DiscInv
    <3>3. \A f \in T : f.id \in ScanIds BY DEF ScanIds
    <3>. HIDE DEF T, P
    <3>4. list \in Seq(T) BY <3>1, <3>2, AtPlacesType
    <3>. HIDE DEF list
    <3>. QED BY <1>4, <3>2, <3>3, <3>4, PlannedIds
  <2>. HIDE DEF path
  <2>3. IsHand(g)
    <3>1. h \in Hands /\ HandShape(h) BY <1>1 DEF IsHand
    <3>2. g \in Hands BY <2>2, <3>1 DEF Hands
    <3>3. /\ g.op = "filter" /\ g.call = h.call /\ g.id = h.id /\ g.old = h.old
      BY <3>1 DEF Hands
    <3>. HIDE DEF g
    <3>4. HandShape(g) BY <1>1, <3>1, <3>3 DEF HandShape, Loading
    <3>. QED BY <3>2, <3>4 DEF IsHand
  <2>4. g.op = "filter" /\ \A id \in ModuleIds : Restores(h, id) => Restores(g, id)
    BY <1>1 DEF Restores, IsHand, Hands
  <2>. HIDE DEF g
  <2>5. g.op \notin Loading BY <2>4 DEF Loading
  <2>. QED BY <1>2, <2>1, <2>3, <2>4, <2>5, MovesOn DEF Excused
<1>. QED BY <1>3, <1>4

LEMMA FilterInv ==
  ASSUME DiscInv, NEW t \in Callers, Disc!FilterConflicts(t)
  PROVE  DiscInv'
<1> DEFINE h == call[t]
           P == {i \in DOMAIN h.order : ~Disc!Conflicting(h.order[i])}
           left == Disc!AtPlaces(h.order, P)
           g == [h EXCEPT !.op = "reserve", !.order = left]
<1>1. IsHand(h) /\ h.op = "filter" /\ h.call \in {"discover"} \cup Reloads
  BY DEF DiscInv, DiscTypes, Disc!FilterConflicts, Disc!Op, IsHand, HandShape
<1>2. UNCHANGED <<files, published, reserved, calls, removed, lost, overtaken, refused>>
  BY DEF Disc!FilterConflicts, Disc!tables, Disc!history
<1>3. call' = [call EXCEPT ![t] = g]
  BY <1>1 DEF Disc!FilterConflicts, Disc!Become, IsHand, Hands
<1>4. left \in Seq(ScanIds)
  <2>1. P \in SUBSET (DOMAIN h.order) /\ h.order \in Seq(ScanIds) BY <1>1 DEF IsHand, Hands
  <2>. HIDE DEF P, h
  <2>. QED BY <2>1, AtPlacesType
<1>. HIDE DEF left
<1>5. IsHand(g)
  <2>1. h \in Hands /\ HandShape(h) BY <1>1 DEF IsHand
  <2>2. g \in Hands BY <1>4, <2>1 DEF Hands
  <2>3. g.op = "reserve" /\ g.call = h.call /\ g.id = h.id /\ g.old = h.old BY <2>1 DEF Hands
  <2>. HIDE DEF g
  <2>4. HandShape(g) BY <1>1, <2>1, <2>3 DEF HandShape, Loading, Reloads
  <2>. QED BY <2>2, <2>4 DEF IsHand
<1>6. g.op = "reserve" /\ \A id \in ModuleIds : Restores(h, id) => Restores(g, id)
  BY <1>1 DEF Restores, IsHand, Hands
<1>. HIDE DEF g
<1>7. g.op \notin Loading BY <1>6 DEF Loading
<1>. QED BY <1>2, <1>3, <1>5, <1>6, <1>7, MovesOn DEF Excused

LEMMA ReserveInv ==
  ASSUME DiscInv, NEW t \in Callers, Disc!Reserve(t)
  PROVE  DiscInv'
<1> DEFINE h == call[t]
           id == Head(h.order)
<1>1. IsHand(h) /\ h.op = "reserve" /\ h.call # "none" /\ h.op \notin Loading
  BY DEF DiscInv, DiscTypes, Disc!Reserve, Disc!Op, IsHand, HandShape, Loading
<1>2. UNCHANGED <<files, calls, removed, lost, overtaken, refused>> BY DEF Disc!Reserve, Disc!history
<1>3. CASE h.order = <<>> /\ h.call \in {"discover", "custom"}
  <2>1. call' = [call EXCEPT ![t] = Disc!Idle] /\ UNCHANGED <<published, reserved>>
    BY <1>3 DEF Disc!Reserve, Disc!Become, Disc!tables
  <2>2. Disc!Idle.op \notin Loading BY DEF Disc!Idle, Loading
  <2>3. \A i \in ModuleIds : ~Restores(h, i) BY <1>3 DEF Restores, Reloads
  <2>. QED BY <1>2, <2>1, <2>2, <2>3, IdleIsHand, MovesOn DEF Excused
<1>4. CASE h.order = <<>> /\ h.call \notin {"discover", "custom"}
  <2> DEFINE g == [h EXCEPT !.op = "find"]
  <2>1. call' = [call EXCEPT ![t] = g] /\ UNCHANGED <<published, reserved>>
    BY <1>4 DEF Disc!Reserve, Disc!Become, Disc!GoesTo, Disc!tables
  <2>2. IsHand(g) BY <1>1, <1>4 DEF IsHand, Hands, HandShape, Loading
  <2>3. g.op = "find" /\ \A i \in ModuleIds : Restores(h, i) => Restores(g, i)
    BY <1>1 DEF Restores, IsHand, Hands
  <2>. HIDE DEF g
  <2>4. g.op \notin Loading BY <2>3 DEF Loading
  <2>. QED BY <1>2, <2>1, <2>2, <2>3, <2>4, MovesOn DEF Excused
<1>5. CASE h.order # <<>> /\ Disc!Constructs(t, Disc!LastOf(files, id)) /\ ~Disc!Taken(id)
  <2> DEFINE file == Disc!LastOf(files, id)
             inst == Disc!Instance(t, file)
  <2>1. Disc!Loads(t, id, inst, "discovered") BY <1>5 DEF Disc!Reserve
  <2>2. id \in ScanIds BY <1>1, <1>5 DEF IsHand, Hands
  <2>3. file.id = id /\ file.meta.version \in FileVersions /\ file.streamless \in BOOLEAN
    BY <2>2, LastOfIs DEF DiscInv
  <2>. HIDE DEF file
  <2>4. inst \in Published /\ inst.id = id
    BY <2>2, <2>3, ScanIs DEF Published, DiscInv, Disc!Instance
  <2>. HIDE DEF inst
  <2>5. IsHand([h EXCEPT !.op = "load", !.as = "discovered", !.inst = inst])
    BY <1>1, <1>5, <2>4 DEF IsHand, Hands, HandShape, Loading
  <2>. QED BY <1>1, <1>2, <1>5, <2>1, <2>4, <2>5, StartsToLoad DEF Excused
<1>6. CASE h.order # <<>> /\ ~(Disc!Constructs(t, Disc!LastOf(files, id)) /\ ~Disc!Taken(id))
  <2> DEFINE g == [h EXCEPT !.order = Tail(@)]
  <2>1. call' = [call EXCEPT ![t] = g] /\ UNCHANGED <<published, reserved>>
    BY <1>6 DEF Disc!Reserve, Disc!Become, Disc!tables
  <2>2. Tail(h.order) \in Seq(ScanIds) BY <1>1, <1>6 DEF IsHand, Hands
  <2>3. IsHand(g) BY <1>1, <2>2 DEF IsHand, Hands, HandShape, Loading
  <2>4. g.op = "reserve" /\ \A i \in ModuleIds : Restores(h, i) => Restores(g, i)
    BY <1>1 DEF Restores, IsHand, Hands
  <2>. HIDE DEF g
  <2>5. g.op \notin Loading BY <2>4 DEF Loading
  <2>. QED BY <1>2, <2>1, <2>3, <2>4, <2>5, MovesOn DEF Excused
<1>. QED BY <1>3, <1>4, <1>5, <1>6

(* A public call begins.                                                    *)
LEMMA CallBegins ==
  ASSUME DiscInv, NEW t \in Callers, NEW h, IsHand(h), h.op \notin Loading, Disc!Starts(t, h)
  PROVE  DiscInv'
<1>1. /\ call[t] = Disc!Idle /\ call' = [call EXCEPT ![t] = h]
      /\ UNCHANGED <<files, published, reserved, removed, lost, overtaken, refused>>
  BY DEF Disc!Starts, Disc!Become, Disc!tables, Disc!history
<1>2. \A id \in ModuleIds : ~Restores(call[t], id) BY <1>1 DEF Restores, Disc!Idle, Reloads
<1>. QED BY <1>1, <1>2, MovesOn DEF Excused

LEMMA DiscoverInv ==
  ASSUME DiscInv, NEW t \in Callers, NEW keep \in SUBSET ModuleIds, Disc!Discover(t, keep)
  PROVE  DiscInv'
<1> DEFINE h == [Disc!Idle EXCEPT !.op = "plan", !.call = "discover", !.keep = keep]
<1>1. IsHand(h) /\ h.op \notin Loading
  BY IdleIsHand DEF IsHand, Hands, HandShape, Disc!Idle, Reloads, Loading
<1>2. Disc!Starts(t, h) BY DEF Disc!Discover
<1>. HIDE DEF h
<1>. QED BY <1>1, <1>2, CallBegins

LEMMA DiscoverCustomInv ==
  ASSUME DiscInv, NEW t \in Callers,
         Disc!DiscoverCustom(t, Disc!Sorted({files[i].id : i \in DOMAIN files}))
  PROVE  DiscInv'
<1> DEFINE order == Disc!Sorted(ScanIds)
           h == [Disc!Idle EXCEPT !.op = "reserve", !.call = "custom", !.order = order]
<1>1. order \in Seq(ScanIds)
  <2>1. ScanIds \in SUBSET Nat /\ IsFiniteSet(ScanIds) BY ScanIs DEF DiscInv
  <2>2. \A S : S \in SUBSET Nat /\ IsFiniteSet(S) => Disc!Sorted(S) \in Seq(S) BY SortedIs
  <2>. QED BY <2>1, <2>2
<1>2. Disc!Starts(t, h) BY DEF Disc!DiscoverCustom, ScanIds
<1>. HIDE DEF order
<1>3. IsHand(h) /\ h.op \notin Loading
  BY <1>1, IdleIsHand DEF IsHand, Hands, HandShape, Disc!Idle, Reloads, Loading
<1>. HIDE DEF h
<1>. QED BY <1>2, <1>3, CallBegins

LEMMA ReloadInv ==
  ASSUME DiscInv, NEW t \in Callers, NEW id \in ModuleIds, Disc!Reload(t, id)
  PROVE  DiscInv'
<1> DEFINE h == [Disc!Idle EXCEPT !.op = "check", !.call = "reload", !.id = id, !.keep = ModuleIds]
<1>1. IsHand(h) /\ h.op \notin Loading
  BY IdleIsHand DEF IsHand, Hands, HandShape, Disc!Idle, Reloads, Loading
<1>2. Disc!Starts(t, h) BY DEF Disc!Reload
<1>. HIDE DEF h
<1>. QED BY <1>1, <1>2, CallBegins

LEMMA BulkHand ==
  ASSUME NEW id \in ModuleIds, NEW todo \in Seq(ModuleIds)
  PROVE  LET h == [Disc!Idle EXCEPT !.op = "take", !.call = "bulk", !.id = id,
                                    !.todo = todo, !.keep = ModuleIds]
         IN IsHand(h) /\ h.op \notin Loading
BY IdleIsHand DEF IsHand, Hands, HandShape, Disc!Idle, Reloads, Loading

LEMMA ReloadBulkInv ==
  ASSUME DiscInv, NEW t \in Callers, NEW ids \in SUBSET ModuleIds, Disc!ReloadBulk(t, ids)
  PROVE  DiscInv'
<1> DEFINE id == Head(Disc!BulkOrder(ids))
           todo == Tail(Disc!BulkOrder(ids))
           h == [Disc!Idle EXCEPT !.op = "take", !.call = "bulk", !.id = id,
                                  !.todo = todo, !.keep = ModuleIds]
<1>1. ids # {} /\ Disc!Starts(t, h) BY DEF Disc!ReloadBulk
<1>2. id \in ModuleIds /\ todo \in Seq(ModuleIds) BY <1>1, BulkOrderIs
<1>. HIDE DEF id, todo
<1>3. IsHand(h) /\ h.op \notin Loading BY <1>2, BulkHand
<1>. HIDE DEF h
<1>. QED BY <1>1, <1>3, CallBegins

LEMMA RegisterInv ==
  ASSUME DiscInv, NEW t \in Callers, NEW id \in ModuleIds, Disc!Register(t, id)
  PROVE  DiscInv'
<1> DEFINE inst == [id |-> id, by |-> t, version |-> <<2>>, streamless |-> FALSE]
<1>1. call[t] = Disc!Idle /\ ~Disc!Taken(id) /\ Disc!Loads(t, id, inst, "registered")
      /\ UNCHANGED <<files, removed, lost, overtaken, refused>>
  BY DEF Disc!Register, Disc!history
<1>2. inst \in Published /\ inst.id = id BY DiscoveryAssumption DEF Published
<1>. HIDE DEF inst
<1>3. IsHand([call[t] EXCEPT !.op = "load", !.as = "registered", !.inst = inst])
  BY <1>1, <1>2, IdleIsHand DEF IsHand, Hands, HandShape, Disc!Idle, Reloads, Loading
<1>4. call[t].op \notin Loading BY <1>1 DEF Disc!Idle, Loading
<1>. QED BY <1>1, <1>2, <1>3, <1>4, StartsToLoad DEF Excused

LEMMA LoadReturnsInv ==
  ASSUME DiscInv, NEW t \in Callers, Disc!LoadReturns(t)
  PROVE  DiscInv'
<1> DEFINE h == call[t]
           g == [h EXCEPT !.op = "publish"]
<1>1. IsHand(h) /\ h.op = "load" BY DEF DiscInv, DiscTypes, Disc!LoadReturns, Disc!Op
<1>2. call' = [call EXCEPT ![t] = g]
      /\ UNCHANGED <<files, published, reserved, removed, lost, overtaken, refused>>
  BY DEF Disc!LoadReturns, Disc!GoesTo, Disc!Become, Disc!tables, Disc!history
<1>3. IsHand(g) BY <1>1 DEF IsHand, Hands, HandShape, Loading
<1>4. g.inst = h.inst /\ h.op \in Loading /\ \A id \in ModuleIds : Restores(h, id) => Restores(g, id)
  BY <1>1 DEF Restores, IsHand, Hands, Loading
<1>. HIDE DEF g
<1>. QED BY <1>2, <1>3, <1>4, MovesOn DEF Excused

(* A load is over: its caller goes on, and the id is free again.             *)
LEMMA AfterLoadIs ==
  ASSUME DiscInv, NEW t \in Callers, call[t].op \in Loading, NEW done \in BOOLEAN,
         Disc!AfterLoad(t, done)
  PROVE  \E g : /\ call' = [call EXCEPT ![t] = g] /\ IsHand(g) /\ g.op \notin Loading
                /\ \A id \in ModuleIds :
                     Restores(call[t], id) =>
                       \/ Restores(g, id)
                       \/ id = call[t].inst.id /\ (done \/ call[t].as = "restored")
<1> DEFINE h == call[t]
<1>1. IsHand(h) /\ h.as # "none" BY DEF DiscInv, DiscTypes, IsHand, HandShape
<1>2. CASE h.as = "discovered"
  <2> DEFINE g == [h EXCEPT !.op = "reserve", !.order = Tail(@)]
  <2>0. call' = [call EXCEPT ![t] = g] BY <1>2 DEF Disc!AfterLoad, Disc!Become
  <2>1. h.order \in Seq(ScanIds) /\ h.order # <<>> BY <1>1, <1>2 DEF IsHand, Hands, HandShape
  <2>2. Tail(h.order) \in Seq(ScanIds) BY <2>1
  <2>3. IsHand(g) BY <1>1, <1>2, <2>2 DEF IsHand, Hands, HandShape, Loading
  <2>4. g.op = "reserve" /\ \A id \in ModuleIds : Restores(h, id) => Restores(g, id)
    BY <1>1 DEF Restores, IsHand, Hands
  <2>. HIDE DEF g
  <2>. QED BY <2>0, <2>3, <2>4 DEF Loading
<1>3. CASE h.as = "again"
  <2> DEFINE g == [h EXCEPT !.op = IF done THEN "done" ELSE "restore"]
  <2>1. call' = [call EXCEPT ![t] = g]
    BY <1>3 DEF Disc!AfterLoad, Disc!GoesTo, Disc!Become
  <2>2. IsHand(g) BY <1>1, <1>3 DEF IsHand, Hands, HandShape, Loading
  <2>3. g.op \notin Loading BY <1>1 DEF IsHand, Hands, Loading
  <2>4. \A id \in ModuleIds : Restores(h, id) => Restores(g, id) \/ (id = h.inst.id /\ done)
    BY <1>1, <1>3 DEF Restores, IsHand, Hands, HandShape, Loading
  <2>. HIDE DEF g
  <2>. QED BY <2>1, <2>2, <2>3, <2>4
<1>4. CASE h.as \in {"restored", "registered"}
  <2>1. call' = [call EXCEPT ![t] = Disc!Idle] BY <1>4 DEF Disc!AfterLoad, Disc!Become
  <2>2. Disc!Idle.op \notin Loading BY DEF Disc!Idle, Loading
  <2>3. \A id \in ModuleIds : Restores(h, id) => id = h.inst.id /\ h.as = "restored"
    BY <1>1, <1>4 DEF Restores, IsHand, HandShape, Reloads
  <2>. QED BY <2>1, <2>2, <2>3, IdleIsHand
<1>. QED BY <1>1, <1>2, <1>3, <1>4 DEF IsHand, Hands

LEMMA LoadEnds ==
  ASSUME DiscInv, NEW t \in Callers, call[t].op \in Loading, NEW done \in BOOLEAN,
         Disc!AfterLoad(t, done), files' = files, reserved' = reserved \ {call[t].inst.id},
         published' = IF done THEN [published EXCEPT ![call[t].inst.id] = call[t].inst] ELSE published,
         \A id \in Excused :
           id \in Excused' \/ (done /\ id = call[t].inst.id),
         ~done /\ call[t].as = "restored" => call[t].inst.id \in lost'
  PROVE  DiscInv'
<1> DEFINE inst == call[t].inst
<1>1. inst \in Published /\ inst.id \in ModuleIds /\ inst # None
  BY DiscoveryAssumption DEF DiscInv, DiscTypes, IsHand, HandShape, Published
<1>2. PICK g : /\ call' = [call EXCEPT ![t] = g] /\ IsHand(g) /\ g.op \notin Loading
               /\ \A id \in ModuleIds :
                    Restores(call[t], id) =>
                      \/ Restores(g, id)
                      \/ id = inst.id /\ (done \/ call[t].as = "restored")
  BY AfterLoadIs
<1>3. DOMAIN call = Callers BY DEF DiscInv, DiscTypes
<1>4. call'[t] = g /\ \A u \in Callers : u # t => call'[u] = call[u] BY <1>2, <1>3
<1>5. /\ \A id \in ModuleIds : id # inst.id => published'[id] = published[id]
      /\ published'[inst.id] = IF done THEN inst ELSE published[inst.id]
      /\ published' \in [ModuleIds -> Published \cup {None}]
  BY <1>1 DEF DiscInv, DiscTypes
<1>6. DiscTypes'
  <2>1. Hands' = Hands BY DEF Hands, ScanIds
  <2>2. \A u \in Callers : call'[u] \in Hands /\ HandShape(call'[u])
    BY <1>2, <1>4 DEF DiscInv, DiscTypes, IsHand
  <2>3. \A u \in Callers : IsHand(call[u])' BY <2>1, <2>2 DEF IsHand, HandShape
  <2>4. DOMAIN call' = Callers /\ call' = [u \in Callers |-> call'[u]]
    BY <1>2, <1>3 DEF DiscInv, DiscTypes
  <2>5. \A id \in ModuleIds : published'[id] # None => published'[id].id = id
    BY <1>5 DEF DiscInv, DiscTypes
  <2>. QED BY <1>5, <2>3, <2>4, <2>5 DEF DiscInv, DiscTypes
<1>7. ASSUME NEW u \in Callers PROVE Reserves(u)'
  <2>1. CASE u = t BY <1>2, <1>4, <2>1 DEF Reserves
  <2>2. CASE u # t
    <3>1. Reserves(u) /\ Reserves(t) BY DEF DiscInv
    <3>2. call[u].op \in Loading =>
            /\ call[u].inst.id # inst.id
            /\ call[u].inst.id \in ModuleIds
      BY <2>2, <3>1 DEF Reserves, DiscInv, DiscTypes, IsHand, HandShape, Published
    <3>. QED BY <1>2, <1>4, <1>5, <2>2, <3>1, <3>2 DEF Reserves
  <2>. QED BY <2>1, <2>2
<1>8. ASSUME NEW id \in ModuleIds PROVE NotLost(id)'
  <2>1. done /\ id = inst.id => Settled(id)' BY <1>1, <1>5 DEF Settled
  <2>2. CASE Settled(id)
    <3>1. Settled(id)' BY <1>5, <2>1, <2>2 DEF Settled
    <3>. QED BY <3>1 DEF NotLost
  <2>3. ASSUME NEW u \in Callers, Restores(call[u], id) PROVE NotLost(id)'
    <3>1. CASE u = t
      <4>1. Restores(g, id) \/ (id = inst.id /\ (done \/ call[t].as = "restored"))
        BY <1>2, <2>3, <3>1
      <4>2. id = inst.id /\ ~done /\ call[t].as = "restored" => Settled(id)'
        BY DEF Settled, Excused
      <4>3. Restores(g, id) \/ Settled(id)' BY <2>1, <4>1, <4>2
      <4>. QED BY <1>4, <4>3 DEF NotLost
    <3>2. CASE u # t BY <1>4, <2>3, <3>2 DEF NotLost
    <3>. QED BY <3>1, <3>2
  <2>. QED BY <2>2, <2>3 DEF DiscInv, NotLost
<1>. QED BY <1>6, <1>7, <1>8 DEF DiscInv

LEMMA LoadFailsInv ==
  ASSUME DiscInv, NEW t \in Callers, Disc!LoadFails(t)
  PROVE  DiscInv'
<1>1. /\ call[t].op \in Loading /\ Disc!AfterLoad(t, FALSE) /\ files' = files
      /\ reserved' = reserved \ {call[t].inst.id} /\ published' = published
      /\ removed' = removed /\ overtaken' = overtaken /\ refused' = refused
      /\ lost' = IF call[t].as = "restored" THEN lost \cup {call[t].inst.id} ELSE lost
  BY DEF Disc!LoadFails, Disc!Op, Loading
<1>2. /\ Excused \subseteq Excused'
      /\ call[t].as = "restored" => call[t].inst.id \in lost'
  BY <1>1 DEF Excused
<1>. QED BY <1>1, <1>2, LoadEnds

LEMMA PublishInv ==
  ASSUME DiscInv, NEW t \in Callers, Disc!Publish(t)
  PROVE  DiscInv'
<1>1. /\ call[t].op \in Loading /\ Disc!AfterLoad(t, TRUE) /\ files' = files
      /\ reserved' = reserved \ {call[t].inst.id}
      /\ published' = [published EXCEPT ![call[t].inst.id] = call[t].inst]
      /\ removed' = removed \ {call[t].inst.id} /\ lost' = lost \ {call[t].inst.id}
      /\ overtaken' = overtaken \ {call[t].inst.id} /\ refused' = refused \ {call[t].inst.id}
  BY DEF Disc!Publish, Disc!Op, Loading
<1>2. \A id \in Excused :
        id \in Excused' \/ id = call[t].inst.id
  BY <1>1 DEF Excused
<1>. QED BY <1>1, <1>2, LoadEnds

(* A module is unregistered, by a client or by the reload that restores it. *)
LEMMA Unpublishes ==
  ASSUME DiscInv, NEW t \in Callers, NEW h, IsHand(h), call' = [call EXCEPT ![t] = h],
         NEW id \in ModuleIds, published' = [published EXCEPT ![id] = None],
         UNCHANGED <<files, reserved>>, h.op \notin Loading,
         Excused \subseteq Excused',
         \A i \in ModuleIds : Restores(call[t], i) => Restores(h, i),
         published[id] = None \/ id \in Excused' \/ Restores(h, id)
  PROVE  DiscInv'
<1>1. DOMAIN call = Callers BY DEF DiscInv, DiscTypes
<1>2. call'[t] = h /\ \A u \in Callers : u # t => call'[u] = call[u] BY <1>1
<1>3. /\ \A i \in ModuleIds : published'[i] = IF i = id THEN None ELSE published[i]
      /\ published' \in [ModuleIds -> Published \cup {None}]
  BY DEF DiscInv, DiscTypes
<1>4. DiscTypes'
  <2>1. Hands' = Hands BY DEF Hands, ScanIds
  <2>2. \A u \in Callers : call'[u] \in Hands /\ HandShape(call'[u])
    BY <1>2 DEF DiscInv, DiscTypes, IsHand
  <2>3. \A u \in Callers : IsHand(call[u])' BY <2>1, <2>2 DEF IsHand, HandShape
  <2>4. DOMAIN call' = Callers /\ call' = [u \in Callers |-> call'[u]]
    BY <1>1 DEF DiscInv, DiscTypes
  <2>5. \A i \in ModuleIds : published'[i] # None => published'[i].id = i
    BY <1>3 DEF DiscInv, DiscTypes
  <2>. QED BY <1>3, <2>3, <2>4, <2>5 DEF DiscInv, DiscTypes
<1>5. ASSUME NEW u \in Callers PROVE Reserves(u)'
  <2>1. \A v \in Callers : call'[v].op \in Loading =>
          /\ call[v].op \in Loading /\ call'[v].inst = call[v].inst
          /\ call[v].inst.id \in ModuleIds
    BY <1>2 DEF DiscInv, DiscTypes, IsHand, HandShape, Published
  <2>. QED BY <1>3, <2>1 DEF DiscInv, Reserves
<1>6. ASSUME NEW i \in ModuleIds PROVE NotLost(i)'
  <2>1. ASSUME NEW u \in Callers, Restores(call[u], i) PROVE NotLost(i)'
    <3>1. CASE u = t BY <1>2, <2>1, <3>1 DEF NotLost
    <3>2. CASE u # t BY <1>2, <2>1, <3>2 DEF NotLost
    <3>. QED BY <3>1, <3>2
  <2>2. CASE i \in Excused BY <2>2 DEF Settled, NotLost
  <2>3. CASE published[i] # None
    <3>1. CASE i # id BY <1>3, <2>3, <3>1 DEF Settled, NotLost
    <3>2. CASE i = id BY <1>2, <2>3, <3>2 DEF Settled, NotLost
    <3>. QED BY <3>1, <3>2
  <2>. QED BY <2>1, <2>2, <2>3 DEF DiscInv, NotLost, Settled
<1>. QED BY <1>4, <1>5, <1>6 DEF DiscInv

LEMMA UnregisterInv ==
  ASSUME DiscInv, NEW t \in Callers, NEW id \in ModuleIds, Disc!Unregister(t, id)
  PROVE  DiscInv'
<1>1. /\ call[t] = Disc!Idle /\ published' = [published EXCEPT ![id] = None]
      /\ removed' = removed \cup {id} /\ UNCHANGED <<files, reserved, call, lost, overtaken, refused>>
  BY DEF Disc!Unregister
<1>2. call' = [call EXCEPT ![t] = Disc!Idle] BY <1>1 DEF DiscInv, DiscTypes
<1>3. Disc!Idle.op \notin Loading BY DEF Disc!Idle, Loading
<1>4. /\ Excused \subseteq Excused'
      /\ id \in Excused'
  BY <1>1 DEF Excused
<1>5. \A i \in ModuleIds : Restores(call[t], i) => Restores(Disc!Idle, i) BY <1>1
<1>. QED BY <1>1, <1>2, <1>3, <1>4, <1>5, IdleIsHand, Unpublishes

LEMMA CheckVersionInv ==
  ASSUME DiscInv, NEW t \in Callers, Disc!CheckVersion(t)
  PROVE  DiscInv'
<1> DEFINE h == call[t]
           g == [h EXCEPT !.op = "take"]
<1>1. IsHand(h) /\ h.op = "check" BY DEF DiscInv, DiscTypes, Disc!CheckVersion, Disc!Op
<1>2. UNCHANGED <<files, published, reserved, removed, lost, overtaken, refused>>
  BY DEF Disc!CheckVersion, Disc!tables, Disc!history
<1>3. \A id \in ModuleIds : ~Restores(h, id) BY <1>1 DEF Restores
<1>4. CASE published[h.id] = None
  <2>1. call' = [call EXCEPT ![t] = Disc!Idle] BY <1>4 DEF Disc!CheckVersion, Disc!Become
  <2>2. Disc!Idle.op \notin Loading BY DEF Disc!Idle, Loading
  <2>. QED BY <1>2, <1>3, <2>1, <2>2, IdleIsHand, MovesOn DEF Excused
<1>5. CASE published[h.id] # None
  <2>1. call' = [call EXCEPT ![t] = g]
    BY <1>5 DEF Disc!CheckVersion, Disc!GoesTo, Disc!Become
  <2>2. IsHand(g) /\ g.op \notin Loading BY <1>1 DEF IsHand, Hands, HandShape, Loading
  <2>. HIDE DEF g
  <2>. QED BY <1>2, <1>3, <2>1, <2>2, MovesOn DEF Excused
<1>. QED BY <1>4, <1>5

LEMMA TakeInv ==
  ASSUME DiscInv, NEW t \in Callers, Disc!Take(t)
  PROVE  DiscInv'
<1> DEFINE h == call[t]
           old == published[h.id]
           g == [h EXCEPT !.old = old,
                          !.op = IF old = None /\ h.call = "bulk" THEN "done" ELSE "unregister"]
<1>1. IsHand(h) /\ h.op = "take" /\ h.id \in ModuleIds
  BY DEF DiscInv, DiscTypes, Disc!Take, Disc!Op, IsHand, HandShape
<1>2. UNCHANGED <<files, published, reserved, removed, lost, overtaken, refused>>
  BY DEF Disc!Take, Disc!tables, Disc!history
<1>3. \A id \in ModuleIds : ~Restores(h, id) BY <1>1 DEF Restores
<1>4. call' = [call EXCEPT ![t] = g] BY DEF Disc!Take, Disc!Become
<1>5. old \in Published \cup {None} /\ (old # None => old.id = h.id)
  BY <1>1 DEF DiscInv, DiscTypes
<1>. HIDE DEF old
<1>6. IsHand(g) /\ g.op \notin Loading BY <1>1, <1>5 DEF IsHand, Hands, HandShape, Loading
<1>. HIDE DEF g
<1>. QED BY <1>2, <1>3, <1>4, <1>6, MovesOn DEF Excused

LEMMA SafeUnregisterInv ==
  ASSUME DiscInv, NEW t \in Callers, Disc!SafeUnregister(t)
  PROVE  DiscInv'
<1> DEFINE h == call[t]
           g == [h EXCEPT !.op = "plan"]
<1>1. IsHand(h) /\ h.op = "unregister" /\ h.id \in ModuleIds /\ h.call \in Reloads
  BY DEF DiscInv, DiscTypes, Disc!SafeUnregister, Disc!Op, IsHand, HandShape
<1>2. /\ UNCHANGED <<files, reserved, removed, lost, refused>>
      /\ published' = [published EXCEPT ![h.id] = None]
      /\ overtaken' = IF published[h.id] \in {None, h.old} THEN overtaken
                      ELSE overtaken \cup {h.id}
  BY DEF Disc!SafeUnregister
<1>3. call' = [call EXCEPT ![t] = g] BY DEF Disc!SafeUnregister, Disc!GoesTo, Disc!Become
<1>4. IsHand(g) /\ g.op \notin Loading BY <1>1 DEF IsHand, Hands, HandShape, Loading
<1>5. \A id \in ModuleIds : ~Restores(h, id) BY <1>1 DEF Restores
<1>6. h.old # None => Restores(g, h.id) BY <1>1 DEF Restores, IsHand, Hands
<1>7. Excused \subseteq Excused' BY <1>2 DEF Excused
<1>8. \/ published[h.id] = None
      \/ h.id \in Excused'
      \/ Restores(g, h.id)
  BY <1>2, <1>6 DEF Excused
<1>. HIDE DEF g
<1>. QED BY <1>1, <1>2, <1>3, <1>4, <1>5, <1>7, <1>8, Unpublishes

LEMMA FindInv ==
  ASSUME DiscInv, NEW t \in Callers, Disc!Find(t)
  PROVE  DiscInv'
<1> DEFINE h == call[t]
           found == published[h.id]
           g == [h EXCEPT !.inst = found, !.op = IF found = None THEN "restore" ELSE "again"]
<1>1. IsHand(h) /\ h.op = "find" /\ h.id \in ModuleIds
  BY DEF DiscInv, DiscTypes, Disc!Find, Disc!Op, IsHand, HandShape
<1>2. UNCHANGED <<files, published, reserved, removed, lost, overtaken, refused>>
  BY DEF Disc!Find, Disc!tables, Disc!history
<1>3. call' = [call EXCEPT ![t] = g] BY DEF Disc!Find, Disc!Become
<1>4. found \in Published \cup {None} /\ (found # None => found.id = h.id)
  BY <1>1 DEF DiscInv, DiscTypes
<1>. HIDE DEF found
<1>5. IsHand(g) /\ g.op \notin Loading BY <1>1, <1>4 DEF IsHand, Hands, HandShape, Loading
<1>6. \A id \in ModuleIds : Restores(h, id) => Restores(g, id)
  BY <1>1 DEF Restores, IsHand, Hands
<1>. HIDE DEF g
<1>. QED BY <1>2, <1>3, <1>5, <1>6, MovesOn DEF Excused

LEMMA ReregisterInv ==
  ASSUME DiscInv, NEW t \in Callers, Disc!Reregister(t)
  PROVE  DiscInv'
<1> DEFINE h == call[t]
           g(op) == [h EXCEPT !.op = op]
<1>1. /\ IsHand(h) /\ h.op = "again" /\ h.id \in ModuleIds /\ h.call \in Reloads
      /\ h.inst \in Published /\ h.inst.id = h.id /\ h.op \notin Loading
  BY DEF DiscInv, DiscTypes, Disc!Reregister, Disc!Op, IsHand, HandShape, Loading
<1>2. UNCHANGED <<files, removed, lost, overtaken, refused>> BY DEF Disc!Reregister, Disc!history
<1>3. ASSUME NEW op \in {"done", "restore"}
      PROVE  IsHand(g(op)) /\ g(op).op = op /\ g(op).op \notin Loading
  BY <1>1 DEF IsHand, Hands, HandShape, Loading
<1>4. CASE published[h.id] = h.inst
  <2>1. call' = [call EXCEPT ![t] = g("done")] /\ UNCHANGED <<published, reserved>>
    BY <1>4 DEF Disc!Reregister, Disc!GoesTo, Disc!Become, Disc!tables
  <2>2. \A id \in ModuleIds : Restores(h, id) => Settled(id)'
    BY <1>1, <1>4, <2>1, DiscoveryAssumption DEF Restores, Settled
  <2>3. IsHand(g("done")) /\ g("done").op \notin Loading BY <1>3
  <2>. HIDE DEF g
  <2>. QED BY <1>2, <2>1, <2>2, <2>3, MovesOn DEF Excused
<1>5. CASE published[h.id] # h.inst /\ (Disc!Unfit(h.inst) \/ Disc!Taken(h.id))
  <2>1. call' = [call EXCEPT ![t] = g("restore")] /\ UNCHANGED <<published, reserved>>
    BY <1>5 DEF Disc!Reregister, Disc!GoesTo, Disc!Become, Disc!tables
  <2>2. \A id \in ModuleIds : Restores(h, id) => Restores(g("restore"), id)
    BY <1>1 DEF Restores, IsHand, Hands
  <2>3. IsHand(g("restore")) /\ g("restore").op \notin Loading BY <1>3
  <2>. HIDE DEF g
  <2>. QED BY <1>2, <2>1, <2>2, <2>3, MovesOn DEF Excused
<1>6. CASE published[h.id] # h.inst /\ ~Disc!Unfit(h.inst) /\ ~Disc!Taken(h.id)
  <2>1. Disc!Loads(t, h.inst.id, h.inst, "again") BY <1>1, <1>6 DEF Disc!Reregister
  <2>2. IsHand([h EXCEPT !.op = "load", !.as = "again", !.inst = h.inst])
    BY <1>1 DEF IsHand, Hands, HandShape, Loading
  <2>. QED BY <1>1, <1>2, <1>6, <2>1, <2>2, StartsToLoad DEF Excused
<1>. QED BY <1>4, <1>5, <1>6

LEMMA RestoreInv ==
  ASSUME DiscInv, NEW t \in Callers, Disc!Restore(t)
  PROVE  DiscInv'
<1> DEFINE h == call[t]
<1>1. /\ IsHand(h) /\ h.op = "restore" /\ h.id \in ModuleIds /\ h.call \in Reloads
      /\ h.old \in Published \cup {None} /\ (h.old # None => h.old.id = h.id) /\ h.op \notin Loading
  BY DEF DiscInv, DiscTypes, Disc!Restore, Disc!Op, IsHand, HandShape, Loading, Hands
<1>2. /\ UNCHANGED <<files, removed, lost>>
      /\ overtaken' = IF h.old # None /\ h.id \in reserved THEN overtaken \cup {h.id}
                      ELSE overtaken
      /\ refused' = IF h.old # None /\ Disc!Unfit(h.old) /\ ~Disc!Taken(h.id)
                    THEN refused \cup {h.id} ELSE refused
  BY DEF Disc!Restore
<1>3. Excused \subseteq Excused' BY <1>2 DEF Excused
<1>4. CASE h.old = None \/ Disc!Unfit(h.old) \/ Disc!Taken(h.id)
  <2>1. call' = [call EXCEPT ![t] = Disc!Idle] /\ UNCHANGED <<published, reserved>>
    BY <1>4 DEF Disc!Restore, Disc!Become, Disc!tables
  <2>2. Disc!Idle.op \notin Loading BY DEF Disc!Idle, Loading
  <2>3. \A id \in ModuleIds : Restores(h, id) => Settled(id)'
    BY <1>2, <1>4, <2>1 DEF Restores, Settled, Excused, Disc!Taken
  <2>. QED BY <1>2, <1>3, <2>1, <2>2, <2>3, IdleIsHand, MovesOn
<1>5. CASE h.old # None /\ ~Disc!Unfit(h.old) /\ ~Disc!Taken(h.id)
  <2>1. Disc!Loads(t, h.old.id, h.old, "restored") BY <1>1, <1>5 DEF Disc!Restore
  <2>2. IsHand([h EXCEPT !.op = "load", !.as = "restored", !.inst = h.old])
    BY <1>1, <1>5 DEF IsHand, Hands, HandShape, Loading
  <2>. QED BY <1>1, <1>2, <1>3, <1>5, <2>1, <2>2, StartsToLoad
<1>. QED BY <1>4, <1>5

LEMMA DoneInv ==
  ASSUME DiscInv, NEW t \in Callers, Disc!Done(t)
  PROVE  DiscInv'
<1> DEFINE h == call[t]
           g == [Disc!Idle EXCEPT !.op = "take", !.call = "bulk", !.id = Head(h.todo),
                                  !.todo = Tail(h.todo), !.keep = ModuleIds]
<1>1. IsHand(h) /\ h.op = "done" BY DEF DiscInv, DiscTypes, Disc!Done, Disc!Op
<1>2. UNCHANGED <<files, published, reserved, removed, lost, overtaken, refused>>
  BY DEF Disc!Done, Disc!tables, Disc!history
<1>3. \A id \in ModuleIds : ~Restores(h, id) BY <1>1 DEF Restores
<1>4. CASE h.todo = <<>>
  <2>1. call' = [call EXCEPT ![t] = Disc!Idle] BY <1>4 DEF Disc!Done, Disc!Become
  <2>2. Disc!Idle.op \notin Loading BY DEF Disc!Idle, Loading
  <2>. QED BY <1>2, <1>3, <2>1, <2>2, IdleIsHand, MovesOn DEF Excused
<1>5. CASE h.todo # <<>>
  <2>1. call' = [call EXCEPT ![t] = g] BY <1>5 DEF Disc!Done, Disc!Become
  <2>2. h.todo \in Seq(ModuleIds) BY <1>1 DEF IsHand, Hands
  <2>3. Head(h.todo) \in ModuleIds /\ Tail(h.todo) \in Seq(ModuleIds) BY <1>5, <2>2
  <2>4. IsHand(g) /\ g.op \notin Loading BY <2>3, BulkHand
  <2>. HIDE DEF g
  <2>. QED BY <1>2, <1>3, <2>1, <2>4, MovesOn DEF Excused
<1>. QED BY <1>4, <1>5

(* What starts without calls is sound.                                      *)
LEMMA DiscInitInv == ASSUME Disc!Init PROVE DiscInv
<1>1. call = [t \in Callers |-> Disc!Idle] /\ files \in Disks BY DEF Disc!Init
<1>2. PICK on \in SUBSET ModuleIds : \E streamless \in SUBSET on :
        published = [id \in ModuleIds |->
                       IF id \in on THEN Disc!Booted(id, id \in streamless) ELSE None]
  BY DEF Disc!Init
<1>3. \A id \in ModuleIds : \A b \in BOOLEAN :
        Disc!Booted(id, b) \in Published /\ Disc!Booted(id, b).id = id
  BY DiscoveryAssumption DEF Disc!Booted, Published
<1>4. DiscTypes
  <2> DEFINE streams(id, s) == Disc!Booted(id, id \in s)
  <2>. PICK s \in SUBSET on :
         published = [id \in ModuleIds |-> IF id \in on THEN streams(id, s) ELSE None]
    BY <1>2
  <2>0. \A id \in ModuleIds : streams(id, s) \in Published /\ streams(id, s).id = id
    <3>. SUFFICES ASSUME NEW id \in ModuleIds
                  PROVE  streams(id, s) \in Published /\ streams(id, s).id = id
      OBVIOUS
    <3>1. (id \in s) \in BOOLEAN OBVIOUS
    <3>. QED BY <1>3, <3>1
  <2>1. published = [id \in ModuleIds |-> IF id \in on THEN streams(id, s) ELSE None] OBVIOUS
  <2>. HIDE DEF streams
  <2>2. /\ published \in [ModuleIds -> Published \cup {None}]
        /\ \A id \in ModuleIds : published[id] # None => published[id].id = id
    BY <2>0, <2>1
  <2>3. \A t \in Callers : IsHand(call[t]) BY <1>1, IdleIsHand
  <2>4. DOMAIN call = Callers /\ call = [t \in Callers |-> call[t]] BY <1>1
  <2>. QED BY <1>1, <2>1, <2>2, <2>3, <2>4 DEF DiscTypes
<1>5. \A t \in Callers : Reserves(t) BY <1>1 DEF Reserves, Disc!Idle, Loading
<1>6. \A id \in ModuleIds : NotLost(id) BY DEF Disc!Init, NotLost, Settled, Excused
<1>. QED BY <1>4, <1>5, <1>6 DEF DiscInv

LEMMA DiscNextInv == ASSUME DiscInv, Disc!Next PROVE DiscInv'
<1>1. PICK t \in Callers :
        \/ Disc!Plan(t) \/ Disc!FilterConflicts(t) \/ Disc!Reserve(t) \/ Disc!LoadReturns(t)
        \/ Disc!LoadFails(t) \/ Disc!Publish(t) \/ Disc!CheckVersion(t) \/ Disc!Take(t)
        \/ Disc!SafeUnregister(t) \/ Disc!Find(t) \/ Disc!Reregister(t) \/ Disc!Restore(t)
        \/ Disc!Done(t)
        \/ \E keep \in SUBSET ModuleIds : Disc!Discover(t, keep) \/ Disc!ReloadBulk(t, keep)
        \/ \E id \in ModuleIds : Disc!Register(t, id) \/ Disc!Unregister(t, id) \/ Disc!Reload(t, id)
        \/ Disc!DiscoverCustom(t, Disc!Sorted({files[i].id : i \in DOMAIN files}))
  BY DEF Disc!Next
<1>2. CASE \/ Disc!Plan(t) \/ Disc!FilterConflicts(t) \/ Disc!Reserve(t)
           \/ Disc!LoadReturns(t) \/ Disc!LoadFails(t) \/ Disc!Publish(t)
  BY <1>2, PlanInv, FilterInv, ReserveInv, LoadReturnsInv, LoadFailsInv, PublishInv
<1>3. CASE \/ Disc!CheckVersion(t) \/ Disc!Take(t) \/ Disc!SafeUnregister(t) \/ Disc!Find(t)
           \/ Disc!Reregister(t) \/ Disc!Restore(t) \/ Disc!Done(t)
  BY <1>3, CheckVersionInv, TakeInv, SafeUnregisterInv, FindInv, ReregisterInv, RestoreInv, DoneInv
<1>4. CASE \/ \E keep \in SUBSET ModuleIds : Disc!Discover(t, keep) \/ Disc!ReloadBulk(t, keep)
           \/ \E id \in ModuleIds : Disc!Register(t, id) \/ Disc!Unregister(t, id) \/ Disc!Reload(t, id)
           \/ Disc!DiscoverCustom(t, Disc!Sorted({files[i].id : i \in DOMAIN files}))
  BY <1>4, DiscoverInv, ReloadBulkInv, RegisterInv, UnregisterInv, ReloadInv, DiscoverCustomInv
<1>. QED BY <1>1, <1>2, <1>3, <1>4

LEMMA DiscStutterInv == ASSUME DiscInv, UNCHANGED discovered PROVE DiscInv'
<1>1. UNCHANGED <<files, published, reserved, call, removed, lost, overtaken, refused>> BY DEF discovered
<1>2. DiscTypes'
  <2>1. Hands' = Hands BY <1>1 DEF Hands, ScanIds
  <2>2. \A t \in Callers : IsHand(call[t])'
    BY <1>1, <2>1 DEF DiscInv, DiscTypes, IsHand, HandShape
  <2>3. DOMAIN call' = Callers /\ call' = [t \in Callers |-> call'[t]]
    BY <1>1 DEF DiscInv, DiscTypes
  <2>. QED BY <1>1, <2>2, <2>3 DEF DiscInv, DiscTypes
<1>3. \A t \in Callers : Reserves(t)' BY <1>1 DEF DiscInv, Reserves
<1>4. \A id \in ModuleIds : NotLost(id)' BY <1>1 DEF DiscInv, NotLost, Settled, Excused, Restores
<1>. QED BY <1>2, <1>3, <1>4 DEF DiscInv

(* A module is put where none is: its loader has had the id for himself.    *)
LEMMA NothingReplaced == ASSUME DiscInv, Disc!Next PROVE ~Disc!Replaces
<1>1. ASSUME NEW t \in Callers, Disc!Publish(t) PROVE ~Disc!Replaces
  <2>1. published' = [published EXCEPT ![call[t].inst.id] = call[t].inst] /\ call[t].op \in Loading
    BY <1>1 DEF Disc!Publish, Disc!Op, Loading
  <2>2. published[call[t].inst.id] = None BY <2>1 DEF DiscInv, Reserves
  <2>3. \A id \in ModuleIds : published[id] # None => published'[id] = published[id]
    BY <2>1, <2>2 DEF DiscInv, DiscTypes
  <2>. QED BY <2>3 DEF Disc!Replaces
<1>2. ASSUME NEW id \in ModuleIds, published' = [published EXCEPT ![id] = None]
      PROVE  ~Disc!Replaces
  <2>1. \A i \in ModuleIds : published'[i] \in {None, published[i]}
    BY <1>2 DEF DiscInv, DiscTypes
  <2>. QED BY <2>1 DEF Disc!Replaces
<1>3. ASSUME NEW t \in Callers, NEW id \in ModuleIds, Disc!Unregister(t, id) PROVE ~Disc!Replaces
  BY <1>2, <1>3 DEF Disc!Unregister
<1>4. ASSUME NEW t \in Callers, Disc!SafeUnregister(t) PROVE ~Disc!Replaces
  <2>1. /\ call[t].op = "unregister" /\ published' = [published EXCEPT ![call[t].id] = None]
    BY <1>4 DEF Disc!SafeUnregister, Disc!Op
  <2>2. call[t].id \in ModuleIds BY <2>1 DEF DiscInv, DiscTypes, IsHand, HandShape
  <2>. QED BY <1>2, <2>1, <2>2
<1>5. published' = published => ~Disc!Replaces BY DEF Disc!Replaces
<1>6. \/ published' = published
      \/ \E t \in Callers : \/ Disc!Publish(t) \/ Disc!SafeUnregister(t)
                            \/ \E id \in ModuleIds : Disc!Unregister(t, id)
  BY DEF Disc!Next, Disc!Plan, Disc!FilterConflicts, Disc!Reserve, Disc!LoadReturns,
         Disc!LoadFails, Disc!CheckVersion, Disc!Take, Disc!Find, Disc!Reregister, Disc!Restore,
         Disc!Done, Disc!Discover, Disc!ReloadBulk, Disc!Register, Disc!Reload,
         Disc!DiscoverCustom, Disc!Starts, Disc!Loads, Disc!tables
<1>. QED BY <1>1, <1>3, <1>4, <1>5, <1>6


-----------------------------------------------------------------------------
(* Providers move into gates; the fields of a step stay.                    *)
LEMMA BoundStepLegal ==
  ASSUME NEW step \in LegalSteps, NEW own \in Providers
  PROVE  Gov!BoundStep(step, own) \in LegalSteps
<1>1. step \in StepType /\ Gov!GateFieldViolations(step, step.fields) = {}
  BY DEF LegalSteps, LegalStep
<1>2. /\ Gov!Preferred(own.acl, step.with.acl) \in Acls \cup {None}
      /\ Gov!Preferred(own.handler, step.with.handler) \in Handlers \cup {None}
      /\ Gov!Preferred(own.policy, step.with.policy) \in Policies \cup {None}
  BY <1>1 DEF Gov!Preferred, Providers, StepType
<1>3. /\ Gov!BoundStep(step, own) \in StepType
      /\ Gov!BoundStep(step, own).kind = step.kind
      /\ Gov!BoundStep(step, own).fields = step.fields
  <2>1. CASE step.kind = "acl_check" BY <1>1, <1>2, <2>1 DEF Gov!BoundStep, Providers, StepType
  <2>2. CASE step.kind = "approval_gate"
    BY <1>1, <1>2, <2>2 DEF Gov!BoundStep, Providers, StepType
  <2>3. CASE step.kind \notin {"acl_check", "approval_gate"} BY <1>1, <2>3 DEF Gov!BoundStep
  <2>. QED BY <2>1, <2>2, <2>3
<1>. QED BY <1>1, <1>3 DEF LegalSteps, LegalStep, Gov!GateFieldViolations

LEMMA BoundLegal ==
  ASSUME NEW list \in StepLists, NEW own \in Providers
  PROVE  Gov!Bound(list, own) \in StepLists
<1>1. \A i \in DOMAIN list : Gov!BoundStep(list[i], own) \in LegalSteps
  BY BoundStepLegal DEF StepLists
<1>2. Gov!Bound(list, own) \in [DOMAIN list -> LegalSteps] BY <1>1 DEF Gov!Bound
<1>. QED BY <1>2, ListFromFunction DEF StepLists

LEMMA PutLegal ==
  ASSUME NEW list \in StepLists, NEW kind, NEW provider \in {"acl", "handler", "policy"}, NEW value,
         \A with \in Providers : [with EXCEPT ![provider] = value] \in Providers
  PROVE  [i \in DOMAIN list |-> Gov!Put(list[i], kind, provider, value)] \in StepLists
<1>1. ASSUME NEW i \in DOMAIN list PROVE Gov!Put(list[i], kind, provider, value) \in LegalSteps
  <2> DEFINE step == list[i]
             with == [step.with EXCEPT ![provider] = value]
  <2>1. step \in LegalSteps BY <1>1 DEF StepLists
  <2>2. step \in StepType /\ Gov!GateFieldViolations(step, step.fields) = {}
    BY <2>1 DEF LegalSteps, LegalStep
  <2>3. with \in Providers BY <2>2 DEF StepType
  <2>4. Gov!Put(step, kind, provider, value) \in {step, [step EXCEPT !.with = with]}
    BY <2>2 DEF Gov!Put, StepType
  <2>. HIDE DEF with, step
  <2>5. [step EXCEPT !.with = with] \in LegalSteps
    BY <2>2, <2>3 DEF LegalSteps, LegalStep, StepType, Gov!GateFieldViolations
  <2>. QED BY <2>1, <2>4, <2>5 DEF step
<1>. QED BY <1>1, ListFromFunction DEF StepLists

-----------------------------------------------------------------------------
(* Presets, edits and files yield lists of legal steps.                     *)
LEMMA BuiltInLegal ==
  ASSUME NEW kinds \in Seq(Labels)
  PROVE  Gov!BuiltIn(kinds) \in StepLists
<1>1. Gov!Nothing \in Providers BY DEF Gov!Nothing, Providers
<1>2. ASSUME NEW kind \in Labels PROVE Gov!Step(kind, kind, Gov!Nothing) \in LegalSteps
  BY <1>1, <1>2 DEF Gov!Step, LegalSteps, LegalStep, StepType, Gov!GateFieldViolations
<1>3. \A i \in DOMAIN kinds : kinds[i] \in Labels OBVIOUS
<1>4. Gov!BuiltIn(kinds) \in [DOMAIN kinds -> LegalSteps] BY <1>2, <1>3 DEF Gov!BuiltIn
<1>. QED BY <1>4, ListFromFunction DEF StepLists

LEMMA PresetLegal ==
  ASSUME NEW name \in DOMAIN Gov!Kept, NEW own \in Providers
  PROVE  Gov!Preset(name, own) \in StepLists
<1>1. name \in {"standard", "internal", "testing", "performance", "minimal"} BY DEF Gov!Kept
<1>2. Gov!Kept[name] \in Seq(Labels)
  <2>1. {"context_creation", "call_chain_guard", "module_lookup", "acl_check", "approval_gate",
         "middleware_before", "input_validation", "execute", "output_validation",
         "middleware_after", "return_result"} \subseteq Labels
    <3>1. DOMAIN Gov!Kinds = 1..11 BY DEF Gov!Kinds
    <3>2. \A i \in 1..11 : Gov!Kinds[i] \in Labels BY <3>1, EditsAssumption
    <3>. QED BY <3>2 DEF Gov!Kinds
  <2>2. Gov!Kept.standard \in Seq(Labels) BY <2>1 DEF Gov!Kept, Gov!Kinds
  <2>3. Gov!Kept.internal \in Seq(Labels) BY <2>1 DEF Gov!Kept
  <2>4. Gov!Kept.testing \in Seq(Labels) BY <2>1 DEF Gov!Kept
  <2>5. Gov!Kept.performance \in Seq(Labels) BY <2>1 DEF Gov!Kept
  <2>6. Gov!Kept.minimal \in Seq(Labels) BY <2>1 DEF Gov!Kept
  <2>. QED BY <1>1, <2>2, <2>3, <2>4, <2>5, <2>6
<1>3. Gov!BuiltIn(Gov!Kept[name]) \in StepLists BY <1>2, BuiltInLegal
<1>. QED BY <1>3, BoundLegal DEF Gov!Preset

LEMMA AppliedLegal ==
  ASSUME NEW list \in StepLists, NEW edit, LegalEdit(edit)
  PROVE  Gov!Applied(list, edit).steps \in StepLists
<1> DEFINE found == Gov!Named(list, edit.at)
           i == CHOOSE i \in found : TRUE
<1>1. found \subseteq DOMAIN list /\ DOMAIN list = 1..Len(list) /\ Len(list) \in Nat
  BY DEF Gov!Named, StepLists
<1>2. found # {} => i \in 1..Len(list) /\ list[i] \in LegalSteps BY <1>1 DEF StepLists
<1>3. \A s : Gov!Done(s).steps = s /\ Gov!Refused(s).steps = s BY DEF Gov!Done, Gov!Refused
<1>4. CASE edit.op = "configure"
  <2> DEFINE step == list[i]
             fields == step.fields \cup edit.fields
             changed == [list EXCEPT ![i].fields = @ \cup edit.fields]
  <2>1. Gov!Applied(list, edit) =
          IF found = {} \/ Gov!GateFieldViolations(step, edit.fields) # {}
          THEN Gov!Refused(list) ELSE Gov!Done(changed)
    BY <1>4 DEF Gov!Applied, Gov!Configured
  <2>2. CASE found = {} \/ Gov!GateFieldViolations(step, edit.fields) # {} BY <1>3, <2>1, <2>2
  <2>3. CASE found # {} /\ Gov!GateFieldViolations(step, edit.fields) = {}
    <3>1. step \in StepType /\ Gov!GateFieldViolations(step, step.fields) = {}
      BY <1>2, <2>3 DEF LegalSteps, LegalStep
    <3>2. edit.fields \subseteq Labels BY <1>4 DEF LegalEdit
    <3>. HIDE DEF step
    <3>3. [step EXCEPT !.fields = fields] \in StepType BY <3>1, <3>2 DEF StepType
    <3>4. [step EXCEPT !.fields = fields].kind = step.kind
          /\ [step EXCEPT !.fields = fields].fields = fields BY <3>1 DEF StepType
    <3>5. Gov!GateFieldViolations(step, fields) = {}
      BY <2>3, <3>1 DEF Gov!GateFieldViolations
    <3>6. [step EXCEPT !.fields = fields] \in LegalSteps
      BY <3>3, <3>4, <3>5 DEF LegalSteps, LegalStep, Gov!GateFieldViolations
    <3>7. changed = [list EXCEPT ![i] = [step EXCEPT !.fields = fields]] BY DEF step
    <3>. HIDE DEF changed, i, found, fields
    <3>8. changed \in StepLists
      BY <1>2, <2>3, <3>6, <3>7, ReplaceAtType DEF Gov!ReplaceAt, StepLists
    <3>. QED BY <1>3, <2>1, <2>3, <3>8
  <2>. QED BY <2>2, <2>3
<1>5. CASE edit.op = "remove"
  <2>1. Gov!Applied(list, edit) \in {Gov!Refused(list), Gov!Done(Gov!RemoveAt(list, i))}
        /\ (found = {} => Gov!Applied(list, edit) = Gov!Refused(list))
    BY <1>5 DEF Gov!Applied, Gov!Edited
  <2>. HIDE DEF found, i
  <2>2. found # {} => Gov!RemoveAt(list, i) \in StepLists BY <1>2, RemoveAtType DEF StepLists
  <2>. QED BY <1>3, <2>1, <2>2
<1>6. CASE edit.op \in {"insert_after", "insert_before"}
  <2> DEFINE place == IF edit.op = "insert_after" THEN i + 1 ELSE i
             inserted == Gov!InsertAt(list, place, edit.step)
             met == Gov!DependenciesMet(inserted)
  <2>0. edit.step \in LegalSteps BY <1>6 DEF LegalEdit, LegalSteps, LegalStep
  <2>1. \/ Gov!Applied(list, edit) = Gov!Refused(list)
        \/ found # {} /\ Gov!Applied(list, edit) = [steps |-> inserted, ok |-> met]
    BY <1>6 DEF Gov!Applied, Gov!Edited
  <2>2. found # {} => place \in 1..(Len(list) + 1) BY <1>1, <1>2
  <2>. HIDE DEF place, found, i
  <2>3. found # {} => inserted \in StepLists BY <2>0, <2>2, InsertAtType DEF StepLists
  <2>. HIDE DEF inserted, met
  <2>. QED BY <1>3, <2>1, <2>3
<1>7. CASE edit.op = "replace"
  <2> DEFINE replaced == Gov!ReplaceAt(list, i, edit.step)
  <2>0. edit.step \in LegalSteps BY <1>7 DEF LegalEdit, LegalSteps, LegalStep
  <2>1. \/ Gov!Applied(list, edit) = Gov!Refused(list)
        \/ found # {} /\ Gov!Applied(list, edit) = Gov!Done(replaced)
    BY <1>7 DEF Gov!Applied, Gov!Edited
  <2>. HIDE DEF found, i
  <2>2. found # {} => replaced \in StepLists BY <1>2, <2>0, ReplaceAtType DEF StepLists
  <2>. HIDE DEF replaced
  <2>. QED BY <1>3, <2>1, <2>2
<1>. QED BY <1>4, <1>5, <1>6, <1>7 DEF LegalEdit

(* The entries of a file are applied one by one.                            *)
LEMMA FromConfigLegal ==
  ASSUME NEW pipeline, LegalPipeline(pipeline), NEW own \in Providers
  PROVE  Gov!FromConfig(pipeline, own).steps \in StepLists
<1> DEFINE L == Len(pipeline)
           first == Gov!Done(Gov!Preset("standard", own))
           After(r, n) == IF r.ok THEN Gov!Applied(r.steps, pipeline[n]) ELSE r
           IsBuilt(f, m) == f = [n \in 0..m |-> IF n = 0 THEN first ELSE After(f[n - 1], n)]
           Reached == {m \in 0..L : \E f : IsBuilt(f, m)}
<1>1. L \in Nat /\ \A n \in 1..L : LegalEdit(pipeline[n]) BY DEF LegalPipeline
<1>2. first.steps \in StepLists
  <2>1. "standard" \in DOMAIN Gov!Kept BY DEF Gov!Kept
  <2>2. Gov!Preset("standard", own) \in StepLists BY <2>1, PresetLegal
  <2>. QED BY <2>2 DEF Gov!Done
<1>3. \A r, n : n \in 1..L /\ r.steps \in StepLists => After(r, n).steps \in StepLists
  BY <1>1, AppliedLegal
<1>. HIDE DEF first, After, L
<1>4. 0 \in Reached
  <2> DEFINE f == [n \in 0..0 |-> first]
  <2>1. f = [n \in 0..0 |-> IF n = 0 THEN first ELSE After(f[n - 1], n)] OBVIOUS
  <2>2. IsBuilt(f, 0) BY <2>1
  <2>. HIDE DEF f, IsBuilt
  <2>3. \E g : IsBuilt(g, 0) BY <2>2
  <2>. QED BY <1>1, <2>3
<1>5. ASSUME NEW k \in 0..L, k > 0, k - 1 \in Reached PROVE k \in Reached
  <2>1. PICK f : IsBuilt(f, k - 1) BY <1>5
  <2> DEFINE g == [n \in 0..k |-> IF n = k THEN After(f[k - 1], k) ELSE f[n]]
  <2>2. DOMAIN f = 0..(k - 1)
        /\ \A n \in 0..(k - 1) : f[n] = IF n = 0 THEN first ELSE After(f[n - 1], n)
    BY <2>1
  <2>3. ASSUME NEW n \in 0..k PROVE g[n] = IF n = 0 THEN first ELSE After(g[n - 1], n)
    <3>1. CASE n = k
      <4>1. g[n] = After(f[k - 1], k) BY <3>1
      <4>2. g[n - 1] = f[k - 1] BY <1>1, <1>5, <3>1
      <4>. QED BY <1>5, <3>1, <4>1, <4>2
    <3>2. CASE n # k
      <4>1. n \in 0..(k - 1) /\ g[n] = f[n] BY <1>1, <2>3, <3>2
      <4>2. n # 0 => g[n - 1] = f[n - 1] BY <1>1, <2>3, <3>2
      <4>. QED BY <2>2, <4>1, <4>2
    <3>. QED BY <3>1, <3>2
  <2>4. IsBuilt(g, k)
    <3>1. g = [n \in 0..k |-> g[n]] OBVIOUS
    <3>. HIDE DEF g
    <3>. QED BY <2>3, <3>1
  <2>. QED BY <2>4
<1>6. PICK f : IsBuilt(f, L)
  <2>. HIDE DEF IsBuilt
  <2>1. L \in Reached
    <3>. HIDE DEF Reached
    <3>. QED BY <1>1, <1>4, <1>5, Upwards
  <2>. QED BY <2>1
<1> DEFINE built == CHOOSE g : IsBuilt(g, L)
<1>7. IsBuilt(built, L) BY <1>6
<1>8. Gov!FromConfig(pipeline, own) = built[L]
  BY DEF Gov!FromConfig, first, After, L
<1>. HIDE DEF built
<1>9. \A n \in 0..L : built[n] = IF n = 0 THEN first ELSE After(built[n - 1], n) BY <1>7
<1> DEFINE Fine == {n \in 0..L : built[n].steps \in StepLists}
<1>10. 0 \in Fine BY <1>1, <1>2, <1>9
<1>11. ASSUME NEW k \in 0..L, k > 0, k - 1 \in Fine PROVE k \in Fine
  <2>1. k \in 1..L /\ built[k - 1].steps \in StepLists BY <1>1, <1>11
  <2>2. built[k] = After(built[k - 1], k) BY <1>1, <1>9, <2>1
  <2>. QED BY <1>3, <2>1, <2>2
<1>12. L \in Fine
  <2>. HIDE DEF Fine
  <2>. QED BY <1>1, <1>10, <1>11, Upwards
<1>. QED BY <1>8, <1>12

-----------------------------------------------------------------------------
(* Every action of the executors, strategies and clients keeps the lists    *)
(* legal and what executors were given typed.                               *)
LEMMA GivenProviders ==
  ASSUME NEW own \in Providers
  PROVE  /\ Gov!Nothing \in Providers
         /\ \A acl \in Acls \cup {None} : [own EXCEPT !["acl"] = acl] \in Providers
         /\ \A h \in Handlers \cup {None} : [own EXCEPT !["handler"] = h] \in Providers
         /\ \A p \in Policies \cup {None} : [own EXCEPT !["policy"] = p] \in Providers
BY DEF Gov!Nothing, Providers

LEMMA GovInitInv == Gov!Init => GovInv
<1>. SUFFICES ASSUME Gov!Init PROVE GovInv OBVIOUS
<1>1. PICK start \in [Shared -> Prebuilt] :
        steps = [o \in Objects |->
                   IF o \in Shared THEN Gov!Preset(start[o][1], start[o][2]) ELSE <<>>]
  BY DEF Gov!Init, Objects
<1>2. \A o \in Shared : Gov!Preset(start[o][1], start[o][2]) \in StepLists
  <2>. SUFFICES ASSUME NEW o \in Shared
                PROVE  Gov!Preset(start[o][1], start[o][2]) \in StepLists
    OBVIOUS
  <2>1. start[o] \in (DOMAIN Gov!Kept) \X Providers BY ProvidersAssumption
  <2>. QED BY <2>1, PresetLegal
<1>3. <<>> \in StepLists BY DEF StepLists
<1>4. StrategiesAreLegal BY <1>1, <1>2, <1>3 DEF StrategiesAreLegal
<1>5. Gov!Unbuilt \in [strategy : Objects \cup {None}, own : Providers]
  BY DEF Gov!Unbuilt, Gov!Nothing, Providers
<1>6. ExecutorsAreTyped BY <1>5 DEF Gov!Init, ExecutorsAreTyped
<1>. QED BY <1>4, <1>6 DEF GovInv

LEMMA OwnsInv ==
  ASSUME GovInv, NEW e \in Executors, NEW list \in StepLists, NEW own \in Providers,
         Gov!Owns(e, list, own)
  PROVE  GovInv'
<1>1. Gov!Bound(list, own) \in StepLists BY BoundLegal
<1>2. [strategy |-> e, own |-> own] \in [strategy : Objects \cup {None}, own : Providers]
  BY DEF Objects
<1>3. ExecutorsAreTyped' BY <1>2 DEF Gov!Owns, GovInv, ExecutorsAreTyped
<1>4. StrategiesAreLegal' BY <1>1 DEF Gov!Owns, GovInv, StrategiesAreLegal
<1>. QED BY <1>3, <1>4 DEF GovInv

LEMMA SetInv ==
  ASSUME GovInv, NEW e \in Executors, NEW kind, NEW provider \in {"acl", "handler", "policy"},
         NEW value, \A with \in Providers : [with EXCEPT ![provider] = value] \in Providers,
         Gov!Set(e, kind, provider, value)
  PROVE  GovInv'
<1>. DEFINE o == executor[e].strategy
            list == [i \in DOMAIN steps[o] |-> Gov!Put(steps[o][i], kind, provider, value)]
            own == [executor[e].own EXCEPT ![provider] = value]
<1>1. executor[e].own \in Providers /\ o \in Objects
  BY DEF GovInv, ExecutorsAreTyped, Gov!Set, Gov!Built
<1>2. list \in StepLists
  <2>1. steps[o] \in StepLists BY <1>1 DEF GovInv, StrategiesAreLegal
  <2>. QED BY <2>1, PutLegal
<1>3. own \in Providers BY <1>1
<1>4. steps' = [steps EXCEPT ![o] = list] BY DEF Gov!Set
<1>5. executor' = [executor EXCEPT ![e].own = own] BY <1>1 DEF Gov!Set, GovInv, ExecutorsAreTyped
<1>. HIDE DEF list, own
<1>6. StrategiesAreLegal' BY <1>2, <1>4 DEF GovInv, StrategiesAreLegal
<1>7. ExecutorsAreTyped' BY <1>3, <1>5 DEF GovInv, ExecutorsAreTyped
<1>. QED BY <1>6, <1>7 DEF GovInv

LEMMA RebindInv ==
  ASSUME GovInv, NEW s \in Shared, NEW own \in Providers,
         steps' = [steps EXCEPT ![s] = Gov!Bound(@, own)], ExecutorsAreTyped'
  PROVE  GovInv'
<1>1. Gov!Bound(steps[s], own) \in StepLists
  BY BoundLegal DEF GovInv, StrategiesAreLegal, Objects
<1>. QED BY <1>1 DEF GovInv, StrategiesAreLegal

LEMMA GovNextInv == GovInv /\ Gov!Next => GovInv'
<1>. SUFFICES ASSUME GovInv, Gov!Next PROVE GovInv' OBVIOUS
<1>0. UNCHANGED <<steps, executor>> => GovInv'
  BY DEF GovInv, StrategiesAreLegal, ExecutorsAreTyped
<1>1. ASSUME NEW e \in Executors, NEW own \in Given, NEW name \in Presets,
             Gov!Construct(e, name, own)
      PROVE  GovInv'
  <2>1. own \in Providers /\ Gov!Preset(name, own) \in StepLists
    BY ProvidersAssumption, PresetLegal
  <2>. QED BY <1>1, <2>1, OwnsInv DEF Gov!Construct
<1>2. ASSUME NEW e \in Executors, NEW own \in Given, NEW pipeline \in Pipelines,
             Gov!ConstructFromConfig(e, pipeline, own)
      PROVE  GovInv'
  <2>1. own \in Providers /\ Gov!FromConfig(pipeline, own).steps \in StepLists
    BY ProvidersAssumption, EditsAssumption, FromConfigLegal
  <2>. QED BY <1>2, <2>1, OwnsInv DEF Gov!ConstructFromConfig
<1>3. ASSUME NEW e \in Executors, NEW own \in Given, NEW s \in Shared, Gov!ConstructOn(e, s, own)
      PROVE  GovInv'
  <2>1. own \in Providers BY ProvidersAssumption
  <2>2. ExecutorsAreTyped'
    BY <1>3, <2>1 DEF Gov!ConstructOn, GovInv, ExecutorsAreTyped, Objects
  <2>. QED BY <1>3, <2>1, <2>2, RebindInv DEF Gov!ConstructOn
<1>4. ASSUME NEW e \in Executors, Gov!SetProvider(e) PROVE GovInv'
  <2>1. ASSUME NEW acl \in Acls, Gov!Set(e, "acl_check", "acl", acl) PROVE GovInv'
    <3>1. \A with \in Providers : [with EXCEPT !["acl"] = acl] \in Providers BY GivenProviders
    <3>. QED BY <2>1, <3>1, SetInv
  <2>2. ASSUME NEW h \in Handlers, Gov!Set(e, "approval_gate", "handler", h) PROVE GovInv'
    <3>1. \A with \in Providers : [with EXCEPT !["handler"] = h] \in Providers BY GivenProviders
    <3>. QED BY <2>2, <3>1, SetInv
  <2>3. ASSUME NEW p \in Policies \cup {None}, Gov!Set(e, "approval_gate", "policy", p)
        PROVE  GovInv'
    <3>1. \A with \in Providers : [with EXCEPT !["policy"] = p] \in Providers BY GivenProviders
    <3>. QED BY <2>3, <3>1, SetInv
  <2>. QED BY <1>4, <2>1, <2>2, <2>3 DEF Gov!SetProvider
<1>5. ASSUME NEW e \in Executors, NEW s \in Shared, Gov!CallThrough(e, s) PROVE GovInv'
  <2>1. executor[e].own \in Providers BY DEF GovInv, ExecutorsAreTyped
  <2>2. ExecutorsAreTyped' BY <1>5 DEF Gov!CallThrough, GovInv, ExecutorsAreTyped
  <2>. QED BY <1>5, <2>1, <2>2, RebindInv DEF Gov!CallThrough
<1>6. ASSUME NEW e \in Executors, NEW config \in Configs, NEW p \in Policies \cup {None},
             Gov!OpenClient(e, config, p)
      PROVE  GovInv'
  <2> DEFINE own == [Gov!Nothing EXCEPT !.policy = p]
             gated == [own EXCEPT !.acl = config.acl]
             list == Gov!FromConfig(config.pipeline, own).steps
  <2>1. own \in Providers /\ gated \in Providers
    BY ProvidersAssumption DEF Gov!Nothing, Providers
  <2>2. Gov!Owns(e, list, gated) BY <1>6 DEF Gov!OpenClient
  <2>3. list \in StepLists BY <2>1, EditsAssumption, FromConfigLegal
  <2>. HIDE DEF own, gated, list
  <2>. QED BY <2>1, <2>2, <2>3, OwnsInv
<1>7. ASSUME NEW o \in Objects, NEW edit \in Edits, Gov!Edit(o, edit) PROVE GovInv'
  <2>1. Gov!Applied(steps[o], edit).steps \in StepLists
    BY EditsAssumption, AppliedLegal DEF GovInv, StrategiesAreLegal
  <2>2. steps' = [steps EXCEPT ![o] = Gov!Applied(steps[o], edit).steps] /\ executor' = executor
    BY <1>7 DEF Gov!Edit
  <2>. QED BY <2>1, <2>2 DEF GovInv, StrategiesAreLegal, ExecutorsAreTyped
<1>8. ASSUME NEW e \in Executors, NEW config \in Configs, Gov!OpenClientOn(e, config) PROVE GovInv'
  BY <1>0, <1>8 DEF Gov!OpenClientOn
<1>9. ASSUME NEW m, Gov!Register(m) \/ Gov!Unregister(m) PROVE GovInv'
  BY <1>0, <1>9 DEF Gov!Register, Gov!Unregister
<1>. QED BY <1>1, <1>2, <1>3, <1>4, <1>5, <1>6, <1>7, <1>8, <1>9 DEF Gov!Next, Objects

-----------------------------------------------------------------------------
(* A gate of a legal list holds no field that lets a call past it, so it    *)
(* decides by what it holds, which is what is reported.                     *)
LEMMA ReportedIsDone ==
  ASSUME GovInv, NEW e \in Executors, Gov!Built(e), ~Gov!UnprotectedControlSurface(e),
         Gov!GatesInFront(Gov!Running(e)), NEW m \in registered
  PROVE  \E i \in Gov!Before(Gov!Running(e)) :
           Gov!Stops(Gov!Running(e)[i], m) \/ Gov!Waived(Gov!Running(e)[i])
<1> DEFINE list == Gov!Running(e)
           own == executor[e].own
<1>1. list \in StepLists
  BY DEF Gov!Running, Gov!Built, GovInv, StrategiesAreLegal, ExecutorsAreTyped
<1>2. \A i \in DOMAIN list : list[i].kind \in {"acl_check", "approval_gate"} =>
        i \in Gov!Before(list) /\ list[i].fields \cap {"ignore_errors", "match_modules"} = {}
  <2>1. \A i \in DOMAIN list : list[i] \in LegalSteps BY <1>1 DEF StepLists
  <2>. QED BY <2>1 DEF Gov!GatesInFront, LegalSteps, LegalStep, Gov!GateFieldViolations
<1>3. \/ Gov!Holding(list, "acl_check", "acl", own) # {None} /\ Gov!Wired(list, "acl_check")
      \/ /\ Gov!Wired(list, "approval_gate") /\ registered \subseteq Demanding
         /\ \/ Gov!Holding(list, "approval_gate", "handler", own) # {None}
            \/ \E p \in Gov!Holding(list, "approval_gate", "policy", own) : p # None /\ p.strict
  BY DEF Gov!UnprotectedControlSurface
<1>. HIDE DEF list
<1>4. CASE Gov!Holding(list, "acl_check", "acl", own) # {None} /\ Gov!Wired(list, "acl_check")
  <2>1. PICK i \in DOMAIN list : list[i].kind = "acl_check" /\ list[i].with.acl # None
    BY <1>4 DEF Gov!Holding, Gov!Wired
  <2>2. i \in Gov!Before(list) /\ Gov!Stops(list[i], m) BY <1>2, <2>1 DEF Gov!Stops
  <2>. QED BY <2>2 DEF list
<1>5. CASE Gov!Wired(list, "approval_gate") /\ registered \subseteq Demanding
           /\ Gov!Holding(list, "approval_gate", "handler", own) # {None}
  <2>1. PICK i \in DOMAIN list : list[i].kind = "approval_gate" /\ list[i].with.handler # None
    BY <1>5 DEF Gov!Holding, Gov!Wired
  <2>2. i \in Gov!Before(list) /\ (Gov!Stops(list[i], m) \/ Gov!Waived(list[i]))
    BY <1>2, <1>5, <2>1 DEF Gov!Stops
  <2>. QED BY <2>2 DEF list
<1>6. CASE /\ Gov!Wired(list, "approval_gate") /\ registered \subseteq Demanding
           /\ \E p \in Gov!Holding(list, "approval_gate", "policy", own) : p # None /\ p.strict
  <2>1. PICK i \in DOMAIN list : /\ list[i].kind = "approval_gate" /\ list[i].with.policy # None
                                /\ list[i].with.policy.strict
    BY <1>6 DEF Gov!Holding, Gov!Wired
  <2>2. i \in Gov!Before(list) /\ (Gov!Stops(list[i], m) \/ Gov!Waived(list[i]))
    BY <1>2, <1>6, <2>1 DEF Gov!Stops
  <2>. QED BY <2>2 DEF list
<1>. QED BY <1>3, <1>4, <1>5, <1>6

(* Where a surface is reported, no gate has what it would stop a call with. *)
LEMMA UnprotectedIsOpen ==
  ASSUME NEW e \in Executors, Gov!UnprotectedControlSurface(e)
  PROVE  \E m \in registered :
           \A i \in Gov!Before(Gov!Running(e)) : ~Gov!Stops(Gov!Running(e)[i], m)
<1> DEFINE list == Gov!Running(e)
           own == executor[e].own
<1>1. /\ registered # {}
      /\ ~(Gov!Holding(list, "acl_check", "acl", own) # {None} /\ Gov!Wired(list, "acl_check"))
      /\ ~(/\ Gov!Wired(list, "approval_gate") /\ registered \subseteq Demanding
           /\ \/ Gov!Holding(list, "approval_gate", "handler", own) # {None}
              \/ \E p \in Gov!Holding(list, "approval_gate", "policy", own) : p # None /\ p.strict)
  BY DEF Gov!UnprotectedControlSurface
<1>. HIDE DEF list
<1>2. \A i \in DOMAIN list : list[i].kind = "acl_check" => list[i].with.acl = None
  BY <1>1 DEF Gov!Holding, Gov!Wired
<1>3. PICK m \in registered : m \in Demanding => registered \subseteq Demanding BY <1>1
<1>4. ASSUME NEW i \in DOMAIN list, list[i].kind = "approval_gate", registered \subseteq Demanding
      PROVE  list[i].with.handler = None
             /\ ~(list[i].with.policy # None /\ list[i].with.policy.strict)
  BY <1>1, <1>4 DEF Gov!Holding, Gov!Wired
<1>5. \A i \in Gov!Before(list) : ~Gov!Stops(list[i], m)
  BY <1>2, <1>3, <1>4 DEF Gov!Stops, Gov!Before
<1>. QED BY <1>5 DEF list

-----------------------------------------------------------------------------
(* The scan.  What is held below a directory met at a depth; of that, what   *)
(* a frame of the walk still owes by the entries it has left.                *)
Held(t, depth, dir) == Scan!PlainBelow(t)[MaxDepth + 1 - depth][dir]
InRoot(t, i) == Held(t, 1, t.roots[i].dir)
Leads(t, f, e, file) ==
  /\ ~e.skipped /\ ~e.link
  /\ \/ e.kind = "file" /\ file = e.to
     \/ e.kind = "dir" /\ file \in Held(t, f.depth + 1, e.to)
Owes(t, f, file) == \E e \in f.left : Leads(t, f, e, file)
WalkFrames(t) == [dir : Scan!Nodes(t), depth : 1..(MaxDepth + 1), left : SUBSET AllEntries(t)]
GoodFrame(t, follow, i, f) ==
  /\ f.dir \in t.inside[i] /\ f.left \subseteq Scan!EntriesOf(t, f.dir)
  /\ f.left # {} => f.depth <= MaxDepth
  /\ ~follow => Held(t, f.depth, f.dir) \subseteq InRoot(t, i)

LEMMA EntriesAre ==
  ASSUME NEW t
  PROVE  /\ \A e \in AllEntries(t) : e.to \in Scan!Nodes(t)
         /\ \A dir : Scan!EntriesOf(t, dir) \subseteq AllEntries(t)
         /\ \A dir, kind : Scan!Plain(t, dir, kind) \subseteq Scan!Nodes(t)
         /\ \A i \in DOMAIN t.roots : t.roots[i].dir \in Scan!Nodes(t)
<1>1. \A e \in AllEntries(t) : e.to \in Scan!Nodes(t) BY DEF AllEntries, Scan!Nodes
<1>2. ASSUME NEW dir PROVE Scan!EntriesOf(t, dir) \subseteq AllEntries(t)
  BY DEF AllEntries, Scan!EntriesOf
<1>3. \A dir, kind : Scan!Plain(t, dir, kind) \subseteq Scan!Nodes(t)
  BY <1>1, <1>2 DEF Scan!Plain
<1>4. \A i \in DOMAIN t.roots : t.roots[i].dir \in Scan!Nodes(t) BY DEF Scan!Nodes
<1>. QED BY <1>1, <1>2, <1>3, <1>4

\* What is held below a directory is its own files and what its directories hold.
LEMMA HeldIs ==
  ASSUME NEW t, NEW depth \in 1..(MaxDepth + 1), NEW dir \in Scan!Nodes(t)
  PROVE  /\ depth > MaxDepth => Held(t, depth, dir) = {}
         /\ depth <= MaxDepth =>
              Held(t, depth, dir) =
                Scan!Plain(t, dir, "file")
                \cup UNION {Held(t, depth + 1, d) : d \in Scan!Plain(t, dir, "dir")}
<1> DEFINE nodes == Scan!Nodes(t)
           S == [nodes -> SUBSET nodes]
           first == [d \in nodes |-> {}]
           Goes(below) == Scan!LevelUp(t, below)
           IsBelow(f) == f = [k \in 0..MaxDepth |-> IF k = 0 THEN first ELSE Goes(f[k - 1])]
           step == [p \in (1..MaxDepth) \X S |-> Goes(p[2])]
           below == CHOOSE f : IsBelow(f)
<1>1. Scan!PlainBelow(t) = below BY DEF Scan!PlainBelow
<1>2. MaxDepth \in Nat BY TreesAssumption
<1>3. first \in S OBVIOUS
<1>4. ASSUME NEW g \in S PROVE Goes(g) \in S
  <2>1. ASSUME NEW d \in nodes
        PROVE  Scan!Plain(t, d, "file") \cup UNION {g[x] : x \in Scan!Plain(t, d, "dir")}
                 \in SUBSET nodes
    <3>1. Scan!Plain(t, d, "file") \subseteq nodes /\ Scan!Plain(t, d, "dir") \subseteq nodes
      BY EntriesAre
    <3>. HIDE DEF nodes
    <3>. QED BY <3>1
  <2>. HIDE DEF nodes
  <2>2. Goes(g) = [d \in nodes |-> Scan!Plain(t, d, "file")
                                   \cup UNION {g[x] : x \in Scan!Plain(t, d, "dir")}]
    BY DEF Scan!LevelUp, nodes
  <2>. HIDE DEF Goes
  <2>. QED BY <2>1, <2>2
<1>. HIDE DEF Goes, S, first, nodes
<1>5. step \in [(1..MaxDepth) \X S -> S] BY <1>4
<1>6. \E f : IsBelow(f)
  <2>1. PICK f \in [0..MaxDepth -> S] : Follows(f, MaxDepth, first, step)
    <3>. HIDE DEF step
    <3>. QED BY <1>2, <1>3, <1>5, Recursion
  <2>2. ASSUME NEW k \in 0..MaxDepth PROVE f[k] = IF k = 0 THEN first ELSE Goes(f[k - 1])
    <3>1. CASE k = 0 BY <2>1, <3>1 DEF Follows
    <3>2. CASE k # 0
      <4>1. k \in 1..MaxDepth /\ k - 1 \in 0..MaxDepth BY <1>2, <3>2
      <4>2. f[k] = step[<<k, f[k - 1]>>] BY <2>1, <4>1 DEF Follows
      <4>3. <<k, f[k - 1]>> \in (1..MaxDepth) \X S BY <4>1
      <4>. QED BY <3>2, <4>2, <4>3
    <3>. QED BY <3>1, <3>2
  <2>3. f = [k \in 0..MaxDepth |-> f[k]] OBVIOUS
  <2>. QED BY <2>2, <2>3
<1>7. IsBelow(below)
  <2>. HIDE DEF IsBelow
  <2>. QED BY <1>6
<1>. HIDE DEF below
<1>8. \A k \in 0..MaxDepth : below[k] = IF k = 0 THEN first ELSE Goes(below[k - 1]) BY <1>7
<1>9. \A d : \A n \in Nat : Held(t, n, d) = below[MaxDepth + 1 - n][d] BY <1>1 DEF Held
<1>10. CASE depth > MaxDepth
  <2>1. MaxDepth + 1 - depth = 0 /\ 0 \in 0..MaxDepth BY <1>2, <1>10
  <2>2. Held(t, depth, dir) = first[dir] BY <1>8, <1>9, <2>1
  <2>3. first[dir] = {} BY DEF first, nodes
  <2>. QED BY <1>2, <1>10, <2>2, <2>3
<1>11. CASE depth <= MaxDepth
  <2>1. PICK k \in 1..MaxDepth : k = MaxDepth + 1 - depth BY <1>2, <1>11
  <2>2. k \in 0..MaxDepth /\ k # 0 /\ k - 1 = MaxDepth + 1 - (depth + 1) BY <1>2, <2>1
  <2>3. below[k] = Goes(below[k - 1]) BY <1>8, <2>2
  <2>4. \A d : Held(t, depth + 1, d) = below[k - 1][d]
    BY <1>2, <1>9, <2>2
  <2>5. Held(t, depth, dir) = below[k][dir] BY <1>9, <2>1
  <2>. HIDE DEF below
  <2>6. Goes(below[k - 1])[dir] =
          Scan!Plain(t, dir, "file")
          \cup UNION {below[k - 1][d] : d \in Scan!Plain(t, dir, "dir")}
    BY DEF Goes, Scan!LevelUp
  <2>. QED BY <1>2, <1>11, <2>3, <2>4, <2>5, <2>6
<1>. QED BY <1>2, <1>10, <1>11
\* A directory that is entered owes what it holds.
LEMMA FrameOpens ==
  ASSUME NEW t, NEW follow, NEW i, NEW dir \in Scan!Nodes(t), dir \in t.inside[i],
         NEW depth \in 1..(MaxDepth + 1),
         ~follow => Held(t, depth, dir) \subseteq InRoot(t, i),
         NEW f, f = [dir |-> dir, depth |-> depth,
                     left |-> IF depth > MaxDepth THEN {} ELSE Scan!EntriesOf(t, dir)]
  PROVE  /\ f \in WalkFrames(t) /\ GoodFrame(t, follow, i, f)
         /\ \A file \in Held(t, depth, dir) : Owes(t, f, file)
<1>1. /\ f.dir = dir /\ f.depth = depth /\ f.left \subseteq Scan!EntriesOf(t, dir)
      /\ depth <= MaxDepth => f.left = Scan!EntriesOf(t, dir)
      /\ f.left # {} => depth <= MaxDepth
  BY TreesAssumption
<1>2. f \in WalkFrames(t)
  <2>1. f.left \in SUBSET AllEntries(t) BY <1>1, EntriesAre
  <2>. QED BY <1>1, <2>1 DEF WalkFrames
<1>3. GoodFrame(t, follow, i, f) BY <1>1 DEF GoodFrame
<1>4. ASSUME NEW file \in Held(t, depth, dir) PROVE Owes(t, f, file)
  <2>1. depth <= MaxDepth BY <1>4, HeldIs, TreesAssumption
  <2>2. \/ file \in Scan!Plain(t, dir, "file")
        \/ \E d \in Scan!Plain(t, dir, "dir") : file \in Held(t, depth + 1, d)
    BY <1>4, <2>1, HeldIs
  <2>3. \E e \in Scan!EntriesOf(t, dir) :
          /\ ~e.skipped /\ ~e.link
          /\ \/ e.kind = "file" /\ file = e.to
             \/ e.kind = "dir" /\ file \in Held(t, depth + 1, e.to)
    BY <2>2 DEF Scan!Plain
  <2>. QED BY <1>1, <2>1, <2>3 DEF Owes, Leads
<1>. QED BY <1>2, <1>3, <1>4

\* A frame whose entry e is taken owes what it owed before, but for what e leads to.
LEMMA FrameTaken ==
  ASSUME NEW t, NEW follow, NEW i, NEW f \in WalkFrames(t), GoodFrame(t, follow, i, f),
         NEW e \in f.left, NEW g, g = [f EXCEPT !.left = f.left \ {e}]
  PROVE  /\ g \in WalkFrames(t) /\ GoodFrame(t, follow, i, g) /\ g.depth = f.depth
         /\ \A file : Owes(t, f, file) =>
              Owes(t, g, file) \/ Leads(t, f, e, file)
<1>1. g.dir = f.dir /\ g.depth = f.depth /\ g.left = f.left \ {e} BY DEF WalkFrames
<1>2. g \in WalkFrames(t) BY DEF WalkFrames
<1>3. GoodFrame(t, follow, i, g) BY <1>1 DEF GoodFrame
<1>. QED BY <1>1, <1>2, <1>3 DEF Owes, Leads

\* What an entry of a frame leads to.
MayBeTaken(t, follow, i, e) == ~e.skipped /\ (e.link => follow /\ e.to \in t.inside[i])
LeadsInside(t, follow, i, f, e) ==
  /\ e \in AllEntries(t) /\ e.to \in Scan!Nodes(t) /\ e.to \in t.inside[i]
  /\ f.depth + 1 \in 1..(MaxDepth + 1)
  /\ ~follow =>
       /\ e.kind = "file" => e.to \in InRoot(t, i)
       /\ e.kind = "dir" => Held(t, f.depth + 1, e.to) \subseteq InRoot(t, i)
LEMMA EntryLeads ==
  ASSUME NEW t \in Trees, NEW follow, NEW i \in DOMAIN t.roots, NEW f \in WalkFrames(t),
         GoodFrame(t, follow, i, f), NEW e \in f.left,
         MayBeTaken(t, follow, i, e)
  PROVE  LeadsInside(t, follow, i, f, e)
<1>1. e \in AllEntries(t) /\ e \in Scan!EntriesOf(t, f.dir) BY EntriesAre DEF GoodFrame
<1>2. e.to \in Scan!Nodes(t) BY <1>1, EntriesAre
<1>3. f.dir \in DOMAIN t.entries /\ e \in t.entries[f.dir] BY <1>1 DEF Scan!EntriesOf
<1>4. e.to \in t.inside[i]
  BY <1>3, TreesAssumption DEF GoodFrame, FileSystem, MayBeTaken
<1>5. f.depth \in 1..(MaxDepth + 1) /\ f.depth <= MaxDepth /\ f.dir \in Scan!Nodes(t)
  BY DEF GoodFrame, WalkFrames
<1>6. MaxDepth \in Nat BY TreesAssumption
<1>7. f.depth + 1 \in 1..(MaxDepth + 1) BY <1>5, <1>6
<1>8. ASSUME ~follow
      PROVE  /\ e.kind = "file" => e.to \in Held(t, f.depth, f.dir)
             /\ e.kind = "dir" => Held(t, f.depth + 1, e.to) \subseteq Held(t, f.depth, f.dir)
  <2>1. \A kind : e.kind = kind => e.to \in Scan!Plain(t, f.dir, kind)
    BY <1>1, <1>8 DEF Scan!Plain, MayBeTaken
  <2>2. Held(t, f.depth, f.dir) =
          Scan!Plain(t, f.dir, "file")
          \cup UNION {Held(t, f.depth + 1, d) : d \in Scan!Plain(t, f.dir, "dir")}
    BY <1>5, HeldIs
  <2>. QED BY <2>1, <2>2
<1>. QED BY <1>1, <1>2, <1>4, <1>7, <1>8 DEF GoodFrame, LeadsInside

-----------------------------------------------------------------------------
(* The walk: the directories on the stack are inside of the root, and none   *)
(* but plain ones unless links are followed; what it has seen of this root   *)
(* has its id; what it has not seen some frame still owes.                   *)
HasId(found, i, file) == \E m \in found : m.root = i /\ m.id = IdOf[file]
FoundAre(t, follow, i, seen, found) ==
  /\ \A m \in found :
       /\ m.root \in 1..i /\ m.id = IdOf[m.file] /\ m.file \in t.inside[m.root]
       /\ follow \/ m.file \in InRoot(t, m.root)
       /\ m.root = i => m.file \in seen
  /\ \A m, n \in found : m.root = n.root /\ m.id = n.id => m = n
  /\ \A e \in AllEntries(t) : e.kind = "file" /\ e.to \in seen => HasId(found, i, e.to)
Owed(t, list, file) == \E k \in 1..Len(list) : Owes(t, list[k], file)
RootsAreCovered(t, i, list, found) ==
  \A r \in 1..i : \A file \in InRoot(t, r) :
    HasId(found, r, file) \/ (r = i /\ Owed(t, list, file))
WalkIsGood(t, follow, i, list) ==
  /\ list \in Seq(WalkFrames(t))
  /\ list # <<>> => i \in DOMAIN t.roots
  /\ \A k \in 1..Len(list) : GoodFrame(t, follow, i, list[k])
ScanInv ==
  /\ tree \in Trees /\ walked \in Nat /\ walked <= Len(tree.roots)
  /\ WalkIsGood(tree, following, walked, frames)
  /\ FoundAre(tree, following, walked, realPaths, discoveries)
  /\ RootsAreCovered(tree, walked, frames, discoveries)
LEMMA ScanInitInv == Scan!Init => ScanInv
<1>. SUFFICES ASSUME Scan!Init PROVE ScanInv OBVIOUS
<1>1. /\ tree \in Trees /\ walked = 0 /\ frames = <<>> /\ realPaths = {} /\ discoveries = {}
  BY DEF Scan!Init
<1>2. Len(tree.roots) \in Nat BY <1>1, TreesAssumption DEF FileSystem
<1>3. WalkIsGood(tree, following, walked, frames) BY <1>1 DEF WalkIsGood
<1>4. FoundAre(tree, following, walked, realPaths, discoveries) BY <1>1 DEF FoundAre
<1>5. RootsAreCovered(tree, walked, frames, discoveries) BY <1>1 DEF RootsAreCovered
<1>. QED BY <1>1, <1>2, <1>3, <1>4, <1>5 DEF ScanInv

\* The stack once the top frame has taken an entry: it owes what it owed, but for what that
\* leads to.
TopTook(t, follow, i, list, e, rest) ==
  /\ WalkIsGood(t, follow, i, rest) /\ Len(rest) = Len(list)
  /\ \A file : Owed(t, list, file) => Owed(t, rest, file) \/ Leads(t, list[Len(list)], e, file)
LEMMA EntryTaken ==
  ASSUME NEW t, NEW follow, NEW i, NEW list, WalkIsGood(t, follow, i, list), list # <<>>,
         NEW e \in list[Len(list)].left
  PROVE  TopTook(t, follow, i, list, e, [list EXCEPT ![Len(list)].left = @ \ {e}])
<1> DEFINE f == list[Len(list)]
           g == [f EXCEPT !.left = f.left \ {e}]
           rest == [list EXCEPT ![Len(list)].left = @ \ {e}]
<1>1. list \in Seq(WalkFrames(t)) /\ Len(list) \in Nat /\ Len(list) >= 1
      /\ DOMAIN list = 1..Len(list) /\ f \in WalkFrames(t)
  BY TopOf DEF WalkIsGood
<1>2. Len(list) \in 1..Len(list) BY <1>1
<1>3. GoodFrame(t, follow, i, f) BY <1>2 DEF WalkIsGood
<1>4. /\ g \in WalkFrames(t) /\ GoodFrame(t, follow, i, g)
      /\ \A file : Owes(t, f, file) => Owes(t, g, file) \/ Leads(t, f, e, file)
  <2>. HIDE DEF f, g
  <2>1. e \in f.left BY DEF f
  <2>2. g = [f EXCEPT !.left = f.left \ {e}] BY DEF g
  <2>3. f \in WalkFrames(t) BY <1>1
  <2>. QED BY <1>3, <2>1, <2>2, <2>3, FrameTaken
<1>5. rest = [list EXCEPT ![Len(list)] = g] OBVIOUS
<1>. HIDE DEF g, rest
<1>6. /\ rest \in Seq(WalkFrames(t)) /\ Len(rest) = Len(list)
      /\ \A j \in 1..Len(list) : rest[j] = IF j = Len(list) THEN g ELSE list[j]
  BY <1>1, <1>2, <1>4, <1>5, ExceptSeq
<1>7. rest[Len(list)] = g BY <1>2, <1>6
<1>8. \A j \in 1..Len(list) : j # Len(list) => rest[j] = list[j] BY <1>6
<1>. HIDE DEF f
<1>9. WalkIsGood(t, follow, i, rest)
  <2>1. \A k \in 1..Len(rest) : GoodFrame(t, follow, i, rest[k])
    BY <1>4, <1>6, <1>7, <1>8 DEF WalkIsGood
  <2>. QED BY <1>6, <2>1 DEF WalkIsGood
<1>10. ASSUME NEW file, Owed(t, list, file)
       PROVE  Owed(t, rest, file) \/ Leads(t, f, e, file)
  <2>1. PICK k \in 1..Len(list) : Owes(t, list[k], file) BY <1>10 DEF Owed
  <2>2. CASE k = Len(list)
    <3>1. Owes(t, g, file) \/ Leads(t, f, e, file) BY <1>4, <2>1, <2>2 DEF f
    <3>. QED BY <1>2, <1>6, <1>7, <3>1 DEF Owed
  <2>3. CASE k # Len(list) BY <1>6, <1>8, <2>1, <2>3 DEF Owed
  <2>. QED BY <2>2, <2>3
<1>. QED BY <1>6, <1>9, <1>10 DEF TopTook, f, rest

\* The stack with another frame on it.
LEMMA FrameAdded ==
  ASSUME NEW t, NEW follow, NEW i \in DOMAIN t.roots, NEW list,
         WalkIsGood(t, follow, i, list),
         NEW f \in WalkFrames(t), GoodFrame(t, follow, i, f)
  PROVE  /\ WalkIsGood(t, follow, i, Append(list, f))
         /\ \A file : Owed(t, list, file) \/ Owes(t, f, file) => Owed(t, Append(list, f), file)
<1> DEFINE more == Append(list, f)
<1>1. PICK n : n = Len(list) OBVIOUS
<1>2. n \in Nat /\ list \in Seq(WalkFrames(t)) BY <1>1 DEF WalkIsGood
<1>3. /\ more \in Seq(WalkFrames(t)) /\ Len(more) = n + 1 /\ more[n + 1] = f
      /\ \A k \in 1..n : more[k] = list[k]
  BY <1>1, <1>2, AppendProperties
<1>. HIDE DEF more
<1>4. \A k \in 1..(n + 1) : k \in 1..n \/ k = n + 1 BY <1>2
<1>5. n + 1 \in 1..(n + 1) /\ \A k \in 1..n : k \in 1..(n + 1) BY <1>2
<1>6. WalkIsGood(t, follow, i, more)
  <2>1. \A k \in 1..Len(more) : GoodFrame(t, follow, i, more[k])
    BY <1>1, <1>3, <1>4 DEF WalkIsGood
  <2>. QED BY <1>3, <2>1 DEF WalkIsGood
<1>7. \A file : Owed(t, list, file) \/ Owes(t, f, file) => Owed(t, more, file)
  BY <1>1, <1>3, <1>5 DEF Owed
<1>. QED BY <1>6, <1>7 DEF more

\* The stack without a frame that has nothing left.
LEMMA FrameRemoved ==
  ASSUME NEW t, NEW follow, NEW i, NEW list, WalkIsGood(t, follow, i, list), list # <<>>,
         list[Len(list)].left = {}
  PROVE  /\ WalkIsGood(t, follow, i, Scan!Front(list))
         /\ \A file : Owed(t, list, file) => Owed(t, Scan!Front(list), file)
<1> DEFINE less == Disc!Front(list)
<1>1. PICK n : n = Len(list) OBVIOUS
<1>2. /\ n \in Nat /\ n >= 1 /\ less \in Seq(WalkFrames(t)) /\ Len(less) = n - 1
      /\ \A k \in 1..(n - 1) : less[k] = list[k]
  BY <1>1, TopOf DEF WalkIsGood
<1>3. less = Scan!Front(list) BY DEF Disc!Front, Scan!Front
<1>. HIDE DEF less
<1>4. \A k \in 1..n : k \in 1..(n - 1) \/ k = n BY <1>2
<1>5. \A k \in 1..(n - 1) : k \in 1..n BY <1>2
<1>6. WalkIsGood(t, follow, i, less)
  <2>1. \A k \in 1..Len(less) : GoodFrame(t, follow, i, less[k])
    BY <1>1, <1>2, <1>5 DEF WalkIsGood
  <2>2. i \in DOMAIN t.roots BY DEF WalkIsGood
  <2>. QED BY <1>2, <2>1, <2>2 DEF WalkIsGood
<1>7. \A file : ~Owes(t, list[n], file) BY <1>1 DEF Owes
<1>8. \A file : Owed(t, list, file) => Owed(t, less, file)
  BY <1>1, <1>2, <1>4, <1>7 DEF Owed
<1>. QED BY <1>3, <1>6, <1>8
-----------------------------------------------------------------------------
(* The steps of the scan keep it, those that find nothing first.             *)
\* What is covered stays so while what is found and owed does not shrink.
LEMMA StaysCovered ==
  ASSUME NEW t, NEW i, NEW list, NEW found, RootsAreCovered(t, i, list, found),
         NEW rest, NEW more, found \subseteq more,
         \A file : Owed(t, list, file) => Owed(t, rest, file) \/ HasId(more, i, file)
  PROVE  RootsAreCovered(t, i, rest, more)
<1>1. \A r, file : HasId(found, r, file) => HasId(more, r, file) BY DEF HasId
<1>2. ASSUME NEW r \in 1..i, NEW file \in InRoot(t, r)
      PROVE  HasId(more, r, file) \/ (r = i /\ Owed(t, rest, file))
  <2>1. HasId(found, r, file) \/ (r = i /\ Owed(t, list, file)) BY DEF RootsAreCovered
  <2>2. CASE r = i /\ Owed(t, list, file)
    <3>1. Owed(t, rest, file) \/ HasId(more, i, file) BY <2>2
    <3>. QED BY <2>2, <3>1
  <2>. QED BY <1>1, <2>1, <2>2
<1>. QED BY <1>2 DEF RootsAreCovered

\* With nothing on the stack nothing is owed; the next root owes what it holds.
LEMMA NextRootInv == ASSUME ScanInv, Scan!NextRoot PROVE ScanInv'
<1> DEFINE t == tree
           i == walked + 1
           dir == tree.roots[i].dir
           f == [dir |-> dir, depth |-> 1,
                 left |-> IF 1 > MaxDepth THEN {} ELSE Scan!EntriesOf(t, dir)]
           list == Append(<<>>, f)
<1>1. /\ tree' = tree /\ following' = following /\ walked' = i /\ frames' = <<f>>
      /\ realPaths' = {dir} /\ discoveries' = discoveries /\ frames = <<>>
      /\ walked < Len(tree.roots)
  BY DEF Scan!NextRoot, Scan!StartRoot, Scan!Frame, Scan!Entries
<1>2. t \in Trees /\ walked \in Nat /\ Len(t.roots) \in Nat /\ DOMAIN t.roots = 1..Len(t.roots)
  BY TreesAssumption DEF ScanInv, FileSystem
<1>3. i \in DOMAIN t.roots /\ i \in Nat /\ i <= Len(t.roots) BY <1>1, <1>2
<1>4. dir \in Scan!Nodes(t) /\ dir \in t.inside[i]
  BY <1>2, <1>3, EntriesAre, TreesAssumption DEF FileSystem
<1>5. \A e \in AllEntries(t) : e.kind = "file" => e.to # dir
  BY <1>2, <1>3, TreesAssumption DEF FileSystem
<1>6. 1 \in 1..(MaxDepth + 1) BY TreesAssumption
<1>7. Held(t, 1, dir) = InRoot(t, i) BY DEF InRoot
<1>. HIDE DEF i, dir
<1>8. /\ f \in WalkFrames(t) /\ GoodFrame(t, following, i, f)
      /\ \A file \in InRoot(t, i) : Owes(t, f, file)
  <2>1. Held(t, 1, dir) \subseteq InRoot(t, i) BY <1>7
  <2>2. f = [dir |-> dir, depth |-> 1,
             left |-> IF 1 > MaxDepth THEN {} ELSE Scan!EntriesOf(t, dir)]
    OBVIOUS
  <2>. HIDE DEF f, t
  <2>. QED BY <1>4, <1>6, <1>7, <2>1, <2>2, FrameOpens
<1>. HIDE DEF f
<1>9. WalkIsGood(t, following, i, <<>>) BY DEF WalkIsGood
<1>10. /\ WalkIsGood(t, following, i, list)
       /\ \A file : Owes(t, f, file) => Owed(t, list, file)
  <2>. HIDE DEF t
  <2>. QED BY <1>3, <1>8, <1>9, FrameAdded
<1>11. list = <<f>> OBVIOUS
<1>. HIDE DEF list
<1>12. FoundAre(t, following, i, {dir}, discoveries)
  <2>1. FoundAre(t, following, walked, realPaths, discoveries) BY DEF ScanInv
  <2>2. \A r \in 1..walked : r \in 1..i /\ r # i BY <1>2 DEF i
  <2>. QED BY <1>5, <2>1, <2>2 DEF FoundAre
<1>13. RootsAreCovered(t, i, list, discoveries)
  <2>1. RootsAreCovered(t, walked, <<>>, discoveries) BY <1>1 DEF ScanInv
  <2>2. \A r \in 1..i : r \in 1..walked \/ r = i BY <1>2 DEF i
  <2>3. \A file : ~Owed(t, <<>>, file) BY DEF Owed
  <2>. QED BY <1>8, <1>10, <2>1, <2>2, <2>3 DEF RootsAreCovered
<1>. QED BY <1>1, <1>2, <1>3, <1>10, <1>11, <1>12, <1>13 DEF ScanInv

LEMMA ReturnInv == ASSUME ScanInv, Scan!Return PROVE ScanInv'
<1>1. /\ tree' = tree /\ following' = following /\ walked' = walked
      /\ realPaths' = realPaths /\ discoveries' = discoveries /\ frames # <<>>
      /\ frames[Len(frames)].left = {} /\ frames' = Scan!Front(frames)
  BY DEF Scan!Return, Scan!Top
<1>2. /\ WalkIsGood(tree, following, walked, Scan!Front(frames))
      /\ \A file : Owed(tree, frames, file) => Owed(tree, Scan!Front(frames), file)
  BY <1>1, FrameRemoved DEF ScanInv
<1>3. RootsAreCovered(tree, walked, Scan!Front(frames), discoveries)
  BY <1>2, StaysCovered DEF ScanInv
<1>. QED BY <1>1, <1>2, <1>3 DEF ScanInv

\* What a step that takes an entry starts from.
Takes(e) ==
  /\ ScanInv /\ frames # <<>> /\ e \in frames[Len(frames)].left
  /\ UNCHANGED <<tree, following, walked>>
LEMMA TakesFrom ==
  ASSUME NEW e, Takes(e)
  PROVE  LET f == frames[Len(frames)]
         IN /\ TopTook(tree, following, walked, frames, e, Scan!Taken(e))
            /\ tree \in Trees /\ walked \in DOMAIN tree.roots /\ f \in WalkFrames(tree)
            /\ GoodFrame(tree, following, walked, f)
            /\ Scan!Top = f /\ e \in f.left /\ e \in AllEntries(tree)
<1> DEFINE f == frames[Len(frames)]
<1>1. ScanInv /\ frames # <<>> /\ e \in f.left BY DEF Takes
<1>2. WalkIsGood(tree, following, walked, frames) BY <1>1 DEF ScanInv
<1>3. TopTook(tree, following, walked, frames, e, Scan!Taken(e))
  BY <1>1, <1>2, EntryTaken DEF Scan!Taken
<1>4. walked \in DOMAIN tree.roots /\ frames \in Seq(WalkFrames(tree))
  BY <1>1, <1>2 DEF WalkIsGood
<1>5. Len(frames) \in 1..Len(frames) /\ f \in WalkFrames(tree) BY <1>1, <1>4, TopOf
<1>6. GoodFrame(tree, following, walked, f) BY <1>2, <1>5 DEF WalkIsGood
<1>7. e \in AllEntries(tree) BY <1>1, <1>6, EntriesAre DEF GoodFrame
<1>. QED BY <1>1, <1>3, <1>4, <1>5, <1>6, <1>7 DEF ScanInv, Scan!Top

LEMMA TakesNothing ==
  ASSUME NEW e, Takes(e), \A file : ~Leads(tree, frames[Len(frames)], e, file),
         frames' = Scan!Taken(e), UNCHANGED <<realPaths, discoveries>>
  PROVE  ScanInv'
<1>1. TopTook(tree, following, walked, frames, e, Scan!Taken(e)) BY TakesFrom
<1>2. WalkIsGood(tree, following, walked, Scan!Taken(e)) BY <1>1 DEF TopTook
<1>3. \A file : Owed(tree, frames, file) => Owed(tree, Scan!Taken(e), file)
  BY <1>1 DEF TopTook
<1>4. ScanInv BY DEF Takes
<1>5. RootsAreCovered(tree, walked, Scan!Taken(e), discoveries)
  BY <1>3, <1>4, StaysCovered DEF ScanInv
<1>. QED BY <1>2, <1>4, <1>5 DEF ScanInv, Takes

\* A directory that is entered: directories are no files.
LEMMA EntersDir ==
  ASSUME NEW e, Takes(e), ~Scan!Skipped(e), e.kind = "dir",
         frames' = Append(Scan!Taken(e), Scan!Frame(e.to, Scan!Top.depth + 1)),
         realPaths' = IF e.link THEN realPaths \cup {e.to} ELSE realPaths,
         UNCHANGED discoveries
  PROVE  ScanInv'
<1> DEFINE top == frames[Len(frames)]
           f == [dir |-> e.to, depth |-> top.depth + 1,
                 left |-> IF top.depth + 1 > MaxDepth THEN {} ELSE Scan!EntriesOf(tree, e.to)]
           rest == Scan!Taken(e)
           more == Append(rest, f)
<1>1. /\ TopTook(tree, following, walked, frames, e, rest)
      /\ tree \in Trees /\ walked \in DOMAIN tree.roots /\ top \in WalkFrames(tree)
      /\ GoodFrame(tree, following, walked, top)
      /\ Scan!Top = top /\ e \in top.left /\ e \in AllEntries(tree)
  BY TakesFrom
<1>2. ScanInv /\ UNCHANGED <<tree, following, walked>> BY DEF Takes
<1>3. frames' = more BY <1>1 DEF Scan!Frame, Scan!Entries
<1>. HIDE DEF top, rest
<1>4. MayBeTaken(tree, following, walked, e) BY DEF Scan!Skipped, MayBeTaken
<1>5. /\ e.to \in Scan!Nodes(tree) /\ e.to \in tree.inside[walked]
      /\ top.depth + 1 \in 1..(MaxDepth + 1)
      /\ ~following => Held(tree, top.depth + 1, e.to) \subseteq InRoot(tree, walked)
  <2>1. LeadsInside(tree, following, walked, top, e) BY <1>1, <1>4, EntryLeads
  <2>. QED BY <2>1 DEF LeadsInside
<1>6. /\ f \in WalkFrames(tree) /\ GoodFrame(tree, following, walked, f)
      /\ \A file \in Held(tree, top.depth + 1, e.to) : Owes(tree, f, file)
  <2>1. f = [dir |-> e.to, depth |-> top.depth + 1,
             left |-> IF top.depth + 1 > MaxDepth THEN {} ELSE Scan!EntriesOf(tree, e.to)]
    OBVIOUS
  <2>. HIDE DEF f
  <2>. QED BY <1>5, <2>1, FrameOpens
<1>. HIDE DEF f
<1>7. WalkIsGood(tree, following, walked, rest) BY <1>1 DEF TopTook
<1>8. /\ WalkIsGood(tree, following, walked, more)
      /\ \A file : Owed(tree, rest, file) \/ Owes(tree, f, file) => Owed(tree, more, file)
  BY <1>1, <1>6, <1>7, FrameAdded
<1>9. \A file : Owed(tree, frames, file) => Owed(tree, more, file)
  <2>1. \A file : Leads(tree, top, e, file) => Owes(tree, f, file) BY <1>6 DEF Leads
  <2>. QED BY <1>1, <1>8, <2>1 DEF TopTook, top
<1>. HIDE DEF more
<1>10. RootsAreCovered(tree, walked, more, discoveries)
  BY <1>2, <1>9, StaysCovered DEF ScanInv
<1>11. FoundAre(tree, following, walked, realPaths', discoveries)
  <2>1. FoundAre(tree, following, walked, realPaths, discoveries) BY <1>2 DEF ScanInv
  <2>2. \A d \in AllEntries(tree) : d.kind = "file" => d.to # e.to
    BY <1>1, TreesAssumption DEF FileSystem
  <2>3. realPaths \subseteq realPaths' /\ realPaths' \subseteq realPaths \cup {e.to} OBVIOUS
  <2>. QED BY <2>1, <2>2, <2>3 DEF FoundAre
<1>. QED BY <1>2, <1>3, <1>8, <1>10, <1>11 DEF ScanInv

LEMMA VisitDirInv == ASSUME NEW e, Takes(e), Scan!VisitDir(e) PROVE ScanInv'
<1>1. ~Scan!Skipped(e) /\ e.kind = "dir" /\ UNCHANGED discoveries BY DEF Scan!VisitDir
<1>2. CASE e.link /\ e.to \in realPaths
  <2>1. frames' = Scan!Taken(e) /\ UNCHANGED realPaths BY <1>2 DEF Scan!VisitDir
  <2>2. \A file : ~Leads(tree, frames[Len(frames)], e, file) BY <1>2 DEF Leads
  <2>. QED BY <1>1, <2>1, <2>2, TakesNothing
<1>3. CASE ~(e.link /\ e.to \in realPaths)
  <2>1. /\ frames' = Append(Scan!Taken(e), Scan!Frame(e.to, Scan!Top.depth + 1))
        /\ realPaths' = IF e.link THEN realPaths \cup {e.to} ELSE realPaths
    BY <1>3 DEF Scan!VisitDir
  <2>. QED BY <1>1, <2>1, EntersDir
<1>. QED BY <1>2, <1>3

\* A file that is seen has its id: it was found, or another file had the id.
LEMMA VisitFileInv == ASSUME NEW e, Takes(e), Scan!VisitFile(e) PROVE ScanInv'
<1> DEFINE top == frames[Len(frames)]
           rest == Scan!Taken(e)
           new == [file |-> e.to, root |-> walked, id |-> IdOf[e.to], meta |-> top.dir]
           old == e.to \in realPaths \/ HasId(discoveries, walked, e.to)
<1>1. /\ TopTook(tree, following, walked, frames, e, rest)
      /\ tree \in Trees /\ walked \in DOMAIN tree.roots /\ top \in WalkFrames(tree)
      /\ GoodFrame(tree, following, walked, top)
      /\ Scan!Top = top /\ e \in top.left /\ e \in AllEntries(tree)
  BY TakesFrom
<1>2. ScanInv /\ UNCHANGED <<tree, following, walked>> BY DEF Takes
<1>3. /\ ~Scan!Skipped(e) /\ e.kind = "file" /\ frames' = rest
      /\ realPaths' = realPaths \cup {e.to}
      /\ discoveries' = IF old THEN discoveries ELSE discoveries \cup {new}
  BY <1>1 DEF Scan!VisitFile, HasId
<1>. HIDE DEF top, rest
<1>4. MayBeTaken(tree, following, walked, e) BY <1>3 DEF Scan!Skipped, MayBeTaken
<1>5. e.to \in tree.inside[walked] /\ (~following => e.to \in InRoot(tree, walked))
  <2>1. LeadsInside(tree, following, walked, top, e) BY <1>1, <1>4, EntryLeads
  <2>. QED BY <1>3, <2>1 DEF LeadsInside
<1>6. FoundAre(tree, following, walked, realPaths, discoveries) BY <1>2 DEF ScanInv
<1>7. /\ new.file = e.to /\ new.root = walked /\ new.id = IdOf[e.to] OBVIOUS
<1>. HIDE DEF new
<1>8. walked \in 1..walked
  <2>1. walked \in Nat /\ walked # 0 BY <1>1, <1>2, TreesAssumption DEF ScanInv, FileSystem
  <2>. QED BY <2>1
<1>9. HasId(discoveries', walked, e.to)
  <2>1. CASE old
    <3>1. HasId(discoveries, walked, e.to) BY <1>1, <1>3, <1>6, <2>1 DEF FoundAre
    <3>. QED BY <1>3, <2>1, <3>1
  <2>2. CASE ~old BY <1>3, <1>7, <2>2 DEF HasId
  <2>. QED BY <2>1, <2>2
<1>10. FoundAre(tree, following, walked, realPaths', discoveries')
  <2>1. ASSUME NEW m \in discoveries'
        PROVE  /\ m.root \in 1..walked /\ m.id = IdOf[m.file] /\ m.file \in tree.inside[m.root]
               /\ following \/ m.file \in InRoot(tree, m.root)
               /\ m.root = walked => m.file \in realPaths'
    <3>1. CASE m \in discoveries BY <1>3, <1>6, <3>1 DEF FoundAre
    <3>2. CASE m = new BY <1>3, <1>5, <1>7, <1>8, <3>2
    <3>. QED BY <1>3, <3>1, <3>2
  <2>2. ASSUME NEW m \in discoveries', NEW n \in discoveries', m.root = n.root, m.id = n.id
        PROVE  m = n
    <3>1. CASE old BY <1>3, <1>6, <2>2, <3>1 DEF FoundAre
    <3>2. CASE ~old
      <4>1. \A d \in discoveries : ~(d.root = new.root /\ d.id = new.id)
        BY <1>7, <3>2 DEF HasId
      <4>. QED BY <1>3, <1>6, <2>2, <3>2, <4>1 DEF FoundAre
    <3>. QED BY <3>1, <3>2
  <2>3. ASSUME NEW d \in AllEntries(tree), d.kind = "file", d.to \in realPaths'
        PROVE  HasId(discoveries', walked, d.to)
    <3>1. CASE d.to = e.to BY <1>9, <3>1
    <3>2. CASE d.to \in realPaths
      <4>1. HasId(discoveries, walked, d.to) BY <1>6, <2>3, <3>2 DEF FoundAre
      <4>. QED BY <1>3, <4>1 DEF HasId
    <3>. QED BY <1>3, <2>3, <3>1, <3>2
  <2>. QED BY <2>1, <2>2, <2>3 DEF FoundAre
<1>11. RootsAreCovered(tree, walked, rest, discoveries')
  <2>1. discoveries \subseteq discoveries' BY <1>3
  <2>2. \A file : Leads(tree, top, e, file) => file = e.to BY <1>3 DEF Leads
  <2>3. \A file : Owed(tree, frames, file) =>
          Owed(tree, rest, file) \/ HasId(discoveries', walked, file)
    BY <1>1, <1>9, <2>2 DEF TopTook, top
  <2>. QED BY <1>2, <2>1, <2>3, StaysCovered DEF ScanInv
<1>12. WalkIsGood(tree, following, walked, rest) BY <1>1 DEF TopTook
<1>. QED BY <1>2, <1>3, <1>10, <1>11, <1>12 DEF ScanInv

LEMMA ScanNextInv == ASSUME ScanInv, Scan!Next PROVE ScanInv'
<1>1. CASE Scan!NextRoot BY <1>1, NextRootInv
<1>2. CASE Scan!Return BY <1>2, ReturnInv
<1>3. ASSUME frames # <<>>, NEW e \in Scan!Top.left, Scan!Visit(e),
             UNCHANGED <<tree, following, walked>>
      PROVE  ScanInv'
  <2>1. Takes(e) BY <1>3 DEF Takes, Scan!Top
  <2>2. CASE Scan!VisitDir(e) BY <2>1, <2>2, VisitDirInv
  <2>3. CASE Scan!VisitFile(e) BY <2>1, <2>3, VisitFileInv
  <2>4. CASE /\ Scan!Skipped(e) \/ e.kind = "other"
             /\ frames' = Scan!Taken(e) /\ UNCHANGED <<realPaths, discoveries>>
    <3>1. \A file : ~Leads(tree, frames[Len(frames)], e, file)
      BY <2>4 DEF Leads, Scan!Skipped
    <3>. QED BY <2>1, <2>4, <3>1, TakesNothing
  <2>. QED BY <1>3, <2>2, <2>3, <2>4 DEF Scan!Visit
<1>. QED BY <1>1, <1>2, <1>3 DEF Scan!Next

LEMMA ScanStutterInv == ASSUME ScanInv, UNCHANGED scanned PROVE ScanInv'
BY DEF ScanInv, scanned

LEMMA ScansAreSound == ASSUME ScanInv PROVE ScanIsSound
<1>1. FoundAre(tree, following, walked, realPaths, discoveries)
      /\ RootsAreCovered(tree, walked, frames, discoveries)
  BY DEF ScanInv
<1>2. Len(tree.roots) \in Nat /\ DOMAIN tree.roots = 1..Len(tree.roots) /\ walked \in Nat
      /\ walked <= Len(tree.roots)
  BY TreesAssumption DEF ScanInv, FileSystem
<1>3. \A i : Scan!PlainFiles(i) = InRoot(tree, i)
  <2>1. MaxDepth + 1 - 1 = MaxDepth BY TreesAssumption
  <2>. QED BY <2>1 DEF InRoot, Held, Scan!PlainFiles
<1>4. \A m, n \in discoveries :
        m.root = n.root /\ (m.id = n.id \/ m.file = n.file) => m = n
  BY <1>1 DEF FoundAre
<1>5. \A m \in discoveries : /\ m.file \in tree.inside[m.root]
                             /\ following \/ m.file \in Scan!PlainFiles(m.root)
  BY <1>1, <1>3 DEF FoundAre
<1>6. ASSUME Scan!Finished, ~Scan!DuplicateNamespace(tree.roots), NEW i \in DOMAIN tree.roots,
             NEW file \in Scan!PlainFiles(i)
      PROVE  \E m \in discoveries : m.root = i /\ m.id = IdOf[file]
  <2>1. frames = <<>> /\ i \in 1..walked BY <1>2, <1>6 DEF Scan!Finished
  <2>2. ~Owed(tree, frames, file) BY <2>1 DEF Owed
  <2>. QED BY <1>1, <1>3, <1>6, <2>1, <2>2 DEF RootsAreCovered, HasId
<1>. QED BY <1>4, <1>5, <1>6 DEF ScanIsSound, Scan!ScanIsSound

-----------------------------------------------------------------------------
OrderInv == toOrder \in Batches
CatalogInv == GovInv /\ DiscInv /\ OrderInv /\ ScanInv

LEMMA CatalogInvariant == CatalogSpec => []CatalogInv
<1>1. CatalogInit => CatalogInv
  BY GovInitInv, DiscInitInv, ScanInitInv DEF CatalogInit, CatalogInv, OrderInv
<1>2. CatalogInv /\ [CatalogNext]_catalog => CatalogInv'
  <2>1. GovInv /\ UNCHANGED governing => GovInv'
    BY DEF governing, GovInv, StrategiesAreLegal, ExecutorsAreTyped
  <2>2. GovInv /\ GovernanceMoves => GovInv' BY GovNextInv DEF GovernanceMoves
  <2>3. DiscInv /\ UNCHANGED discovered => DiscInv' BY DiscStutterInv
  <2>4. DiscInv /\ DiscoveryMoves => DiscInv' BY DiscNextInv DEF DiscoveryMoves
  <2>5. ScanInv /\ UNCHANGED scanned => ScanInv' BY ScanStutterInv
  <2>6. ScanInv /\ ScanMoves => ScanInv' BY ScanNextInv DEF ScanMoves
  <2>7. OrderInv /\ UNCHANGED toOrder => OrderInv' BY DEF OrderInv
  <2>8. [CatalogNext]_catalog => UNCHANGED toOrder BY DEF CatalogNext, catalog
  <2>9. [CatalogNext]_catalog =>
          /\ GovernanceMoves \/ UNCHANGED governing
          /\ DiscoveryMoves \/ UNCHANGED discovered
          /\ ScanMoves \/ UNCHANGED scanned
    BY DEF CatalogNext, RegistryMoves, DiscoveryMoves, ScanMoves, GovernanceMoves, catalog
  <2>. QED BY <2>1, <2>2, <2>3, <2>4, <2>5, <2>6, <2>7, <2>8, <2>9 DEF CatalogInv
<1>. QED BY <1>1, <1>2, PTL DEF CatalogSpec

(* What gates the calls does not disturb the registry: the composition is a *)
(* behaviour of the registry, and what is proved of that holds of it.        *)
THEOREM RegistryIsUndisturbed == CatalogSpec => Spec
<1>1. CatalogInit => Init BY DEF CatalogInit
<1>2. [CatalogNext]_catalog => [Next]_vars
  BY DEF CatalogNext, RegistryMoves, DiscoveryMoves, ScanMoves, GovernanceMoves, catalog
<1>. QED BY <1>1, <1>2, PTL DEF CatalogSpec, Spec

(* Whatever a batch of modules declares: resolve_dependencies() loads each   *)
(* module after all that it needs, and the cycle that it reports, or the     *)
(* want of one, is true to what the modules declare.                         *)
THEOREM LoadOrdersAreSound == CatalogSpec => []LoadOrderIsSound
<1>1. CatalogInv => LoadOrderIsSound
  <2>1. SUFFICES ASSUME toOrder \in Batches
                 PROVE  Disc!OrderIsSound(toOrder, Known, KnownVersions)
    BY DEF CatalogInv, OrderInv, LoadOrderIsSound
  <2>2. /\ Len(toOrder) \in Nat /\ DOMAIN toOrder = 1..Len(toOrder)
        /\ \A i \in DOMAIN toOrder : toOrder[i].id \in Nat /\ IsFiniteSet(DOMAIN toOrder[i].deps)
        /\ \A i, j \in DOMAIN toOrder : toOrder[i].id = toOrder[j].id => i = j
    BY <2>1, BatchesAssumption DEF LegalBatch
  <2>3. Disc!BatchIds(toOrder) \in SUBSET Nat BY <2>2 DEF Disc!BatchIds
  <2>4. Disc!OrderRespectsNeeds(toOrder, Known, KnownVersions)
    BY <2>2, <2>3, OrderNamesNeedsFirst
  <2>5. Disc!CycleIsDeclared(toOrder, Known, KnownVersions)
    BY <2>2, <2>3, CyclesAreDeclared
  <2>6. Disc!BlockedForAReason(toOrder, Known, KnownVersions)
    BY <2>2, <2>3, BlockedModulesHaveAReason
  <2>. QED BY <2>4, <2>5, <2>6 DEF Disc!OrderIsSound
<1>. QED BY <1>1, CatalogInvariant, PTL

(* Whatever order directories are listed in, wherever links lead, whether or *)
(* not they are followed: the scan of each root finds an id and a file once  *)
(* at most, files inside of the root only and, unless links are followed,    *)
(* those on plain paths only; and none on a plain path of legal depth is     *)
(* missing in the end, unless another file took its id.                      *)
THEOREM ScansFindEachModule == CatalogSpec => []ScanIsSound
<1>1. CatalogInv => ScanIsSound BY ScansAreSound DEF CatalogInv
<1>. QED BY <1>1, CatalogInvariant, PTL

(* Whatever is built, bound, edited, shared and registered, in whatever      *)
(* order: governance_state() reports an unprotected control surface where    *)
(* some control module meets no gate that can stop it, and where it reports  *)
(* none (with the gates in front of the module) each call of a control       *)
(* module meets one, or one that its policy told to let it pass.             *)
THEOREM ReportsTellTheTruth == CatalogSpec => []ReportIsSound
<1>1. CatalogInv => ReportIsSound
  BY ReportedIsDone, UnprotectedIsOpen DEF CatalogInv, ReportIsSound, Gov!ReportIsSound
<1>. QED BY <1>1, CatalogInvariant, PTL

(* However discoveries, reloads and registrations overlap: a module that is  *)
(* registered stays until it is unregistered, by a client or by a reload     *)
(* that is to bring it back; none is put in its place.                       *)
THEOREM NothingIsReplaced == CatalogSpec => NeverReplaced
<1>1. CatalogInv /\ [CatalogNext]_catalog => [~Disc!Replaces]_discovered
  <2>1. DiscInv /\ DiscoveryMoves => ~Disc!Replaces BY NothingReplaced DEF DiscoveryMoves
  <2>2. RegistryMoves \/ ScanMoves \/ GovernanceMoves \/ UNCHANGED catalog =>
          UNCHANGED discovered
    BY DEF RegistryMoves, ScanMoves, GovernanceMoves, catalog
  <2>. QED BY <2>1, <2>2 DEF CatalogInv, CatalogNext
<1>. QED BY <1>1, CatalogInvariant, PTL DEF CatalogSpec, NeverReplaced

(* Once every call has ended, each module is registered that no client has   *)
(* removed, whichever of the reloads failed, and at whichever step: unless   *)
(* its previous instance failed to load again, or another thread took its id *)
(* in the middle of its reload.                                              *)
THEOREM ReloadsKeepTheModule == CatalogSpec => []ReloadKeepsTheModule
<1>1. CatalogInv => ReloadKeepsTheModule
  <2>1. SUFFICES ASSUME DiscInv, \A t \in Callers : call[t] = Disc!Idle, NEW id \in ModuleIds
                 PROVE  published[id] # None \/ id \in Excused
    BY DEF CatalogInv, ReloadKeepsTheModule, Disc!ReloadKeepsTheModule, Disc!Registered, Excused
  <2>2. \A t \in Callers : ~Restores(call[t], id) BY <2>1 DEF Restores, Disc!Idle, Reloads
  <2>. QED BY <2>1, <2>2 DEF DiscInv, NotLost, Settled
<1>. QED BY <1>1, CatalogInvariant, PTL
=============================================================================

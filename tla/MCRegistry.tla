----------------------------- MODULE MCRegistry -----------------------------
(* The registry: one id, three module objects, two versions, the file       *)
(* watcher and three threads that make every other call.  Beside it what    *)
(* feeds it: the scan of extension trees, the load order of batches, and    *)
(* discoveries and reloads by two threads; and what gates the control       *)
(* modules that are in it.  A behaviour is one of one of these (the         *)
(* subject), with the others at rest.                                       *)
EXTENDS Catalog, TLC

CONSTANTS a, m1, m2, m3, th1, th2, th3, w

MCIds == {a}
MCInstances == {m1, m2, m3}
MCVersions == {1, 2}
MCThreads == {th1, th2, th3, w}
MCDrainers == {th1, th2, th3}
Symm == Permutations({m1, m2, m3}) \cup Permutations({th1, th2, th3})

VARIABLE subject

-----------------------------------------------------------------------------
(* Batches: three modules with plain dependencies, or two with hints, an    *)
(* id outside the batch (4) and an unknown one (5).                         *)
Dep(id, hint, optional) ==
  [id |-> id, hint |-> hint, optional |-> optional, wellFormed |-> TRUE]
Need(id) == Dep(id, <<>>, FALSE)

Hints == {<<[op |-> "^", operand |-> <<1, 2>>]>>, <<[op |-> "~", operand |-> <<2, 0>>]>>}
Plain == {<<>>} \cup {<<Need(i)>> : i \in 1..3} \cup {<<Need(i), Need(j)>> : i, j \in 1..3}
Rich == {Dep(i, h, o) : i \in {1, 2, 4, 5}, h \in Hints, o \in BOOLEAN}
RichLists == {<<>>} \cup {<<d>> : d \in Rich} \cup {<<d, e>> : d, e \in Rich}
MCBatches == {<<>>}
             \cup {[i \in 1..3 |-> [id |-> i, deps |-> d[i]]] : d \in [1..3 -> Plain]}
             \cup {[i \in 1..2 |-> [id |-> i, deps |-> d[i]]] : d \in [1..2 -> RichLists]}
MCKnown == 1..4
MCKnownVersions == [i \in 1..3 |-> <<1, 3, 0>>]

-----------------------------------------------------------------------------
(* Trees: ext/ holds x.py, a.b.py, a directory a (with b.py and a directory *)
(* deep), and links up, down, out, and to a file that is already there.     *)
Entry(kind, to) == [to |-> to, kind |-> kind, link |-> FALSE, skipped |-> FALSE]
Link(kind, to) == [Entry(kind, to) EXCEPT !.link = TRUE]

MCEntries == [
  ext |-> {Entry("file", "x"), Entry("dir", "a"), Entry("file", "a.b"), Link("dir", "deep"),
           Link("file", "out"), [Entry("file", "hidden") EXCEPT !.skipped = TRUE]},
  a |-> {Entry("file", "a/b"), Entry("dir", "deep"), Link("dir", "ext"), Entry("other", "pipe")},
  deep |-> {Entry("file", "y"), Link("dir", "a"), Link("file", "x")},
  else |-> {Entry("file", "out"), Link("dir", "ext")}]
InA == {"a", "deep", "a/b", "pipe", "y"}
Inside == [ext |-> InA \cup {"ext", "x", "a.b", "hidden"}, a |-> InA, else |-> {"else", "out"}]
Root(dir, namespace) == [dir |-> dir, namespace |-> namespace]
OnDisk(roots) ==
  [entries |-> MCEntries, roots |-> roots, inside |-> [i \in DOMAIN roots |-> Inside[roots[i].dir]]]
MCTrees == {OnDisk(<<Root("ext", "n")>>), OnDisk(<<Root("ext", "n"), Root("a", "m")>>),
            OnDisk(<<Root("a", "n"), Root("else", "n")>>)}
MCIdOf == [f \in {"x", "y", "a/b", "a.b", "out"} |-> IF f = "a.b" THEN "a/b" ELSE f]

-----------------------------------------------------------------------------
(* What a scan yields: a good pair, a cycle, a need for what is only        *)
(* registered, and each way in which a file can be bad or unfit.            *)
File(id, deps) ==
  [id |-> id, approved |-> TRUE, imports |-> TRUE, entry |-> "none", classes |-> 1,
   has |-> {"input_schema", "output_schema", "description", "execute"},
   ephemeral |-> FALSE, streamless |-> FALSE, legal |-> TRUE, constructs |-> TRUE,
   meta |-> [bad |-> FALSE, deps |-> deps, version |-> <<2>>]]
MCDisks == {
  <<File(1, <<>>), File(2, <<Need(1)>>)>>,
  <<File(1, <<Need(2)>>), File(2, <<Need(1)>>)>>,
  <<File(1, <<Dep(2, <<[op |-> "^", operand |-> <<1>>]>>, FALSE)>>)>>,
  <<[File(1, <<>>) EXCEPT !.constructs = FALSE], [File(2, <<>>) EXCEPT !.legal = FALSE]>>,
  <<[File(1, <<>>) EXCEPT !.has = {}], File(1, <<>>)>>,
  <<[File(1, <<>>) EXCEPT !.classes = 2], [File(2, <<Need(1)>>) EXCEPT !.entry = "found"]>>,
  <<[File(1, <<>>) EXCEPT !.meta.bad = TRUE], File(2, <<>>)>>,
  <<[File(1, <<>>) EXCEPT !.ephemeral = TRUE]>>,
  <<[File(1, <<>>) EXCEPT !.streamless = TRUE], File(2, <<>>)>>}

\* Module 2 has an ephemeral id, so what it declares does not change what refuses it.
MCModuleIds == {1, 2}
BootsAreDistinct == published[2] # None => ~published[2].streamless
MCFileVersions == {<<1>>, <<2>>}

-----------------------------------------------------------------------------
(* Two executors and a strategy that both may run; gates that are removed,  *)
(* replaced by others, by other steps of their name, or added under another *)
(* name, with and without providers, in front of the module and behind it.  *)
Strict == [strict |-> TRUE, waives |-> FALSE]
Waiving == [strict |-> FALSE, waives |-> TRUE]
Giving(acl, handler, policy) == [acl |-> acl, handler |-> handler, policy |-> policy]
Free == Giving(None, None, None)
NewStep(name, kind, providers) ==
  [name |-> name, kind |-> kind, with |-> providers, fields |-> {}]
Change(op, at, step) == [op |-> op, at |-> at, step |-> step]
Removal(at) == [op |-> "remove", at |-> at]
Fields(at, fields) == [op |-> "configure", at |-> at, fields |-> fields]
SecondGate == Change("insert_after", "module_lookup", NewStep("gate", "acl_check", Free))
MCEdits == {
  Removal("acl_check"), Removal("execute"), SecondGate,
  Change("insert_after", "execute", NewStep("behind", "acl_check", Giving("acl", None, None))),
  Change("replace", "acl_check", NewStep("acl_check", "acl_check", Free)),
  Change("replace", "acl_check", NewStep("acl_check", "custom", Free)),
  Change("replace", "approval_gate", NewStep("second", "approval_gate", Giving(None, None, Strict))),
  Change("insert_after", "module_lookup", NewStep("acl_check", "custom", Free)),
  Change("insert_before", "execute", NewStep("late", "consumer", Free)),
  Fields("gate", {"ignore_errors"}), Fields("acl_check", {"match_modules"}),
  Fields("second", {"pure"})}
MCLabels ==
  {Gov!Kinds[i] : i \in DOMAIN Gov!Kinds} \cup {"gate", "custom", "second", "consumer", "late"}
  \cup {"behind", "ignore_errors", "match_modules", "pure"}
MCExecutors == {"e1", "e2"}
MCPolicies == {Strict, Waiving}
MCGiven == {Free, Giving("acl", None, None), Giving(None, "handler", Waiving)}
MCPrebuilt == {<<"standard", Giving("acl", None, None)>>, <<"internal", Free>>}
MCPipelines == {<<Removal("acl_check"), Fields("middleware_before", {"pure"}), SecondGate>>,
                <<Fields("approval_gate", {"pure"})>>}
MCConfigs == {[enabled |-> TRUE, events |-> events, control |-> TRUE, pipeline |-> <<>>,
               acl |-> IF events THEN "acl" ELSE None] : events \in BOOLEAN}

-----------------------------------------------------------------------------
MCInit ==
  /\ subject \in {"registry", "order", "scan", "discovery", "governance"}
  /\ Init
  /\ IF subject = "order" THEN toOrder \in Batches ELSE toOrder = <<>>
  /\ IF subject = "scan" THEN Scan!Init
     ELSE /\ tree = OnDisk(<<Root("ext", "n")>>) /\ following = FALSE /\ walked = 0
          /\ frames = <<>> /\ realPaths = {} /\ discoveries = {}
  /\ IF subject = "discovery" THEN Disc!Init /\ BootsAreDistinct
     ELSE /\ files = <<>> /\ published = [id \in ModuleIds |-> None] /\ reserved = {}
          /\ call = [t \in Callers |-> Disc!Idle] /\ calls = 0
          /\ removed = ModuleIds /\ lost = {} /\ overtaken = {} /\ refused = {}
  /\ IF subject = "governance" THEN Gov!Init
     ELSE /\ steps = 0 /\ registered = {} /\ ops = 0
          /\ executor = [e \in Executors |-> Gov!Unbuilt]

MCNext ==
  /\ UNCHANGED <<subject, toOrder>>
  /\ \/ subject = "registry" /\ RegistryMoves
     \/ subject = "scan" /\ ScanMoves
     \/ subject = "discovery" /\ DiscoveryMoves
     \/ subject = "governance" /\ GovernanceMoves

MCSpec == MCInit /\ [][MCNext]_<<subject, catalog>>
=============================================================================

----------------------------- MODULE SchemaRefs -----------------------------
(* schema/ref_resolver.py and what SchemaLoader makes of its result: every   *)
(* $ref of a schema is replaced by a copy of what it names, in the schema    *)
(* itself, in the file it stands in or in another file; a reference that     *)
(* names something being copied stays, and the generated model looks it up   *)
(* in the resolved schema.  The schema is rewritten while it is walked, so   *)
(* later references find earlier ones already replaced.                      *)
EXTENDS Trees, SequencesExt

CONSTANTS MaxDepth,     \* schema.max_ref_depth
          Files         \* parsed schema files: a function from their names to trees

Inline == "inline"      \* a schema that stands in no file
Here == "here"          \* the file of a reference that names none
Generated == "resolved" \* where the generated model looks references up

\* A reference: a file, or the document it stands in, and the keys that lead to the target.
RefTo(file, pointer) == [to |-> [file |-> file, pointer |-> pointer]]
Itself == [file |-> Here, pointer |-> <<>>]
HasRef(node) == "$ref" \in Names(node)
RefOf(node) == node.of["$ref"].to
Siblings(node) == Dict([n \in Names(node) \ {"$ref"} |-> node.of[n]])
Overlay(node, siblings) ==
  IF IsDict(node) THEN Dict([n \in Names(node) \cup Names(siblings) |->
                               IF n \in Names(siblings) THEN siblings.of[n] ELSE node.of[n]])
  ELSE node

\* A failed resolution is marked in the tree it would have made.
Failed(kind) == [failed |-> kind]
RECURSIVE Failures(_)
Failures(tree) == CASE "failed" \in DOMAIN tree -> {tree.failed}
                    [] IsDict(tree) -> UNION {Failures(tree.of[n]) : n \in Names(tree)}
                    [] OTHER -> {}

-----------------------------------------------------------------------------
\* _parse_ref(), _load_file() and _resolve_json_pointer(): the file a reference leads to and
\* what it names there; a local one falls back to the schema where its file is the schema's.
FileOf(ref, current) == IF ref.file = Here THEN current ELSE ref.file
Document(file, schema) == CASE file = Inline -> schema
                            [] file \in DOMAIN Files -> Files[file]
                            [] OTHER -> Empty
Target(ref, current, schema, origin) ==
  LET file == FileOf(ref, current)
      found == GetNested(Document(file, schema), ref.pointer)
  IN IF found = Missing /\ ref.file = Here /\ file # Inline /\ file = origin
     THEN GetNested(schema, ref.pointer) ELSE found

-----------------------------------------------------------------------------
\* resolve_ref() gives the copy and the references that a chain of them has visited;
\* _resolve_node() walks a copy.  doc has the schema as it is now and its file.
LazyAlone(ref, siblings) == Put(Empty, "$ref", [to |-> ref])
Lazy(ref, siblings) == Put(siblings, "$ref", [to |-> ref])

RECURSIVE ResolveRef(_, _, _, _, _, _, _), ResolveNode(_, _, _, _, _)
ResolveRef(doc, ref, current, visited, depth, siblings, chained) ==
  LET visiting == visited \cup {ref}
      target == Target(ref, current, doc.schema, doc.origin)
      copy == IF target = Missing THEN Failed("not_found") ELSE Overlay(target, siblings)
      file == FileOf(ref, current)
      nested == ResolveRef(doc, RefOf(copy), file, visiting, depth + 1, Siblings(copy), TRUE)
      followed == IF HasRef(copy) THEN nested ELSE [node |-> copy, visited |-> visiting]
  IN CASE ref \in visited ->
            [node |-> IF chained THEN Failed("circular") ELSE Lazy(ref, siblings),
             visited |-> visited]
       [] ref \notin visited /\ depth >= MaxDepth ->
            [node |-> Failed("depth"), visited |-> visited]
       [] OTHER ->
            [followed EXCEPT !.node = ResolveNode(doc, @, file, followed.visited, depth + 1)]
ResolveNode(doc, node, current, visited, depth) ==
  CASE HasRef(node) ->
         ResolveRef(doc, RefOf(node), current, visited, depth, Siblings(node), FALSE).node
    [] IsDict(node) /\ ~HasRef(node) ->
         Dict([n \in Names(node) |-> ResolveNode(doc, node.of[n], current, visited, depth)])
    [] OTHER -> node

\* The walk over the schema itself, in the order of its keys: where the references stand.
RECURSIVE RefPaths(_, _)
RefPaths(node, order) ==
  IF HasRef(node) THEN <<<<>>>>
  ELSE FlattenSeq([k \in DOMAIN order |->
         IF order[k] \notin Names(node) THEN <<>>
         ELSE LET below == RefPaths(node.of[order[k]], order)
              IN [i \in DOMAIN below |-> <<order[k]>> \o below[i]]])

\* resolve(): a schema that is itself a reference to no mapping ends up empty.
Resolve(schema, origin, order) ==
  LET step(now, path) ==
        LET node == ResolveNode([schema |-> now, origin |-> origin], GetNested(now, path),
                                origin, {Itself}, 0)
        IN IF path = <<>> /\ ~IsDict(node) /\ Failures(node) = {} THEN Empty
           ELSE SetNested(now, path, node)
  IN FoldLeft(step, schema, RefPaths(schema, order))

\* _ref_assertion_schema(): what the model looks a remaining reference up in
Anchor(ref, resolved) == IF ref.file = Here THEN GetNested(resolved, ref.pointer) ELSE Missing

-----------------------------------------------------------------------------
(* What a schema means: the tree that following its references unfolds,     *)
(* each in the document it was written in; a bare # is the schema itself.   *)
(* A position is a node, and the file whose document its local references   *)
(* are about.                                                               *)
At(node, file) == [node |-> node, file |-> file]
RECURSIVE Follow(_, _, _, _)
Follow(position, schema, origin, hops) ==
  IF position.node = Missing \/ ~HasRef(position.node) THEN position
  ELSE IF hops = 0 THEN At(Missing, position.file)
  ELSE LET ref == RefOf(position.node)
           file == FileOf(ref, position.file)
           target == CASE position.file = Generated -> At(Anchor(ref, schema), Generated)
                       [] position.file # Generated /\ ref = Itself -> At(schema, origin)
                       [] OTHER -> At(Target(ref, position.file, schema, origin), file)
           reached == Follow(target, schema, origin, hops - 1)
       IN IF reached.node = Missing THEN reached
          ELSE [reached EXCEPT !.node = Overlay(@, Siblings(position.node))]

RECURSIVE Unfolds(_, _, _, _, _, _)
Unfolds(written, schema, origin, made, resolved, depth) ==
  LET x == Follow(written, schema, origin, MaxDepth + 1)
      y == Follow(made, resolved, origin, MaxDepth + 1)
  IN \/ depth = 0
     \/ /\ x.node # Missing /\ y.node # Missing
        /\ IF IsDict(x.node) /\ IsDict(y.node)
           THEN /\ Names(x.node) = Names(y.node)
                /\ \A n \in Names(x.node) :
                     Unfolds(At(x.node.of[n], x.file), schema, origin,
                             At(y.node.of[n], y.file), resolved, depth - 1)
           ELSE x.node = y.node

(* A resolved schema means what the schema meant, to any depth that         *)
(* references can be followed to, whatever the order in which they were     *)
(* replaced and whichever of them were left in place; and no reference is   *)
(* reported missing whose target is there.                                  *)
RefsKeepMeaning(schema, origin, order, depth) ==
  LET resolved == Resolve(schema, origin, order)
  IN /\ Failures(resolved) = {} =>
          Unfolds(At(schema, origin), schema, origin, At(resolved, Generated), resolved, depth)
     /\ "not_found" \in Failures(resolved) =>
          ~Unfolds(At(schema, origin), schema, origin, At(schema, origin), schema, depth)
=============================================================================

-------------------------------- MODULE Trees --------------------------------
(* The dicts that configurations and schemas are made of: named entries      *)
(* over leaf values, with the helpers of config.py on dotted keys.  A key is *)
(* the sequence of its names.                                                *)
EXTENDS Naturals, Sequences, FiniteSets

CONSTANT Missing       \* no file, no value

Leaf(value) == [value |-> value]
Dict(entries) == [of |-> entries]
IsDict(tree) == "of" \in DOMAIN tree
List(items) == [list |-> items]
IsList(tree) == "list" \in DOMAIN tree
Empty == Dict(<<>>)
Names(tree) == IF IsDict(tree) THEN DOMAIN tree.of ELSE {}
Put(tree, name, sub) ==
  Dict([n \in Names(tree) \cup {name} |-> IF n = name THEN sub ELSE tree.of[n]])
Entry(tree, name) == IF name \in Names(tree) THEN tree.of[name] ELSE Empty

\* What is met on the way along a key, which a tree may hold up to its i-th name
Along(tree, key) ==
  LET at[i \in 0..Len(key)] == IF i = 0 THEN tree ELSE at[i - 1].of[key[i]] IN at
HoldsTo(tree, key, i) == \A j \in 1..i : key[j] \in Names(Along(tree, key)[j - 1])
Holds(tree, key) == HoldsTo(tree, key, Len(key))

GetNested(tree, key) == IF Holds(tree, key) THEN Along(tree, key)[Len(key)] ELSE Missing

\* The keys that a tree holds, of at most so many names
KeysWithin(tree, depth) ==
  LET below[n \in 0..depth] ==
        IF n = 0 THEN {<<>>}
        ELSE UNION {{Append(key, name) : name \in Names(GetNested(tree, key))}
                    : key \in below[n - 1]}
  IN UNION {below[n] : n \in 1..depth}

\* A leaf in the way is replaced by a dict.
SetNested(tree, key, sub) ==
  LET now(i) == IF HoldsTo(tree, key, i) THEN Along(tree, key)[i] ELSE Empty
      put[i \in 0..Len(key)] ==
        IF i = Len(key) THEN sub ELSE Put(now(i), key[i + 1], put[i + 1])
  IN put[0]
==============================================================================

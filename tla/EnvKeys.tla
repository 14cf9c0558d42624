------------------------------- MODULE EnvKeys -------------------------------
(* config.py: which key the rest of an environment variable's name stands    *)
(* for, once a namespace's prefix is taken off.  Names are sequences of      *)
(* characters, lower-cased already; a key is the sequence of its names.  In  *)
(* the nested style "_" separates names and "__" is one "_" of a name; in    *)
(* the auto style the namespace's defaults say where a name ends.            *)
EXTENDS Trees, FiniteSetsExt

Under == "_"

\* _env_suffix_to_dot_path_with_depth(): at most depth names, then dots at either end are
\* stripped.  seen is what was read before the i-th character, and whether that is the
\* second of a pair of underscores.
ReadNext(suffix, i, seen, depth) ==
  LET ends == Len(seen.key)
      extended == [seen.key EXCEPT ![ends] = Append(@, suffix[i])]
      pair == i < Len(suffix) /\ suffix[i + 1] = Under
  IN CASE seen.paired -> [key |-> seen.key, paired |-> FALSE]
       [] ~seen.paired /\ suffix[i] # Under -> [key |-> extended, paired |-> FALSE]
       [] ~seen.paired /\ suffix[i] = Under /\ pair -> [key |-> extended, paired |-> TRUE]
       [] OTHER -> [key |-> IF ends < depth THEN Append(seen.key, <<>>) ELSE extended,
                    paired |-> FALSE]

ReadSuffix(suffix, depth) ==
  LET read[i \in 0..Len(suffix)] ==
        IF i = 0 THEN [key |-> <<<<>>>>, paired |-> FALSE]
        ELSE ReadNext(suffix, i, read[i - 1], depth)
  IN read[Len(suffix)].key

Stripped(key) ==
  LET named == {i \in DOMAIN key : key[i] # <<>>}
  IN IF named = {} THEN <<<<>>>> ELSE SubSeq(key, Min(named), Max(named))

NestedKey(suffix, depth) == Stripped(ReadSuffix(suffix, depth))

\* The trees so many names below a tree
Depths(tree, depth) ==
  LET at[n \in 0..depth] ==
        IF n = 0 THEN {tree}
        ELSE UNION {{t.of[name] : name \in Names(t)} : t \in at[n - 1]}
  IN at

\* The underscores where the first name of rest may end, with n names left
Splits(rest, at, n) ==
  {i \in 2..(Len(rest) - 1) :
     /\ n > 1 /\ rest[i] = Under
     /\ SubSeq(rest, 1, i - 1) \in Names(at) /\ IsDict(at.of[SubSeq(rest, 1, i - 1)])}

\* _match_suffix_to_tree(): the whole rest as one name, else the first split, from the left,
\* whose own rest is found below; <<>> for no match.  MatchFirst gives up after that split.
MatchFirst(rest, at, n, below) ==
  LET name(i) == SubSeq(rest, 1, i - 1)
      found(i) == below[SubSeq(rest, i + 1, Len(rest))][at.of[name(i)]]
      first == Min(Splits(rest, at, n))
  IN IF rest \in Names(at) THEN <<rest>>
     ELSE IF Splits(rest, at, n) = {} \/ found(first) = <<>> THEN <<>>
     ELSE <<name(first)>> \o found(first)

Match(rest, at, n, below) ==
  LET name(i) == SubSeq(rest, 1, i - 1)
      found(i) == below[SubSeq(rest, i + 1, Len(rest))][at.of[name(i)]]
      ends == {i \in Splits(rest, at, n) : found(i) # <<>>}
  IN IF rest \in Names(at) THEN <<rest>>
     ELSE IF ends = {} THEN <<>>
     ELSE <<name(Min(ends))>> \o found(Min(ends))

MatchSuffixToTree(suffix, tree, depth) ==
  LET rests == {SubSeq(suffix, i, Len(suffix)) : i \in 1..(Len(suffix) + 1)}
      match[n \in 0..depth] ==
        [rest \in rests |-> [at \in Depths(tree, depth)[depth - n] |->
           Match(rest, at, n, IF n > 0 THEN match[n - 1] ELSE <<>>)]]
  IN match[depth][suffix][tree]

\* _auto_resolve_suffix(), without defaults (Missing) or without a match as in nested style.
AutoKey(suffix, defaults, depth) ==
  LET found == IF defaults = Missing THEN <<>> ELSE MatchSuffixToTree(suffix, defaults, depth)
  IN IF found # <<>> THEN found ELSE NestedKey(suffix, depth)

\* _resolve_env_suffix()
ResolveEnvSuffix(suffix, style, defaults, depth) ==
  CASE style = "flat" -> <<suffix>>
    [] style = "auto" -> AutoKey(suffix, defaults, depth)
    [] OTHER -> NestedKey(suffix, depth)

-----------------------------------------------------------------------------
\* How a key is written: its names with every "_" doubled, or as they are, joined by "_";
\* both from the end.
Doubled(name) ==
  LET doubled[n \in 0..Len(name)] ==
        LET char == name[Len(name) - n + 1]
        IN IF n = 0 THEN <<>>
           ELSE (IF char = Under THEN <<char, char>> ELSE <<char>>) \o doubled[n - 1]
  IN doubled[Len(name)]
Written(key) ==
  LET written[n \in 0..Len(key)] ==
        LET name == key[Len(key) - n + 1]
        IN IF n = 0 THEN <<>>
           ELSE IF n = 1 THEN name
           ELSE name \o <<Under>> \o written[n - 1]
  IN written[Len(key)]

(* Every key a namespace has can be set from the environment.  In nested     *)
(* style the written key is read back, unless a name begins with "_" or the  *)
(* key is longer than max_depth; in auto style, whatever the underscores in  *)
(* the names, the key found exists, and is spelled as the variable is.       *)
KeysCanBeSet(tree, depth) ==
  \A key \in KeysWithin(tree, depth) :
    /\ (\A i \in DOMAIN key : key[i][1] # Under) =>
         ResolveEnvSuffix(Written([i \in DOMAIN key |-> Doubled(key[i])]), "nested", tree, depth)
           = key
    /\ LET found == ResolveEnvSuffix(Written(key), "auto", tree, depth)
       IN found \in KeysWithin(tree, depth) /\ Written(found) = Written(key)
=============================================================================

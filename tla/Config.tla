------------------------------- MODULE Config -------------------------------
(***************************************************************************)
(* config.py: a configuration put together from defaults, a YAML file and  *)
(* the environment, in legacy mode or (with an "apcore" section) in        *)
(* namespace mode; get, set, mount and reload by several threads while the *)
(* file changes.  Data is a tree (module Trees); an environment variable   *)
(* is reduced to the keys its name stands for (EnvKeys derives them).      *)
(* Binding to models, typed access and the deprecation warnings are left   *)
(* out; a leaf "bad" stands for a value some constraint refuses.           *)
(***************************************************************************)
EXTENDS Trees, SequencesExt

CONSTANTS Defaults,       \* _DEFAULTS: the legacy tree
          Surface,        \* the declared keys of the framework's sections
          Required,       \* keys a legacy file or environment must declare
          PathTyped,      \* keys whose empty value counts as absent
          Registrations,  \* namespaces that can be registered: [defaults, prefix, mapped]
          Disks,          \* initial contents of the places a file is looked for
          Texts,          \* contents the file may be changed to
          Environments,   \* sequences of variables, in the order of os.environ
          Additions,      \* what can be mounted: pairs of a namespace and a tree
          Settings,       \* what can be set: pairs of a key and a leaf
          MaxNesting,     \* the most names of a key below the top of a document
          Threads, MaxOps

VARIABLES
  disk,        \* the file at each tier, Missing where there is none
  env,         \* os.environ
  registered,  \* _GLOBAL_NS_REGISTRY
  tier,        \* where the file was found, 0 for none
  mode,        \* _mode
  data,        \* _data
  declared,    \* _declared: what the file and the environment say
  mounts,      \* _mounts
  shared,      \* entries <<namespace, name>> that are one dict in _mounts and _data
  reload,      \* per thread: the reload in progress
  ops,         \* calls made so far
  mounted,     \* history: the keys mounted, unless a mount or set has put a leaf above since
  overlapped   \* history: a mount came between the two sections of a reload

content == <<mode, data, declared, mounts, shared>>
vars == <<disk, env, registered, tier, mode, data, declared, mounts, shared, reload, ops,
          mounted, overlapped>>

-----------------------------------------------------------------------------
\* The keys that a document holds, and those that lead to no dict
AllKeys(tree) == KeysWithin(tree, MaxNesting)
HasDict(tree, key) == Holds(tree, key) /\ IsDict(GetNested(tree, key))
Leaves(tree) == {key \in AllKeys(tree) : ~HasDict(tree, key)}

\* Where both have a dict, the two are merged below too.
DeepMerge(base, override) ==
  LET both == {<<>>} \cup {key \in AllKeys(base) : HasDict(base, key) /\ HasDict(override, key)}
      merged[key \in both] ==
        LET old == GetNested(base, key)
            new == GetNested(override, key)
        IN Dict([n \in Names(old) \cup Names(new) |->
                   IF n \notin Names(new) THEN old.of[n]
                   ELSE IF Append(key, n) \in both THEN merged[Append(key, n)] ELSE new.of[n]])
  IN merged[<<>>]

Without(tree, key) ==
  LET above == Front(key)
      entries == GetNested(tree, above).of
  IN SetNested(tree, above, Dict([n \in DOMAIN entries \ {Last(key)} |-> entries[n]]))

-----------------------------------------------------------------------------
\* Values of path-typed keys that are empty count as absent.
IsEmptyPath(tree, key) == key \in PathTyped /\ GetNested(tree, key) = Leaf("")
DiscardEmptyPaths(tree) ==
  FoldLeft(LAMBDA t, key : IF IsEmptyPath(t, key) THEN Without(t, key) ELSE t,
           tree, SetToSeq(PathTyped))

-----------------------------------------------------------------------------
(* The environment.  A variable has a value, the key it is mapped to        *)
(* globally (<<>> for none), the key its APCORE_ suffix gives (<<>> without *)
(* the prefix), and for namespaces its mapped key and its prefixed key.     *)
ApplyEnvOverrides(tree, namespaced) ==
  LET claimed(v) == \E ns \in registered : Registrations[ns].prefix = v.prefix
      set(t, v) ==
        IF v.global # <<>> THEN IF namespaced THEN t ELSE SetNested(t, v.global, Leaf(v.value))
        ELSE IF namespaced /\ claimed(v) THEN t
        ELSE IF v.suffix = <<>> \/ (v.suffix \in PathTyped /\ v.value = "") THEN t
        ELSE SetNested(t, v.suffix, Leaf(v.value))
  IN FoldLeft(set, tree, env)

ApplyNamespaceEnvOverrides(tree) ==
  LET owner(v) == {ns \in registered : v.name \in DOMAIN Registrations[ns].mapped}
      matched(v) == {ns \in registered : Registrations[ns].prefix = v.prefix}
      under(t, ns, key, v) ==
        LET old == Entry(t, ns)
        IN Put(t, ns, SetNested(IF IsDict(old) THEN old ELSE Empty, key, Leaf(v.value)))
      set(t, v) ==
        CASE v.global # <<>> -> SetNested(t, v.global, Leaf(v.value))
          [] v.global = <<>> /\ owner(v) # {} ->
               LET ns == CHOOSE n \in owner(v) : TRUE
               IN under(t, ns, Registrations[ns].mapped[v.name], v)
          [] v.global = <<>> /\ owner(v) = {} /\ matched(v) # {} /\ v.key # <<>> ->
               under(t, CHOOSE n \in matched(v) : TRUE, v.key, v)
          [] OTHER -> t
  IN FoldLeft(set, tree, env)

-----------------------------------------------------------------------------
(* Loading a document.                                                      *)
IsNamespaced(text) == "apcore" \in Names(text) /\ IsDict(text.of["apcore"])

LoadLegacyFileFirst(text) ==
  LET file == DiscardEmptyPaths(text)
  IN [mode |-> "legacy",
      data |-> DeepMerge(ApplyEnvOverrides(Defaults, FALSE), file),
      declared |-> ApplyEnvOverrides(file, FALSE)]

LoadLegacyMode(text) ==
  LET file == DiscardEmptyPaths(text)
  IN [mode |-> "legacy",
      data |-> ApplyEnvOverrides(DeepMerge(Defaults, file), FALSE),
      declared |-> ApplyEnvOverrides(file, FALSE)]

Meta(tree, name) == GetNested(tree, <<"_config", name>>)
Strict(tree) == Meta(tree, "strict") = Leaf("true")
Unknown(tree) == Names(tree) \ (registered \cup {"apcore", "_config"})

ApplyNamespaceDefaults(tree) ==
  FoldLeft(LAMBDA t, ns : LET old == Entry(t, ns)
                          IN Put(t, ns, DeepMerge(Registrations[ns].defaults,
                                                  IF IsDict(old) THEN old ELSE Empty)),
           tree, SetToSeq({ns \in registered : Names(Registrations[ns].defaults) # {}}))

ApplyAllowUnknown(tree) ==
  IF Strict(tree) \/ Meta(tree, "allow_unknown") # Leaf("false") THEN tree
  ELSE Dict([n \in Names(tree) \ Unknown(tree) |-> tree.of[n]])

LoadNamespaceMode(text) ==
  LET file == Put(text, "apcore", DiscardEmptyPaths(text.of["apcore"]))
      layered(t) == ApplyNamespaceEnvOverrides(Put(t, "apcore",
                                                   ApplyEnvOverrides(Entry(t, "apcore"), TRUE)))
  IN [mode |-> "namespace",
      data |-> ApplyAllowUnknown(layered(ApplyNamespaceDefaults(file))),
      declared |-> layered(file)]

LoadDocument(text) ==
  IF IsNamespaced(text) THEN LoadNamespaceMode(text) ELSE LoadLegacyMode(text)

\* In strict mode, keys of the framework's sections that are not in its surface
UnknownKeys(tree, surface) ==
  {key \in AllKeys(tree) : HasDict(surface, Front(key)) /\ ~Holds(surface, key)}
UnknownFrameworkKeys(tree) ==
  UNION {UnknownKeys(Entry(tree, s), Surface.of[s]) : s \in Names(tree) \cap Names(Surface)}

Bad(tree) == \E key \in Leaves(tree) : GetNested(tree, key) = Leaf("bad")

Validates(loaded) ==
  IF loaded.mode = "legacy"
  THEN /\ \A key \in Required : GetNested(loaded.declared, key) # Missing
       /\ ~Bad(loaded.data)
       /\ Strict(loaded.data) => UnknownFrameworkKeys(loaded.data) = {}
  ELSE /\ ~Bad(loaded.data)
       /\ Strict(loaded.data) => /\ UnknownFrameworkKeys(Entry(loaded.data, "apcore")) = {}
                                 /\ \A n \in Unknown(loaded.data) : ~IsDict(loaded.data.of[n])

\* A prefixed variable of a namespace whose section is a leaf, which no variable before it
\* has replaced by a dict, ends in a TypeError.
SetsBelowLeaf(text) ==
  LET replaces(v, ns) == v.name \in DOMAIN Registrations[ns].mapped
                         \/ (v.global # <<>> /\ v.global[1] = ns)
  IN /\ IsNamespaced(text)
     /\ \E i \in DOMAIN env : \E ns \in registered :
          /\ Registrations[ns].prefix = env[i].prefix /\ env[i].key # <<>> /\ env[i].global = <<>>
          /\ \A other \in registered : env[i].name \notin DOMAIN Registrations[other].mapped
          /\ ns \in Names(text) /\ ~IsDict(text.of[ns])
          /\ \A j \in 1..(i - 1) : ~replaces(env[j], ns)

Loads(text) == text # Missing /\ ~SetsBelowLeaf(text) /\ Validates(LoadDocument(text))

-----------------------------------------------------------------------------
(* The tiers a file is looked for in, first to last; without a file the     *)
(* defaults and the environment, with nothing declared.                     *)
FirstTier(d) == SelectInSeq(d, LAMBDA text : text # Missing)

FromDefaults == [mode |-> "legacy", data |-> ApplyEnvOverrides(Defaults, FALSE),
                 declared |-> Empty]

Init ==
  /\ disk \in Disks /\ env \in Environments
  /\ registered \in SUBSET DOMAIN Registrations
  /\ tier = FirstTier(disk)
  /\ LET loaded == IF tier = 0 THEN FromDefaults ELSE LoadDocument(disk[tier])
     IN /\ tier # 0 => Loads(disk[tier])
        /\ mode = loaded.mode /\ data = loaded.data /\ declared = loaded.declared
  /\ mounts = Empty /\ shared = {} /\ mounted = {}
  /\ reload = [t \in Threads |-> Missing] /\ ops = 0 /\ overlapped = FALSE

-----------------------------------------------------------------------------
(* Reading and writing.                                                     *)
GetNamespaced(tree, key) ==
  IF key[1] \in Names(tree) \cup {"apcore"} THEN GetNested(tree, key)
  ELSE GetNested(tree, <<"apcore">> \o key)

Get(key) == IF mode = "namespace" THEN GetNamespaced(data, key) ELSE GetNested(data, key)

CallBegins(t) == reload[t] = Missing /\ ops < MaxOps /\ ops' = ops + 1

\* set(): below a dict shared with _mounts, both change.
Set(t, key, value) ==
  /\ CallBegins(t)
  /\ data' = SetNested(data, key, value)
  /\ mounts' = IF Len(key) > 2 /\ SubSeq(key, 1, 2) \in shared
               THEN SetNested(mounts, key, value) ELSE mounts
  /\ shared' = {e \in shared : ~IsPrefix(key, e)}
  /\ mounted' = {k \in mounted : ~IsStrictPrefix(key, k)}
  /\ UNCHANGED <<disk, env, registered, tier, mode, declared, reload, overlapped>>

\* Dicts of the mounted tree that neither side merges become one object in both.
Merged(whole, ns, tree) ==
  LET old == Entry(whole, ns)
  IN Put(whole, ns, DeepMerge(IF IsDict(old) THEN old ELSE Empty, tree))
Shares(ns, tree) ==
  {<<ns, n>> : n \in {x \in Names(tree) : /\ IsDict(tree.of[x])
                                          /\ ~HasDict(mounts, <<ns, x>>)
                                          /\ ~HasDict(data, <<ns, x>>)}}

Mount(t, ns, tree) ==
  /\ CallBegins(t)
  /\ mounts' = Merged(mounts, ns, tree)
  /\ data' = Merged(data, ns, tree)
  /\ shared' = {e \in shared : e[1] # ns \/ e[2] \notin Names(tree)} \cup Shares(ns, tree)
  /\ LET now == {<<ns>> \o key : key \in Leaves(tree)}
     IN mounted' = now \cup {k \in mounted : \A leaf \in now : ~IsStrictPrefix(leaf, k)}
  /\ overlapped' = (overlapped \/ \E u \in Threads : reload[u] # Missing)
  /\ UNCHANGED <<disk, env, registered, tier, mode, declared, reload>>

-----------------------------------------------------------------------------
(* reload(): the mounts are copied in one section under the lock, the file  *)
(* is read and validated outside it, a second section puts both in place.   *)
StartReload(t) ==
  /\ CallBegins(t) /\ tier # 0
  /\ reload' = [reload EXCEPT ![t] = [step |-> "read", mounts |-> mounts, loaded |-> Missing]]
  /\ UNCHANGED <<disk, env, registered, tier, content, mounted, overlapped>>

ReadFile(t) ==
  /\ reload[t] # Missing /\ reload[t].step = "read"
  /\ reload' = [reload EXCEPT ![t] =
       IF Loads(disk[tier])
       THEN [@ EXCEPT !.step = "replace", !.loaded = LoadDocument(disk[tier])]
       ELSE Missing]
  /\ UNCHANGED <<disk, env, registered, tier, content, ops, mounted, overlapped>>

ReplaceWithoutMounts(t) ==
  LET loaded == reload[t].loaded IN
  /\ reload[t] # Missing /\ reload[t].step = "replace"
  /\ mode' = loaded.mode /\ data' = loaded.data /\ declared' = loaded.declared
  /\ mounts' = Empty /\ shared' = {}
  /\ reload' = [reload EXCEPT ![t] = Missing]
  /\ UNCHANGED <<disk, env, registered, tier, ops, mounted, overlapped>>

Replace(t) ==
  LET loaded == reload[t].loaded
      kept == reload[t].mounts
      dicts(tree, ns) == {n \in Names(Entry(tree, ns)) : IsDict(Entry(tree, ns).of[n])}
  IN /\ reload[t] # Missing /\ reload[t].step = "replace"
     /\ mode' = loaded.mode /\ declared' = loaded.declared
     /\ data' = Dict([ns \in Names(loaded.data) \cup Names(kept) |->
                        IF ns \in Names(kept) THEN Merged(loaded.data, ns, kept.of[ns]).of[ns]
                        ELSE loaded.data.of[ns]])
     /\ mounts' = kept
     /\ shared' = UNION {{<<ns, n>> : n \in dicts(kept, ns) \ dicts(loaded.data, ns)}
                         : ns \in Names(kept)}
     /\ reload' = [reload EXCEPT ![t] = Missing]
     /\ UNCHANGED <<disk, env, registered, tier, ops, mounted, overlapped>>

\* register_namespace(): a name, a prefix and a mapped variable have one owner.
RegisterNamespace(ns) ==
  /\ ops < MaxOps /\ ops' = ops + 1
  /\ ns \notin registered
  /\ \A other \in registered :
       /\ Registrations[other].prefix # Registrations[ns].prefix
       /\ DOMAIN Registrations[other].mapped \cap DOMAIN Registrations[ns].mapped = {}
  /\ registered' = registered \cup {ns}
  /\ UNCHANGED <<disk, env, tier, content, reload, mounted, overlapped>>

EditFile(text) ==
  /\ tier # 0 /\ disk[tier] # text /\ ops < MaxOps /\ ops' = ops + 1
  /\ disk' = [disk EXCEPT ![tier] = text]
  /\ UNCHANGED <<env, registered, tier, content, reload, mounted, overlapped>>

Next == \/ \E t \in Threads :
             \/ StartReload(t) \/ ReadFile(t) \/ Replace(t)
             \/ \E s \in Settings : Set(t, s[1], s[2])
             \/ \E a \in Additions : Mount(t, a[1], a[2])
        \/ \E ns \in DOMAIN Registrations : RegisterNamespace(ns)
        \/ \E text \in Texts \cup {Missing} : EditFile(text)

-----------------------------------------------------------------------------
(* The layers: a key has the environment's value, else the file's, else the *)
(* default, and what is declared is what the file and the environment say.  *)
\* The keys of data that a variable sets
Targets(v) ==
  LET owners == {ns \in registered : v.name \in DOMAIN Registrations[ns].mapped}
      prefixed == {ns \in registered : Registrations[ns].prefix = v.prefix}
  IN IF mode = "legacy"
     THEN {IF v.global # <<>> THEN v.global ELSE v.suffix}
     ELSE IF v.global # <<>> THEN {v.global}
     ELSE {<<ns>> \o Registrations[ns].mapped[v.name] : ns \in owners}
          \cup (IF owners = {} /\ v.key # <<>> THEN {<<ns>> \o v.key : ns \in prefixed} ELSE {})
          \cup (IF prefixed = {} /\ v.suffix # <<>> THEN {<<"apcore">> \o v.suffix} ELSE {})

LayersCompose ==
  ops = 0 =>
    LET text == IF tier = 0 THEN Empty ELSE disk[tier]
        plain(key) == IF key[1] = "apcore" THEN Tail(key) ELSE key
        empty(tree, key) == plain(key) \in PathTyped /\ GetNested(tree, key) = Leaf("")
        setters(key) == {i \in DOMAIN env : key \in Targets(env[i])
                           /\ ~(plain(key) \in PathTyped /\ env[i].value = "" /\ env[i].global = <<>>)}
        fromEnv(key) == Leaf(env[CHOOSE i \in setters(key) : \A j \in setters(key) : j <= i].value)
        default(key) == IF mode = "legacy" THEN GetNested(Defaults, key)
                        ELSE IF key[1] \in registered
                        THEN GetNested(Registrations[key[1]].defaults, Tail(key)) ELSE Missing
        inFile(key) == GetNested(text, key) # Missing /\ ~empty(text, key)
        dropped(key) == mode = "namespace" /\ key[1] \notin Names(data)
        keys == Leaves(text) \cup Leaves(data) \cup Leaves(declared)
    IN \A key \in keys :
         LET said == IF setters(key) # {} THEN fromEnv(key)
                     ELSE IF inFile(key) THEN GetNested(text, key) ELSE Missing
         IN /\ ~dropped(key) => GetNested(data, key) = IF said = Missing THEN default(key) ELSE said
            /\ tier # 0 => GetNested(declared, key) = said

(* A reload re-applies the mounts: what was mounted stays there to be read  *)
(* and to be re-applied, across reloads, edits and other mounts, unless a   *)
(* mount came between the two critical sections of a reload                 *)
(* (config.py:2121-2145), which drops it.                                   *)
MountsAreKept ==
  ~overlapped => \A key \in mounted : Holds(mounts, key) /\ Holds(data, key)
=============================================================================

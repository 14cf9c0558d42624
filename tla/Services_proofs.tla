--------------------------- MODULE Services_proofs ---------------------------
EXTENDS Services, FiniteSetTheorems, SequenceTheorems, TLAPS

-----------------------------------------------------------------------------
(* The runtime control modules (SystemControl).                            *)

ControlSets(c, k) == changing[c].at \in {"set", "check"} /\ changing[c].name = k

\* What a thread carries from one step of execute() to the next.
ControlShape(r) ==
  /\ "at" \in DOMAIN r
  /\ r.at \in {"idle", "set", "check", "emit", "load", "save"}
  /\ r.at \in {"set", "check"} => {"name", "value", "old"} \subseteq DOMAIN r /\ r.name \in Keys
  /\ r.at \in {"emit", "load", "save"} =>
       /\ {"name", "value"} \subseteq DOMAIN r /\ r.name \in Keys \cup Toggles
       /\ r.name \in Keys => Control!Accepted(r.name, r.value)
  /\ r.at = "save" => "read" \in DOMAIN r /\ \A k \in Keys \cap DOMAIN r.read : Control!Accepted(k, r.read[k])

ControlTypes == /\ DOMAIN changing = Callers /\ DOMAIN config = Keys
                /\ \A c \in Callers : ControlShape(changing[c])

\* The overrides that are durable, and those about to be, were accepted.
ControlDurable == \A k \in Keys \cap DOMAIN overrides : Control!Accepted(k, overrides[k])

\* Who saves through the path holds its lock, and what it read is still there.
ControlLocked == persistence = "path" =>
                   /\ overrides = saved
                   /\ \A c \in Callers : changing[c].at = "save" => lock = c /\ changing[c].read = overrides

(* While nobody overlaps on a key, one thread sets it: the old value it is   *)
(* to bring back was accepted, and the value it checks is the one in place.  *)
ControlUndone ==
  \A k \in Keys \ overlapped :
    /\ \A c, d \in Callers : ControlSets(c, k) /\ ControlSets(d, k) => c = d
    /\ \A c \in Callers : ControlSets(c, k) =>
         /\ Control!Accepted(k, changing[c].old)
         /\ \/ Control!Accepted(k, config[k])
            \/ changing[c].at = "check" /\ config[k] = changing[c].value
    /\ Control!Setting(k) \/ Control!Accepted(k, config[k])

ControlIInv == ControlTypes /\ ControlDurable /\ ControlLocked /\ ControlUndone

LEMMA ControlInitIInv ==
  ASSUME ControlAssumption
  PROVE  Control!Init => ControlIInv
BY DEF ControlAssumption, Control!Init, ControlIInv, ControlTypes, ControlShape,
  ControlDurable, ControlLocked, ControlUndone, ControlSets, Control!Setting, Control!Idle,
       Control!NoOverrides

\* Nobody's record but one thread's changes.
LEMMA ControlOneMoves ==
  ASSUME ControlTypes, NEW c \in Callers, NEW r, ControlShape(r), changing' = [changing EXCEPT ![c] = r], DOMAIN config' = Keys
  PROVE  /\ ControlTypes' /\ changing'[c] = r /\ \A d \in Callers \ {c} : changing'[d] = changing[d]
BY DEF ControlTypes, ControlShape

LEMMA ControlUpdateIInv ==
  ASSUME ControlIInv, NEW c \in Callers, NEW k \in Keys, NEW v, Control!Update(c, k, v)
  PROVE  ControlIInv'
<1>. USE DEF ControlIInv
<1>1. PICK r : r = [at |-> "set", name |-> k, value |-> v, old |-> config[k]] OBVIOUS
<1>2. /\ changing[c].at = "idle" /\ changing' = [changing EXCEPT ![c] = r]
      /\ overlapped' = IF Control!Setting(k) THEN overlapped \cup {k} ELSE overlapped
      /\ UNCHANGED <<persistence, config, disabled, overrides, lock, saved, restarts>>
  BY <1>1 DEF Control!Update, Control!IsAt
<1>3. ControlShape(r) /\ r.at = "set" /\ r.name = k /\ r.old = config[k] BY <1>1 DEF ControlShape
<1>4. ControlTypes' /\ changing'[c] = r /\ \A d \in Callers \ {c} : changing'[d] = changing[d]
  BY <1>2, <1>3, ControlOneMoves DEF ControlTypes
<1>5. ControlLocked' BY <1>2, <1>3, <1>4 DEF ControlLocked
<1>6. ControlUndone'
  <2>. SUFFICES ASSUME NEW j \in Keys \ overlapped'
                PROVE  /\ \A d, e \in Callers : ControlSets(d, j)' /\ ControlSets(e, j)' => d = e
                       /\ \A d \in Callers : ControlSets(d, j)' =>
                            /\ Control!Accepted(j, changing'[d].old)
                            /\ \/ Control!Accepted(j, config[j])
                               \/ changing'[d].at = "check" /\ config[j] = changing'[d].value
                       /\ Control!Setting(j)' \/ Control!Accepted(j, config[j])
    BY <1>2 DEF ControlUndone, Control!Accepted
  <2>1. j \in Keys \ overlapped BY <1>2
  <2>2. \A d \in Callers \ {c} : ControlSets(d, j)' <=> ControlSets(d, j) BY <1>4 DEF ControlSets
  <2>3. ControlSets(c, j)' <=> j = k BY <1>3, <1>4 DEF ControlSets
  <2>4. CASE j = k
    <3>1. ~Control!Setting(k) BY <1>2, <2>4
    <3>2. \A d \in Callers : ~ControlSets(d, k) BY <3>1 DEF ControlSets, Control!Setting
    <3>3. Control!Accepted(k, config[k]) BY <2>1, <2>4, <3>1 DEF ControlUndone
    <3>. QED BY <1>3, <1>4, <2>2, <2>4, <3>2, <3>3
  <2>5. CASE j # k
    <3>1. Control!Setting(j) <=> Control!Setting(j)' BY <1>2, <1>3, <1>4, <2>5 DEF Control!Setting
    <3>. QED BY <1>4, <2>1, <2>2, <2>3, <2>5, <3>1 DEF ControlUndone
  <2>. QED BY <2>4, <2>5
<1>. QED BY <1>2, <1>4, <1>5, <1>6 DEF ControlDurable, Control!Accepted

LEMMA ControlSetIInv ==
  ASSUME ControlIInv, NEW c \in Callers, Control!Set(c)
  PROVE  ControlIInv'
<1>. USE DEF ControlIInv
<1>1. PICK r : r = [changing[c] EXCEPT !.at = "check"] OBVIOUS
<1>2. PICK k \in Keys : k = changing[c].name BY DEF Control!Set, Control!IsAt, ControlTypes,
  ControlShape
<1>3. /\ changing[c].at = "set" /\ changing' = [changing EXCEPT ![c] = r]
      /\ config' = [config EXCEPT ![k] = changing[c].value]
      /\ UNCHANGED <<persistence, disabled, overrides, lock, saved, overlapped, restarts>>
  BY <1>1, <1>2 DEF Control!Set, Control!IsAt, Control!Goto
<1>4. r.at = "check" /\ r.name = k /\ r.value = changing[c].value /\ r.old = changing[c].old /\ ControlShape(r)
  BY <1>1, <1>2, <1>3 DEF ControlTypes, ControlShape
<1>5. ControlTypes' /\ changing'[c] = r /\ \A d \in Callers \ {c} : changing'[d] = changing[d]
  BY <1>3, <1>4, ControlOneMoves DEF ControlTypes
<1>6. config'[k] = changing[c].value /\ \A j \in Keys \ {k} : config'[j] = config[j]
  BY <1>3 DEF ControlTypes
<1>7. \A d \in Callers, j \in Keys : ControlSets(d, j)' <=> ControlSets(d, j)
  BY <1>2, <1>3, <1>4, <1>5 DEF ControlSets
<1>8. ControlSets(c, k) /\ Control!Setting(k)' BY <1>2, <1>3, <1>4, <1>5 DEF ControlSets,
  Control!Setting
<1>9. ControlUndone'
  <2>. SUFFICES ASSUME NEW j \in Keys \ overlapped
                PROVE  /\ \A d, e \in Callers : ControlSets(d, j)' /\ ControlSets(e, j)' => d = e
                       /\ \A d \in Callers : ControlSets(d, j)' =>
                            /\ Control!Accepted(j, changing'[d].old)
                            /\ \/ Control!Accepted(j, config'[j])
                               \/ changing'[d].at = "check" /\ config'[j] = changing'[d].value
                       /\ Control!Setting(j)' \/ Control!Accepted(j, config'[j])
    BY <1>3 DEF ControlUndone, Control!Accepted
  <2>1. CASE j = k
    <3>1. \A d \in Callers : ControlSets(d, k) => d = c BY <1>8, <2>1 DEF ControlUndone
    <3>2. Control!Accepted(k, changing[c].old) BY <1>8, <2>1 DEF ControlUndone
    <3>. QED BY <1>4, <1>5, <1>6, <1>7, <1>8, <2>1, <3>1, <3>2
  <2>2. CASE j # k
    <3>1. Control!Setting(j)' <=> Control!Setting(j) BY <1>7 DEF Control!Setting, ControlSets
    <3>2. ~ControlSets(c, j) BY <1>2, <2>2 DEF ControlSets
    <3>. QED BY <1>5, <1>6, <1>7, <2>2, <3>1, <3>2 DEF ControlUndone
  <2>. QED BY <2>1, <2>2
<1>10. ControlLocked' BY <1>3, <1>4, <1>5 DEF ControlLocked
<1>. QED BY <1>3, <1>5, <1>9, <1>10 DEF ControlDurable, Control!Accepted

(* The check leaves the key to an accepted value either way: to the new one, *)
(* or to the one the thread found.                                           *)
LEMMA ControlCheckIInv ==
  ASSUME ControlIInv, NEW c \in Callers, Control!Check(c)
  PROVE  ControlIInv'
<1>. USE DEF ControlIInv
<1>1. PICK k \in Keys : k = changing[c].name BY DEF Control!Check, Control!IsAt, ControlTypes,
  ControlShape
<1>2. changing[c].at = "check" /\ ControlSets(c, k)
      /\ UNCHANGED <<persistence, disabled, overrides, lock, saved, overlapped, restarts>>
  BY <1>1 DEF Control!Check, Control!IsAt, ControlSets
<1>3. PICK r : /\ changing' = [changing EXCEPT ![c] = r] /\ ControlShape(r) /\ r.at \in {"emit", "idle"}
               /\ \/ Control!Accepted(k, changing[c].value) /\ config' = config
                  \/ config' = [config EXCEPT ![k] = changing[c].old]
  <2>1. CASE Control!Accepted(k, changing[c].value)
    <3>1. PICK r : r = [changing[c] EXCEPT !.at = "emit"] OBVIOUS
    <3>2. changing' = [changing EXCEPT ![c] = r] /\ config' = config
      BY <1>1, <2>1, <3>1 DEF Control!Check, Control!Goto
    <3>3. r.at = "emit" /\ ControlShape(r) BY <1>1, <1>2, <2>1, <3>1 DEF ControlTypes,
      ControlShape
    <3>. QED BY <2>1, <3>2, <3>3
  <2>2. CASE ~Control!Accepted(k, changing[c].value)
    <3>1. changing' = [changing EXCEPT ![c] = Control!Idle] /\ config' = [config EXCEPT ![k] = changing[c].old]
      BY <1>1, <2>2 DEF Control!Check, Control!Return
    <3>2. Control!Idle.at = "idle" /\ ControlShape(Control!Idle) BY DEF Control!Idle, ControlShape
    <3>. QED BY <3>1, <3>2
  <2>. QED BY <2>1, <2>2
<1>4. ControlTypes' /\ changing'[c] = r /\ \A d \in Callers \ {c} : changing'[d] = changing[d]
  <2>1. DOMAIN config' = Keys BY <1>3 DEF ControlTypes
  <2>. QED BY <1>3, <2>1, ControlOneMoves DEF ControlTypes
<1>5. \A j \in Keys : /\ ~ControlSets(c, j)' /\ \A d \in Callers \ {c} : ControlSets(d, j)' <=> ControlSets(d, j)
                      /\ j # k => ~ControlSets(c, j) /\ config'[j] = config[j]
  BY <1>1, <1>3, <1>4 DEF ControlSets, ControlTypes
<1>6. ControlUndone'
  <2>. SUFFICES ASSUME NEW j \in Keys \ overlapped
                PROVE  /\ \A d, e \in Callers : ControlSets(d, j)' /\ ControlSets(e, j)' => d = e
                       /\ \A d \in Callers : ControlSets(d, j)' =>
                            /\ Control!Accepted(j, changing'[d].old)
                            /\ \/ Control!Accepted(j, config'[j])
                               \/ changing'[d].at = "check" /\ config'[j] = changing'[d].value
                       /\ Control!Setting(j)' \/ Control!Accepted(j, config'[j])
    BY <1>2 DEF ControlUndone, Control!Accepted
  <2>1. CASE j = k
    <3>1. \A d \in Callers : ~ControlSets(d, k)' BY <1>2, <1>5, <2>1 DEF ControlUndone
    <3>2. Control!Accepted(k, changing[c].old) /\ (Control!Accepted(k, config[k]) \/ config[k] = changing[c].value)
      BY <1>2, <2>1 DEF ControlUndone
    <3>3. Control!Accepted(k, config'[k]) BY <1>3, <3>2 DEF ControlTypes
    <3>. QED BY <2>1, <3>1, <3>3
  <2>2. CASE j # k
    <3>1. Control!Setting(j)' <=> Control!Setting(j) BY <1>5, <2>2 DEF Control!Setting,
      ControlSets
    <3>. QED BY <1>4, <1>5, <2>2, <3>1 DEF ControlUndone
  <2>. QED BY <2>1, <2>2
<1>7. ControlLocked' BY <1>2, <1>3, <1>4 DEF ControlLocked
<1>. QED BY <1>2, <1>4, <1>6, <1>7 DEF ControlDurable, Control!Accepted

\* A thread that sets no key disturbs none.
LEMMA ControlKeysUndisturbed ==
  ASSUME ControlUndone, NEW c \in Callers, UNCHANGED <<config, overlapped>>,
         \A d \in Callers \ {c} : changing'[d] = changing[d],
         changing[c].at \notin {"set", "check"}, changing'[c].at \notin {"set", "check"}
  PROVE  ControlUndone'
<1>1. \A d \in Callers, j \in Keys : ControlSets(d, j)' <=> ControlSets(d, j) BY DEF ControlSets
<1>2. \A j \in Keys : Control!Setting(j)' <=> Control!Setting(j) BY <1>1 DEF Control!Setting,
  ControlSets
<1>3. \A d \in Callers, j \in Keys : ControlSets(d,
  j) => changing'[d] = changing[d] BY DEF ControlSets
<1>. QED BY <1>1, <1>2, <1>3 DEF ControlUndone, Control!Accepted

LEMMA ControlPersistIInv ==
  ASSUME ControlIInv, ControlAssumption, NEW c \in Callers,
         \/ \E m \in Toggles, enabled \in BOOLEAN : Control!Toggle(c, m, enabled)
         \/ Control!Emit(c) \/ Control!LoadStore(c) \/ Control!LoadPath(c) \/ Control!Save(c)
  PROVE  ControlIInv'
<1>. USE DEF ControlIInv
<1>1. CASE \E m \in Toggles, enabled \in BOOLEAN : Control!Toggle(c, m, enabled)
  <2>1. PICK m \in Toggles, enabled \in BOOLEAN : Control!Toggle(c, m, enabled) BY <1>1
  <2>2. PICK r : r = [at |-> "emit", name |-> m, value |-> enabled] OBVIOUS
  <2>3. changing[c].at = "idle" /\ changing' = [changing EXCEPT ![c] = r]
        /\ UNCHANGED <<persistence, config, overrides, lock, saved, overlapped>>
    BY <2>1, <2>2 DEF Control!Toggle, Control!IsAt
  <2>4. ControlShape(r) /\ r.at = "emit" BY <2>2 DEF ControlShape, ControlAssumption
  <2>5. ControlTypes' /\ changing'[c] = r /\ \A d \in Callers \ {c} : changing'[d] = changing[d]
    BY <2>3, <2>4, ControlOneMoves DEF ControlTypes
  <2>6. ControlUndone' BY <2>3, <2>4, <2>5, ControlKeysUndisturbed
  <2>7. ControlLocked' BY <2>3, <2>4, <2>5 DEF ControlLocked
  <2>. QED BY <2>3, <2>5, <2>6, <2>7 DEF ControlDurable, Control!Accepted
<1>2. CASE Control!Emit(c)
  <2>1. PICK r : /\ changing' = [changing EXCEPT ![c] = r]
                 /\ r = [changing[c] EXCEPT !.at = "load"] \/ r = Control!Idle
    BY <1>2 DEF Control!Emit, Control!Goto, Control!Return
  <2>2. changing[c].at = "emit" /\ UNCHANGED <<persistence, config, overrides, lock, saved, overlapped>>
    BY <1>2 DEF Control!Emit, Control!IsAt
  <2>3. ControlShape(r) /\ r.at \in {"load", "idle"} BY <2>1, <2>2 DEF ControlTypes,
    ControlShape, Control!Idle
  <2>4. ControlTypes' /\ changing'[c] = r /\ \A d \in Callers \ {c} : changing'[d] = changing[d]
    BY <2>1, <2>2, <2>3, ControlOneMoves DEF ControlTypes
  <2>5. ControlUndone' BY <2>2, <2>3, <2>4, ControlKeysUndisturbed
  <2>6. ControlLocked' BY <2>2, <2>3, <2>4 DEF ControlLocked
  <2>. QED BY <2>2, <2>4, <2>5, <2>6 DEF ControlDurable, Control!Accepted
<1>3. CASE Control!LoadStore(c) \/ Control!LoadPath(c)
  <2>1. PICK r : /\ changing' = [changing EXCEPT ![c] = r]
                 /\ \/ r = Control!Idle /\ lock' = lock
                    \/ /\ \E read \in {overrides, Control!NoOverrides} :
                            r = [at |-> "save", name |-> changing[c].name, value |-> changing[c].value,
                                 read |-> read]
                       /\ persistence = "path" => r.read = overrides /\ lock = None /\ lock' = c
    <3>1. CASE Control!LoadStore(c)
      <4>1. PICK r : /\ changing' = [changing EXCEPT ![c] = r]
                     /\ \E read \in {overrides, Control!NoOverrides} :
                          r = [at |-> "save", name |-> changing[c].name, value |-> changing[c].value,
                               read |-> read]
        BY <3>1 DEF Control!LoadStore, Control!Loaded
      <4>2. persistence # "path" BY <3>1 DEF Control!LoadStore
      <4>. QED BY <4>1, <4>2
    <3>2. CASE Control!LoadPath(c)
      <4>1. CASE Control!Return(c) /\ UNCHANGED lock BY <4>1 DEF Control!Return
      <4>2. CASE Control!Loaded(c, overrides) /\ lock' = c
        <5>1. PICK r : r = [at |-> "save", name |-> changing[c].name, value |-> changing[c].value,
                            read |-> overrides]
          OBVIOUS
        <5>2. changing' = [changing EXCEPT ![c] = r] /\ lock = None /\ r.read = overrides
          BY <3>2, <4>2, <5>1 DEF Control!LoadPath, Control!Loaded
        <5>. QED BY <4>2, <5>1, <5>2
      <4>. QED BY <3>2, <4>1, <4>2 DEF Control!LoadPath
    <3>. QED BY <1>3, <3>1, <3>2
  <2>2. changing[c].at = "load" /\ UNCHANGED <<persistence, config, overrides, saved, overlapped>>
    BY <1>3 DEF Control!LoadStore, Control!LoadPath, Control!IsAt
  <2>3. ControlShape(r) /\ r.at \in {"save", "idle"}
    BY <2>1, <2>2 DEF ControlTypes, ControlShape, Control!Idle, ControlDurable,
      Control!NoOverrides
  <2>4. ControlTypes' /\ changing'[c] = r /\ \A d \in Callers \ {c} : changing'[d] = changing[d]
    BY <2>1, <2>2, <2>3, ControlOneMoves DEF ControlTypes
  <2>5. ControlUndone' BY <2>2, <2>3, <2>4, ControlKeysUndisturbed
  <2>6. ControlLocked'
    <3>. SUFFICES ASSUME persistence = "path", NEW d \in Callers, changing'[d].at = "save"
                  PROVE  lock' = d /\ changing'[d].read = overrides
      BY <2>2 DEF ControlLocked
    <3>1. CASE d = c BY <2>1, <2>4, <3>1 DEF Control!Idle
    <3>2. CASE d # c
      <4>1. lock = d /\ changing[d].read = overrides BY <2>4, <3>2 DEF ControlLocked
      <4>. QED BY <2>1, <2>4, <3>2, <4>1 DEF ControlAssumption
    <3>. QED BY <3>1, <3>2
  <2>. QED BY <2>2, <2>4, <2>5, <2>6 DEF ControlDurable, Control!Accepted
<1>4. CASE Control!Save(c)
  <2>1. /\ changing[c].at = "save" /\ changing' = [changing EXCEPT ![c] = Control!Idle]
        /\ UNCHANGED <<persistence, config, overlapped>>
        /\ lock' = IF lock = c THEN None ELSE lock
    BY <1>4 DEF Control!Save, Control!IsAt, Control!Return
  <2>2. ControlShape(Control!Idle) /\ Control!Idle.at = "idle" BY DEF ControlShape, Control!Idle
  <2>3. ControlTypes' /\ changing'[c] = Control!Idle /\ \A d \in Callers \ {c} : changing'[d] = changing[d]
    BY <2>1, <2>2, ControlOneMoves DEF ControlTypes
  <2>4. ControlUndone' BY <2>1, <2>2, <2>3, ControlKeysUndisturbed
  <2>5. \/ /\ overrides' = Control!Written(changing[c].read, changing[c].name, changing[c].value)
           /\ saved' = Control!Written(saved, changing[c].name, changing[c].value)
        \/ UNCHANGED <<overrides, saved>>
    BY <1>4 DEF Control!Save
  <2>6. ControlLocked'
    <3>. SUFFICES ASSUME persistence = "path"
                  PROVE  overrides' = saved' /\ \A d \in Callers : changing'[d].at # "save"
      BY <2>1 DEF ControlLocked
    <3>1. lock = c /\ changing[c].read = overrides /\ overrides = saved BY <2>1 DEF ControlLocked
    <3>2. \A d \in Callers : changing[d].at = "save" => d = c BY <3>1 DEF ControlLocked
    <3>. QED BY <2>2, <2>3, <2>5, <3>1, <3>2
  <2>7. ControlDurable'
    <3>. SUFFICES ASSUME NEW k \in Keys, k \in DOMAIN overrides' PROVE Control!Accepted(k, overrides'[k])
      BY DEF ControlDurable, Control!Accepted
    <3>1. CASE UNCHANGED overrides BY <3>1 DEF ControlDurable
    <3>2. CASE overrides' = Control!Written(changing[c].read, changing[c].name, changing[c].value)
      <4>1. \/ k = changing[c].name /\ overrides'[k] = changing[c].value
            \/ k \in DOMAIN changing[c].read /\ overrides'[k] = changing[c].read[k]
        BY <3>2 DEF Control!Written
      <4>. QED BY <2>1, <4>1 DEF ControlTypes, ControlShape
    <3>. QED BY <2>5, <3>1, <3>2
  <2>. QED BY <2>3, <2>4, <2>6, <2>7
<1>. QED BY <1>1, <1>2, <1>3, <1>4

\* The file, and the overrides a restart reads, hold accepted values only.
LEMMA ControlReloadIInv ==
  ASSUME ControlIInv, ControlAssumption, Control!ReloadConfig
  PROVE  ControlIInv'
<1>. USE DEF ControlIInv
<1>1. config' = FileConfig /\ UNCHANGED <<persistence, disabled, overrides, lock, changing, saved, overlapped, restarts>>
  BY DEF Control!ReloadConfig
<1>2. \A d \in Callers, j \in Keys : ControlSets(d, j)' <=> ControlSets(d,
  j) BY <1>1 DEF ControlSets
<1>3. ControlUndone' BY <1>1, <1>2 DEF ControlUndone, Control!Accepted, ControlAssumption
<1>4. ControlTypes' BY <1>1 DEF ControlTypes, ControlShape, Control!Accepted,
  ControlAssumption
<1>. QED BY <1>1, <1>3, <1>4 DEF ControlDurable, ControlLocked, Control!Accepted

LEMMA ControlRestartIInv ==
  ASSUME ControlIInv, ControlAssumption, Control!Restart
  PROVE  ControlIInv'
<1>. USE DEF ControlIInv
<1>1. PICK read \in {overrides, Control!NoOverrides} :
        config' = [k \in Keys |-> IF k \in DOMAIN read THEN read[k] ELSE FileConfig[k]]
  BY DEF Control!Restart
<1>2. /\ changing' = [c \in Callers |-> Control!Idle] /\ overlapped' = {}
      /\ UNCHANGED <<persistence, overrides, saved>>
  BY DEF Control!Restart
<1>3. ControlTypes' BY <1>1, <1>2 DEF ControlTypes, ControlShape, Control!Idle
<1>4. \A c \in Callers : changing'[c].at = "idle" BY <1>2 DEF Control!Idle
<1>5. \A k \in Keys : Control!Accepted(k, config'[k])
  BY <1>1 DEF ControlDurable, Control!NoOverrides, ControlAssumption
<1>6. ControlUndone' BY <1>4, <1>5 DEF ControlUndone, ControlSets, Control!Accepted
<1>7. ControlLocked' BY <1>2, <1>4 DEF ControlLocked
<1>. QED BY <1>2, <1>3, <1>6, <1>7 DEF ControlDurable, Control!Accepted

LEMMA ControlNextIInv ==
  ASSUME ControlAssumption
  PROVE  ControlIInv /\ [Control!Next]_Control!controlVars => ControlIInv'
<1>. SUFFICES ASSUME ControlIInv, [Control!Next]_Control!controlVars PROVE ControlIInv' OBVIOUS
<1>1. CASE UNCHANGED Control!controlVars
  BY <1>1 DEF Control!controlVars, ControlIInv, ControlTypes, ControlShape, ControlDurable,
    ControlLocked, ControlUndone, ControlSets, Control!Setting, Control!Accepted
<1>. QED BY <1>1, ControlUpdateIInv, ControlSetIInv, ControlCheckIInv, ControlPersistIInv,
  ControlReloadIInv, ControlRestartIInv DEF Control!Next

-----------------------------------------------------------------------------
(* The span processor (SpanProcessor).                                     *)

SpanTypes == /\ ended \in 0..MaxSpans /\ spansDropped \in Nat /\ uncounted \in Nat
             /\ queue \in Seq(Span!Spans) /\ batch \in [Span!Threads -> Seq(Span!Spans)]
             /\ exported \in [Span!Spans -> Nat]

SpanDistinct(q) == \A i, j \in DOMAIN q : q[i] = q[j] => i = j
SpanQueued(s) == s \in Span!Range(queue)
SpanHeld(s, t) == s \in Span!Range(batch[t])

(* A span has not ended, or it is in the queue, in the batch of one thread,  *)
(* exported once, or lost.                                                   *)
SpanOnePlace ==
  /\ SpanDistinct(queue) /\ \A t \in Span!Threads : SpanDistinct(batch[t])
  /\ \A s \in Span!Spans :
       /\ SpanQueued(s) => s <= ended /\ exported[s] = 0 /\ \A t \in Span!Threads : ~SpanHeld(s, t)
       /\ \A t \in Span!Threads : SpanHeld(s, t) =>
            s <= ended /\ exported[s] = 0 /\ \A u \in Span!Threads : SpanHeld(s, u) => u = t
       /\ s > ended => exported[s] = 0
       /\ exported[s] <= 1
SpanCounted == Cardinality(Span!Lost) = spansDropped + uncounted

SpanIInv == SpanTypes /\ SpanOnePlace /\ SpanCounted

-----------------------------------------------------------------------------
LEMMA SpanAppendAdds ==
  ASSUME NEW S, NEW q \in Seq(S), NEW x \in S
  PROVE  /\ Append(q, x) \in Seq(S)
         /\ Span!Range(Append(q, x)) = Span!Range(q) \cup {x}
         /\ SpanDistinct(q) /\ x \notin Span!Range(q) => SpanDistinct(Append(q, x))
<1> DEFINE a == Append(q, x)
<1>1. a \in Seq(S) /\ Len(a) = Len(q) + 1 /\ a[Len(q) + 1] = x /\ \A i \in 1..Len(q) : a[i] = q[i]
  OBVIOUS
<1>2. DOMAIN q = 1..Len(q) /\ DOMAIN a = 1..(Len(q) + 1) /\ Len(q) \in Nat
  BY <1>1
<1>. HIDE DEF a
<1>3. Span!Range(a) = Span!Range(q) \cup {x} BY <1>1, <1>2 DEF Span!Range
<1>4. SpanDistinct(q) /\ x \notin Span!Range(q) => SpanDistinct(a) BY <1>1, <1>2 DEF Span!Range,
  SpanDistinct
<1>. QED BY <1>1, <1>3, <1>4 DEF a

LEMMA SpanTailRemoves ==
  ASSUME NEW S, NEW q \in Seq(S), q # <<>>
  PROVE  /\ Head(q) \in S /\ Tail(q) \in Seq(S)
         /\ Span!Range(q) = Span!Range(Tail(q)) \cup {Head(q)}
         /\ SpanDistinct(q) => SpanDistinct(Tail(q)) /\ Head(q) \notin Span!Range(Tail(q))
<1> DEFINE r == Tail(q)
<1>1. r \in Seq(S) /\ Len(q) \in Nat \ {0} /\ Len(r) = Len(q) - 1 /\ Head(q) = q[1]
      /\ q[1] \in S /\ \A i \in 1..Len(r) : r[i] = q[i + 1]
  OBVIOUS
<1>2. DOMAIN q = 1..Len(q) /\ DOMAIN r = 1..Len(r) BY <1>1
<1>. HIDE DEF r
<1>3. Span!Range(q) = Span!Range(r) \cup {q[1]}
  <2>1. ASSUME NEW i \in 1..Len(q) PROVE q[i] \in Span!Range(r) \cup {q[1]}
    <3>1. i = 1 \/ (i - 1 \in 1..Len(r) /\ r[i - 1] = q[i]) BY <1>1
    <3>. QED BY <1>2, <3>1 DEF Span!Range
  <2>2. ASSUME NEW i \in 1..Len(r) PROVE r[i] \in Span!Range(q)
    <3>1. i + 1 \in 1..Len(q) /\ q[i + 1] = r[i] BY <1>1
    <3>. QED BY <1>2, <3>1 DEF Span!Range
  <2>3. q[1] \in Span!Range(q) BY <1>1, <1>2 DEF Span!Range
  <2>4. Span!Range(q) \subseteq Span!Range(r) \cup {q[1]} BY <1>2, <2>1 DEF Span!Range
  <2>5. Span!Range(r) \subseteq Span!Range(q) BY <1>2, <2>2 DEF Span!Range
  <2>. QED BY <2>3, <2>4, <2>5
<1>4. SpanDistinct(q) => SpanDistinct(r) /\ q[1] \notin Span!Range(r)
  <2>. SUFFICES ASSUME SpanDistinct(q) PROVE SpanDistinct(r) /\ q[1] \notin Span!Range(r) OBVIOUS
  <2>1. \A i \in 1..Len(r) : i + 1 \in 1..Len(q) /\ r[i] = q[i + 1] /\ i + 1 # 1 BY <1>1
  <2>2. \A i, j \in 1..Len(q) : q[i] = q[j] => i = j BY <1>2 DEF SpanDistinct
  <2>3. 1 \in 1..Len(q) BY <1>1
  <2>4. ASSUME NEW i \in 1..Len(r), NEW j \in 1..Len(r), r[i] = r[j] PROVE i = j
    <3>1. i + 1 = j + 1 BY <2>1, <2>2, <2>4
    <3>. QED BY <3>1
  <2>5. \A i \in 1..Len(r) : r[i] # q[1] BY <2>1, <2>2, <2>3
  <2>. QED BY <1>2, <2>4, <2>5 DEF SpanDistinct, Span!Range
<1>. QED BY <1>1, <1>3, <1>4 DEF r

LEMMA SpanInitIInv ==
  ASSUME MaxSpans \in Nat
  PROVE  Span!Init => SpanIInv
<1>. SUFFICES ASSUME Span!Init PROVE SpanIInv OBVIOUS
<1>1. SpanTypes BY DEF Span!Init, SpanTypes, Span!Spans
<1>2. SpanOnePlace BY DEF Span!Init, SpanOnePlace, SpanDistinct, SpanQueued, SpanHeld,
  Span!Range, Span!Spans
<1>3. Span!Lost = {} BY DEF Span!Init, Span!Lost, Span!Spans
<1>. QED BY <1>1, <1>2, <1>3, FS_EmptySet DEF SpanIInv, SpanCounted, Span!Init

(* A span that ends is queued, or is lost and about to be counted.           *)
LEMMA SpanEndIInv ==
  ASSUME MaxSpans \in Nat, SpanIInv, Span!OnSpanEnd
  PROVE  SpanIInv'
<1> DEFINE s == ended + 1
<1>. USE DEF SpanIInv, SpanTypes, Span!Spans
<1>1. s \in Span!Spans /\ ended' = s /\ UNCHANGED <<batch, exported, spansDropped>>
  BY DEF Span!OnSpanEnd
<1>2. exported[s] = 0 /\ ~SpanQueued(s) /\ \A t \in Span!Threads : ~SpanHeld(s, t)
  BY <1>1 DEF SpanOnePlace
<1>3. CASE queue' = Append(queue, s) /\ UNCHANGED uncounted
  <2>1. /\ queue' \in Seq(Span!Spans) /\ Span!Range(queue') = Span!Range(queue) \cup {s}
        /\ SpanDistinct(queue')
    BY <1>1, <1>2, <1>3, SpanAppendAdds DEF SpanOnePlace, SpanQueued
  <2>2. SpanOnePlace' BY <1>1, <1>2, <2>1 DEF SpanOnePlace, SpanQueued, SpanHeld
  <2>3. Span!Lost' = Span!Lost BY <1>1, <1>2, <2>1 DEF Span!Lost, SpanQueued, SpanHeld
  <2>. QED BY <1>1, <1>3, <2>1, <2>2, <2>3 DEF SpanCounted
<1>4. CASE uncounted' = uncounted + 1 /\ UNCHANGED queue
  <2>1. SpanOnePlace' BY <1>1, <1>2, <1>4 DEF SpanOnePlace, SpanQueued, SpanHeld
  <2>2. Span!Lost' = Span!Lost \cup {s} /\ s \notin Span!Lost BY <1>1, <1>2, <1>4 DEF Span!Lost,
    SpanQueued, SpanHeld
  <2>3. IsFiniteSet(Span!Lost)
    <3>1. Span!Lost \subseteq 1..MaxSpans BY DEF Span!Lost
    <3>2. IsFiniteSet(1..MaxSpans) BY FS_Interval
    <3>. QED BY <3>1, <3>2, FS_Subset
  <2>4. Cardinality(Span!Lost') = Cardinality(Span!Lost) + 1 BY <2>2, <2>3, FS_AddElement
  <2>. QED BY <1>1, <1>4, <2>1, <2>4 DEF SpanCounted
<1>. QED BY <1>3, <1>4 DEF Span!OnSpanEnd

(* The head of the queue moves to the end of one batch.                      *)
LEMMA SpanTakeIInv ==
  ASSUME MaxSpans \in Nat, SpanIInv, NEW t \in Span!Threads, Span!Take(t)
  PROVE  SpanIInv'
<1>. USE DEF SpanIInv, SpanTypes
<1>1. CASE queue # <<>> /\ Len(batch[t]) < MaxExportBatchSize
  <2> DEFINE s == Head(queue)
  <2>1. UNCHANGED <<ended, spansDropped, uncounted, exported>> BY DEF Span!Take
  <2>2. /\ queue' = Tail(queue)
        /\ batch' = [batch EXCEPT ![t] = Append(batch[t], s)]
    BY <1>1 DEF Span!Take
  <2>3. /\ s \in Span!Spans /\ queue' \in Seq(Span!Spans) /\ SpanDistinct(queue')
        /\ Span!Range(queue) = Span!Range(queue') \cup {s} /\ s \notin Span!Range(queue')
    BY <1>1, <2>2, SpanTailRemoves DEF SpanOnePlace
  <2>4. exported[s] = 0 /\ s <= ended /\ \A u \in Span!Threads : ~SpanHeld(s, u)
    BY <2>3 DEF SpanOnePlace, SpanQueued
  <2>5. /\ batch'[t] \in Seq(Span!Spans) /\ SpanDistinct(batch'[t])
        /\ Span!Range(batch'[t]) = Span!Range(batch[t]) \cup {s}
    BY <2>2, <2>3, <2>4, SpanAppendAdds DEF SpanOnePlace, SpanHeld
  <2>6. batch' \in [Span!Threads -> Seq(Span!Spans)] /\ \A u \in Span!Threads \ {t} : batch'[u] = batch[u]
    BY <2>2, <2>5
  <2>. HIDE DEF s
  <2>7. /\ \A r \in Span!Spans : SpanQueued(r)' <=> SpanQueued(r) /\ r # s
        /\ \A r \in Span!Spans, u \in Span!Threads : SpanHeld(r, u)' <=> SpanHeld(r, u) \/ (u = t /\ r = s)
    BY <2>3, <2>5, <2>6 DEF SpanQueued, SpanHeld
  <2>8. SpanOnePlace'
    <3>1. \A u \in Span!Threads : SpanDistinct(batch'[u]) BY <2>5, <2>6 DEF SpanOnePlace
    <3>. QED BY <2>1, <2>3, <2>4, <2>7, <3>1 DEF SpanOnePlace
  <2>9. Span!Lost' = Span!Lost
    <3>1. SpanQueued(s) BY <2>3 DEF SpanQueued
    <3>2. Span!Lost' = {r \in Span!Spans : r <= ended' /\ exported'[r] = 0 /\ ~SpanQueued(r)' /\ \A u \in Span!Threads : ~SpanHeld(r, u)'}
      BY DEF Span!Lost, SpanQueued, SpanHeld
    <3>3. Span!Lost = {r \in Span!Spans : r <= ended /\ exported[r] = 0 /\ ~SpanQueued(r) /\ \A u \in Span!Threads : ~SpanHeld(r, u)}
      BY DEF Span!Lost, SpanQueued, SpanHeld
    <3>. QED BY <2>1, <2>7, <3>1, <3>2, <3>3
  <2>. QED BY <2>1, <2>3, <2>6, <2>8, <2>9 DEF SpanCounted
<1>2. CASE ~(queue # <<>> /\ Len(batch[t]) < MaxExportBatchSize)
  <2>1. UNCHANGED <<ended, queue, spansDropped, uncounted, batch, exported>> BY <1>2 DEF Span!Take
  <2>. QED BY <2>1 DEF SpanOnePlace, SpanQueued, SpanHeld, SpanCounted, Span!Lost
<1>. QED BY <1>1, <1>2

(* The head of a batch is exported, for the first time.                      *)
LEMMA SpanExportIInv ==
  ASSUME MaxSpans \in Nat, SpanIInv, NEW t \in Span!Threads, Span!Export(t)
  PROVE  SpanIInv'
<1> DEFINE s == Head(batch[t])
<1>. USE DEF SpanIInv, SpanTypes
<1>1. /\ batch[t] # <<>> /\ UNCHANGED <<ended, queue, spansDropped, uncounted>>
      /\ batch' = [batch EXCEPT ![t] = Tail(batch[t])]
      /\ exported' = [exported EXCEPT ![s] = exported[s] + 1]
  BY DEF Span!Export
<1>2. /\ s \in Span!Spans /\ batch'[t] \in Seq(Span!Spans) /\ SpanDistinct(batch'[t])
      /\ Span!Range(batch[t]) = Span!Range(batch'[t]) \cup {s} /\ s \notin Span!Range(batch'[t])
  BY <1>1, SpanTailRemoves DEF SpanOnePlace
<1>3. batch' \in [Span!Threads -> Seq(Span!Spans)] /\ \A u \in Span!Threads \ {t} : batch'[u] = batch[u]
  BY <1>1, <1>2
<1>4. SpanHeld(s, t) /\ exported[s] = 0 /\ s <= ended /\ ~SpanQueued(s)
      /\ \A u \in Span!Threads : SpanHeld(s, u) => u = t
  BY <1>2 DEF SpanOnePlace, SpanHeld
<1>. HIDE DEF s
<1>5. exported' \in [Span!Spans -> Nat] /\ exported'[s] = 1 /\ \A r \in Span!Spans \ {s} : exported'[r] = exported[r]
  BY <1>1, <1>2, <1>4
<1>6. \A r \in Span!Spans, u \in Span!Threads : SpanHeld(r, u)' <=> SpanHeld(r, u) /\ ~(u = t /\ r = s)
  BY <1>2, <1>3 DEF SpanHeld
<1>7. \A r \in Span!Spans : SpanQueued(r)' <=> SpanQueued(r) BY <1>1 DEF SpanQueued
<1>8. SpanOnePlace'
  <2>1. \A u \in Span!Threads : SpanDistinct(batch'[u]) BY <1>2, <1>3 DEF SpanOnePlace
  <2>2. \A r \in Span!Spans, u \in Span!Threads : r = s => ~SpanHeld(r, u)' BY <1>4, <1>6
  <2>3. \A r \in Span!Spans : r = s => ~SpanQueued(r)' BY <1>4, <1>7
  <2>4. SpanDistinct(queue') BY <1>1 DEF SpanOnePlace
  <2>5. ASSUME NEW r \in Span!Spans
        PROVE  /\ SpanQueued(r)' => r <= ended' /\ exported'[r] = 0 /\ \A u \in Span!Threads : ~SpanHeld(r, u)'
               /\ \A u \in Span!Threads : SpanHeld(r, u)' =>
                    r <= ended' /\ exported'[r] = 0 /\ \A v \in Span!Threads : SpanHeld(r, v)' => v = u
               /\ r > ended' => exported'[r] = 0
               /\ exported'[r] <= 1
    <3>1. CASE r = s
      <4>1. exported'[r] = 1 /\ ended' = ended /\ r <= ended BY <1>1, <1>4, <1>5, <3>1
      <4>2. ~(r > ended') BY <4>1 DEF Span!Spans
      <4>. QED BY <2>2, <2>3, <3>1, <4>1, <4>2
    <3>2. CASE r # s
      <4>1. exported'[r] = exported[r] /\ ended' = ended BY <1>1, <1>5, <3>2
      <4>. QED BY <1>6, <1>7, <3>2, <4>1 DEF SpanOnePlace
    <3>. QED BY <3>1, <3>2
  <2>. QED BY <2>1, <2>4, <2>5 DEF SpanOnePlace
<1>9. Span!Lost' = Span!Lost
  <2>1. Span!Lost' = {r \in Span!Spans : r <= ended' /\ exported'[r] = 0 /\ ~SpanQueued(r)' /\ \A u \in Span!Threads : ~SpanHeld(r, u)'}
    BY DEF Span!Lost, SpanQueued, SpanHeld
  <2>2. Span!Lost = {r \in Span!Spans : r <= ended /\ exported[r] = 0 /\ ~SpanQueued(r) /\ \A u \in Span!Threads : ~SpanHeld(r, u)}
    BY DEF Span!Lost, SpanQueued, SpanHeld
  <2>. QED BY <1>1, <1>4, <1>5, <1>6, <1>7, <2>1, <2>2
<1>. QED BY <1>1, <1>3, <1>5, <1>8, <1>9 DEF SpanCounted

LEMMA SpanNextIInv ==
  ASSUME MaxSpans \in Nat
  PROVE  SpanIInv /\ [Span!Next]_Span!spanVars => SpanIInv'
<1>. SUFFICES ASSUME SpanIInv, [Span!Next]_Span!spanVars PROVE SpanIInv' OBVIOUS
<1>1. ASSUME UNCHANGED <<ended, queue, spansDropped, uncounted, batch, exported>> PROVE SpanIInv'
  BY <1>1 DEF SpanIInv, SpanTypes, SpanOnePlace, SpanQueued, SpanHeld, SpanCounted, Span!Lost
<1>2. ASSUME NEW t \in Span!Threads, Span!Take(t) \/ Span!Export(t) \/ Span!FlushDone(t) PROVE SpanIInv'
  <2>1. CASE Span!FlushDone(t) BY <1>1, <2>1 DEF Span!FlushDone
  <2>. QED BY <1>2, <2>1, SpanTakeIInv, SpanExportIInv
<1>3. CASE Span!Wake BY <1>1, <1>3 DEF Span!Wake
<1>4. ASSUME NEW t \in Flushers, Span!ForceFlush(t) \/ Span!FlushExpires(t) PROVE SpanIInv'
  BY <1>1, <1>4 DEF Span!ForceFlush, Span!FlushExpires
<1>5. ASSUME NEW t \in Closers, Span!Shutdown(t) \/ Span!SignalWorker(t) \/ Span!Join(t) \/ Span!Close(t) PROVE SpanIInv'
  BY <1>1, <1>5 DEF Span!Shutdown, Span!SignalWorker, Span!Join, Span!Close
<1>6. CASE UNCHANGED Span!spanVars BY <1>1, <1>6 DEF Span!spanVars
<1>7. CASE Span!CountDropped
  <2>1. UNCHANGED <<ended, queue, batch, exported>> BY <1>7 DEF Span!CountDropped
  <2>2. SpanOnePlace' /\ Span!Lost' = Span!Lost
    BY <2>1 DEF SpanIInv, SpanOnePlace, SpanQueued, SpanHeld, Span!Lost
  <2>3. /\ spansDropped' \in Nat /\ uncounted' \in Nat
        /\ spansDropped' + uncounted' = spansDropped + uncounted
    BY <1>7 DEF Span!CountDropped, SpanIInv, SpanTypes
  <2>. QED BY <2>1, <2>2, <2>3 DEF SpanIInv, SpanTypes, SpanCounted
<1>. QED BY <1>2, <1>3, <1>4, <1>5, <1>6, <1>7, SpanEndIInv DEF Span!Next

\* The instance's copy of Cardinality and the library's.
LEMMA SpanCardinality ==
  ASSUME NEW S
  PROVE  Span!Cardinality(S) = Cardinality(S)
BY DEF Span!Cardinality, Cardinality

LEMMA SpanAccounted ==
  ASSUME SpanIInv
  PROVE  Span!SpansAreAccountedFor
<1>1. Cardinality(Span!Lost) = spansDropped + uncounted BY DEF SpanIInv, SpanCounted
<1>2. ASSUME NEW s \in Span!Spans
      PROVE  /\ exported[s] <= 1
             /\ exported[s] = 1 => s \notin Span!Range(queue) /\ \A t \in Span!Threads : s \notin Span!Range(batch[t])
             /\ \A t, u \in Span!Threads : s \in Span!Range(batch[t]) \cap Span!Range(batch[u]) => t = u
  BY DEF SpanIInv, SpanOnePlace, SpanQueued, SpanHeld
<1>. QED BY <1>1, <1>2, SpanCardinality DEF Span!SpansAreAccountedFor

-----------------------------------------------------------------------------
(* The event emitter (EventEmitter).                                       *)

EmitterTypes == /\ emitted \in 0..MaxEvents /\ emitAt \in [Emitters -> 0..MaxEvents]
                /\ future \in [Emitter!Events -> {"none", "queued", "refused", "running", "done", "cancelled"}]
                /\ loop \in 0..MaxEvents /\ pool \in BOOLEAN
                /\ closer \in {"idle", "flush", "wait", "returned"}

(* An event has one submission ahead of it: nobody numbers it again, one     *)
(* caller is about to submit it, and the loop's event is a running one.      *)
EmitterNumbered ==
  /\ \A e \in Emitter!Events : e > emitted => future[e] = "none"
  /\ \A c \in Emitters : emitAt[c] # Emitter!NoEvent =>
       emitAt[c] <= emitted /\ future[emitAt[c]] = "none" /\ \A d \in Emitters : emitAt[d] = emitAt[c] => d = c
  /\ loop # Emitter!NoEvent => loop <= emitted /\ future[loop] = "running"

(* The pool is closed before the loop, with nothing left queued; and the     *)
(* loop is closed with nothing left running.                                 *)
EmitterStages ==
  /\ closer \in {"wait", "returned"} => ~pool
  /\ ~pool => \A e \in Emitter!Events : future[e] # "queued"
  /\ loopClosed => closer = "returned"
  /\ closer = "returned" => Emitter!Running = {}

EmitterIInv == EmitterTypes /\ EmitterNumbered /\ EmitterStages

\* How an event may move on: no step brings one back.
EmitterMovesOn(was, is) ==
  \/ is = was
  \/ was = "none" /\ is \in {"queued", "refused"}
  \/ was = "queued" /\ is \in {"running", "cancelled"}
  \/ was = "running" /\ is = "done"
EmitterAllMoveOn == \A e \in Emitter!Events : EmitterMovesOn(future[e], future'[e])

LEMMA EmitterInitIInv ==
  ASSUME MaxEvents \in Nat
  PROVE  Emitter!Init => EmitterIInv
BY DEF Emitter!Init, EmitterIInv, EmitterTypes, EmitterNumbered, EmitterStages, Emitter!Events,
  Emitter!NoEvent, Emitter!Running

\* An emission gives the next number to one caller.
LEMMA EmitterEmitIInv ==
  ASSUME MaxEvents \in Nat, EmitterIInv, NEW c \in Emitters, Emitter!Emit(c)
  PROVE  EmitterIInv' /\ EmitterAllMoveOn
<1>. USE DEF EmitterIInv, EmitterTypes, Emitter!Events, Emitter!NoEvent
<1>1. /\ emitAt[c] = 0 /\ emitted' = emitted + 1 /\ emitted' \in 1..MaxEvents
      /\ emitAt' = [emitAt EXCEPT ![c] = emitted'] /\ UNCHANGED <<pool, future, loop, closer, loopClosed>>
  BY DEF Emitter!Emit, Emitter!delivery
<1>2. emitAt'[c] = emitted' /\ \A d \in Emitters \ {c} : emitAt'[d] = emitAt[d] BY <1>1
<1>3. \A d \in Emitters \ {c} : emitAt[d] <= emitted BY DEF EmitterNumbered
<1>4. \A d \in Emitters : emitAt'[d] # 0 =>
        emitAt'[d] <= emitted' /\ future[emitAt'[d]] = "none" /\ \A b \in Emitters : emitAt'[b] = emitAt'[d] => b = d
  <2>. SUFFICES ASSUME NEW d \in Emitters, emitAt'[d] # 0
                PROVE  emitAt'[d] <= emitted' /\ future[emitAt'[d]] = "none"
                       /\ \A b \in Emitters : emitAt'[b] = emitAt'[d] => b = d
    OBVIOUS
  <2>1. CASE d = c BY <1>1, <1>2, <1>3, <2>1 DEF EmitterNumbered
  <2>2. CASE d # c BY <1>1, <1>2, <1>3, <2>2 DEF EmitterNumbered
  <2>. QED BY <2>1, <2>2
<1>5. EmitterNumbered' BY <1>1, <1>4 DEF EmitterNumbered
<1>6. EmitterStages' BY <1>1 DEF EmitterStages, Emitter!Running
<1>. QED BY <1>1, <1>5, <1>6 DEF EmitterAllMoveOn, EmitterMovesOn

LEMMA EmitterSubmitIInv ==
  ASSUME MaxEvents \in Nat, EmitterIInv, NEW c \in Emitters, Emitter!Submit(c)
  PROVE  EmitterIInv' /\ EmitterAllMoveOn
<1>. USE DEF EmitterIInv, EmitterTypes, Emitter!Events, Emitter!NoEvent
<1>1. PICK e \in Emitter!Events : e = emitAt[c] BY DEF Emitter!Submit
<1>2. PICK is \in {"queued", "refused"} : is = IF pool THEN "queued" ELSE "refused" OBVIOUS
<1>3. /\ emitAt' = [emitAt EXCEPT ![c] = 0] /\ future' = [future EXCEPT ![e] = is]
      /\ UNCHANGED <<pool, emitted, loop, closer, loopClosed>>
  BY <1>1, <1>2 DEF Emitter!Submit, Emitter!delivery
<1>4. future[e] = "none" /\ e <= emitted /\ loop # e /\ \A d \in Emitters : emitAt[d] = e => d = c
  BY <1>1 DEF EmitterNumbered
<1>5. EmitterNumbered' BY <1>1, <1>3, <1>4 DEF EmitterNumbered
<1>6. EmitterStages' BY <1>2, <1>3, <1>4 DEF EmitterStages, Emitter!Running
<1>. QED BY <1>2, <1>3, <1>4, <1>5, <1>6 DEF EmitterAllMoveOn, EmitterMovesOn

(* Where deliveries are made: an event starts only from the queue, and only  *)
(* a running one takes the loop.                                             *)
LEMMA EmitterStartIInv ==
  ASSUME MaxEvents \in Nat, EmitterIInv, NEW e \in Emitter!Events, Emitter!Start(e) \/ Emitter!EnterLoop(e)
  PROVE  EmitterIInv' /\ EmitterAllMoveOn
<1>. USE DEF EmitterIInv, EmitterTypes, Emitter!Events, Emitter!NoEvent
<1>1. CASE Emitter!Start(e)
  <2>1. /\ future[e] = "queued" /\ future' = [future EXCEPT ![e] = "running"]
        /\ UNCHANGED <<pool, emitted, emitAt, loop, closer, loopClosed>>
    BY <1>1 DEF Emitter!Start, Emitter!delivery
  <2>2. pool /\ closer \notin {"wait", "returned"} BY <2>1 DEF EmitterStages
  <2>3. EmitterNumbered' BY <2>1 DEF EmitterNumbered
  <2>4. EmitterStages' BY <2>1, <2>2 DEF EmitterStages
  <2>. QED BY <2>1, <2>3, <2>4 DEF EmitterAllMoveOn, EmitterMovesOn
<1>2. CASE Emitter!EnterLoop(e)
  <2>1. future[e] = "running" /\ loop' = e /\ UNCHANGED <<pool, emitted, emitAt, future, closer, loopClosed>>
    BY <1>2 DEF Emitter!EnterLoop
  <2>2. EmitterNumbered' BY <2>1 DEF EmitterNumbered
  <2>. QED BY <2>1, <2>2 DEF EmitterStages, Emitter!Running, EmitterAllMoveOn, EmitterMovesOn
<1>. QED BY <1>1, <1>2

\* The circuit's own event is numbered and submitted in one step.
LEMMA EmitterAnnounceMoves ==
  ASSUME MaxEvents \in Nat, EmitterIInv, NEW emits, Emitter!Announce(emits) \/ UNCHANGED <<emitted, audience, future>>,
         UNCHANGED <<pool, emitAt, loop, closer, loopClosed>>
  PROVE  EmitterIInv' /\ EmitterAllMoveOn
<1>. USE DEF EmitterIInv, EmitterTypes, Emitter!Events, Emitter!NoEvent
<1>1. CASE UNCHANGED <<emitted, future>>
  BY <1>1 DEF EmitterNumbered, EmitterStages, Emitter!Running, EmitterAllMoveOn, EmitterMovesOn
<1>2. CASE ~UNCHANGED <<emitted, future>>
  <2>1. emitted' = emitted + 1 /\ emitted' \in 1..MaxEvents BY <1>2 DEF Emitter!Announce
  <2>2. PICK is \in {"queued", "refused"} : is = IF pool THEN "queued" ELSE "refused" OBVIOUS
  <2>3. future' = [future EXCEPT ![emitted'] = is] BY <1>2, <2>2 DEF Emitter!Announce
  <2>4. future[emitted'] = "none" /\ loop # emitted' /\ \A d \in Emitters : emitAt[d] # emitted'
    BY <2>1 DEF EmitterNumbered
  <2>5. EmitterNumbered' BY <2>1, <2>3, <2>4 DEF EmitterNumbered
  <2>6. EmitterStages' BY <2>1, <2>2, <2>3, <2>4 DEF EmitterStages, Emitter!Running
  <2>. QED BY <2>1, <2>2, <2>3, <2>4, <2>5, <2>6 DEF EmitterAllMoveOn, EmitterMovesOn
<1>. QED BY <1>1, <1>2

LEMMA EmitterDeliverIInv ==
  ASSUME MaxEvents \in Nat, EmitterIInv,
         \/ \E s \in Subscribers : Emitter!Deliver(s) \/ Emitter!GiveUp(s) \/ Emitter!Subscribe(s) \/ Emitter!Unsubscribe(s)
         \/ \E s \in Wrapped : Emitter!DeliverWrapped(s) \/ Emitter!Recover(s)
  PROVE  EmitterIInv' /\ EmitterAllMoveOn
<1>1. UNCHANGED <<pool, emitAt, loop, closer, loopClosed>>
  BY DEF Emitter!Deliver, Emitter!GiveUp, Emitter!Subscribe, Emitter!Unsubscribe,
    Emitter!DeliverWrapped, Emitter!Recover, Emitter!delivery
<1>2. \E emits \in BOOLEAN : Emitter!Announce(emits) \/ UNCHANGED <<emitted, audience, future>>
  BY DEF Emitter!Deliver, Emitter!GiveUp, Emitter!Subscribe, Emitter!Unsubscribe,
    Emitter!DeliverWrapped, Emitter!Recover, Emitter!Skip, Emitter!Succeed, Emitter!Fail
<1>. QED BY <1>1, <1>2, EmitterAnnounceMoves

LEMMA EmitterLeaveIInv ==
  ASSUME MaxEvents \in Nat, EmitterIInv, Emitter!LeaveLoop
  PROVE  EmitterIInv' /\ EmitterAllMoveOn
<1>. USE DEF EmitterIInv, EmitterTypes, Emitter!Events, Emitter!NoEvent
<1>1. PICK e \in Emitter!Events : e = loop BY DEF Emitter!LeaveLoop
<1>2. /\ loop' = 0 /\ future' = [future EXCEPT ![e] = "done"]
      /\ UNCHANGED <<pool, emitted, emitAt, closer, loopClosed>>
  BY <1>1 DEF Emitter!LeaveLoop
<1>3. future[e] = "running" /\ e <= emitted BY <1>1 DEF EmitterNumbered
<1>4. EmitterNumbered' BY <1>2, <1>3 DEF EmitterNumbered
<1>5. EmitterStages' BY <1>2, <1>3 DEF EmitterStages, Emitter!Running
<1>. QED BY <1>2, <1>3, <1>4, <1>5 DEF EmitterAllMoveOn, EmitterMovesOn

LEMMA EmitterShutdownIInv ==
  ASSUME MaxEvents \in Nat, EmitterIInv, Emitter!Shutdown \/ Emitter!ClosePool \/ Emitter!CloseLoop
  PROVE  EmitterIInv' /\ EmitterAllMoveOn
<1>. USE DEF EmitterIInv, EmitterTypes, Emitter!Events, Emitter!NoEvent
<1>1. CASE Emitter!Shutdown BY <1>1 DEF Emitter!Shutdown, Emitter!delivery, EmitterNumbered,
  EmitterStages, Emitter!Running, EmitterAllMoveOn, EmitterMovesOn
<1>2. CASE Emitter!CloseLoop BY <1>2 DEF Emitter!CloseLoop, Emitter!delivery, EmitterNumbered,
  EmitterStages, Emitter!Running, EmitterAllMoveOn, EmitterMovesOn
<1>3. CASE Emitter!ClosePool
  <2>1. /\ closer = "flush" /\ closer' = "wait" /\ pool' = FALSE
        /\ \A e \in Emitter!Events : future'[e] = IF future[e] = "queued" THEN "cancelled" ELSE future[e]
        /\ future' \in [Emitter!Events -> {"none", "queued", "refused", "running", "done", "cancelled"}]
        /\ UNCHANGED <<emitted, emitAt, loop, loopClosed>>
    BY <1>3 DEF Emitter!ClosePool, Emitter!delivery
  <2>2. EmitterNumbered' BY <2>1 DEF EmitterNumbered
  <2>3. EmitterStages' BY <2>1 DEF EmitterStages, Emitter!Running
  <2>. QED BY <2>1, <2>2, <2>3 DEF EmitterAllMoveOn, EmitterMovesOn
<1>. QED BY <1>1, <1>2, <1>3

LEMMA EmitterNextIInv ==
  ASSUME MaxEvents \in Nat
  PROVE  EmitterIInv /\ [Emitter!Next]_Emitter!emitterVars => EmitterIInv' /\ EmitterAllMoveOn
<1>. SUFFICES ASSUME EmitterIInv, [Emitter!Next]_Emitter!emitterVars PROVE EmitterIInv' /\ EmitterAllMoveOn OBVIOUS
<1>1. CASE UNCHANGED Emitter!emitterVars
  BY <1>1 DEF Emitter!emitterVars, EmitterIInv, EmitterTypes, EmitterNumbered, EmitterStages,
    Emitter!Running, EmitterAllMoveOn, EmitterMovesOn
<1>. QED BY <1>1, EmitterEmitIInv, EmitterSubmitIInv, EmitterStartIInv, EmitterDeliverIInv,
  EmitterLeaveIInv, EmitterShutdownIInv DEF Emitter!Next

LEMMA EmitterOutlives ==
  ASSUME MaxEvents \in Nat, EmitterIInv
  PROVE  Emitter!NothingOutlivesShutdown
BY DEF EmitterIInv, EmitterTypes, EmitterNumbered, EmitterStages, Emitter!Running,
  Emitter!NothingOutlivesShutdown, Emitter!NoEvent, Emitter!Events

-----------------------------------------------------------------------------
(* The error history (ErrorHistory).                                       *)

RecorderEntries == [fp : Fingerprints, count : Nat, first : Nat, last : Nat]

(* What the critical section keeps: the index points at an object of the    *)
(* fingerprint it files it under, and no two items of the heap share a      *)
(* sequence number, so that of two live items one comes first.              *)
RecorderWellFormed(h) ==
  /\ DOMAIN h = {"entries", "index", "heap", "seq", "deque"}
  /\ h.entries \in Seq(RecorderEntries) /\ h.seq \in Nat
  /\ DOMAIN h.index \subseteq Fingerprints
  /\ \A fp \in DOMAIN h.index : h.index[fp] \in DOMAIN h.entries /\ Recorder!Fingerprint(h, h.index[fp]) = fp
  /\ h.deque \in [Recorder!Modules -> Seq(Nat)]
  /\ \A m \in Recorder!Modules : \A i \in DOMAIN h.deque[m] : h.deque[m][i] \in DOMAIN h.entries
  /\ IsFiniteSet(h.heap) /\ h.heap \subseteq Nat \X Nat \X DOMAIN h.entries
  /\ \A x \in h.heap : x[2] <= h.seq
  /\ \A x, y \in h.heap : x[2] = y[2] => x = y

RecorderInHeap(h, fp) == \E item \in h.heap : item[3] = h.index[fp] /\ item[1] = h.entries[item[3]].last
RecorderInDeque(h, fp) == \E i \in DOMAIN h.deque[fp[1]] : h.deque[fp[1]][i] = h.index[fp]
RecorderListed(h) == \A fp \in DOMAIN h.index : RecorderInHeap(h, fp) /\ RecorderInDeque(h, fp)

RecorderCallType == \A t \in Recorders : recording[t] # Recorder!Idle => recording[t] \in Fingerprints \X Nat
RecorderIInv == /\ clock \in Nat /\ DOMAIN recording = Recorders /\ RecorderCallType
                /\ RecorderWellFormed(history) /\ RecorderListed(history)

-----------------------------------------------------------------------------
(* A finite set with a strict order has a minimal element.                  *)
LEMMA RecorderMinimalExists ==
  ASSUME NEW S, IsFiniteSet(S), S # {}, NEW R,
         \A x, y, z \in S : <<x, y>> \in R /\ <<y, z>> \in R => <<x, z>> \in R,
         \A x \in S : <<x, x>> \notin R
  PROVE  \E x \in S : \A y \in S : <<y, x>> \notin R
<1> DEFINE Below(v) == {w \in S : <<w, v>> \in R}
           Sets == {Below(v) : v \in S}
<1>1. FiniteSubsetsOf(S) = SUBSET S BY FS_FiniteSubsetsOfFinite
<1>2. Sets \subseteq FiniteSubsetsOf(S) /\ Sets # {}
  <2>1. \A v \in S : Below(v) \in SUBSET S OBVIOUS
  <2>2. Sets \subseteq SUBSET S BY <2>1, ZenonT(60)
  <2>3. PICK v \in S : TRUE OBVIOUS
  <2>4. Below(v) \in Sets BY <2>3
  <2>. QED BY <1>1, <2>2, <2>4
<1>3. PICK A \in Sets : \A B \in Sets : ~(<<B, A>> \in StrictSubsetOrdering(S))
  <2>. HIDE DEF Sets
  <2>. QED BY <1>2, FS_StrictSubsetOrderingWellFounded, WFMin
<1>4. PICK v \in S : A = Below(v) BY <1>3
<1>5. ASSUME NEW w \in S, <<w, v>> \in R PROVE FALSE
  <2>1. Below(w) \subseteq Below(v) BY <1>5
  <2>2. w \in Below(v) /\ w \notin Below(w) BY <1>5
  <2>3. <<Below(w), Below(v)>> \in StrictSubsetOrdering(S)
    BY <2>1, <2>2 DEF StrictSubsetOrdering
  <2>4. Below(w) \in Sets OBVIOUS
  <2>. HIDE DEF Sets
  <2>. QED BY <1>3, <1>4, <2>3, <2>4
<1>. QED BY <1>5

LEMMA RecorderLeastExists ==
  ASSUME NEW n \in Nat, NEW S \in SUBSET (1..n), S # {}
  PROVE  Recorder!Min(S) \in S
<1> DEFINE R == {p \in S \X S : p[1] < p[2]}
<1>0. IsFiniteSet(1..n) BY FS_Interval
<1>1. IsFiniteSet(S) BY <1>0, FS_Subset
<1>2. \A x, y \in S : <<x, y>> \in R <=> x < y OBVIOUS
<1>. HIDE DEF R
<1>3. \A x, y, z \in S : <<x, y>> \in R /\ <<y, z>> \in R => <<x, z>> \in R
  <2>1. \A x, y, z \in S : x < y /\ y < z => x < z OBVIOUS
  <2>. QED BY <1>2, <2>1
<1>4. \A x \in S : <<x, x>> \notin R BY <1>2
<1>5. PICK x \in S : \A y \in S : <<y, x>> \notin R
  BY <1>1, <1>3, <1>4, RecorderMinimalExists
<1>6. \A y \in S : x <= y
  <2>1. ASSUME NEW y \in S PROVE x <= y
    <3>1. ~(y < x) BY <1>2, <1>5
    <3>. QED BY <3>1
  <2>. QED BY <2>1
<1>. QED BY <1>6 DEF Recorder!Min

(* Of the live items in the heap one is before all the others.              *)
LEMMA RecorderFirstExists ==
  ASSUME NEW h, RecorderWellFormed(h), NEW S \in SUBSET h.heap, S # {}
  PROVE  \E x \in S : \A y \in S \ {x} : Recorder!Before(x, y)
<1> DEFINE R == {p \in S \X S : Recorder!Before(p[1], p[2])}
<1>1. IsFiniteSet(S) BY FS_Subset DEF RecorderWellFormed
<1>2. \A x, y \in S : <<x, y>> \in R <=> Recorder!Before(x, y) OBVIOUS
<1>3. \A x \in S : x[1] \in Nat /\ x[2] \in Nat BY DEF RecorderWellFormed
<1>. HIDE DEF R
<1>4. \A x, y, z \in S : <<x, y>> \in R /\ <<y, z>> \in R => <<x, z>> \in R
  <2>1. \A x, y, z \in S : Recorder!Before(x, y) /\ Recorder!Before(y, z) => Recorder!Before(x,
    z) BY <1>3 DEF Recorder!Before
  <2>. QED BY <1>2, <2>1
<1>5. \A x \in S : <<x, x>> \notin R BY <1>2, <1>3 DEF Recorder!Before
<1>6. PICK x \in S : \A y \in S : <<y, x>> \notin R
  BY <1>1, <1>4, <1>5, RecorderMinimalExists
<1>7. ASSUME NEW y \in S \ {x} PROVE Recorder!Before(x, y)
  <2>1. ~Recorder!Before(y, x) BY <1>2, <1>6
  <2>2. x[2] # y[2] BY DEF RecorderWellFormed
  <2>. QED BY <1>3, <2>1, <2>2 DEF Recorder!Before
<1>. QED BY <1>7
-----------------------------------------------------------------------------
LEMMA RecorderRemoveAt ==
  ASSUME NEW S, NEW q \in Seq(S), NEW k \in 1..Len(q)
  PROVE  LET r == SubSeq(q, 1, k - 1) \o SubSeq(q, k + 1, Len(q))
         IN  /\ r \in Seq(S)
             /\ \A j \in DOMAIN r : \E i \in DOMAIN q : r[j] = q[i]
             /\ \A i \in DOMAIN q \ {k} : \E j \in DOMAIN r : r[j] = q[i]
<1> DEFINE n == Len(q)
           a == SubSeq(q, 1, k - 1)
           b == SubSeq(q, k + 1, n)
           r == a \o b
<1>1. n \in Nat /\ k \in 1..n /\ DOMAIN q = 1..n OBVIOUS
<1>2. /\ a \in Seq(S) /\ Len(a) = k - 1 /\ \A i \in 1..(k - 1) : a[i] = q[i]
      /\ b \in Seq(S) /\ Len(b) = n - k /\ \A i \in 1..(n - k) : b[i] = q[k + i]
  OBVIOUS
<1>. HIDE DEF n, a, b
<1>3. /\ r \in Seq(S) /\ Len(r) = Len(a) + Len(b)
      /\ \A i \in 1..(Len(a) + Len(b)) : r[i] = IF i <= Len(a) THEN a[i] ELSE b[i - Len(a)]
  BY <1>2, ConcatProperties
<1>. HIDE DEF r
<1>4. DOMAIN r = 1..(n - 1) BY <1>1, <1>2, <1>3
<1>5. \A i \in 1..(k - 1) : r[i] = q[i]
  <2>. SUFFICES ASSUME NEW i \in 1..(k - 1) PROVE r[i] = q[i] OBVIOUS
  <2>1. i \in 1..(Len(a) + Len(b)) /\ i <= Len(a) BY <1>1, <1>2
  <2>. QED BY <1>2, <1>3, <2>1
<1>6. \A i \in k..(n - 1) : r[i] = q[i + 1]
  <2>. SUFFICES ASSUME NEW i \in k..(n - 1) PROVE r[i] = q[i + 1] OBVIOUS
  <2>1. i \in 1..(Len(a) + Len(b)) /\ ~(i <= Len(a)) BY <1>1, <1>2
  <2>2. i - Len(a) \in 1..(n - k) /\ k + (i - Len(a)) = i + 1 BY <1>1, <1>2
  <2>3. r[i] = b[i - Len(a)] BY <1>3, <2>1
  <2>. QED BY <1>2, <2>2, <2>3
<1>7. \A j \in DOMAIN r : \E i \in DOMAIN q : r[j] = q[i]
  <2>. SUFFICES ASSUME NEW j \in 1..(n - 1) PROVE \E i \in 1..n : r[j] = q[i] BY <1>1, <1>4
  <2>1. CASE j < k BY <1>1, <1>5, <2>1
  <2>2. CASE ~(j < k)
    <3>1. j \in k..(n - 1) /\ j + 1 \in 1..n BY <1>1, <2>2
    <3>. QED BY <1>6, <3>1
  <2>. QED BY <2>1, <2>2
<1>8. \A i \in DOMAIN q \ {k} : \E j \in DOMAIN r : r[j] = q[i]
  <2>. SUFFICES ASSUME NEW i \in 1..n, i # k PROVE \E j \in 1..(n - 1) : r[j] = q[i] BY <1>1, <1>4
  <2>1. CASE i < k
    <3>1. i \in 1..(k - 1) /\ i \in 1..(n - 1) BY <1>1, <2>1
    <3>. QED BY <1>5, <3>1
  <2>2. CASE ~(i < k)
    <3>1. i - 1 \in k..(n - 1) /\ i - 1 \in 1..(n - 1) /\ (i - 1) + 1 = i BY <1>1, <2>2
    <3>2. r[i - 1] = q[i] BY <1>6, <3>1
    <3>. QED BY <3>1, <3>2
  <2>. QED BY <2>1, <2>2
<1>. QED BY <1>3, <1>7, <1>8 DEF n, a, b, r

(* The deque a total eviction leaves: what it takes out is of the           *)
(* fingerprint that goes.                                                   *)
LEMMA RecorderRemoveEqualKeeps ==
  ASSUME NEW h, NEW ids \in Seq(Nat), NEW id, NEW r, r = Recorder!RemoveEqual(h, ids, id)
  PROVE  /\ r \in Seq(Nat) /\ Recorder!Range(r) \subseteq Recorder!Range(ids)
         /\ \A x \in Recorder!Range(ids) : Recorder!Fingerprint(h, x) # Recorder!Fingerprint(h, id) => x \in Recorder!Range(r)
<1> DEFINE equal == {i \in DOMAIN ids : h.entries[ids[i]] = h.entries[id]}
           k == Recorder!Min(equal)
           cut == SubSeq(ids, 1, k - 1) \o SubSeq(ids, k + 1, Len(ids))
<1>1. r = IF equal = {} THEN ids ELSE cut BY DEF Recorder!RemoveEqual
<1>2. CASE equal = {}
  <2>1. r = ids BY <1>1, <1>2
  <2>. QED BY <2>1
<1>3. CASE equal # {}
  <2>1. Len(ids) \in Nat /\ DOMAIN ids = 1..Len(ids) /\ equal \in SUBSET (1..Len(ids)) OBVIOUS
  <2>. HIDE DEF equal
  <2>2. k \in equal BY <1>3, <2>1, RecorderLeastExists
  <2>. HIDE DEF k
  <2>3. h.entries[ids[k]] = h.entries[id] /\ k \in 1..Len(ids) BY <2>1, <2>2 DEF equal
  <2>4. r = cut BY <1>1, <1>3
  <2>5. /\ cut \in Seq(Nat) /\ \A j \in DOMAIN cut : \E i \in DOMAIN ids : cut[j] = ids[i]
        /\ \A i \in DOMAIN ids \ {k} : \E j \in DOMAIN cut : cut[j] = ids[i]
    BY <2>3, RecorderRemoveAt, ZenonT(60)
  <2>. HIDE DEF cut
  <2>6. \A i \in DOMAIN ids : Recorder!Fingerprint(h, ids[i]) # Recorder!Fingerprint(h, id) => i # k
    BY <2>3 DEF Recorder!Fingerprint
  <2>7. Recorder!Range(cut) \subseteq Recorder!Range(ids) BY <2>5 DEF Recorder!Range
  <2>8. \A i \in DOMAIN ids \ {k} : ids[i] \in Recorder!Range(cut) BY <2>5 DEF Recorder!Range
  <2>9. \A x \in Recorder!Range(ids) : Recorder!Fingerprint(h, x) # Recorder!Fingerprint(h, id) => x \in Recorder!Range(cut)
    BY <2>6, <2>8 DEF Recorder!Range
  <2>. QED BY <2>4, <2>5, <2>7, <2>9
<1>. HIDE DEF equal
<1>. QED BY <1>2, <1>3

LEMMA RecorderSeenType ==
  ASSUME NEW e \in RecorderEntries, NEW now \in Nat
  PROVE  Recorder!Seen(e, now) \in RecorderEntries /\ Recorder!Seen(e, now).fp = e.fp /\ Recorder!Seen(e, now).last = now
<1>1. e.count + 1 \in Nat BY DEF RecorderEntries
<1>2. \A c \in Nat : [e EXCEPT !.count = c,
  !.last = now] \in RecorderEntries BY DEF RecorderEntries
<1>. QED BY <1>1, <1>2 DEF Recorder!Seen, RecorderEntries

LEMMA RecorderInitOK ==
  Recorder!Init => RecorderIInv
<1>. SUFFICES ASSUME Recorder!Init PROVE RecorderIInv OBVIOUS
<1>1. IsFiniteSet({}) BY FS_EmptySet
<1>2. RecorderWellFormed(history) BY <1>1 DEF Recorder!Init, RecorderWellFormed
<1>3. RecorderListed(history) BY DEF Recorder!Init, RecorderListed
<1>. QED BY <1>2, <1>3 DEF Recorder!Init, RecorderIInv, RecorderCallType, Recorder!Idle

(* A listed error is refreshed: a new item for it, and its old ones die.    *)
LEMMA RecorderRefreshKeeps ==
  ASSUME NEW h, RecorderWellFormed(h), RecorderListed(h), NEW fp \in DOMAIN h.index, NEW now \in Nat
  PROVE  RecorderWellFormed(Recorder!Refresh(h, fp, now)) /\ RecorderListed(Recorder!Refresh(h, fp, now))
<1> DEFINE g == Recorder!Refresh(h, fp, now)
           id == h.index[fp]
           new == <<now, h.seq + 1, id>>
<1>1. id \in DOMAIN h.entries /\ h.entries[id].fp = fp /\ h.entries[id] \in RecorderEntries
  BY DEF RecorderWellFormed, Recorder!Fingerprint
<1>2. /\ DOMAIN g = {"entries", "index", "heap", "seq", "deque"}
      /\ g.index = h.index /\ g.deque = h.deque /\ g.seq = h.seq + 1 /\ g.heap = h.heap \cup {new}
      /\ g.entries = [h.entries EXCEPT ![id] = Recorder!Seen(@, now)]
  BY DEF Recorder!Refresh, RecorderWellFormed
<1>3. /\ g.entries \in Seq(RecorderEntries) /\ DOMAIN g.entries = DOMAIN h.entries
      /\ g.entries[id].fp = fp /\ g.entries[id].last = now
      /\ \A i \in DOMAIN h.entries \ {id} : g.entries[i] = h.entries[i]
      /\ \A i \in DOMAIN h.entries : g.entries[i].fp = h.entries[i].fp
  <2> DEFINE e == Recorder!Seen(h.entries[id], now)
  <2>1. e \in RecorderEntries /\ e.fp = fp /\ e.last = now BY <1>1, RecorderSeenType
  <2>2. h.entries \in Seq(RecorderEntries) BY DEF RecorderWellFormed
  <2>3. g.entries = [h.entries EXCEPT ![id] = e] BY <1>2
  <2>. HIDE DEF g, id, e
  <2>4. /\ g.entries \in Seq(RecorderEntries) /\ DOMAIN g.entries = DOMAIN h.entries /\ g.entries[id] = e
        /\ \A i \in DOMAIN h.entries \ {id} : g.entries[i] = h.entries[i]
    BY <1>1, <2>1, <2>2, <2>3
  <2>. QED BY <1>1, <2>1, <2>4
<1>. HIDE DEF g, id
<1>4. IsFiniteSet(g.heap)
  <2>1. IsFiniteSet(h.heap) BY DEF RecorderWellFormed
  <2>2. IsFiniteSet(h.heap \cup {new}) BY <2>1, FS_AddElement
  <2>. HIDE DEF new
  <2>. QED BY <1>2, <2>2
<1>5. new \in Nat \X Nat \X DOMAIN h.entries /\ new[2] = h.seq + 1 /\ new[3] = id /\ new[1] = now
  BY <1>1 DEF RecorderWellFormed
<1>6. /\ \A x \in g.heap : x[2] <= g.seq
      /\ \A x, y \in g.heap : x[2] = y[2] => x = y
  <2>1. \A x \in h.heap : x[2] \in Nat /\ x[2] <= h.seq BY DEF RecorderWellFormed
  <2>2. h.seq \in Nat /\ \A x, y \in h.heap : x[2] = y[2] => x = y BY DEF RecorderWellFormed
  <2>. HIDE DEF new
  <2>. QED BY <1>2, <1>5, <2>1, <2>2
<1>7. RecorderWellFormed(g)
  <2>. HIDE DEF new
  <2>. QED BY <1>2, <1>3, <1>4, <1>5, <1>6 DEF RecorderWellFormed, Recorder!Fingerprint
<1>8. ASSUME NEW f \in DOMAIN h.index PROVE RecorderInHeap(g, f) /\ RecorderInDeque(g, f)
  <2>1. RecorderInDeque(g, f) BY <1>2 DEF RecorderListed, RecorderInDeque
  <2>2. CASE f = fp
    <3>1. new \in g.heap /\ new[3] = g.index[f] /\ new[1] = g.entries[new[3]].last
      BY <1>2, <1>3, <1>5, <2>2 DEF id
    <3>. QED BY <2>1, <3>1 DEF RecorderInHeap
  <2>3. CASE f # fp
    <3>1. h.index[f] # id /\ h.index[f] \in DOMAIN h.entries
      BY <1>1, <2>3 DEF RecorderWellFormed, Recorder!Fingerprint
    <3>2. PICK item \in h.heap : item[3] = h.index[f] /\ item[1] = h.entries[item[3]].last
      BY DEF RecorderListed, RecorderInHeap
    <3>3. item \in g.heap /\ item[3] = g.index[f] /\ item[1] = g.entries[item[3]].last
      BY <1>2, <1>3, <3>1, <3>2
    <3>. QED BY <2>1, <3>3 DEF RecorderInHeap
  <2>. QED BY <2>1, <2>2, <2>3
<1>. QED BY <1>2, <1>7, <1>8 DEF g, RecorderListed

(* A new error is listed under the object made for it.                      *)
LEMMA RecorderEnterKeeps ==
  ASSUME NEW h, RecorderWellFormed(h), RecorderListed(h), NEW fp \in Fingerprints, NEW now \in Nat,
         fp \notin DOMAIN h.index
  PROVE  RecorderWellFormed(Recorder!Enter(h, fp, now)) /\ RecorderListed(Recorder!Enter(h, fp, now))
<1> DEFINE g == Recorder!Enter(h, fp, now)
           id == Len(h.entries) + 1
           new == [fp |-> fp, count |-> 1, first |-> now, last |-> now]
           item == <<now, h.seq + 1, id>>
           m == fp[1]
<1>1. /\ DOMAIN g = {"entries", "index", "heap", "seq", "deque"}
      /\ g.entries = Append(h.entries, new) /\ g.index = Recorder!With(h.index, fp, id)
      /\ g.deque = [h.deque EXCEPT ![m] = Append(@, id)]
      /\ g.seq = h.seq + 1 /\ g.heap = h.heap \cup {item}
  BY DEF Recorder!Enter, RecorderWellFormed
<1>2. new \in RecorderEntries /\ new.fp = fp /\ new.last = now BY DEF RecorderEntries
<1>3. item[1] = now /\ item[2] = h.seq + 1 /\ item[3] = id OBVIOUS
<1>4. m \in Recorder!Modules BY DEF Recorder!Modules
<1>5. /\ h.entries \in Seq(RecorderEntries) /\ Len(h.entries) \in Nat /\ DOMAIN h.entries = 1..Len(h.entries)
      /\ h.seq \in Nat /\ h.deque[m] \in Seq(Nat)
  BY <1>4 DEF RecorderWellFormed
<1>. HIDE DEF g, new, item, m
<1>6. /\ g.entries \in Seq(RecorderEntries) /\ DOMAIN g.entries = 1..id /\ g.entries[id] = new
      /\ \A i \in DOMAIN h.entries : i \in DOMAIN g.entries /\ i # id /\ g.entries[i] = h.entries[i]
  BY <1>1, <1>2, <1>5
<1>7. id \in Nat /\ id \in DOMAIN g.entries BY <1>5, <1>6
<1>. HIDE DEF id
<1>8. /\ DOMAIN g.index = DOMAIN h.index \cup {fp} /\ g.index[fp] = id
      /\ \A f \in DOMAIN h.index : g.index[f] = h.index[f]
  BY <1>1 DEF Recorder!With
<1> DEFINE d == Append(h.deque[m], id)
<1>9. /\ d \in Seq(Nat) /\ Len(h.deque[m]) + 1 \in DOMAIN d /\ d[Len(h.deque[m]) + 1] = id
      /\ \A i \in DOMAIN h.deque[m] : i \in DOMAIN d /\ d[i] = h.deque[m][i]
      /\ \A i \in DOMAIN d : i \in DOMAIN h.deque[m] \/ d[i] = id
  BY <1>5, <1>7
<1>. HIDE DEF d
<1>10. /\ g.deque \in [Recorder!Modules -> Seq(Nat)] /\ g.deque[m] = d
       /\ \A n \in Recorder!Modules \ {m} : g.deque[n] = h.deque[n]
  BY <1>1, <1>4, <1>9 DEF RecorderWellFormed, d
<1>11. RecorderWellFormed(g)
  <2>1. IsFiniteSet(g.heap)
    <3>1. IsFiniteSet(h.heap) BY DEF RecorderWellFormed
    <3>2. IsFiniteSet(h.heap \cup {item}) BY <3>1, FS_AddElement
    <3>. QED BY <1>1, <3>2
  <2>2. /\ \A x \in g.heap : x[2] <= g.seq
        /\ \A x, y \in g.heap : x[2] = y[2] => x = y
    <3>1. \A x \in h.heap : x[2] \in Nat /\ x[2] <= h.seq BY DEF RecorderWellFormed
    <3>2. \A x, y \in h.heap : x[2] = y[2] => x = y BY DEF RecorderWellFormed
    <3>. QED BY <1>1, <1>3, <1>5, <3>1, <3>2
  <2>3. g.heap \subseteq Nat \X Nat \X DOMAIN g.entries
    <3>1. h.heap \subseteq Nat \X Nat \X DOMAIN h.entries BY DEF RecorderWellFormed
    <3>2. item \in Nat \X Nat \X DOMAIN g.entries BY <1>5, <1>7 DEF item
    <3>. QED BY <1>1, <1>6, <3>1, <3>2
  <2>4. \A n \in Recorder!Modules : \A i \in DOMAIN g.deque[n] : g.deque[n][i] \in DOMAIN g.entries
    <3>1. \A n \in Recorder!Modules : \A i \in DOMAIN h.deque[n] : h.deque[n][i] \in DOMAIN h.entries
      BY DEF RecorderWellFormed
    <3>2. \A i \in DOMAIN d : d[i] \in DOMAIN g.entries BY <1>4, <1>6, <1>7, <1>9, <3>1
    <3>. QED BY <1>6, <1>10, <3>1, <3>2
  <2>5. \A f \in DOMAIN g.index : g.index[f] \in DOMAIN g.entries /\ Recorder!Fingerprint(g, g.index[f]) = f
    <3>1. \A f \in DOMAIN h.index : h.index[f] \in DOMAIN h.entries /\ h.entries[h.index[f]].fp = f
      BY DEF RecorderWellFormed, Recorder!Fingerprint
    <3>. QED BY <1>2, <1>6, <1>7, <1>8, <3>1 DEF Recorder!Fingerprint
  <2>6. DOMAIN g.index \subseteq Fingerprints BY <1>8 DEF RecorderWellFormed
  <2>7. g.seq \in Nat BY <1>1, <1>5
  <2>. QED BY <1>1, <1>6, <1>10, <2>1, <2>2, <2>3, <2>4, <2>5, <2>6, <2>7 DEF RecorderWellFormed
<1>12. ASSUME NEW f \in DOMAIN g.index PROVE RecorderInHeap(g, f) /\ RecorderInDeque(g, f)
  <2>1. CASE f = fp
    <3>1. item \in g.heap /\ item[3] = g.index[f] /\ item[1] = g.entries[item[3]].last
      BY <1>1, <1>2, <1>3, <1>6, <1>8, <2>1
    <3>2. RecorderInDeque(g, f) BY <1>8, <1>9, <1>10, <2>1 DEF RecorderInDeque, m
    <3>. QED BY <3>1, <3>2 DEF RecorderInHeap
  <2>2. CASE f # fp
    <3>1. f \in DOMAIN h.index /\ g.index[f] = h.index[f] /\ h.index[f] \in DOMAIN h.entries
      BY <1>8, <2>2 DEF RecorderWellFormed
    <3>2. PICK x \in h.heap : x[3] = h.index[f] /\ x[1] = h.entries[x[3]].last
      BY <3>1 DEF RecorderListed, RecorderInHeap
    <3>3. x \in g.heap /\ x[3] = g.index[f] /\ x[1] = g.entries[x[3]].last
      BY <1>1, <1>6, <3>1, <3>2
    <3>4. PICK i \in DOMAIN h.deque[f[1]] : h.deque[f[1]][i] = h.index[f]
      BY <3>1 DEF RecorderListed, RecorderInDeque
    <3>5. f[1] \in Recorder!Modules BY <3>1 DEF RecorderWellFormed, Recorder!Modules
    <3>6. i \in DOMAIN g.deque[f[1]] /\ g.deque[f[1]][i] = g.index[f]
      BY <1>9, <1>10, <3>1, <3>4, <3>5
    <3>7. RecorderInDeque(g, f) BY <3>6 DEF RecorderInDeque
    <3>. QED BY <3>3, <3>7 DEF RecorderInHeap
  <2>. QED BY <2>1, <2>2
<1>. QED BY <1>11, <1>12 DEF g, RecorderListed

LEMMA RecorderTailShifts ==
  ASSUME NEW S, NEW q \in Seq(S), Len(q) > 0
  PROVE  /\ Tail(q) \in Seq(S) /\ Head(q) = q[1]
         /\ \A i \in DOMAIN Tail(q) : i + 1 \in DOMAIN q /\ Tail(q)[i] = q[i + 1]
         /\ \A i \in DOMAIN q \ {1} : i - 1 \in DOMAIN Tail(q) /\ Tail(q)[i - 1] = q[i]
<1> DEFINE n == Len(q)
           r == Tail(q)
<1>1. /\ r \in Seq(S) /\ Len(r) = n - 1 /\ Head(q) = q[1] /\ n \in Nat \ {0}
      /\ DOMAIN q = 1..n /\ DOMAIN r = 1..(n - 1) /\ \A i \in 1..(n - 1) : r[i] = q[i + 1]
  OBVIOUS
<1>. HIDE DEF n, r
<1>2. \A i \in 1..n \ {1} : i - 1 \in 1..(n - 1) /\ (i - 1) + 1 = i BY <1>1
<1>3. \A i \in 1..n \ {1} : r[i - 1] = q[i] BY <1>1, <1>2
<1>4. \A i \in 1..(n - 1) : i + 1 \in 1..n BY <1>1
<1>. QED BY <1>1, <1>2, <1>3, <1>4 DEF r

(* What leaves a full deque takes its own fingerprint out of the index.     *)
LEMMA RecorderEvictModuleKeeps ==
  ASSUME NEW h, RecorderWellFormed(h), RecorderListed(h), NEW m \in Recorder!Modules, MaxPerModule \in Nat
  PROVE  RecorderWellFormed(Recorder!EvictModule(h, m)) /\ RecorderListed(Recorder!EvictModule(h, m))
<1> DEFINE g == Recorder!EvictModule(h, m)
           q == h.deque[m]
           old == Recorder!Fingerprint(h, Head(q))
<1>1. CASE Len(q) <= MaxPerModule
  <2>1. g = h BY <1>1 DEF Recorder!EvictModule
  <2>. QED BY <2>1
<1>2. CASE ~(Len(q) <= MaxPerModule)
  <2>1. q \in Seq(Nat) /\ Len(q) \in Nat /\ Len(q) > 0 BY <1>2 DEF RecorderWellFormed
  <2>2. /\ DOMAIN g = {"entries", "index", "heap", "seq", "deque"}
        /\ g.entries = h.entries /\ g.seq = h.seq /\ g.heap = h.heap
        /\ g.index = Recorder!Without(h.index, old) /\ g.deque = [h.deque EXCEPT ![m] = Tail(q)]
    BY <1>2 DEF Recorder!EvictModule, RecorderWellFormed
  <2>3. /\ Tail(q) \in Seq(Nat) /\ Head(q) = q[1]
        /\ \A i \in DOMAIN Tail(q) : i + 1 \in DOMAIN q /\ Tail(q)[i] = q[i + 1]
        /\ \A i \in DOMAIN q \ {1} : i - 1 \in DOMAIN Tail(q) /\ Tail(q)[i - 1] = q[i]
    BY <2>1, RecorderTailShifts
  <2>4. /\ DOMAIN g.index = DOMAIN h.index \ {old}
        /\ \A f \in DOMAIN g.index : g.index[f] = h.index[f]
    BY <2>2 DEF Recorder!Without, Recorder!Restrict
  <2>. HIDE DEF g, old
  <2>5. /\ g.deque \in [Recorder!Modules -> Seq(Nat)] /\ g.deque[m] = Tail(q)
        /\ \A n \in Recorder!Modules \ {m} : g.deque[n] = h.deque[n]
    BY <2>2, <2>3 DEF RecorderWellFormed
  <2>. HIDE DEF q
  <2>6. RecorderWellFormed(g)
    <3>1. \A n \in Recorder!Modules : \A i \in DOMAIN g.deque[n] : g.deque[n][i] \in DOMAIN h.entries
      <4>1. \A n \in Recorder!Modules : \A i \in DOMAIN h.deque[n] : h.deque[n][i] \in DOMAIN h.entries
        BY DEF RecorderWellFormed
      <4>2. \A i \in DOMAIN q : q[i] \in DOMAIN h.entries BY <4>1 DEF q
      <4>3. \A i \in DOMAIN Tail(q) : Tail(q)[i] \in DOMAIN h.entries BY <2>3, <4>2
      <4>. QED BY <2>5, <4>1, <4>3
    <3>. QED BY <2>2, <2>4, <2>5, <3>1 DEF RecorderWellFormed, Recorder!Fingerprint
  <2>7. ASSUME NEW f \in DOMAIN g.index PROVE RecorderInHeap(g, f) /\ RecorderInDeque(g, f)
    <3>1. f \in DOMAIN h.index /\ f # old /\ g.index[f] = h.index[f] /\ f[1] \in Recorder!Modules
      BY <2>4 DEF RecorderWellFormed, Recorder!Modules
    <3>2. RecorderInHeap(g, f) BY <2>2, <3>1 DEF RecorderListed, RecorderInHeap
    <3>3. PICK i \in DOMAIN h.deque[f[1]] : h.deque[f[1]][i] = h.index[f]
      BY <3>1 DEF RecorderListed, RecorderInDeque
    <3>4. Recorder!Fingerprint(h, h.index[f]) = f BY <3>1 DEF RecorderWellFormed
    <3>5. CASE f[1] = m
      <4>1. i \in DOMAIN q /\ q[i] = h.index[f] BY <3>3, <3>5 DEF q
      <4>2. q[i] # Head(q) BY <3>1, <3>4, <4>1 DEF old
      <4>3. i # 1 BY <2>3, <4>2
      <4>4. i - 1 \in DOMAIN g.deque[f[1]] /\ g.deque[f[1]][i - 1] = g.index[f]
        BY <2>3, <2>5, <3>1, <3>5, <4>1, <4>3
      <4>. QED BY <3>2, <4>4 DEF RecorderInDeque
    <3>6. CASE f[1] # m
      <4>1. g.deque[f[1]] = h.deque[f[1]] BY <2>5, <3>1, <3>6
      <4>. QED BY <3>1, <3>2, <3>3, <4>1 DEF RecorderInDeque
    <3>. QED BY <3>5, <3>6
  <2>. QED BY <2>6, <2>7 DEF g, RecorderListed
<1>. QED BY <1>1, <1>2

(* The total eviction takes the first live item: every other listed error   *)
(* has a live item after it, and stays.                                     *)
LEMMA RecorderPopOldestKeeps ==
  ASSUME NEW h, RecorderWellFormed(h), RecorderListed(h), DOMAIN h.index # {}
  PROVE  RecorderWellFormed(Recorder!PopOldest(h)) /\ RecorderListed(Recorder!PopOldest(h))
<1> DEFINE g == Recorder!PopOldest(h)
           live == {x \in h.heap : Recorder!Live(h, x)}
           first == CHOOSE x \in live : \A y \in live \ {x} : Recorder!Before(x, y)
           id == first[3]
           fp == Recorder!Fingerprint(h, id)
           m == fp[1]
           q == h.deque[m]
           r == Recorder!RemoveEqual(h, q, id)
<1>1. /\ DOMAIN g = {"entries", "index", "heap", "seq", "deque"}
      /\ g.entries = h.entries /\ g.seq = h.seq /\ g.heap = {x \in h.heap : Recorder!Before(first, x)}
      /\ g.index = Recorder!Without(h.index, fp) /\ g.deque = [h.deque EXCEPT ![m] = r]
  BY DEF Recorder!PopOldest, RecorderWellFormed
<1>2. \A f \in DOMAIN h.index : \E x \in live : x[3] = h.index[f]
  <2>. SUFFICES ASSUME NEW f \in DOMAIN h.index PROVE \E x \in live : x[3] = h.index[f]
    OBVIOUS
  <2>1. PICK x \in h.heap : x[3] = h.index[f] /\ x[1] = h.entries[x[3]].last
    BY DEF RecorderListed, RecorderInHeap
  <2>2. Recorder!Fingerprint(h, x[3]) = f BY <2>1 DEF RecorderWellFormed
  <2>3. Recorder!Live(h, x) BY <2>1, <2>2 DEF Recorder!Live
  <2>. QED BY <2>1, <2>3
<1>3. live \in SUBSET h.heap /\ live # {} BY <1>2
<1>4. \A x \in live : Recorder!Fingerprint(h, x[3]) \in DOMAIN h.index /\ x[3] \in DOMAIN h.entries
  BY DEF Recorder!Live, RecorderWellFormed
<1>. HIDE DEF live
<1>5. first \in live /\ \A y \in live \ {first} : Recorder!Before(first, y)
  <2>1. \E x \in live : \A y \in live \ {x} : Recorder!Before(x, y) BY <1>3, RecorderFirstExists
  <2>. QED BY <2>1
<1>. HIDE DEF first
<1>6. fp \in DOMAIN h.index /\ m \in Recorder!Modules BY <1>4, <1>5 DEF RecorderWellFormed,
  Recorder!Modules
<1>7. q \in Seq(Nat) BY <1>6 DEF RecorderWellFormed
<1>. HIDE DEF g, m, q, id
<1>8. /\ r \in Seq(Nat) /\ Recorder!Range(r) \subseteq Recorder!Range(q)
      /\ \A x \in Recorder!Range(q) : Recorder!Fingerprint(h, x) # fp => x \in Recorder!Range(r)
  <2>1. r = Recorder!RemoveEqual(h, q, id) OBVIOUS
  <2>. HIDE DEF r
  <2>2. r \in Seq(Nat) BY <1>7, <2>1, RecorderRemoveEqualKeeps
  <2>3. Recorder!Range(r) \subseteq Recorder!Range(q) BY <1>7, <2>1, RecorderRemoveEqualKeeps
  <2>4. \A x \in Recorder!Range(q) : Recorder!Fingerprint(h, x) # fp => x \in Recorder!Range(r)
    BY <1>7, <2>1, RecorderRemoveEqualKeeps
  <2>. QED BY <2>2, <2>3, <2>4
<1>. HIDE DEF fp, r
<1>9. /\ DOMAIN g.index = DOMAIN h.index \ {fp}
      /\ \A f \in DOMAIN g.index : g.index[f] = h.index[f]
  BY <1>1 DEF Recorder!Without, Recorder!Restrict
<1>10. /\ g.deque \in [Recorder!Modules -> Seq(Nat)] /\ g.deque[m] = r
       /\ \A n \in Recorder!Modules \ {m} : g.deque[n] = h.deque[n]
  BY <1>1, <1>6, <1>8 DEF RecorderWellFormed
<1>11. RecorderWellFormed(g)
  <2>1. \A n \in Recorder!Modules : \A i \in DOMAIN g.deque[n] : g.deque[n][i] \in DOMAIN h.entries
    <3>1. \A n \in Recorder!Modules : \A i \in DOMAIN h.deque[n] : h.deque[n][i] \in DOMAIN h.entries
      BY DEF RecorderWellFormed
    <3>2. \A i \in DOMAIN r : r[i] \in DOMAIN h.entries BY <1>6, <1>8, <3>1 DEF Recorder!Range, q
    <3>. QED BY <1>10, <3>1, <3>2
  <2>2. g.heap \subseteq h.heap BY <1>1
  <2>3. IsFiniteSet(g.heap) BY <2>2, FS_Subset DEF RecorderWellFormed
  <2>. QED BY <1>1, <1>9, <1>10, <2>1, <2>2, <2>3 DEF RecorderWellFormed, Recorder!Fingerprint
<1>12. ASSUME NEW f \in DOMAIN g.index PROVE RecorderInHeap(g, f) /\ RecorderInDeque(g, f)
  <2>1. f \in DOMAIN h.index /\ f # fp /\ g.index[f] = h.index[f] /\ f[1] \in Recorder!Modules
    BY <1>9 DEF RecorderWellFormed, Recorder!Modules
  <2>2. Recorder!Fingerprint(h, h.index[f]) = f BY <2>1 DEF RecorderWellFormed
  <2>3. PICK x \in h.heap : x[3] = h.index[f] /\ x[1] = h.entries[x[3]].last
    BY <2>1 DEF RecorderListed, RecorderInHeap
  <2>4. x \in live BY <2>1, <2>2, <2>3 DEF live, Recorder!Live
  <2>5. x # first BY <2>1, <2>2, <2>3 DEF fp, id
  <2>6. x \in g.heap BY <1>1, <1>5, <2>4, <2>5
  <2>7. RecorderInHeap(g, f) BY <1>1, <2>1, <2>3, <2>6 DEF RecorderInHeap
  <2>8. PICK i \in DOMAIN h.deque[f[1]] : h.deque[f[1]][i] = h.index[f]
    BY <2>1 DEF RecorderListed, RecorderInDeque
  <2>9. CASE f[1] = m
    <3>1. h.index[f] \in Recorder!Range(q) BY <2>8, <2>9 DEF Recorder!Range, q
    <3>2. h.index[f] \in Recorder!Range(r) BY <1>8, <2>1, <2>2, <3>1
    <3>. QED BY <1>10, <2>1, <2>7, <2>9, <3>2 DEF RecorderInDeque, Recorder!Range
  <2>10. CASE f[1] # m
    <3>1. g.deque[f[1]] = h.deque[f[1]] BY <1>10, <2>1, <2>10
    <3>. QED BY <2>1, <2>7, <2>8, <3>1 DEF RecorderInDeque
  <2>. QED BY <2>9, <2>10
<1>. QED BY <1>11, <1>12 DEF g, RecorderListed

LEMMA RecorderCardinality ==
  ASSUME NEW S
  PROVE  Recorder!Cardinality(S) = Cardinality(S)
BY DEF Recorder!Cardinality, Cardinality

LEMMA RecorderAddKeeps ==
  ASSUME MaxPerModule \in Nat, MaxTotal \in Nat,
         NEW h, RecorderWellFormed(h), RecorderListed(h), NEW fp \in Fingerprints, NEW now \in Nat,
         fp \notin DOMAIN h.index
  PROVE  RecorderWellFormed(Recorder!Add(h, fp, now)) /\ RecorderListed(Recorder!Add(h, fp, now))
<1> DEFINE g == Recorder!EvictModule(Recorder!Enter(h, fp, now), fp[1])
<1>1. fp[1] \in Recorder!Modules BY DEF Recorder!Modules
<1>2. RecorderWellFormed(g) /\ RecorderListed(g) BY <1>1, RecorderEnterKeeps,
  RecorderEvictModuleKeeps
<1>. HIDE DEF g
<1>3. RecorderWellFormed(Recorder!EvictTotal(g)) /\ RecorderListed(Recorder!EvictTotal(g))
  <2>1. CASE Cardinality(DOMAIN g.index) <= MaxTotal
    BY <1>2, <2>1, RecorderCardinality DEF Recorder!EvictTotal
  <2>2. CASE ~(Cardinality(DOMAIN g.index) <= MaxTotal)
    <3>1. DOMAIN g.index # {}
      <4>1. Cardinality({}) = 0 BY FS_EmptySet
      <4>. QED BY <2>2, <4>1
    <3>. QED BY <1>2, <2>2, <3>1, RecorderCardinality, RecorderPopOldestKeeps
         DEF Recorder!EvictTotal
  <2>. QED BY <2>1, <2>2
<1>. QED BY <1>3 DEF Recorder!Add, g

LEMMA RecorderNextOK ==
  ASSUME MaxPerModule \in Nat, MaxTotal \in Nat
  PROVE  RecorderIInv /\ [Recorder!Next]_Recorder!historyVars => RecorderIInv'
<1>. SUFFICES ASSUME RecorderIInv, [Recorder!Next]_Recorder!historyVars PROVE RecorderIInv' OBVIOUS
<1>. USE DEF RecorderIInv, RecorderCallType
<1>1. ASSUME NEW t \in Recorders, Recorder!Record(t) PROVE RecorderIInv'
  <2> DEFINE fp == recording[t][1]
             now == recording[t][2]
  <2>1. fp \in Fingerprints /\ now \in Nat BY <1>1 DEF Recorder!Record
  <2>. HIDE DEF fp, now
  <2>2. history' = IF fp \in DOMAIN history.index THEN Recorder!Refresh(history, fp, now)
                   ELSE Recorder!Add(history, fp, now)
    BY <1>1 DEF Recorder!Record, fp, now
  <2>3. RecorderWellFormed(history') /\ RecorderListed(history')
    BY <2>1, <2>2, RecorderRefreshKeeps, RecorderAddKeeps
  <2>4. clock' = clock /\ recording' = [recording EXCEPT ![t] = Recorder!Idle] BY <1>1 DEF Recorder!Record
  <2>. QED BY <2>3, <2>4
<1>2. ASSUME NEW t \in Recorders, NEW fp \in Fingerprints, Recorder!Begin(t, fp) PROVE RecorderIInv'
  BY <1>2 DEF Recorder!Begin
<1>3. CASE Recorder!Tick BY <1>3 DEF Recorder!Tick
<1>4. CASE UNCHANGED Recorder!historyVars BY <1>4 DEF Recorder!historyVars
<1>. QED BY <1>1, <1>2, <1>3, <1>4 DEF Recorder!Next

LEMMA RecorderListsAgree ==
  RecorderIInv => Recorder!ListedEverywhere
BY DEF RecorderIInv, RecorderListed, RecorderInHeap, RecorderInDeque, Recorder!ListedEverywhere

-----------------------------------------------------------------------------
(* The services together.                                                  *)
ServicesInv == ControlIInv /\ SpanIInv /\ EmitterIInv /\ RecorderIInv

(* The components share no variable: a step of one is a stutter of the rest. *)
LEMMA StepsApart ==
  ASSUME [ServicesNext]_<<vars, spans, events, errors, control>>
  PROVE  /\ [Control!Next]_Control!controlVars /\ [Span!Next]_Span!spanVars
         /\ [Emitter!Next]_Emitter!emitterVars /\ [Recorder!Next]_Recorder!historyVars
<1>. USE DEF spans, events, errors, control, Control!controlVars, Span!spanVars,
             Emitter!emitterVars, Recorder!historyVars
<1>1. CASE BreakerMoves BY <1>1 DEF BreakerMoves
<1>2. CASE SpansMove BY <1>2 DEF SpansMove
<1>3. CASE EventsMove BY <1>3 DEF EventsMove
<1>4. CASE ErrorsMove BY <1>4 DEF ErrorsMove
<1>5. CASE ControlMoves BY <1>5 DEF ControlMoves
<1>6. CASE UNCHANGED <<vars, spans, events, errors, control>> BY <1>6
<1>. QED BY <1>1, <1>2, <1>3, <1>4, <1>5, <1>6 DEF ServicesNext

LEMMA ServicesInitInv ==
  ServicesInit => ServicesInv
<1>1. MaxSpans \in Nat /\ MaxEvents \in Nat BY BoundsAssumption
<1>. QED BY <1>1, ControlAssumption, ControlInitIInv, SpanInitIInv, EmitterInitIInv, RecorderInitOK
     DEF ServicesInit, ServicesInv

LEMMA ServicesNextInv ==
  ServicesInv /\ [ServicesNext]_<<vars, spans, events, errors, control>>
    => ServicesInv' /\ EmitterAllMoveOn
<1>. SUFFICES ASSUME ServicesInv, [ServicesNext]_<<vars, spans, events, errors, control>>
              PROVE  ServicesInv' /\ EmitterAllMoveOn
  OBVIOUS
<1>1. MaxSpans \in Nat /\ MaxEvents \in Nat /\ MaxPerModule \in Nat /\ MaxTotal \in Nat
  BY BoundsAssumption
<1>2. ControlIInv' BY ControlAssumption, StepsApart, ControlNextIInv DEF ServicesInv
<1>3. SpanIInv' BY <1>1, StepsApart, SpanNextIInv DEF ServicesInv
<1>4. EmitterIInv' /\ EmitterAllMoveOn BY <1>1, StepsApart, EmitterNextIInv DEF ServicesInv
<1>5. RecorderIInv' BY <1>1, StepsApart, RecorderNextOK DEF ServicesInv
<1>. QED BY <1>2, <1>3, <1>4, <1>5 DEF ServicesInv

THEOREM ServicesInvariant ==
  ServicesSpec => []ServicesInv
<1>1. ServicesInv /\ [ServicesNext]_<<vars, spans, events, errors, control>> => ServicesInv'
  BY ServicesNextInv
<1>. QED BY <1>1, ServicesInitInv, PTL DEF ServicesSpec

(* Whichever threads end spans, flush and shut down at the same time: a span *)
(* that ended is queued, taken by one thread, exported once or lost, and     *)
(* spansDropped and the calls that are about to count theirs are together    *)
(* the number of the lost ones.                                              *)
THEOREM SpansAccounted ==
  ServicesSpec => []SpansAreAccountedFor
<1>1. MaxSpans \in Nat BY BoundsAssumption
<1>2. ServicesInv => SpansAreAccountedFor
  BY <1>1, SpanAccounted DEF ServicesInv, SpansAreAccountedFor
<1>. QED BY <1>2, ServicesInvariant, PTL

(* Once the emitter's loop is closed, no delivery is queued or under way.    *)
THEOREM DeliveriesEnd ==
  ServicesSpec => []NothingOutlivesShutdown
<1>1. MaxEvents \in Nat BY BoundsAssumption
<1>2. ServicesInv => NothingOutlivesShutdown
  BY <1>1, EmitterOutlives DEF ServicesInv, NothingOutlivesShutdown
<1>. QED BY <1>2, ServicesInvariant, PTL

(* A delivery only moves on, from submitted to started to done, or to        *)
(* refused or cancelled: no emission, shutdown or failure brings one back.   *)
THEOREM DeliveriesMoveOn ==
  ServicesSpec => [][EmitterAllMoveOn]_future
<1>1. ServicesInv /\ [ServicesNext]_<<vars, spans, events, errors, control>>
        => [EmitterAllMoveOn]_future
  BY ServicesNextInv
<1>. QED BY <1>1, ServicesInvariant, PTL DEF ServicesSpec

(* Each error that the history lists has a live item in the heap, by which   *)
(* it is evicted, and is in its module's deque, however calls of record()    *)
(* overtake each other and whatever the two limits evict.                    *)
THEOREM ErrorsAreListedEverywhere ==
  ServicesSpec => []ListedEverywhere
<1>1. ServicesInv => ListedEverywhere BY RecorderListsAgree DEF ServicesInv, ListedEverywhere
<1>. QED BY <1>1, ServicesInvariant, PTL

(* No persisted override was rejected, whatever calls overlap and whenever   *)
(* the process restarts; and a key whose calls do not overlap is rid of a    *)
(* rejected value when the call is over.                                     *)
THEOREM RejectedValuesVanish ==
  ServicesSpec => []RejectedLeavesNoTrace
<1>1. ServicesInv => RejectedLeavesNoTrace
  BY DEF ServicesInv, ControlIInv, ControlDurable, ControlUndone, RejectedLeavesNoTrace,
         Control!RejectedLeavesNoTrace
<1>. QED BY <1>1, ServicesInvariant, PTL

(* Through overrides_path no change is lost: the durable overrides are what  *)
(* was last written for each name.                                           *)
THEOREM OverridesSurvive ==
  ServicesSpec => []NoLostOverride
<1>1. ServicesInv => NoLostOverride
  BY DEF ServicesInv, ControlIInv, ControlLocked, NoLostOverride, Control!NoLostOverride
<1>. QED BY <1>1, ServicesInvariant, PTL
=============================================================================

---------------------------- MODULE SystemControl ----------------------------
(***************************************************************************)
(* apcore.sys_modules: the modules update_config and toggle_feature, called *)
(* by several threads, the overrides they persist, and a restart that loads *)
(* them.  The config's own lock covers one get() or set(); the overrides    *)
(* are read, changed and written back either through a store, without a     *)
(* lock, or through overrides_path, under that path's lock.  Values are     *)
(* opaque; keys do not overlap; the audit log and the wording of events are *)
(* left out.                                                                *)
(***************************************************************************)
EXTENDS Naturals

CONSTANTS Callers,
          Keys,         \* config keys outside _RESTRICTED_KEYS
          Constrained,  \* those with an entry in _CONSTRAINTS
          Modules,      \* registered modules: override names toggle.<module>
          Values, Valid,
          FileConfig,   \* what the configuration file says
          None,
          MaxRestarts   \* bound

VARIABLES
  persistence,  \* "store" or "path": how the control modules were constructed
  config, disabled,
  overrides,    \* the durable overrides: names to values
  lock,         \* the holder of the path's lock
  call,         \* what each thread is doing in execute()
  saved,        \* the value last written for each name
  overlapped,   \* keys that two threads have been setting at the same time
  restarts

controlVars == <<persistence, config, disabled, overrides, lock, call, saved, overlapped, restarts>>

Idle == [at |-> "idle"]
NoOverrides == [n \in {} |-> None]

Init == /\ persistence \in {"store", "path"}
        /\ config = FileConfig /\ disabled = {} /\ overrides = NoOverrides
        /\ lock = None /\ call = [c \in Callers |-> Idle]
        /\ saved = NoOverrides /\ overlapped = {} /\ restarts = 0

IsAt(c, place) == call[c].at = place
Goto(c, place) == call' = [call EXCEPT ![c].at = place]
Return(c) == call' = [call EXCEPT ![c] = Idle]
Setting(k) == \E c \in Callers : call[c].at \in {"set", "check"} /\ call[c].name = k

-----------------------------------------------------------------------------
\* update_config: the old value is read ...
Update(c, k, v) ==
  /\ IsAt(c, "idle")
  /\ call' = [call EXCEPT ![c] = [at |-> "set", name |-> k, value |-> v, old |-> config[k]]]
  /\ overlapped' = IF Setting(k) THEN overlapped \cup {k} ELSE overlapped
  /\ UNCHANGED <<persistence, config, disabled, overrides, lock, saved, restarts>>

\* ... the new one is set ...
Set(c) ==
  /\ IsAt(c, "set") /\ Goto(c, "check")
  /\ config' = [config EXCEPT ![call[c].name] = call[c].value]
  /\ UNCHANGED <<persistence, disabled, overrides, lock, saved, overlapped, restarts>>

Accepted(k, v) == k \in Constrained => v \in Valid
CheckWithoutRollback(c) ==
  /\ IsAt(c, "check")
  /\ IF Accepted(call[c].name, call[c].value) THEN Goto(c, "emit") ELSE Return(c)
  /\ UNCHANGED <<persistence, config, disabled, overrides, lock, saved, overlapped, restarts>>

\* ... and only then checked: the old one comes back if it is rejected
Check(c) ==
  /\ IsAt(c, "check")
  /\ IF Accepted(call[c].name, call[c].value)
     THEN Goto(c, "emit") /\ UNCHANGED config
     ELSE /\ Return(c) /\ config' = [config EXCEPT ![call[c].name] = call[c].old]
  /\ UNCHANGED <<persistence, disabled, overrides, lock, saved, overlapped, restarts>>

\* toggle_feature
Toggle(c, m, enabled) ==
  /\ IsAt(c, "idle")
  /\ disabled' = IF enabled THEN disabled \ {m} ELSE disabled \cup {m}
  /\ call' = [call EXCEPT ![c] = [at |-> "emit", name |-> m, value |-> enabled]]
  /\ UNCHANGED <<persistence, config, overrides, lock, saved, overlapped, restarts>>

\* The event: an emitter that is shut down meanwhile raises out of execute()
Emit(c) == /\ IsAt(c, "emit")
           /\ Goto(c, "load") \/ Return(c)
           /\ UNCHANGED <<persistence, config, disabled, overrides, lock, saved, overlapped, restarts>>

-----------------------------------------------------------------------------
\* _persist_via_store(), _write_overrides(): read.  A file store that cannot
\* read its file reports no overrides; the locked path gives up instead.
Loaded(c, read) == call' = [call EXCEPT ![c] = [at |-> "save", name |-> @.name, value |-> @.value,
                                                read |-> read]]
LoadStore(c) ==
  /\ IsAt(c, "load") /\ persistence = "store"
  /\ Loaded(c, overrides) \/ Loaded(c, NoOverrides)
  /\ UNCHANGED <<persistence, config, disabled, overrides, lock, saved, overlapped, restarts>>
LoadPathUnlocked(c) ==
  /\ IsAt(c, "load") /\ persistence = "path" /\ Loaded(c, overrides)
  /\ UNCHANGED <<persistence, config, disabled, overrides, lock, saved, overlapped, restarts>>
LoadPath(c) ==
  /\ IsAt(c, "load") /\ persistence = "path" /\ lock = None
  /\ \/ Loaded(c, overrides) /\ lock' = c
     \/ Return(c) /\ UNCHANGED lock
  /\ UNCHANGED <<persistence, config, disabled, overrides, saved, overlapped, restarts>>

\* Change and write back: the file is replaced as a whole, or left alone if that fails.
Written(names, n, v) == [m \in DOMAIN names \cup {n} |-> IF m = n THEN v ELSE names[m]]

Save(c) ==
  /\ IsAt(c, "save") /\ Return(c) /\ lock' = IF lock = c THEN None ELSE lock
  /\ \/ /\ overrides' = Written(call[c].read, call[c].name, call[c].value)
        /\ saved' = Written(saved, call[c].name, call[c].value)
     \/ UNCHANGED <<overrides, saved>>
  /\ UNCHANGED <<persistence, config, disabled, overlapped, restarts>>

-----------------------------------------------------------------------------
\* Config.reload(): the file again, without the overrides
ReloadConfig ==
  /\ config # FileConfig /\ config' = FileConfig
  /\ UNCHANGED <<persistence, disabled, overrides, lock, call, saved, overlapped, restarts>>

\* The process dies at any point; register_sys_modules() then applies the
\* overrides it can read to the fresh config and the toggles, without checks
Restart ==
  /\ restarts < MaxRestarts /\ restarts' = restarts + 1
  /\ \E read \in {overrides, NoOverrides} :
       /\ config' = [k \in Keys |-> IF k \in DOMAIN read THEN read[k] ELSE FileConfig[k]]
       /\ disabled' = {m \in Modules \cap DOMAIN read : ~read[m]}
  /\ lock' = None /\ call' = [c \in Callers |-> Idle] /\ overlapped' = {}
  /\ UNCHANGED <<persistence, overrides, saved>>

Next == \/ \E c \in Callers :
             \/ \E k \in Keys, v \in Values : Update(c, k, v)
             \/ \E m \in Modules, enabled \in BOOLEAN : Toggle(c, m, enabled)
             \/ Set(c) \/ Check(c) \/ Emit(c) \/ LoadStore(c) \/ LoadPath(c) \/ Save(c)
        \/ ReloadConfig \/ Restart

Spec == Init /\ [][Next]_controlVars

-----------------------------------------------------------------------------
(* A rejected value leaves nothing behind: it is never persisted, so that a *)
(* restart, which does not check what it loads, cannot bring it back; and   *)
(* the config is rid of it when the call returns, unless two calls that set *)
(* the same key have overlapped.                                            *)
RejectedLeavesNoTrace ==
  /\ \A k \in Keys \cap DOMAIN overrides : Accepted(k, overrides[k])
  /\ \A k \in Keys \ overlapped : Setting(k) \/ Accepted(k, config[k])

(* Through overrides_path, concurrent changes of different keys and toggles *)
(* all survive, whichever reads and writes fail and whenever the process    *)
(* dies: the durable overrides are what was last written for each name.     *)
NoLostOverride == persistence = "path" => overrides = saved
=============================================================================

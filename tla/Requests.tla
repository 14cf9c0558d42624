------------------------------- MODULE Requests -------------------------------
(* What a request goes through: the ACL, which EXTENDS brings in, one call   *)
(* of the executor, the bridge by which synchronous callers reach it, the    *)
(* policy that its approval gate asks, and the configuration that others use *)
(* and reload meanwhile.  They share no state here (the pipeline hears what  *)
(* the ACL and the policy decide, of which ModuleCall knows the outcomes),   *)
(* so each moves by itself, in any interleaving with the others.             *)
EXTENDS AccessControl, Trees

CONSTANTS
  Order, RetryMW, MaxRetries, MaxRepeat, Modes, Strategies,   \* the call
  Threads, MaxLoops, MaxOps,                                  \* the bridge
  Unset, Documents, Named, MaxSets,                           \* the policy
  Characters, AskedPatterns, AskedTexts,  \* what rules are matched with, and against
  NotA, Absent, Directory, RulePlaces, KnownIds, CallViews, Handlers,   \* rule files
  Namespaces,                   \* what environment variables name keys of: [defaults, depth]
  Defaults, Surface, Required, PathTyped, Registrations, Disks, Texts, Environments, Additions,
  Settings, MaxNesting, Users, MaxUses                        \* the configuration

VARIABLES
  callMode, strategy, stillborn, at, pc, trace, unavailable, attempt, retries, gating, token,
  aclAsks, approved, fired, late, installed, todo, executed, queued, bodies, output, chunks, error,
  outcome,
  cached, loops, place, mine, worker, answer, overtaken, entered,
  demands, sets,
  asked,      \* the pattern that was last matched against a text, if any
  linted,     \* the policy that was last read from a file, if any
  sought,     \* the namespace whose keys were last looked for, if any
  disk, env, registered, tier, mode, data, declared, mounts, shared, reload, ops, mounted,
  overlapped

Call == INSTANCE ModuleCall WITH mode <- callMode, i <- at, policy <- gating
Sync == INSTANCE SyncBridge
  WITH status <- loops, pc <- place, outcome <- answer, ops <- entered
Governed == INSTANCE ExecutionPolicy WITH policy <- demands
Lint == INSTANCE RuleLint
Env == INSTANCE EnvKeys
Conf == INSTANCE Config WITH Threads <- Users, MaxOps <- MaxUses

(* What is called exists; and, whatever the constants, the slice of a preset *)
(* that runs after a stream consists of the steps that it selects.           *)
ASSUME RequestsAssumption == /\ Modes \subseteq {"call", "trace", "stream", "validate"}
                             /\ Strategies \subseteq DOMAIN Call!Presets
                             /\ MaxLoops \in Nat
ASSUME SliceAssumption ==
  \A s \in DOMAIN Call!Presets : Call!PostSteps(Call!Presets[s]) \in Seq(Call!PostStream)

(* The rules of a document are a list, and what they name as a pattern is a  *)
(* text.                                                                     *)
ASSUME DocumentsAssumption ==
  /\ Unset \notin BOOLEAN
  /\ \A document \in Documents : "rules" \in DOMAIN document =>
       LET list == document["rules"]
       IN /\ Len(list) \in Nat /\ DOMAIN list = 1..Len(list)
          /\ \A n \in DOMAIN list : "pattern" \in DOMAIN list[n] => Len(list[n]["pattern"]) \in Nat

(* Patterns and the ids they are matched against are texts.                  *)
ASSUME TextsAssumption == AskedPatterns \cup AskedTexts \subseteq Seq(Characters)

(* Where rules are looked for, they have lists of texts, or of what is no    *)
(* text, as patterns, and their conditions are nested so deep; no id has the *)
(* name of a sentinel or a wildcard in it, and handlers that answer do so.   *)
RawRules(document) ==
  IF document \in {NotA, Directory} THEN {}
  ELSE IF Lint!At(document, "rules", NotA) = NotA THEN {}
  ELSE {document["rules"][n] : n \in DOMAIN document["rules"]} \ {NotA}
ASSUME RulesAssumption ==
  \A spot \in RulePlaces : \A path \in DOMAIN spot.files :
    \A raw \in RawRules(spot.files[path]) :
      LET conditions == Lint!At(raw, "conditions", Absent) IN
      /\ \A field \in {"callers", "targets"} \cap DOMAIN raw :
           raw[field] # NotA => raw[field] \in Seq({NotA} \cup Seq(STRING))
      /\ conditions # Absent =>
           \A inner \in Lint!Levels(conditions)[MaxNesting] : Lint!Inside(inner) = {}
ASSUME IdsAssumption ==
  /\ KnownIds \subseteq Seq(STRING)
  /\ \A id \in KnownIds : id # Lint!External /\ \A n \in DOMAIN id : id[n] # Lint!Question
  /\ \A view \in CallViews, key \in Handlers : view.answers[key] \in {"satisfied", "unsatisfied"}

(* The namespaces asked about have defaults; names are texts, and not empty.  *)
ASSUME NamesAssumption ==
  \A space \in Namespaces :
    /\ space.defaults # Missing /\ space.depth \in Nat
    /\ \A key \in Env!KeysWithin(space.defaults, space.depth) :
         \A n \in DOMAIN key : key[n] \in Seq(STRING) /\ key[n] # <<>>

(* What is set is set under a list of names.                                 *)
ASSUME SettingsAssumption == MaxNesting \in Nat /\ \A s \in Settings : s[1] \in Seq(STRING)

calling == <<callMode, strategy, stillborn, at, pc, trace, unavailable, attempt, retries, gating,
             token, aclAsks, approved, fired, late, installed, todo, executed, queued, bodies,
             output, chunks, error, outcome>>
bridge == <<cached, loops, place, mine, worker, answer, overtaken, entered>>
governed == <<demands, sets, asked, linted, sought>>
configuration == <<disk, env, registered, tier, mode, data, declared, mounts, shared, reload, ops,
                   mounted, overlapped>>

RequestsInit == Init /\ Call!Init /\ Sync!Init /\ Governed!Init /\ asked = {} /\ linted = {}
                /\ sought = {} /\ Conf!Init

AccessMoves == Next /\ UNCHANGED <<calling, bridge, governed, configuration>>
CallMoves == Call!Next /\ UNCHANGED <<vars, bridge, governed, configuration>>
SyncMoves == Sync!Next /\ UNCHANGED <<vars, calling, governed, configuration>>
PolicyMoves ==
  Governed!Next /\ UNCHANGED <<vars, calling, bridge, asked, linted, sought, configuration>>
ConfMoves == Conf!Next /\ UNCHANGED <<vars, calling, bridge, governed>>
\* One match: they have nothing to do with each other, so no second follows it
Asks == /\ asked = {} /\ \E pattern \in AskedPatterns : asked' = {pattern}
        /\ UNCHANGED <<vars, calling, bridge, demands, sets, linted, sought, configuration>>
\* One file of rules
Reads == /\ linted = {}
         /\ \E spot \in RulePlaces :
              linted' = Lint!Discover(spot.root, spot.directory, spot.files)
         /\ UNCHANGED <<vars, calling, bridge, demands, sets, asked, sought, configuration>>
\* One namespace
Seeks == /\ sought = {} /\ \E space \in Namespaces : sought' = {space}
         /\ UNCHANGED <<vars, calling, bridge, demands, sets, asked, linted, configuration>>
RequestsNext ==
  AccessMoves \/ CallMoves \/ SyncMoves \/ PolicyMoves \/ ConfMoves \/ Asks \/ Reads \/ Seeks

RequestsSpec ==
  RequestsInit /\ [][RequestsNext]_<<vars, calling, bridge, governed, configuration>>

-----------------------------------------------------------------------------
(* A body, or a stream, starts behind every gate of its own attempt.        *)
GatesPrecedeBody == Call!GatesPrecedeBody

(* Attempts of one call never overlap, in the module or in what is streamed. *)
AttemptsDoNotMix == Call!AttemptsDoNotMix

(* A cancellation is neither recovered nor retried.                         *)
CancellationIsNotRecovered == Call!CancellationIsNotRecovered

(* A dry run has no effect, and skips what lacks what it requires.          *)
DryRunIsSound == Call!DryRunIsSound

(* An attempt that is cancelled before it begins reaches nobody.            *)
StillbornReachesNobody == Call!StillbornReachesNobody

(* A call that is not a stream ends.                                        *)
CallEnds == Call!CallEnds

(* A synchronous call fails for its loop only if another thread took it.    *)
FailsOnlyWhenOvertaken == Sync!FailsOnlyWhenOvertaken

(* No order of the rules waives an approval that one of them demands.       *)
DemandedApprovalStands == Governed!DemandedApprovalStands

(* What was mounted stays mounted across reloads and edits of the file.     *)
MountsAreKept == Conf!MountsAreKept

(* Matching finds every match there is, and no other.                       *)
MatchesAreExact ==
  \A pattern \in asked, text \in AskedTexts : Governed!MatchesAreExact(pattern, text)

(* Every key of a namespace can be set from the environment.                 *)
KeysCanBeSet == \A space \in sought : Env!KeysCanBeSet(space.defaults, space.depth)

(* A rule without a finding can be evaluated, one reported dead is dead.    *)
LintIsSound ==
  \A policy \in linted, view \in CallViews, handlers \in SUBSET Handlers :
    Lint!LintIsSound(policy, handlers, view, KnownIds)
=============================================================================

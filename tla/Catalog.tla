------------------------------- MODULE Catalog --------------------------------
(* What there is to call and what gates the calls of control modules: the    *)
(* registry under its threads, which EXTENDS brings in; discoveries and      *)
(* reloads, which see the registry as a table that is changed under its      *)
(* lock; a scan of extension trees and a batch whose load order is asked     *)
(* for, which stand for those inside of a discovery; and the strategies of   *)
(* the executors with the report on them.  The parts share no variables      *)
(* (discovery has its own, coarser picture of the registry, and which        *)
(* control modules are registered is all that the report asks), so each      *)
(* moves by itself, in any interleaving with the others.                     *)
EXTENDS Registry, Sequences

CONSTANTS
  ModuleIds, Ephemeral, Disks, Callers, MaxCalls,
  FileVersions,       \* versions that files declare and programs register
  Batches,            \* modules to order
  Known, KnownVersions,  \* what a batch is ordered against
  Trees, IdOf, MaxDepth,
  Executors, Shared, SysControl, OtherControl, Demanding, Acls, Handlers, Policies, Given,
  Presets, Prebuilt, Edits, Pipelines, Configs, MaxOps,
  Labels              \* what steps are named, their kinds and their fields: any strings

VARIABLES
  files, published, reserved, call, calls, removed, lost, overtaken, refused,
  toOrder,            \* the batch that resolve_dependencies() is given
  tree, following, walked, frames, realPaths, discoveries,
  steps, executor, registered, ops

Disc == INSTANCE Discovery
  WITH Ids <- ModuleIds, disk <- files, modules <- published, inFlight <- reserved, thread <- call
Scan == INSTANCE ExtensionScan
  WITH Disks <- Trees, disk <- tree, links <- following, root <- walked, stack <- frames,
       visited <- realPaths, found <- discoveries
Gov == INSTANCE Governance

-----------------------------------------------------------------------------
(* Ids sort as numbers do; None is not a module.                             *)
Published == [id : ModuleIds, by : Callers \cup {"boot"}, version : FileVersions,
              streamless : BOOLEAN]
ASSUME DiscoveryAssumption ==
  /\ ModuleIds \subseteq Nat /\ IsFiniteSet(ModuleIds) /\ None \notin Published
  /\ {<<1>>, <<2>>} \subseteq FileVersions
  /\ \A scan \in Disks :
       /\ scan \in Seq({scan[i] : i \in DOMAIN scan})
       /\ \A i \in DOMAIN scan : /\ scan[i].id \in ModuleIds /\ scan[i].streamless \in BOOLEAN
                                 /\ scan[i].meta.version \in FileVersions

(* A batch lists what a dictionary of classes holds: each id once.           *)
LegalBatch(batch) ==
  /\ Len(batch) \in Nat /\ DOMAIN batch = 1..Len(batch)
  /\ \A i \in 1..Len(batch) : batch[i].id \in Nat /\ IsFiniteSet(DOMAIN batch[i].deps)
  /\ \A i, j \in 1..Len(batch) : batch[i].id = batch[j].id => i = j
ASSUME BatchesAssumption == \A batch \in Batches : LegalBatch(batch)

(* A root is inside of itself, what a directory holds is inside of the roots *)
(* it is in, and what is a file under one name is no directory under others. *)
AllEntries(t) == UNION {t.entries[dir] : dir \in DOMAIN t.entries}
FileSystem(t) ==
  /\ Len(t.roots) \in Nat /\ DOMAIN t.roots = 1..Len(t.roots)
  /\ \A i \in DOMAIN t.roots :
       /\ t.roots[i].dir \in t.inside[i]
       /\ \A dir \in t.inside[i] \cap DOMAIN t.entries :
            \A e \in t.entries[dir] : ~e.link => e.to \in t.inside[i]
       /\ \A e \in AllEntries(t) : e.kind = "file" => e.to # t.roots[i].dir
  /\ \A d, e \in AllEntries(t) : d.to = e.to => d.kind = e.kind
ASSUME TreesAssumption == MaxDepth \in Nat /\ \A t \in Trees : FileSystem(t)

(* Providers are what the types of the constructor's arguments allow, and    *)
(* presets are the executor's.                                               *)
Providers == [acl : Acls \cup {None}, handler : Handlers \cup {None},
              policy : Policies \cup {None}]
ASSUME ProvidersAssumption ==
  /\ Given \subseteq Providers /\ Presets \subseteq DOMAIN Gov!Kept
  /\ Prebuilt \subseteq (DOMAIN Gov!Kept) \X Providers
  /\ \A config \in Configs : config.acl \in Acls \cup {None}

(* Edits are calls of the methods of a strategy, or entries of a file; a     *)
(* step comes with types as they are declared, and a gate without the fields *)
(* that its class refuses to hold.                                           *)
StepType == [name : Labels, kind : Labels, with : Providers, fields : SUBSET Labels]
LegalStep(step) ==
  step \in StepType /\ Gov!GateFieldViolations(step, step.fields) = {}
LegalEdit(edit) ==
  \/ edit.op = "remove"
  \/ edit.op = "configure" /\ edit.fields \subseteq Labels
  \/ edit.op \in {"insert_after", "insert_before", "replace"} /\ LegalStep(edit.step)
LegalPipeline(pipeline) ==
  Len(pipeline) \in Nat /\ \A n \in 1..Len(pipeline) : LegalEdit(pipeline[n])
ASSUME EditsAssumption ==
  /\ {Gov!Kinds[i] : i \in DOMAIN Gov!Kinds} \subseteq Labels
  /\ \A edit \in Edits : LegalEdit(edit)
  /\ \A pipeline \in Pipelines : LegalPipeline(pipeline)
  /\ \A config \in Configs : LegalPipeline(config.pipeline)

discovered == <<files, published, reserved, call, calls, removed, lost, overtaken, refused>>
scanned == <<tree, following, walked, frames, realPaths, discoveries>>
governing == <<steps, executor, registered, ops>>

CatalogInit == Init /\ Disc!Init /\ toOrder \in Batches /\ Scan!Init /\ Gov!Init
RegistryMoves == Next /\ UNCHANGED <<discovered, scanned, governing>>
DiscoveryMoves == Disc!Next /\ UNCHANGED <<vars, scanned, governing>>
ScanMoves == Scan!Next /\ UNCHANGED <<vars, discovered, governing>>
GovernanceMoves == Gov!Next /\ UNCHANGED <<vars, discovered, scanned>>
CatalogNext == /\ RegistryMoves \/ DiscoveryMoves \/ ScanMoves \/ GovernanceMoves
               /\ UNCHANGED toOrder
catalog == <<vars, discovered, toOrder, scanned, governing>>
CatalogSpec == CatalogInit /\ [][CatalogNext]_catalog

-----------------------------------------------------------------------------
(* A failed reload does not make a working module disappear (D-112).        *)
ReloadKeepsTheModule == Disc!ReloadKeepsTheModule

(* Overlapping discoveries, reloads and registrations replace nothing.      *)
NeverReplaced == [][~Disc!Replaces]_discovered

(* resolve_dependencies() orders what can be ordered, and reports cycles     *)
(* that are cycles.                                                          *)
LoadOrderIsSound == Disc!OrderIsSound(toOrder, Known, KnownVersions)

(* The scan finds each module once, whatever the links and the order.        *)
ScanIsSound == Scan!ScanIsSound

(* The report on the gates of the control modules is what the gates do.     *)
ReportIsSound == Gov!ReportIsSound
=============================================================================

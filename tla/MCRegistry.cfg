SPECIFICATION MCSpec
CONSTANTS
  a = a
  m1 = m1
  m2 = m2
  m3 = m3
  th1 = th1
  th2 = th2
  th3 = th3
  w = w
  Watcher = w
  None = None
  Ids <- MCIds
  Instances <- MCInstances
  Versions <- MCVersions
  Threads <- MCThreads
  Drainers <- MCDrainers
  ModuleIds <- MCModuleIds
  Ephemeral = {2}
  Disks <- MCDisks
  Callers = {"one", "two"}
  MaxCalls = 2
  FileVersions <- MCFileVersions
  Batches <- MCBatches
  Known <- MCKnown
  KnownVersions <- MCKnownVersions
  Trees <- MCTrees
  IdOf <- MCIdOf
  MaxDepth = 3
  Executors <- MCExecutors
  Shared = {"s"}
  SysControl = {"toggle"}
  OtherControl = {"other"}
  Demanding = {"toggle"}
  Acls = {"acl"}
  Handlers = {"handler"}
  Policies <- MCPolicies
  Given <- MCGiven
  Presets = {"standard", "internal"}
  Prebuilt <- MCPrebuilt
  Edits <- MCEdits
  Pipelines <- MCPipelines
  Configs <- MCConfigs
  Labels <- MCLabels
  MaxOps = 3
SYMMETRY Symm
INVARIANTS VisibleIsCurrent DrainsSettle UnloadedOnce LoadOrderIsSound ScanIsSound ReloadKeepsTheModule ReportIsSound
PROPERTIES NeverReplaced
CHECK_DEADLOCK FALSE

SPECIFICATION MCSpec
CONSTANTS
  ck = ck
  t1 = t1
  t2 = t2
  t3 = t3
  Missing = Missing
  NotA = NotA
  Absent = Absent
  Unset = Unset
  Directory = Directory
  Documents <- MCDocuments
  Named <- MCNamed
  MaxSets = 1
  Characters <- MCCharacters
  AskedPatterns <- MCAskedPatterns
  AskedTexts <- MCAskedTexts
  RulePlaces <- MCRulePlaces
  KnownIds <- MCKnownIds
  Namespaces <- MCNamespaces
  CallViews <- MCCallViews
  Handlers = {"k"}
  Defaults <- MCDefaults
  Surface <- MCDefaults
  Required <- MCRequired
  PathTyped <- MCPathTyped
  Registrations <- MCRegistrations
  Disks <- MCDisks
  Texts <- MCTexts
  Environments <- MCEnvironments
  Additions <- MCAdditions
  Settings <- MCSettings
  MaxNesting = 3
  Users <- MCUsers
  MaxUses = 3
  Pool <- MCPool
  Files <- MCFiles
  Keys <- MCKeys
  Calls <- MCCalls
  Checkers <- MCCheckers
  MaxRules = 3
  MaxChanges = 2
  BuiltIn <- MCBuiltIn
  NoCall = NoCall
  Order <- MCOrder
  RetryMW = "retry"
  MaxRetries = 1
  MaxRepeat = 2
  Modes <- MCModes
  Strategies <- MCStrategies
  Threads <- MCThreads
  MaxLoops = 3
  MaxOps = 3
INVARIANTS GatesPrecedeBody AttemptsDoNotMix CancellationIsNotRecovered StillbornReachesNobody DryRunIsSound FirstMatchWins FailClosed FailsOnlyWhenOvertaken LayersCompose MountsAreKept KeysCanBeSet MatchesAreExact LintIsSound DemandedApprovalStands RefsKeepMeaning StrictIsExact RedactionIsExact
PROPERTIES CallEnds
CHECK_DEADLOCK FALSE

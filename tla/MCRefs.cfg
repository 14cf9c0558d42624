SPECIFICATION MCSpec
CONSTANTS
  Missing = Missing
  MaxDepth = 4
  Files <- MCFiles
INVARIANTS RefsKeepMeaningAcrossFiles
CHECK_DEADLOCK FALSE

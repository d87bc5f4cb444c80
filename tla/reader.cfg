SPECIFICATION FairSpec
CONSTANTS
  Files = {"f"}
  Languages = {"en", "unnamed"}
  Ids = {"W1"}
  Bodies = {"x", "y"}
  NoHeader = NoHeader
  Absent = Absent
  Targets <- MCTargets
  Sizes <- MCSizes
  UnnamedLanguages = {"unnamed"}
INVARIANTS ReadsBeginning OkAccountsForAll MetaPrintsAllOrNothing SizesAccurate SizesOrdered
PROPERTY EveryReaderEnds
CHECK_DEADLOCK FALSE

SPECIFICATION Spec
CONSTANTS
  p = p  r = r
  Files = {p, r}
  Languages = {"en", "mn", "nan"}
  Ids = {"W1"}
  Bodies = {"x"}
  NoHeader = NoHeader
  Absent = Absent
  Roles = {"pages", "revisions"}
  Types <- MCTypes
  Commands <- MCCommands
  Contents <- MCContents
  Failures = {"open"}
  LanguageTable <- MCLanguageTable
  Names <- MCNames
  MaxRuns = 1
  MaxMessages = 2
INVARIANT OkMeansOneSet
CHECK_DEADLOCK FALSE

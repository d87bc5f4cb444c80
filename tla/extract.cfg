SPECIFICATION Spec
CONSTANTS
  p = p  r = r
  Files = {p, r}
  Languages = {"en", "mn", "nan"}
  Ids = {"W1"}
  Bodies = {"x"}
  NoHeader = NoHeader
  Absent = Absent
  Roles = {"pages", "revisions"}
  Types <- MCTypes
  Commands <- MCCommands
  Contents <- MCContents
  Failures = {"open", "write", "remove"}
  LanguageTable <- MCLanguageTable
  Names <- MCNames
  MaxRuns = 2
  MaxMessages = 2
INVARIANTS TypeOK NothingLost NeverMixed CountsTellAll OkPublishes NamesFound NoNameOfAnother
CHECK_DEADLOCK FALSE

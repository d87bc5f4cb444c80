SPECIFICATION Spec
CONSTANTS
  a = a  i = i  w = w
  Files = {a, i, w}
  Languages = {"en"}
  Ids = {"W1"}
  Bodies = {"x"}
  NoHeader = NoHeader
  Absent = Absent
  Roles = {"authors", "institutions", "works"}
  Types <- MCTypes
  Commands <- MCCommands
  Contents <- MCContents
  Failures = {"write", "remove"}
  MaxRuns = 2
  MaxMessages = 2
INVARIANTS NothingLost NeverMixed OkPublishes
CHECK_DEADLOCK FALSE
PROPERTY KeepsPromise

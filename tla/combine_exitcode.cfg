SPECIFICATION Spec
CONSTANTS
  a = a  b = b  o = o
  Files = {a, b, o}
  Languages = {"en", "de"}
  Ids = {"W1", "W2"}
  Bodies = {"x", "y"}
  NoHeader = NoHeader
  Absent = Absent
  Commands <- OneRun
  Contents <- AllContents
  Failures = {}
  MaxRuns = 1
INVARIANT MismatchIsInputError
CHECK_DEADLOCK FALSE

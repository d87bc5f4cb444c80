SPECIFICATION Spec
CONSTANTS
  a = a  b = b  o = o
  Files = {a, b, o}
  Languages = {"en", "de"}
  Ids = {"W1", "W2"}
  Bodies = {"x", "y"}
  NoHeader = NoHeader
  Absent = Absent
  Commands <- OneRun
  Contents <- AllContents
  Failures = {"open", "write", "remove"}
  MaxRuns = 1
INVARIANTS TypeOK OutputIsBeginning NoRepeatedIds AcceptedHeadersAgree OkLeavesInputsIntact RefusedRunLeavesEmptyOutput
CHECK_DEADLOCK FALSE

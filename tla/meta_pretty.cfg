SPECIFICATION Spec
CONSTANTS
  Files = {"f"}
  Languages = {"en", "unnamed"}
  Ids = {"W1"}
  Bodies = {"x", "y"}
  NoHeader = NoHeader
  Absent = Absent
  Targets <- MCTargets
  Sizes <- MCSizes
  UnnamedLanguages = {"unnamed"}
INVARIANT PrettyOnlyIfAsked
CHECK_DEADLOCK FALSE

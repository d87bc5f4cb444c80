SPECIFICATION FairSpec
CONSTANTS
  a = a  b = b  o = o
  Files = {a, b, o}
  Languages = {"en", "de"}
  Ids = {"W1", "W2"}
  Bodies = {"x", "y"}
  NoHeader = NoHeader
  Absent = Absent
  Commands <- Session
  Contents <- SessionContents
  Failures = {"write", "remove"}
  MaxRuns = 2
INVARIANT NoTempAfterReturn
PROPERTIES KeepsPromise EveryRunEnds SoundRequestsSucceed
CHECK_DEADLOCK FALSE

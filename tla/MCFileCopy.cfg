SPECIFICATION FairSpec
CONSTANTS
  Call = {"multi", "nothing", "single"}
  Copy = {"f1", "f2", "f3"}
  CallOf <- MCCallOf
  Single = {"single"}
  Temp = {"t1"}
  None = "nil"
INVARIANTS SuccessIsCopied
PROPERTIES CopyReturns

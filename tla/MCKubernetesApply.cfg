SPECIFICATION FairSpec
CONSTANTS
  File = {"f1", "f2"}
  Object <- MCObject
  Steps = 2
  None = "nil"
INVARIANTS AnswerIsTrue
PROPERTIES NamespacedNeverUpdated ApplyReturns

SPECIFICATION FairSpec
CONSTANTS
  MaxLines = 2
  Window = 1
INVARIANTS StreamsInOrder LossesExplained
PROPERTIES TerminalMessage NoLineLost
CHECK_DEADLOCK FALSE

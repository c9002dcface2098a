SPECIFICATION FairSpec
CONSTANTS
  Entry = {"e1", "e2", "e3"}
  Username <- MCUsername
  Limits = {0, 2}
  Retries = {2}
INVARIANTS ConcurrencyBounded OutcomeHonest
PROPERTIES BatchReturns
CHECK_DEADLOCK FALSE

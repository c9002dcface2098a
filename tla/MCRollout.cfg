SPECIFICATION RolloutFairSpec
CONSTANTS
  Interval = 2
  Timeouts = {1, 3}
  Horizon = 5
  Pods = 2
  Good = {"old", "other"}
INVARIANTS RolledOutMeansReady
PROPERTIES PollsEnd

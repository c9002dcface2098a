SPECIFICATION ManagerSpec
CONSTANTS
  Managed <- MCManaged
  ID = {1, 2}
  Observer = {"o"}
  Lists <- MCLists
  Process = {kk, kubelet}
  MaxTicks = 2
  MaxChurn = 1
SYMMETRY Names
INVARIANTS VerdictIsFair SettledStatusHeard
CHECK_DEADLOCK FALSE

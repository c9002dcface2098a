SPECIFICATION JobSpec
CONSTANTS
  Job = {"j1", "j2"}
  Cluster = {"c1", "c2"}
  Hosts <- MCHosts
  None = None
INVARIANTS RunsOwnConfiguration

SPECIFICATION ClusterSpec
CONSTANTS
  Nodes = {n1}
  TimeoutUnknown = 1
  TimeoutOffline = 2
  TimeoutDead = 3
  MaxCommands = 1
  MaxRegistrations = 1
  Calls = {"Start"}
  Clients = {TRUE}
  MaxInflight = 1
  MaxLate = 1
  MaxFaults = 0
PROPERTY StartHandlesCommands

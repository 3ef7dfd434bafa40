\* Placements end, so the system may stop.
SPECIFICATION Spec
CONSTANTS
  Nodes = {n1}
  TimeoutUnknown = 1
  TimeoutOffline = 2
  TimeoutDead = 3
  MaxCommands = 2
  MaxRegistrations = 2
  Calls = {"Start", "heartbeatLoop"}
  Clients = {TRUE, FALSE}
  MaxInflight = 1
  MaxLate = 1
  MaxFaults = 1
  MeshNodes = {"m1", "m2", "m3"}
  Word = 64
  BaseIP = 48
  SubnetSize = 8
  SubnetDiff = 1
  Pool = {"p1", "p2"}
  Facts <- MCFacts
  Requests <- MCRequests
  Scale = 60
INVARIANTS DeadOnce HandledInOrder SubnetsSound PlacedWell
PROPERTIES SilentDies CancelReturns Delivered ImplementsLeases
CHECK_DEADLOCK FALSE

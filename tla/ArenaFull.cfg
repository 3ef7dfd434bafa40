SPECIFICATION ArenaSpec
CONSTANTS
  Matches = {"m1"}
  Players = {"u1", "u2", "u3"}
  Terminals = {"t1", "t2"}
  AgentCounts = {3}
  ScenarioMax = 4
  MaxArenaCrashes = 0
INVARIANT AutoStartWhenFull

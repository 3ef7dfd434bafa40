SPECIFICATION AdminSpec
CONSTANTS
  People = {"p1", "p2"}
  MagicTokens = {"t1"}
  Browsers = {"b1"}
  MagicTTL = 1
  SessionTTL = 2
  MaxTime = 2
INVARIANT OnlyPrivilegedAccess

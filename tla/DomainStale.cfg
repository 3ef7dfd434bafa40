SPECIFICATION CaddySpec
CONSTANTS
  Sites = {"s1"}
  Owners = {"u1"}
  SiteNames = {"a"}
  IPs = {"i1"}
  Domains = {"d"}
  Tokens = {"k1", "k2"}
  Shells = {"x1"}
  Verifiers = {"c1", "c2"}
  MaxCaddyFaults = 0
  MaxReloads = 0
INVARIANT OwnershipVerified
CHECK_DEADLOCK FALSE

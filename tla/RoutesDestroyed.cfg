SPECIFICATION CaddySpec
CONSTANTS
  Sites = {"s1"}
  Owners = {"u1"}
  SiteNames = {"a"}
  IPs = {"i1"}
  Domains = {"d"}
  Tokens = {"k1"}
  Shells = {"x1"}
  Verifiers = {"c1"}
  MaxCaddyFaults = 0
  MaxReloads = 0
INVARIANT DestroyedIsUnrouted
CHECK_DEADLOCK FALSE

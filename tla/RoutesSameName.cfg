SPECIFICATION CaddySpec
CONSTANTS
  Sites = {"s1", "s2"}
  Owners = {"u1", "u2"}
  SiteNames = {"a"}
  IPs = {"i1", "i2"}
  Domains = {}
  Tokens = {}
  Shells = {"x1"}
  Verifiers = {}
  MaxCaddyFaults = 0
  MaxReloads = 0
INVARIANT EachVMHasItsSubdomain
CHECK_DEADLOCK FALSE

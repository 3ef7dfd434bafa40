\* Every VM may have been deleted.
SPECIFICATION RoutesSpec
CONSTANTS
  Sites = {s1, s2}
  Owners = {u1, u2}
  SiteNames = {a, b}
  IPs = {i1, i2}
  Domains = {d}
  Tokens = {k1, k2}
  Shells = {x1, x2}
  Verifiers = {c1, c2}
  MaxCaddyFaults = 1
  MaxReloads = 1
  MaxRoutes = 3
  MaxTroubles = 1
SYMMETRY Alike
INVARIANTS RoutesFollowVMs DomainsProven
CHECK_DEADLOCK FALSE

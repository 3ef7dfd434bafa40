SPECIFICATION Spec
CONSTANTS
  Sessions = {"c1"}
  VMs = {1, 2}
  Faults = {}
INVARIANT GuestKeepsRules

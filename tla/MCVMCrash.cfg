SPECIFICATION Spec
CONSTANTS
    s1 = s1
    s2 = s2
    Sessions <- TwoSessions
    VMs = {1}
    MaxIP = 3
    Faults = {"boot", "tap", "tapdel", "exit", "caddy"}
    Commands = {"new", "start", "stop", "restart"}
    VMLimit = 2
    MaxCrashes = 2
SYMMETRY SessionSymmetry
INVARIANTS OneMachinePerVM TapOwnership
PROPERTY ImplementsPower

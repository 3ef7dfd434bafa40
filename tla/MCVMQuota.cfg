SPECIFICATION Spec
CONSTANTS
    s1 = s1
    s2 = s2
    Sessions <- TwoSessions
    VMs = {1, 2}
    MaxIP = 4
    Faults = {}
    Commands = {"new"}
    VMLimit = 1
    MaxCrashes = 0
INVARIANT WithinQuota

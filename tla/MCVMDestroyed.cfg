SPECIFICATION Spec
CONSTANTS
    s1 = s1
    s2 = s2
    Sessions <- TwoSessions
    VMs = {1}
    MaxIP = 4
    Faults = {}
    Commands = {"new", "stop", "start", "rm"}
    VMLimit = 2
    MaxCrashes = 0
INVARIANT DestroyedIsClean

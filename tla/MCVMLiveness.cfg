SPECIFICATION FairSpec
CONSTANTS
    s1 = s1
    s2 = s2
    Sessions <- TwoSessions
    VMs = {1}
    MaxIP = 2
    Faults = {"boot", "expire"}
    Commands = {"new", "stop", "start", "shutdown"}
    VMLimit = 2
    MaxCrashes = 0
PROPERTIES CommandsReturn CreatingSettles ShutdownReturns

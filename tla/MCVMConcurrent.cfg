SPECIFICATION Spec
CONSTANTS
    s1 = s1
    s2 = s2
    Sessions <- TwoSessions
    VMs = {1, 2}
    MaxIP = 3
    Faults = {"boot"}
    Commands = {"new", "start", "stop", "restart", "rm"}
    VMLimit = 2
    MaxCrashes = 0
SYMMETRY SessionSymmetry
INVARIANTS TrackedIsUp QuiescentResources RunningRowBacked MetadataOwn
    UniqueGuestIP AddressOwnership
PROPERTY DeletedForGood

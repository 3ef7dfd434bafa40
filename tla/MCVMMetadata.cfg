SPECIFICATION Spec
CONSTANTS
    s1 = s1
    s2 = s2
    Sessions <- OneSession
    VMs = {1, 2}
    MaxIP = 4
    Faults = {}
    Commands = {"new"}
    VMLimit = 2
    MaxCrashes = 1
INVARIANT MetadataOwn

SPECIFICATION Spec
CONSTANTS
    s1 = s1
    s2 = s2
    Sessions <- OneSession
    VMs = {1, 2, 3}
    MaxIP = 4
    Faults = {"image", "seed", "disk", "bridge", "tap", "nft", "boot"}
    Commands = {"new", "start", "stop", "restart", "cp", "rm"}
    VMLimit = 2
    MaxCrashes = 0
INVARIANTS TypeOK PartsAgree WithinQuota SeedOffline

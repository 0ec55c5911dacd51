SPECIFICATION FairSpec
CONSTANTS
    r1 = r1  r2 = r2  h1 = h1  h2 = h2
    Runs = {r1, r2}
    Hosts = {h1, h2}
    HostOf <- TwoRuns
    MaxConcurrent = 1
    Timeouts = {1, 2}
    LeaseSlack = 4
    ReapMargin = 2
    SlotTimeout = 2
    MaxPrepare = 1
    MaxStart = 1
    MaxCleanup = 1
    AgeCap = 7
    Faults = {"crash", "kill", "remove", "redis"}
    Unreadable = {r2}
INVARIANTS
    RunningWithinCapacity
    LiveSandboxKept
PROPERTIES
    EverySandboxRemoved
CHECK_DEADLOCK FALSE

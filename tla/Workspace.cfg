SPECIFICATION FairSpec
CONSTANTS
    t1 = t1  t2 = t2  h1 = h1  h2 = h2
    Tasks = {t1, t2}
    Hosts = {h1, h2}
    HostOf <- TwoHosts
    SoftLimit <- ScanAndEnrichment
    KillDelay = 1
    ScanTimeout = 3
    StaleMargin = 2
    AgeCap = 8
INVARIANTS
    ScanWorkspaceKept
PROPERTIES
    StaleWorkspaceRemoved

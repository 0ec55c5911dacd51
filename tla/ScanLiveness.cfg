CONSTANTS
 Workers = {w1}
 ScanTimeout = 1
 LLMTimeout = 1
 KillDelay = 1
 Grace = 1
 MaxQueued = 3
 VisibilitySlack = 1
 AgeCap = 4
 MaxRetries = 1
 MaxLosses = 1
 Faults = {"pre_claim", "post_store"}
SPECIFICATION FairSpec
INVARIANT ReadableMeansStored
 

CONSTANTS
 Workers = {w1, w2}
 ScanTimeout = 1
 LLMTimeout = 2
 KillDelay = 1
 Grace = 1
 MaxQueued = 4
 VisibilitySlack = 2
 AgeCap = 5
 MaxRetries = 2
 MaxLosses = 1
 Faults = {"pre_claim"}
SPECIFICATION Spec
SYMMETRY Symmetry
INVARIANT OneAnalysisAtATime

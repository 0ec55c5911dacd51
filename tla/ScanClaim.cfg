CONSTANTS
 Workers = {w1, w2}
 ScanTimeout = 1
 LLMTimeout = 2
 KillDelay = 1
 Grace = 1
 MaxQueued = 4
 VisibilitySlack = 0
 AgeCap = 5
 MaxRetries = 1
 MaxLosses = 1
 Faults = {}
SPECIFICATION Spec
SYMMETRY Symmetry
INVARIANTS
 OneAnalysisAtATime
 AnalysisHoldsClaim
 
 VerdictMatchesAnalysis
 EnrichableCanBeReaped
 DuplicatesNeedLosses
PROPERTY LeaseSpec

SPECIFICATION Spec
CONSTANTS
    Requests = {r1, r2, r3}
    States = {s1, s2, s3}
    MaxTokens = 3
CHECK_DEADLOCK FALSE
INVARIANTS
    StoredPairIsUsable
    StateIsSingleUse

    
SYMMETRY Symmetry

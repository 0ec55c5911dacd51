CONSTANTS
 Regenerations = {r1, r2}
 MaxLosses = 1
SPECIFICATION FairSpec
INVARIANTS  RegenerationsExclude VerdictIsOfThePatch
 
CHECK_DEADLOCK FALSE

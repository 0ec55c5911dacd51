CONSTANTS
 Regenerations = {r1, r2}
 MaxLosses = 0
SPECIFICATION Spec
INVARIANT NeverPresentedAsWorking
CHECK_DEADLOCK FALSE

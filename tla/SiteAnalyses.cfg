CONSTANTS
 Rows = {1, 2, 3}
 Earlier = {1}
 Users = {u1}
 Anonymous = anon
 InFlightWindow = 1
 CacheTTL = 1
 HardLimit = 1
 Grace = 0
 QueueLimit = 1
 AgeCap = 2
 MaxLosses = 1
SPECIFICATION FairSpec
INVARIANT AnalyzedOnce DuplicatesOverlap
PROPERTY EventuallySettled ReuseIsFreshAndVisible
CHECK_DEADLOCK FALSE

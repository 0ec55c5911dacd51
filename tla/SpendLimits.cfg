SPECIFICATION FairSpec
CONSTANTS
    a1 = a1
    a2 = a2
    b1 = b1
    NoOne = NoOne
    Callers = {a1, a2, b1}
    Subjects <- MCSubjects
    Users <- MCUsers
    SubjectOf <- MCSubjectOf
    OwnerOf <- MCOwnerOf
    Budget <- MCBudget
    Quota <- MCQuota
    Cap = 4
    AlertAt = 3
    Inputs = {1}
    MaxOutput = 1
    InPrice = 1
    OutPrice = 2
    Pricing = "priced"
    MaxCalls = 2
    MaxDay = 1
    MaxKills = 1
CHECK_DEADLOCK FALSE
INVARIANTS
    SpendWithinCap
    TokensWithinLimits
PROPERTIES
    ReservationIsDecided
    CapReachedIsAlerted

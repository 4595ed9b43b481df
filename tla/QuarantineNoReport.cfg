SPECIFICATION Spec
CONSTANTS
    p1 = p1
    p2 = p2
    p3 = p3
    h1 = h1
    h2 = h2
    t1 = t1
    t2 = t2
    CI = CI
    PR <- ThreePRs
    Hotfix <- NoHotfix
    Test <- OneTest
    FailsOn <- NoneFails
    RacesOn <- NoneRaces
    Reps = 3
    NObs = 3
    Budget = 1
    NBarrier = 1
    MayBePending = TRUE
INVARIANT LandedWasTested
CHECK_DEADLOCK FALSE

SPECIFICATION Spec
CONSTANTS
    p1 = p1
    p2 = p2
    p3 = p3
    h1 = h1
    h2 = h2
    t1 = t1
    t2 = t2
    CI = CI
    PR <- ThreePRs
    Hotfix <- TwoHotfixes
    Test <- TwoTests
    FailsOn <- Breaks
    RacesOn <- Races
    Reps = 2
    NObs = 3
    Budget = 2
    NBarrier = 1
    MayBePending = FALSE
INVARIANT FailureSeenWithoutIt
INVARIANT BrokenNeverLands
INVARIANT BlameJustified
CHECK_DEADLOCK FALSE

SPECIFICATION FairBehaviour
CONSTANTS
    p1 = p1
    p2 = p2
    p3 = p3
    p4 = p4
    h1 = h1
    l1 = l1
    l2 = l2
    r1 = r1
    r2 = r2
    NoPR = NoPR
    NoLane = NoLane
    PR <- FourPRs
    Lane <- OneLane
    Runner <- OneRunner
    LaneOf <- SingleRunner
    Hotfix <- NoHotfix
    Red <- PairRed
    Conflicts <- OneConflict
    ForceSoloK = 3
    Budget = 2
    NBarrier = 1
    Flaky = TRUE
    GuardMayFail = TRUE
    RecoverFirst = TRUE
    MaxFormed = 5
    MaxFaults = 1
INVARIANT LandHasWitness
INVARIANT LandedOnce
INVARIANT BlastRadius
INVARIANT EjectionsJustified
INVARIANT RejectedStayOff
INVARIANT NoOvertaking
PROPERTY EveryPRSettles

SPECIFICATION Behaviour
CONSTANTS
    p1 = p1
    p2 = p2
    p3 = p3
    p4 = p4
    h1 = h1
    l1 = l1
    l2 = l2
    r1 = r1
    r2 = r2
    NoPR = NoPR
    NoLane = NoLane
    PR <- TwoPRs
    Lane <- TwoLanes
    Runner <- TwoRunners
    LaneOf <- RunnerPerLane
    Hotfix <- OneHotfix
    Red <- PairRed
    Conflicts <- NoConflicts
    ForceSoloK = 3
    Budget = 2
    NBarrier = 2
    Flaky = FALSE
    GuardMayFail = FALSE
    RecoverFirst = TRUE
    MaxFormed = 2
    MaxFaults = 1
SYMMETRY LanesAlike
INVARIANT LostOnlyIfOvertaken
INVARIANT EveryTipGreen
INVARIANT RecordedIsOnTrunk

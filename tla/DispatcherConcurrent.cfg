SPECIFICATION Spec
CONSTANTS
    p1 = p1
    p2 = p2
    p3 = p3
    j1 = j1
    j2 = j2
    fa = fa
    fb = fb
    fc = fc
    fd = fd
    lock = lock
    readme = readme
    NoPR = NoPR
    Global = Global
    NoLane = NoLane
    PR <- ThreePRs
    Job <- TwoJobs
    Path <- Files
    GlobalPath <- Shared
    Rule <- FileRules
    Scope <- FiveScopes
    Root = 0
    Diffs <- SomeDiffs
    MaxRoutes = 4
SYMMETRY Alike
INVARIANT SameFileSameLane
INVARIANT StrandedResolves
CHECK_DEADLOCK FALSE

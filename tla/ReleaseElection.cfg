SPECIFICATION FairSpec
CONSTANTS
    a = a
    b = b
    c = c
    Nobody = Nobody
    NPkg = 2
    Releaser <- ThreeTokens
    Issue <- OneIssue
    MaxFaults = 2
INVARIANT JournalAgreesWithTag
INVARIANT ClosedMeansCommented
INVARIANT LeftOpenForCause
INVARIANT OnlyWinnerPublishes
PROPERTY ImplementsRelease
PROPERTY CompletesUnlessOrphaned
CHECK_DEADLOCK FALSE

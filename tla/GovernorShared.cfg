SPECIFICATION OrderSpec
CONSTANTS
    reconciler = reconciler
    Reconciler <- reconciler
    Holder <- ThreeHolders
    Budget = 2
    TTL = 4
    MaxCI = 2
    AcquireMax = 1
    MaxTokens = 2
    MaxCrashes = 1
INVARIANT BudgetUnlessOutOfOrder
INVARIANT HolderNeverReaped
PROPERTY OrphansReclaimed
PROPERTY SomebodyWorks

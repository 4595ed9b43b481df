SPECIFICATION Spec
CONSTANTS
    w1 = w1
    w2 = w2
    Writer <- TwoWriters
    MaxAppends = 2
    MaxRetries = 2
    Event <- DistinctEvents
    EventOf <- Distinct
    LossyAcks = TRUE
    FlakyFetch = TRUE
INVARIANT AckedStaysLogged
PROPERTY ImplementsEventLog
CHECK_DEADLOCK FALSE

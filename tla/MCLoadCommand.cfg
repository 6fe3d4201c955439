SPECIFICATION FairCommandSpec
CONSTANTS
    a1 = a1
    a2 = a2
    None = None
    Actors <- MCActors
    InFlight = 1
    Count = 2
    Paced = FALSE
    Budget = None
    ReportsClosed = TRUE
    Horizon = 0
    MaxFaults = 1
INVARIANTS
    CommandTypeOK
    BudgetUsed
    FinalLast
    SamplesAddUp
    ExitTruthful
PROPERTIES
    CommandEnds
\* when the command has exited nothing is left to do
CHECK_DEADLOCK FALSE

SPECIFICATION FairSpec
CONSTANTS
    a1 = a1
    a2 = a2
    None = None
    Actors <- MCActors
    InFlight = 2
    Count = 3
    Paced = FALSE
    Budget = None
    ReportsClosed = FALSE
    Horizon = 0
INVARIANTS
    ClosedStopsFeeding
\* when the run has returned nothing is left to do
CHECK_DEADLOCK FALSE

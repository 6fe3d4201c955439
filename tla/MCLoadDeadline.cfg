SPECIFICATION FairSpec
CONSTANTS
    a1 = a1
    a2 = a2
    None = None
    Actors <- MCActors
    InFlight = 1
    Count = None
    Paced = TRUE
    Budget = 3
    ReportsClosed = TRUE
    Horizon = 3
PROPERTIES
    StopsAtDeadline
\* when the run has returned nothing is left to do
CHECK_DEADLOCK FALSE

SPECIFICATION FairDohSpec
CONSTANTS
    q1 = q1
    q2 = q2
    q3 = q3
    Exchanges <- MCExchanges
    TooLong <- MCTooLong
    Window = 2
    MaxStreams = 1
    BodyLimit = 1
INVARIANTS
    PreambleFirst
PROPERTIES
    DohConnSpec
    DohExchangesEnd
\* the exchanges are finitely many: when all are done nothing is left to do
CHECK_DEADLOCK FALSE

SPECIFICATION FairSpec
CONSTANTS
    q1 = q1
    q2 = q2
    q3 = q3
    a = a
    b = b
    NoSlot = NoSlot
    Exchanges <- MCExchanges
    Questions <- MCQuestions
    QuestionOf <- MCQuestionOf
    IdSpace = 2
    Window = 2
INVARIANTS
    TypeOK
    SlotOwnership
    NotifyExclusive
    NoLostWakeup
    DeliveredOwnReply
    PoolBounded
PROPERTIES
    ReplyNeverDiscarded
    ExchangesEnd
    ConnSpec
\* the exchanges are finitely many: when all are done nothing is left to do
CHECK_DEADLOCK FALSE

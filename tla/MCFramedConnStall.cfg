SPECIFICATION FramedSpec
CONSTANTS
    q1 = q1
    q2 = q2
    q3 = q3
    a = a
    NoSlot = NoSlot
    Exchanges <- MCExchanges
    Questions <- MCQuestions
    QuestionOf <- MCQuestionOf
    IdSpace = 3
    Window = 1
    Capacity = 1
PROPERTIES
    PerQueryTimeout
\* the exchanges are finitely many: when all are done nothing is left to do
CHECK_DEADLOCK FALSE

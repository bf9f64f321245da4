CONSTANTS
    MaxRequestId = 2
    MaxTasks = 2
    MaxCalls = 3
    MaxChosen = 1
    MaxAttaches = 1
    MaxGiveUps = 1
    MaxLosses = 1
SPECIFICATION Spec
CHECK_DEADLOCK FALSE
INVARIANTS
    TypeOK
    OwnAnswerUnlessShared
    ServedOnceInOrder
    ResponseIsExpected
    TableHoldsUnanswered
PROPERTIES
    Answered

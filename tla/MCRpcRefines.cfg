CONSTANTS
    MaxRequestId = 3
    MaxTasks = 1
    MaxCalls = 3
    MaxChosen = 0
    MaxAttaches = 1
    MaxGiveUps = 1
    MaxLosses = 2
SPECIFICATION Spec
CHECK_DEADLOCK FALSE
PROPERTIES
    ImplementsService

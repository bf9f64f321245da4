CONSTANTS
    MaxTasks = 2
    StreamHandler = TRUE
    Unbound = {}
    Failing = {"fails"}
    Huge = {"huge"}
    Offers <- MCOffers
    MaxArrivals = 3
    MaxDetaches = 1
SPECIFICATION Spec
INVARIANTS
    TypeOK
    HeldOrAnsweredOnce
    AnsweredInOrder
PROPERTIES
    RequestsAnswered

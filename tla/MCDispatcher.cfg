SPECIFICATION DispatcherSpec
CONSTANTS
    Calls = {c1, c2, c3}
    Subjects = {assigned, escalation}
    MaxAttempts = 3
INVARIANTS
    LogExact
    VerdictHonest
    SubjectOrder
PROPERTIES
    ImplementsDelivery
    EveryMessageLogged
CHECK_DEADLOCK FALSE

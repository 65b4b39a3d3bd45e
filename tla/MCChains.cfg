SPECIFICATION ChainSpec
CONSTANTS
    ScheduleIds = {s1, s2}
    Intervals = {1, 2}
    MaxDate = 2
    MaxTime = 1
    MaxTriggers = 5
    MaxFailures = 1
    Never = Never
INVARIANTS
    ApprovalsSpaced
    AnsweredDates
    OrphansAccounted
PROPERTY
    DueTriggered
CHECK_DEADLOCK FALSE

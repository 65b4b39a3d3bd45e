SPECIFICATION Spec
CONSTANTS
    ScheduleIds = {s1, s2}
    Intervals = {1, 2, 10}
    MaxDate = 9
    MaxTime = 3
    MaxTriggers = 5
    Never = Never
INVARIANTS
    TriggersSpaced
    DatesHonest
PROPERTY
    DueTriggered
CHECK_DEADLOCK FALSE

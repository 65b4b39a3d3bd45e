SPECIFICATION Spec
CONSTANTS
    WorkOrderIds = {w1, w2}
    TaskIds = {t1, t2}
    BookingIds = {b1, b2}
    TicketIds = {k1}
    Calls = {c1}
    Slots <- SlotsAskedFor
    Absent = Absent
    Unknown = Unknown
SYMMETRY Symmetry
INVARIANTS
    TaskListsAgree
    CompletedHonest
    TimesMatchStatus
    NoDoubleBooking
PROPERTY
    CompletedFrozen
CHECK_DEADLOCK FALSE

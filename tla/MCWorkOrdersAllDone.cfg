SPECIFICATION Spec
CONSTANTS
    WorkOrderIds = {w1, w2}
    TaskIds = {t1, t2}
    BookingIds = {}
    TicketIds = {k1}
    Calls = {}
    Slots = {}
    Absent = Absent
    Unknown = Unknown
INVARIANT
    AllTasksDoneCompletes

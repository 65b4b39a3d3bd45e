SPECIFICATION Spec
CONSTANTS
    TicketIds = {k1}
    EstimateIds = {e1}
    PaymentIds = {p1}
    WorkOrderIds = {w1, w2, w3}
    TaskIds = {t1}
    BookingIds = {}
    Calls = {c1, c2, c3}
    Slots = {}
    Absent = Absent
    Unknown = Unknown
    Misrouted = Misrouted
    ClientIds = {w3, c3}
    MaxApprovals = 2
    MaxFaults = 2
INVARIANTS
    ApprovalsAccounted
    PaymentsFor
    WoManagerConsistent
PROPERTY
    ImplementsAtMostOnce
CHECK_DEADLOCK FALSE

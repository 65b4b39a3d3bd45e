SPECIFICATION Spec
CONSTANTS
    TicketIds = {k1}
    EstimateIds = {e1, e2}
    PaymentIds = {p1}
    WorkOrderIds = {w1, w2}
    TaskIds = {t1}
    BookingIds = {}
    Calls = {c1, c2, c3}
    Slots = {}
    Absent = Absent
    Unknown = Unknown
SYMMETRY Symmetry
INVARIANTS
    WorkForEveryApproval
    NoticesTrue

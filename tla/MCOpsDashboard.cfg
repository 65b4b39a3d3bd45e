SPECIFICATION FlowsSpec
CONSTANTS
    IssueIds = {i1}
    TicketIds = {k1}
    WorkOrderIds = {w1}
    PaymentIds = {p1, p2}
    Queries = {q1}
    None = None
SYMMETRY Symmetry
INVARIANTS
    NoFalseAlarm
    NoAlarmMissed
    EveryIssueShown

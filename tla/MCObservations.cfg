SPECIFICATION Spec
CONSTANTS
    ReportIds = {r1, r2}
    EventIds = {e1}
    IssueIds = {i1, i2}
    ClientIssueIds = {i2}
    MaxCollected = 2
    MaxEvaluations = 1
    MaxFaults = 2
    Absent = Absent
INVARIANTS
    EscalatedAtMostOnce
    NoReportDropped
PROPERTIES
    NoReportForgotten
    ImplementsAtMostOnce

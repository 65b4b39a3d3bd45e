SPECIFICATION Spec
CONSTANTS
    ReportIds = {r1, r2}
    EventIds = {e1}
    IssueIds = {i1, i2}
    Absent = Absent
    Unknown = Unknown
INVARIANTS
    EscalatedAtMostOnce
    OneIssuePerReport
    ReviewAfterEvaluation
    SnapshotSound
PROPERTY
    NoReportForgotten

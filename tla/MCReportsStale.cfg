SPECIFICATION Spec
CONSTANTS
    ReportIds = {r1, r2}
    EventIds = {}
    IssueIds = {i1}
    Absent = Absent
    Unknown = Unknown
PROPERTY
    EscalatedOnlyWhilePending
